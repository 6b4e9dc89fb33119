------------------------- MODULE TokenRefreshProofs -------------------------
(***************************************************************************)
(* Proofs about TokenRefresh, for every number of logins, processes,       *)
(* requests, expirations and rate-limit retries.                           *)
(*                                                                         *)
(* None of the safety properties is inductive.  IInv adds what they rest   *)
(* on: what a process in each phase holds, which logins nobody has touched *)
(* yet, where file and server generations can differ, and what a request   *)
(* at each point of Refresh knows of the file because it holds the lock.   *)
(***************************************************************************)
EXTENDS TokenRefresh, TLAPS

Assumptions == NoLoginAssumption /\ ProcOfAssumption /\ NoHolderAssumption /\ BoundsAssumption

\* Nothing has happened to a login that was never written to the file.
Untouched(u) ==
    gen[u] = 0 /\ u \notin lost /\ u \notin inflight /\ file.uid # u

LockInv == \A r \in Request : lock = r <=> req[r].pc \in {"rotate", "rotated"}

NewInv == \A u \in Login : status[u] = "new" => Untouched(u)

\* s is a generation that the server issued and, for the file's login, saved.
Known(s) ==
    /\ status[s.uid] # "new"
    /\ s.gen <= gen[s.uid]
    /\ s.uid = file.uid => s.gen <= file.gen

\* A process that can make requests holds a login, with tokens that are known.
HoldsInv(p) ==
    /\ proc[p] = "down" \/ ~Valid(cached[p]) => cached[p] = NoSession
    /\ proc[p] \in {"up", "authed", "login", "revoke", "revoking"} => Valid(cached[p])
    /\ Valid(cached[p]) => Known(cached[p])

\* Until it is saved, a new login is its process's alone.
AuthedInv(p) == proc[p] = "authed" =>
    /\ cached[p] = [uid |-> cached[p].uid, gen |-> 0, key |-> NoLogin]
    /\ Untouched(cached[p].uid)
    /\ \A q \in Proc : cached[q].uid = cached[p].uid => q = p

ProcInv == \A p \in Proc : HoldsInv(p) /\ AuthedInv(p)

FileInv ==
    /\ ~Valid(file) => file = NoSession
    /\ Valid(file) => status[file.uid] # "new"
    /\ Valid(file) =>
          \/ gen[file.uid] = file.gen /\ file.uid \notin lost
          \/ /\ gen[file.uid] = file.gen + 1 /\ file.uid \notin inflight
             /\ \/ file.uid \in lost
                \/ \E r \in Request : req[r].pc = "rotated" /\ lock = r

InflightInv == \A u \in inflight : status[u] = "live" => expired[u]

\* A request at work sends its process's login, with tokens that are known.
BusyInv(r) == req[r].pc # "idle" =>
    /\ proc[ProcOf[r]] \in {"up", "login", "revoking"}
    /\ req[r].tok.uid = cached[ProcOf[r]].uid
    /\ Known(req[r].tok)

AdoptInv(r) == req[r].pc = "adopt" =>
    req[r].sess.uid = req[r].tok.uid /\ Known(req[r].sess)

\* The lock's holder: the file is what it loaded, ...
RotateInv(r) == req[r].pc = "rotate" =>
    req[r].sess = file /\ file.uid = req[r].tok.uid /\ file.gen = req[r].tok.gen

\* ... and after the rotation the server is one generation ahead of it.
RotatedInv(r) == req[r].pc = "rotated" =>
    /\ req[r].sess = [file EXCEPT !.gen = file.gen + 1] /\ file.uid = req[r].tok.uid
    /\ gen[file.uid] = file.gen + 1
    /\ file.uid \notin lost /\ file.uid \notin inflight

\* Only an expired or superseded access token leads to a refresh.
ExpiredInv(r) ==
    req[r].pc \in {"lock", "rotate"} /\ gen[req[r].tok.uid] = req[r].tok.gen
        /\ status[req[r].tok.uid] = "live" => expired[req[r].tok.uid]

RejectedInv(r) == req[r].outcome = "rejected" =>
    Valid(req[r].tok) /\ (status[req[r].tok.uid] = "dead" \/ req[r].tok.uid \in lost)

ReqInv == \A r \in Request :
    BusyInv(r) /\ AdoptInv(r) /\ RotateInv(r) /\ RotatedInv(r) /\ ExpiredInv(r) /\ RejectedInv(r)

IInv == TypeOK /\ LockInv /\ NewInv /\ ProcInv /\ FileInv /\ InflightInv /\ ReqInv

-----------------------------------------------------------------------------
(* Types.                                                                  *)

\* What an action stores for a request is a well-formed request.
LEMMA RequestTypes ==
    ASSUME TypeOK, NEW r \in Request, NEW q \in RequestState, RequestOK(q),
           req' = [req EXCEPT ![r] = q]
    PROVE  req' \in [Request -> RequestState] /\ \A x \in Request : RequestOK(req'[x])
BY DEF TypeOK

LEMMA IdleTypes ==
    ASSUME Assumptions
    PROVE  /\ NoSession \in Session /\ Idle \in RequestState /\ RequestOK(Idle)
           /\ Idle.pc = "idle" /\ Idle.attempt = 0 /\ Idle.outcome = "none"
BY DEF Idle, NoSession, RequestState, Session, RequestOK, AttemptBounded, Pc, Outcome,
       Assumptions, BoundsAssumption

\* An ended request is idle and remembers its login and outcome.
LEMMA EndedTypes ==
    ASSUME NEW q \in RequestState, NEW o \in Outcome, Assumptions
    PROVE  /\ Ended(q, o) \in RequestState /\ RequestOK(Ended(q, o))
           /\ Ended(q, o).pc = "idle" /\ Ended(q, o).attempt = 0
           /\ Ended(q, o).tok.uid = q.tok.uid /\ Ended(q, o).outcome = o
<1>1. [NoSession EXCEPT !.uid = q.tok.uid] \in Session
  BY DEF NoSession, RequestState, Session
<1>2. /\ Ended(q, o) \in RequestState
      /\ Ended(q, o).pc = "idle" /\ Ended(q, o).attempt = 0 /\ Ended(q, o).outcome = o
  BY <1>1, IdleTypes DEF Ended, RequestState
<1>3. Ended(q, o).tok = [NoSession EXCEPT !.uid = q.tok.uid]
  BY IdleTypes DEF Ended, RequestState
<1>4. Ended(q, o).tok.uid = q.tok.uid
  BY <1>3 DEF NoSession
<1>5. RequestOK(Ended(q, o))
  BY <1>2 DEF RequestOK, AttemptBounded, Assumptions, BoundsAssumption
<1> QED
  BY <1>2, <1>4, <1>5

LEMMA TokensTypes == ASSUME NEW s \in Session PROVE Tokens(s) \in Session
BY DEF Tokens, Session

\* Every action keeps the types (and the bound on a request's attempts).
LEMMA TypeStep == ASSUME TypeOK, Assumptions, [Next]_vars PROVE TypeOK'
<1>0. /\ \A r \in Request : /\ req[r] \in RequestState /\ RequestOK(req[r])
                           /\ req[r].tok \in Session /\ req[r].sess \in Session
                           /\ ProcOf[r] \in Proc /\ cached[ProcOf[r]] \in Session
      /\ file \in Session /\ MaxRateLimitRetries \in Nat
  BY DEF TypeOK, RequestState, Assumptions, ProcOfAssumption, BoundsAssumption
<1>1. ASSUME NEW u \in Login, Expire(u) PROVE TypeOK'
  BY <1>1 DEF Expire, TypeOK, server
<1>2. ASSUME NEW u \in Login, Revoke(u) PROVE TypeOK'
  BY <1>2 DEF Revoke, TypeOK, server
<1>3. ASSUME NEW u \in Login, LateRotation(u) PROVE TypeOK'
  BY <1>3 DEF LateRotation, TypeOK, server
<1>4. ASSUME NEW p \in Proc, Open(p) PROVE TypeOK'
  BY <1>4, TokensTypes DEF Open, TypeOK, Session, ProcState, server, NoSession, Valid
<1>5. ASSUME NEW p \in Proc, LoginSave(p) PROVE TypeOK'
  BY <1>5, TokensTypes DEF LoginSave, TypeOK, Session, ProcState, server, NoSession, Valid
<1>6. ASSUME NEW p \in Proc, LogoutLoad(p) PROVE TypeOK'
  BY <1>6, TokensTypes DEF LogoutLoad, TypeOK, Session, ProcState, server, NoSession, Valid
<1>7. ASSUME NEW p \in Proc, LogoutClear(p) PROVE TypeOK'
  BY <1>7, TokensTypes DEF LogoutClear, TypeOK, Session, ProcState, server, NoSession, Valid
<1>8. ASSUME NEW p \in Proc, NEW u \in Login, Authenticate(p, u) PROVE TypeOK'
  BY <1>8 DEF Authenticate, TypeOK, Session, ProcState, server, NoSession, Valid
<1>9. ASSUME NEW p \in Proc, SetKeyPass(p) PROVE TypeOK'
  <2>1. req' \in [Request -> RequestState] /\ \A r \in Request : RequestOK(req'[r])
    BY <1>9, <1>0, IdleTypes DEF SetKeyPass, TypeOK
  <2>2. QED
    BY <1>9, <1>0, <2>1 DEF SetKeyPass, TypeOK, Session, ProcState, server, NoSession, Valid
<1>10. ASSUME NEW p \in Proc, Exit(p) PROVE TypeOK'
  <2>1. req' \in [Request -> RequestState] /\ \A r \in Request : RequestOK(req'[r])
    BY <1>10, <1>0, IdleTypes DEF Exit, TypeOK
  <2>2. QED
    BY <1>10, <1>0, <2>1 DEF Exit, TypeOK, Session, ProcState, server, NoSession, Valid,
       RequestOK, Requests, UidsAt
<1>11. ASSUME NEW r \in Request, Served(r) PROVE TypeOK'
  <2>1. req' \in [Request -> RequestState] /\ \A x \in Request : RequestOK(req'[x])
    BY <1>11, <1>0, EndedTypes, RequestTypes DEF Served, Finish, Outcome
  <2>2. QED
    BY <1>11, <1>0, <2>1 DEF Served, TypeOK, RequestOK, Session, ProcState, server,
       NoSession, Valid
<1>12. ASSUME NEW r \in Request, Fails(r) PROVE TypeOK'
  <2>1. req' \in [Request -> RequestState] /\ \A x \in Request : RequestOK(req'[x])
    BY <1>12, <1>0, EndedTypes, RequestTypes DEF Fails, Finish, Outcome
  <2>2. QED
    BY <1>12, <1>0, <2>1 DEF Fails, TypeOK, RequestOK, Session, ProcState, server,
       NoSession, Valid
<1>13. ASSUME NEW r \in Request, GiveUp(r) PROVE TypeOK'
  <2>1. req' \in [Request -> RequestState] /\ \A x \in Request : RequestOK(req'[x])
    BY <1>13, <1>0, EndedTypes, RequestTypes DEF GiveUp, Finish, Outcome
  <2>2. QED
    BY <1>13, <1>0, <2>1 DEF GiveUp, TypeOK, RequestOK, Session, ProcState, server,
       NoSession, Valid
<1>14. ASSUME NEW r \in Request, RefreshRefuse(r) PROVE TypeOK'
  <2>1. req' \in [Request -> RequestState] /\ \A x \in Request : RequestOK(req'[x])
    BY <1>14, <1>0, EndedTypes, RequestTypes DEF RefreshRefuse, Finish, Outcome
  <2>2. QED
    BY <1>14, <1>0, <2>1 DEF RefreshRefuse, TypeOK, RequestOK, Session, ProcState, server,
       NoSession, Valid
<1>15. ASSUME NEW r \in Request, RotateRejected(r) PROVE TypeOK'
  <2>1. req' \in [Request -> RequestState] /\ \A x \in Request : RequestOK(req'[x])
    BY <1>15, <1>0, EndedTypes, RequestTypes DEF RotateRejected, Finish, Outcome
  <2>2. QED
    BY <1>15, <1>0, <2>1 DEF RotateRejected, TypeOK, RequestOK, Session, ProcState, server,
       NoSession, Valid
<1>16. ASSUME NEW r \in Request, RotateUnanswered(r) PROVE TypeOK'
  <2>1. req' \in [Request -> RequestState] /\ \A x \in Request : RequestOK(req'[x])
    BY <1>16, <1>0, EndedTypes, RequestTypes DEF RotateUnanswered, Finish, Outcome
  <2>2. QED
    BY <1>16, <1>0, <2>1 DEF RotateUnanswered, TypeOK, RequestOK, Session, ProcState,
       server, NoSession, Valid
<1>17. ASSUME NEW r \in Request, RefreshSaveFails(r) PROVE TypeOK'
  <2>1. req' \in [Request -> RequestState] /\ \A x \in Request : RequestOK(req'[x])
    BY <1>17, <1>0, EndedTypes, RequestTypes DEF RefreshSaveFails, Finish, Outcome
  <2>2. QED
    BY <1>17, <1>0, <2>1 DEF RefreshSaveFails, TypeOK, RequestOK, Session, ProcState,
       server, NoSession, Valid
<1>18. ASSUME NEW r \in Request, Start(r) PROVE TypeOK'
  <2> DEFINE q == [Idle EXCEPT !.pc = "send", !.tok = cached[ProcOf[r]]]
  <2>1. q \in RequestState
    BY <1>18, <1>0, IdleTypes DEF RequestState, Pc
  <2>2. RequestOK(q)
    BY <1>18, <1>0, IdleTypes DEF Start, RequestState, RequestOK, AttemptBounded
  <2>3. req' \in [Request -> RequestState] /\ \A x \in Request : RequestOK(req'[x])
    BY <1>18, <2>1, <2>2, RequestTypes DEF Start
  <2>4. QED
    BY <1>18, <1>0, <2>3 DEF Start, TypeOK, RequestOK, Session, ProcState, server,
       NoSession, Valid
<1>19. ASSUME NEW r \in Request, Unauthorized(r) PROVE TypeOK'
  <2> DEFINE q == [req[r] EXCEPT !.pc = "lock"]
  <2>1. q \in RequestState
    BY <1>19, <1>0 DEF RequestState, Pc
  <2>2. RequestOK(q)
    BY <1>19, <1>0 DEF Unauthorized, RequestState, RequestOK, AttemptBounded
  <2>3. req' \in [Request -> RequestState] /\ \A x \in Request : RequestOK(req'[x])
    BY <1>19, <2>1, <2>2, RequestTypes DEF Unauthorized
  <2>4. QED
    BY <1>19, <1>0, <2>3 DEF Unauthorized, TypeOK, RequestOK, Session, ProcState, server,
       NoSession, Valid
<1>20. ASSUME NEW r \in Request, UnauthorizedAgain(r) PROVE TypeOK'
  <2> DEFINE q == [Ended(req[r], "unauthorized") EXCEPT !.via = req[r].via]
  <2>1. q \in RequestState
    BY <1>20, <1>0, EndedTypes DEF RequestState, Pc, Outcome
  <2>2. RequestOK(q)
    BY <1>20, <1>0, EndedTypes DEF UnauthorizedAgain, RequestState, RequestOK,
       AttemptBounded, Outcome
  <2>3. req' \in [Request -> RequestState] /\ \A x \in Request : RequestOK(req'[x])
    BY <1>20, <2>1, <2>2, RequestTypes DEF UnauthorizedAgain
  <2>4. QED
    BY <1>20, <1>0, <2>3 DEF UnauthorizedAgain, TypeOK, RequestOK, Session, ProcState,
       server, NoSession, Valid
<1>21. ASSUME NEW r \in Request, Throttled(r) PROVE TypeOK'
  <2> DEFINE q == [req[r] EXCEPT !.attempt = req[r].attempt + 1]
  <2>1. q \in RequestState
    BY <1>21, <1>0 DEF RequestState, Pc
  <2>2. RequestOK(q)
    BY <1>21, <1>0 DEF Throttled, RequestState, RequestOK, AttemptBounded
  <2>3. req' \in [Request -> RequestState] /\ \A x \in Request : RequestOK(req'[x])
    BY <1>21, <2>1, <2>2, RequestTypes DEF Throttled
  <2>4. QED
    BY <1>21, <1>0, <2>3 DEF Throttled, TypeOK, RequestOK, Session, ProcState, server,
       NoSession, Valid
<1>22. ASSUME NEW r \in Request, RefreshAdopt(r) PROVE TypeOK'
  <2> DEFINE q == [req[r] EXCEPT !.pc = "adopt", !.sess = file, !.via = "adopt"]
  <2>1. q \in RequestState
    BY <1>22, <1>0 DEF RequestState, Pc
  <2>2. RequestOK(q)
    BY <1>22, <1>0 DEF RefreshAdopt, RequestState, RequestOK, AttemptBounded
  <2>3. req' \in [Request -> RequestState] /\ \A x \in Request : RequestOK(req'[x])
    BY <1>22, <2>1, <2>2, RequestTypes DEF RefreshAdopt
  <2>4. QED
    BY <1>22, <1>0, <2>3 DEF RefreshAdopt, TypeOK, RequestOK, Session, ProcState, server,
       NoSession, Valid
<1>23. ASSUME NEW r \in Request, RefreshRotate(r) PROVE TypeOK'
  <2> DEFINE q == [req[r] EXCEPT !.pc = "rotate", !.sess = file, !.via = "rotate"]
  <2>1. q \in RequestState
    BY <1>23, <1>0 DEF RequestState, Pc
  <2>2. RequestOK(q)
    BY <1>23, <1>0 DEF RefreshRotate, RequestState, RequestOK, AttemptBounded
  <2>3. req' \in [Request -> RequestState] /\ \A x \in Request : RequestOK(req'[x])
    BY <1>23, <2>1, <2>2, RequestTypes DEF RefreshRotate
  <2>4. QED
    BY <1>23, <1>0, <2>3 DEF RefreshRotate, TypeOK, RequestOK, Session, ProcState, server,
       NoSession, Valid
<1>24. ASSUME NEW r \in Request, Rotated(r) PROVE TypeOK'
  <2> DEFINE q == [req[r] EXCEPT !.pc = "rotated",
                             !.sess = [req[r].sess EXCEPT !.gen = req[r].sess.gen + 1]]
  <2>0. [req[r].sess EXCEPT !.gen = req[r].sess.gen + 1] \in Session
    BY <1>0 DEF Session
  <2>1. q \in RequestState
    BY <1>24, <1>0, <2>0 DEF RequestState, Pc
  <2>2. RequestOK(q)
    BY <1>24, <1>0, <2>0 DEF Rotated, RequestState, RequestOK, AttemptBounded, Session, Valid
  <2>3. req' \in [Request -> RequestState] /\ \A x \in Request : RequestOK(req'[x])
    BY <1>24, <2>1, <2>2, RequestTypes DEF Rotated
  <2>4. QED
    BY <1>24, <1>0, <2>3 DEF Rotated, TypeOK, RequestOK, Session, ProcState, server,
       NoSession, Valid
<1>25. ASSUME NEW r \in Request, RefreshSave(r) PROVE TypeOK'
  <2> DEFINE q == [req[r] EXCEPT !.pc = "adopt"]
  <2>1. q \in RequestState
    BY <1>25, <1>0 DEF RequestState, Pc
  <2>2. RequestOK(q)
    BY <1>25, <1>0 DEF RefreshSave, RequestState, RequestOK, AttemptBounded
  <2>3. req' \in [Request -> RequestState] /\ \A x \in Request : RequestOK(req'[x])
    BY <1>25, <2>1, <2>2, RequestTypes DEF RefreshSave
  <2>4. QED
    BY <1>25, <1>0, <2>3 DEF RefreshSave, TypeOK, RequestOK, Session, ProcState, server,
       NoSession, Valid
<1>26. ASSUME NEW r \in Request, SetSession(r) PROVE TypeOK'
  <2> DEFINE q == [req[r] EXCEPT !.pc = "send", !.tok = Tokens(req[r].sess),
                             !.sess = NoSession, !.attempt = req[r].attempt + 1]
  <2>0. Tokens(req[r].sess) \in Session /\ NoSession \in Session /\ req[r].attempt + 1 \in Nat
    BY <1>0, TokensTypes, IdleTypes DEF RequestState
  <2>1. q \in RequestState
    BY <1>0, <2>0 DEF RequestState, Pc
  <2>2. RequestOK(q)
    BY <1>26, <1>0, <2>0 DEF SetSession, RequestState, RequestOK, AttemptBounded
  <2>3. req' \in [Request -> RequestState] /\ \A x \in Request : RequestOK(req'[x])
    BY <1>26, <2>1, <2>2, RequestTypes DEF SetSession
  <2>4. QED
    BY <1>26, <1>0, <2>3, TokensTypes DEF SetSession, TypeOK, RequestOK, Session, ProcState,
       server, NoSession, Valid
<1>27. CASE UNCHANGED vars
  BY <1>27 DEF vars, TypeOK
<1> QED
  BY <1>1, <1>2, <1>3, <1>4, <1>5, <1>6, <1>7, <1>8, <1>9, <1>10, <1>11, <1>12, <1>13,
     <1>14, <1>15, <1>16, <1>17, <1>18, <1>19, <1>20, <1>21, <1>22, <1>23, <1>24, <1>25,
     <1>26, <1>27
  DEF Next, ServerNext, ProcNext, RequestNext, Sending, Refreshing, Rotating
-----------------------------------------------------------------------------
(* The inductive step.                                                       *)

\* The types in the form the steps below use them.
LEMMA Fields ==
    ASSUME TypeOK, Assumptions
    PROVE  /\ file.uid \in Login \cup {NoLogin} /\ file.gen \in Nat
           /\ file = [uid |-> file.uid, gen |-> file.gen, key |-> file.key]
           /\ \A p \in Proc : cached[p].uid \in Login \cup {NoLogin} /\ cached[p].gen \in Nat
           /\ \A u \in Login : gen[u] \in Nat
           /\ \A r \in Request : /\ ProcOf[r] \in Proc
                                 /\ req[r].tok.uid \in Login \cup {NoLogin}
                                 /\ req[r].tok.gen \in Nat
                                 /\ req[r].sess.uid \in Login \cup {NoLogin}
                                 /\ req[r].sess.gen \in Nat
           /\ NoLogin \notin Login /\ NoHolder \notin Request
BY DEF TypeOK, Session, RequestState, Assumptions, NoLoginAssumption, ProcOfAssumption,
       NoHolderAssumption

\* Only an expired token leads to a refresh, and expiry takes nothing back.
LEMMA ExpireStep ==
    ASSUME TypeOK, Assumptions, IInv, NEW u \in Login, Expire(u)
    PROVE  LockInv' /\ NewInv' /\ ProcInv' /\ FileInv' /\ InflightInv' /\ ReqInv'
<1> USE Fields DEF IInv
<1>1. LockInv'
  BY DEF Expire, LockInv, server
<1>2. NewInv'
  BY DEF Expire, NewInv, Untouched, server
<1>3. ProcInv'
  <2> SUFFICES ASSUME NEW q \in Proc
              PROVE  (HoldsInv(q) /\ AuthedInv(q))'
    BY DEF ProcInv
  <2>1. HoldsInv(q)'
    BY DEF Expire, ProcInv, HoldsInv, Known, Valid, NoSession, server
  <2>2. AuthedInv(q)'
    BY DEF Expire, ProcInv, AuthedInv, Untouched, server
  <2> QED
    BY <2>1, <2>2
<1>4. FileInv'
  BY DEF Expire, FileInv, Valid, NoSession, server
<1>5. InflightInv'
  BY DEF Expire, InflightInv, server
<1>6. ReqInv'
  <2> SUFFICES ASSUME NEW x \in Request
              PROVE  (BusyInv(x) /\ AdoptInv(x) /\ RotateInv(x) /\ RotatedInv(x)
                        /\ ExpiredInv(x) /\ RejectedInv(x))'
    BY DEF ReqInv
  <2>1. BusyInv(x)'
    BY DEF Expire, ReqInv, BusyInv, Known, server
  <2>2. AdoptInv(x)'
    BY DEF Expire, ReqInv, AdoptInv, Known, server
  <2>3. RotateInv(x)'
    BY DEF Expire, ReqInv, RotateInv, server
  <2>4. RotatedInv(x)'
    BY DEF Expire, ReqInv, RotatedInv, server
  <2>5. ExpiredInv(x)'
    BY DEF Expire, ReqInv, ExpiredInv, server
  <2>6. RejectedInv(x)'
    BY DEF Expire, ReqInv, RejectedInv, Valid, server
  <2> QED
    BY <2>1, <2>2, <2>3, <2>4, <2>5, <2>6
<1> QED
  BY <1>1, <1>2, <1>3, <1>4, <1>5, <1>6

\* A revoked login only weakens what is claimed about live ones.
LEMMA RevokeStep ==
    ASSUME TypeOK, Assumptions, IInv, NEW u \in Login, Revoke(u)
    PROVE  LockInv' /\ NewInv' /\ ProcInv' /\ FileInv' /\ InflightInv' /\ ReqInv'
<1> USE Fields DEF IInv
<1>1. LockInv'
  BY DEF Revoke, LockInv, server
<1>2. NewInv'
  BY DEF Revoke, NewInv, Untouched, server
<1>3. ProcInv'
  <2> SUFFICES ASSUME NEW q \in Proc
              PROVE  (HoldsInv(q) /\ AuthedInv(q))'
    BY DEF ProcInv
  <2>1. HoldsInv(q)'
    BY DEF Revoke, ProcInv, HoldsInv, Known, Valid, NoSession, server
  <2>2. AuthedInv(q)'
    BY DEF Revoke, ProcInv, AuthedInv, Untouched, server
  <2> QED
    BY <2>1, <2>2
<1>4. FileInv'
  BY DEF Revoke, FileInv, Valid, NoSession, server
<1>5. InflightInv'
  BY DEF Revoke, InflightInv, server
<1>6. ReqInv'
  <2> SUFFICES ASSUME NEW x \in Request
              PROVE  (BusyInv(x) /\ AdoptInv(x) /\ RotateInv(x) /\ RotatedInv(x)
                        /\ ExpiredInv(x) /\ RejectedInv(x))'
    BY DEF ReqInv
  <2>1. BusyInv(x)'
    BY DEF Revoke, ReqInv, BusyInv, Known, server
  <2>2. AdoptInv(x)'
    BY DEF Revoke, ReqInv, AdoptInv, Known, server
  <2>3. RotateInv(x)'
    BY DEF Revoke, ReqInv, RotateInv, server
  <2>4. RotatedInv(x)'
    BY DEF Revoke, ReqInv, RotatedInv, server
  <2>5. ExpiredInv(x)'
    BY DEF Revoke, ReqInv, ExpiredInv, server
  <2>6. RejectedInv(x)'
    BY DEF Revoke, ReqInv, RejectedInv, Valid, server
  <2> QED
    BY <2>1, <2>2, <2>3, <2>4, <2>5, <2>6
<1> QED
  BY <1>1, <1>2, <1>3, <1>4, <1>5, <1>6

\* A rotation nobody waits for puts the server one generation ahead.
LEMMA LateRotationStep ==
    ASSUME TypeOK, Assumptions, IInv, NEW u \in Login, LateRotation(u)
    PROVE  LockInv' /\ NewInv' /\ ProcInv' /\ FileInv' /\ InflightInv' /\ ReqInv'
<1> USE Fields DEF IInv
<1>1. LockInv'
  BY DEF LateRotation, LockInv, server
<1>2. NewInv'
  BY DEF LateRotation, NewInv, Untouched, server
<1>3. ProcInv'
  <2> SUFFICES ASSUME NEW q \in Proc
              PROVE  (HoldsInv(q) /\ AuthedInv(q))'
    BY DEF ProcInv
  <2>1. HoldsInv(q)'
    BY DEF LateRotation, ProcInv, HoldsInv, Known, Valid, NoSession, server
  <2>2. AuthedInv(q)'
    BY DEF LateRotation, ProcInv, AuthedInv, Untouched, server
  <2> QED
    BY <2>1, <2>2
<1>4. FileInv'
  BY DEF LateRotation, FileInv, server, TypeOK, Tokens, Known, LockInv, ReqInv, BusyInv
<1>5. InflightInv'
  BY DEF LateRotation, InflightInv, server
<1>6. ReqInv'
  <2> SUFFICES ASSUME NEW x \in Request
              PROVE  (BusyInv(x) /\ AdoptInv(x) /\ RotateInv(x) /\ RotatedInv(x)
                        /\ ExpiredInv(x) /\ RejectedInv(x))'
    BY DEF ReqInv
  <2>1. BusyInv(x)'
    BY DEF LateRotation, ReqInv, BusyInv, Known, server
  <2>2. AdoptInv(x)'
    BY DEF LateRotation, ReqInv, AdoptInv, Known, server
  <2>3. RotateInv(x)'
    BY DEF LateRotation, ReqInv, RotateInv, server
  <2>4. RotatedInv(x)'
    BY DEF LateRotation, ReqInv, RotatedInv, server
  <2>5. ExpiredInv(x)'
    BY DEF LateRotation, ReqInv, ExpiredInv, TypeOK, Valid, NoSession, Tokens, Known,
       LockInv, BusyInv
  <2>6. RejectedInv(x)'
    BY DEF LateRotation, ReqInv, RejectedInv, Valid, server
  <2> QED
    BY <2>1, <2>2, <2>3, <2>4, <2>5, <2>6
<1> QED
  BY <1>1, <1>2, <1>3, <1>4, <1>5, <1>6

\* A client starts with the tokens in the file.
LEMMA OpenStep ==
    ASSUME TypeOK, Assumptions, IInv, NEW p \in Proc, Open(p)
    PROVE  LockInv' /\ NewInv' /\ ProcInv' /\ FileInv' /\ InflightInv' /\ ReqInv'
<1> USE Fields DEF IInv
<1>1. LockInv'
  BY DEF Open, LockInv, server
<1>2. NewInv'
  BY DEF Open, NewInv, Untouched, server
<1>3. ProcInv'
  <2> SUFFICES ASSUME NEW q \in Proc
              PROVE  (HoldsInv(q) /\ AuthedInv(q))'
    BY DEF ProcInv
  <2>1. HoldsInv(q)'
    BY DEF Open, server, TypeOK, Known, Valid, NoSession, Tokens, LockInv, NewInv, ProcInv,
       HoldsInv, AuthedInv, FileInv, InflightInv, ReqInv, BusyInv, AdoptInv, RotateInv,
       RotatedInv, ExpiredInv, RejectedInv
  <2>2. AuthedInv(q)'
    BY DEF Open, ProcInv, AuthedInv, Untouched, server, TypeOK, Valid, NoSession, Tokens,
       Known, LockInv, ReqInv, BusyInv
  <2> QED
    BY <2>1, <2>2
<1>4. FileInv'
  BY DEF Open, FileInv, Valid, NoSession, server
<1>5. InflightInv'
  BY DEF Open, InflightInv, server
<1>6. ReqInv'
  <2> SUFFICES ASSUME NEW x \in Request
              PROVE  (BusyInv(x) /\ AdoptInv(x) /\ RotateInv(x) /\ RotatedInv(x)
                        /\ ExpiredInv(x) /\ RejectedInv(x))'
    BY DEF ReqInv
  <2>1. BusyInv(x)'
    BY DEF Open, ReqInv, BusyInv, Known, server
  <2>2. AdoptInv(x)'
    BY DEF Open, ReqInv, AdoptInv, Known, server
  <2>3. RotateInv(x)'
    BY DEF Open, ReqInv, RotateInv, server
  <2>4. RotatedInv(x)'
    BY DEF Open, ReqInv, RotatedInv, server
  <2>5. ExpiredInv(x)'
    BY DEF Open, ReqInv, ExpiredInv, server
  <2>6. RejectedInv(x)'
    BY DEF Open, ReqInv, RejectedInv, Valid, server
  <2> QED
    BY <2>1, <2>2, <2>3, <2>4, <2>5, <2>6
<1> QED
  BY <1>1, <1>2, <1>3, <1>4, <1>5, <1>6

\* A login that was never issued is untouched and in nobody else's hands.
LEMMA AuthenticateStep ==
    ASSUME TypeOK, Assumptions, IInv, NEW p \in Proc, NEW u \in Login, Authenticate(p, u)
    PROVE  LockInv' /\ NewInv' /\ ProcInv' /\ FileInv' /\ InflightInv' /\ ReqInv'
<1> USE Fields DEF IInv
<1>1. LockInv'
  BY DEF Authenticate, LockInv, server
<1>2. NewInv'
  BY DEF Authenticate, NewInv, Untouched, server
<1>3. ProcInv'
  <2> SUFFICES ASSUME NEW q \in Proc
              PROVE  (HoldsInv(q) /\ AuthedInv(q))'
    BY DEF ProcInv
  <2>1. HoldsInv(q)'
    BY DEF Authenticate, ProcInv, HoldsInv, Known, Valid, NoSession, server, TypeOK, Tokens,
       LockInv, ReqInv, BusyInv
  <2>2. AuthedInv(q)'
    BY DEF Authenticate, TypeOK, Untouched, Known, Valid, NoSession, Tokens, LockInv,
       NewInv, ProcInv, HoldsInv, AuthedInv, FileInv, InflightInv, ReqInv, BusyInv,
       AdoptInv, RotateInv, RotatedInv, ExpiredInv, RejectedInv
  <2> QED
    BY <2>1, <2>2
<1>4. FileInv'
  BY DEF Authenticate, FileInv, Valid, NoSession, server
<1>5. InflightInv'
  BY DEF Authenticate, Untouched, Known, Valid, NoSession, Tokens, LockInv, NewInv, ProcInv,
     HoldsInv, AuthedInv, FileInv, InflightInv, ReqInv, BusyInv, AdoptInv, RotateInv,
     RotatedInv, ExpiredInv, RejectedInv
<1>6. ReqInv'
  <2> SUFFICES ASSUME NEW x \in Request
              PROVE  (BusyInv(x) /\ AdoptInv(x) /\ RotateInv(x) /\ RotatedInv(x)
                        /\ ExpiredInv(x) /\ RejectedInv(x))'
    BY DEF ReqInv
  <2>1. BusyInv(x)'
    BY DEF Authenticate, ReqInv, BusyInv, Known, server
  <2>2. AdoptInv(x)'
    BY DEF Authenticate, ReqInv, AdoptInv, Known, server
  <2>3. RotateInv(x)'
    BY DEF Authenticate, ReqInv, RotateInv, server
  <2>4. RotatedInv(x)'
    BY DEF Authenticate, ReqInv, RotatedInv, server
  <2>5. ExpiredInv(x)'
    BY DEF Authenticate, ReqInv, ExpiredInv, TypeOK, Valid, NoSession, Tokens, Known,
       LockInv, BusyInv
  <2>6. RejectedInv(x)'
    BY DEF Authenticate, ReqInv, RejectedInv, Valid, server
  <2> QED
    BY <2>1, <2>2, <2>3, <2>4, <2>5, <2>6
<1> QED
  BY <1>1, <1>2, <1>3, <1>4, <1>5, <1>6

\* Nobody else holds a generation of the login that enters the file.
LEMMA LoginSaveStep ==
    ASSUME TypeOK, Assumptions, IInv, NEW p \in Proc, LoginSave(p)
    PROVE  LockInv' /\ NewInv' /\ ProcInv' /\ FileInv' /\ InflightInv' /\ ReqInv'
<1> USE Fields DEF IInv
<1>1. LockInv'
  BY DEF LoginSave, LockInv, server
<1>2. NewInv'
  BY DEF LoginSave, server, TypeOK, Untouched, Known, Valid, NoSession, Tokens, LockInv,
     NewInv, ProcInv, HoldsInv, AuthedInv, FileInv, InflightInv, ReqInv, BusyInv, AdoptInv,
     RotateInv, RotatedInv, ExpiredInv, RejectedInv
<1>3. ProcInv'
  <2> SUFFICES ASSUME NEW q \in Proc
              PROVE  (HoldsInv(q) /\ AuthedInv(q))'
    BY DEF ProcInv
  <2>1. HoldsInv(q)'
    BY DEF LoginSave, server, TypeOK, Known, Valid, NoSession, Tokens, LockInv, NewInv,
       ProcInv, HoldsInv, AuthedInv, FileInv, InflightInv, ReqInv, BusyInv, AdoptInv,
       RotateInv, RotatedInv, ExpiredInv, RejectedInv
  <2>2. AuthedInv(q)'
    BY DEF LoginSave, ProcInv, AuthedInv, Untouched, server, TypeOK, Valid, NoSession,
       Tokens, Known, LockInv, ReqInv, BusyInv
  <2> QED
    BY <2>1, <2>2
<1>4. FileInv'
  BY DEF LoginSave, server, TypeOK, Untouched, Known, Valid, NoSession, Tokens, LockInv,
     NewInv, ProcInv, HoldsInv, AuthedInv, FileInv, InflightInv, ReqInv, BusyInv, AdoptInv,
     RotateInv, RotatedInv, ExpiredInv, RejectedInv
<1>5. InflightInv'
  BY DEF LoginSave, InflightInv, server
<1>6. ReqInv'
  <2> SUFFICES ASSUME NEW x \in Request
              PROVE  (BusyInv(x) /\ AdoptInv(x) /\ RotateInv(x) /\ RotatedInv(x)
                        /\ ExpiredInv(x) /\ RejectedInv(x))'
    BY DEF ReqInv
  <2>1. BusyInv(x)'
    BY DEF LoginSave, server, TypeOK, Known, Valid, NoSession, Tokens, LockInv, NewInv,
       ProcInv, HoldsInv, AuthedInv, FileInv, InflightInv, ReqInv, BusyInv, AdoptInv,
       RotateInv, RotatedInv, ExpiredInv, RejectedInv
  <2>2. AdoptInv(x)'
    BY DEF LoginSave, server, TypeOK, Known, Valid, NoSession, Tokens, LockInv, NewInv,
       ProcInv, HoldsInv, AuthedInv, FileInv, InflightInv, ReqInv, BusyInv, AdoptInv,
       RotateInv, RotatedInv, ExpiredInv, RejectedInv
  <2>3. RotateInv(x)'
    BY DEF LoginSave, RotateInv, TypeOK, Valid, NoSession, Tokens, Known, LockInv, BusyInv
  <2>4. RotatedInv(x)'
    BY DEF LoginSave, RotatedInv, TypeOK, Valid, NoSession, Tokens, Known, LockInv, BusyInv
  <2>5. ExpiredInv(x)'
    BY DEF LoginSave, ReqInv, ExpiredInv, server
  <2>6. RejectedInv(x)'
    BY DEF LoginSave, ReqInv, RejectedInv, Valid, server
  <2> QED
    BY <2>1, <2>2, <2>3, <2>4, <2>5, <2>6
<1> QED
  BY <1>1, <1>2, <1>3, <1>4, <1>5, <1>6

\* A logout starts with the tokens in the file.
LEMMA LogoutLoadStep ==
    ASSUME TypeOK, Assumptions, IInv, NEW p \in Proc, LogoutLoad(p)
    PROVE  LockInv' /\ NewInv' /\ ProcInv' /\ FileInv' /\ InflightInv' /\ ReqInv'
<1> USE Fields DEF IInv
<1>1. LockInv'
  BY DEF LogoutLoad, LockInv, server
<1>2. NewInv'
  BY DEF LogoutLoad, NewInv, Untouched, server
<1>3. ProcInv'
  <2> SUFFICES ASSUME NEW q \in Proc
              PROVE  (HoldsInv(q) /\ AuthedInv(q))'
    BY DEF ProcInv
  <2>1. HoldsInv(q)'
    BY DEF LogoutLoad, server, TypeOK, Known, Valid, NoSession, Tokens, LockInv, NewInv,
       ProcInv, HoldsInv, AuthedInv, FileInv, InflightInv, ReqInv, BusyInv, AdoptInv,
       RotateInv, RotatedInv, ExpiredInv, RejectedInv
  <2>2. AuthedInv(q)'
    BY DEF LogoutLoad, ProcInv, AuthedInv, Untouched, server, TypeOK, Valid, NoSession,
       Tokens, Known, LockInv, ReqInv, BusyInv
  <2> QED
    BY <2>1, <2>2
<1>4. FileInv'
  BY DEF LogoutLoad, FileInv, Valid, NoSession, server
<1>5. InflightInv'
  BY DEF LogoutLoad, InflightInv, server
<1>6. ReqInv'
  <2> SUFFICES ASSUME NEW x \in Request
              PROVE  (BusyInv(x) /\ AdoptInv(x) /\ RotateInv(x) /\ RotatedInv(x)
                        /\ ExpiredInv(x) /\ RejectedInv(x))'
    BY DEF ReqInv
  <2>1. BusyInv(x)'
    BY DEF LogoutLoad, ReqInv, BusyInv, Known, server
  <2>2. AdoptInv(x)'
    BY DEF LogoutLoad, ReqInv, AdoptInv, Known, server
  <2>3. RotateInv(x)'
    BY DEF LogoutLoad, ReqInv, RotateInv, server
  <2>4. RotatedInv(x)'
    BY DEF LogoutLoad, ReqInv, RotatedInv, server
  <2>5. ExpiredInv(x)'
    BY DEF LogoutLoad, ReqInv, ExpiredInv, server
  <2>6. RejectedInv(x)'
    BY DEF LogoutLoad, ReqInv, RejectedInv, Valid, server
  <2> QED
    BY <2>1, <2>2, <2>3, <2>4, <2>5, <2>6
<1> QED
  BY <1>1, <1>2, <1>3, <1>4, <1>5, <1>6

\* Nothing is claimed about a login that has left the file's.
LEMMA LogoutClearStep ==
    ASSUME TypeOK, Assumptions, IInv, NEW p \in Proc, LogoutClear(p)
    PROVE  LockInv' /\ NewInv' /\ ProcInv' /\ FileInv' /\ InflightInv' /\ ReqInv'
<1> USE Fields DEF IInv
<1>1. LockInv'
  BY DEF LogoutClear, LockInv, server
<1>2. NewInv'
  BY DEF LogoutClear, NewInv, Untouched, server, TypeOK, Valid, NoSession, Tokens, Known,
     LockInv, ReqInv, BusyInv
<1>3. ProcInv'
  <2> SUFFICES ASSUME NEW q \in Proc
              PROVE  (HoldsInv(q) /\ AuthedInv(q))'
    BY DEF ProcInv
  <2>1. HoldsInv(q)'
    BY DEF LogoutClear, server, TypeOK, Known, Valid, NoSession, Tokens, LockInv, NewInv,
       ProcInv, HoldsInv, AuthedInv, FileInv, InflightInv, ReqInv, BusyInv, AdoptInv,
       RotateInv, RotatedInv, ExpiredInv, RejectedInv
  <2>2. AuthedInv(q)'
    BY DEF LogoutClear, server, Untouched, Known, Valid, NoSession, Tokens, LockInv, NewInv,
       ProcInv, HoldsInv, AuthedInv, FileInv, InflightInv, ReqInv, BusyInv, AdoptInv,
       RotateInv, RotatedInv, ExpiredInv, RejectedInv
  <2> QED
    BY <2>1, <2>2
<1>4. FileInv'
  BY DEF LogoutClear, FileInv, Valid, NoSession, server, TypeOK, Tokens, Known, LockInv,
     ReqInv, BusyInv
<1>5. InflightInv'
  BY DEF LogoutClear, InflightInv, server
<1>6. ReqInv'
  <2> SUFFICES ASSUME NEW x \in Request
              PROVE  (BusyInv(x) /\ AdoptInv(x) /\ RotateInv(x) /\ RotatedInv(x)
                        /\ ExpiredInv(x) /\ RejectedInv(x))'
    BY DEF ReqInv
  <2>1. BusyInv(x)'
    BY DEF LogoutClear, server, Known, Valid, NoSession, Tokens, LockInv, NewInv, ProcInv,
       HoldsInv, AuthedInv, FileInv, InflightInv, ReqInv, BusyInv, AdoptInv, RotateInv,
       RotatedInv, ExpiredInv, RejectedInv
  <2>2. AdoptInv(x)'
    BY DEF LogoutClear, server, Known, Valid, NoSession, Tokens, LockInv, NewInv, ProcInv,
       HoldsInv, AuthedInv, FileInv, InflightInv, ReqInv, BusyInv, AdoptInv, RotateInv,
       RotatedInv, ExpiredInv, RejectedInv
  <2>3. RotateInv(x)'
    BY DEF LogoutClear, RotateInv, TypeOK, Valid, NoSession, Tokens, Known, LockInv, BusyInv
  <2>4. RotatedInv(x)'
    BY DEF LogoutClear, RotatedInv, TypeOK, Valid, NoSession, Tokens, Known, LockInv,
       BusyInv
  <2>5. ExpiredInv(x)'
    BY DEF LogoutClear, ReqInv, ExpiredInv, server
  <2>6. RejectedInv(x)'
    BY DEF LogoutClear, ReqInv, RejectedInv, Valid, server
  <2> QED
    BY <2>1, <2>2, <2>3, <2>4, <2>5, <2>6
<1> QED
  BY <1>1, <1>2, <1>3, <1>4, <1>5, <1>6

\* The passphrase leaves the tokens alone.
LEMMA SetKeyPassStep ==
    ASSUME TypeOK, Assumptions, IInv, NEW p \in Proc, SetKeyPass(p)
    PROVE  LockInv' /\ NewInv' /\ ProcInv' /\ FileInv' /\ InflightInv' /\ ReqInv'
<1> USE Fields DEF IInv
<1>1. LockInv'
  BY DEF SetKeyPass, Idle, LockInv, server
<1>2. NewInv'
  BY DEF SetKeyPass, Idle, NewInv, Untouched, server
<1>3. ProcInv'
  <2> SUFFICES ASSUME NEW q \in Proc
              PROVE  (HoldsInv(q) /\ AuthedInv(q))'
    BY DEF ProcInv
  <2>1. HoldsInv(q)'
    BY DEF SetKeyPass, ProcInv, HoldsInv, Known, Valid, NoSession, server, TypeOK, Tokens,
       LockInv, ReqInv, BusyInv
  <2>2. AuthedInv(q)'
    BY DEF SetKeyPass, server, Untouched, Known, Valid, NoSession, Tokens, LockInv, NewInv,
       ProcInv, HoldsInv, AuthedInv, FileInv, InflightInv, ReqInv, BusyInv, AdoptInv,
       RotateInv, RotatedInv, ExpiredInv, RejectedInv
  <2> QED
    BY <2>1, <2>2
<1>4. FileInv'
  BY DEF SetKeyPass, Idle, FileInv, Valid, NoSession, server
<1>5. InflightInv'
  BY DEF SetKeyPass, Idle, InflightInv, server
<1>6. ReqInv'
  <2> SUFFICES ASSUME NEW x \in Request
              PROVE  (BusyInv(x) /\ AdoptInv(x) /\ RotateInv(x) /\ RotatedInv(x)
                        /\ ExpiredInv(x) /\ RejectedInv(x))'
    BY DEF ReqInv
  <2>1. BusyInv(x)'
    BY DEF SetKeyPass, Idle, ReqInv, BusyInv, Known, server
  <2>2. AdoptInv(x)'
    BY DEF SetKeyPass, Idle, ReqInv, AdoptInv, Known, server
  <2>3. RotateInv(x)'
    BY DEF SetKeyPass, Idle, RotateInv, server, TypeOK, Valid, NoSession, Tokens, Known,
       LockInv, BusyInv
  <2>4. RotatedInv(x)'
    BY DEF SetKeyPass, Idle, RotatedInv, server, TypeOK, Valid, NoSession, Tokens, Known,
       LockInv, BusyInv
  <2>5. ExpiredInv(x)'
    BY DEF SetKeyPass, Idle, ReqInv, ExpiredInv, server
  <2>6. RejectedInv(x)'
    BY DEF SetKeyPass, Idle, ReqInv, RejectedInv, Valid, server
  <2> QED
    BY <2>1, <2>2, <2>3, <2>4, <2>5, <2>6
<1> QED
  BY <1>1, <1>2, <1>3, <1>4, <1>5, <1>6

\* A killed process leaves its unfinished refresh behind, in flight or lost.
LEMMA ExitStep ==
    ASSUME TypeOK, Assumptions, IInv, NEW p \in Proc, Exit(p)
    PROVE  LockInv' /\ NewInv' /\ ProcInv' /\ FileInv' /\ InflightInv' /\ ReqInv'
<1> USE Fields DEF IInv
<1>1. LockInv'
  BY DEF Exit, Idle, Requests, UidsAt, LockInv, server
<1>2. NewInv'
  BY DEF Exit, Requests, UidsAt, server, TypeOK, Untouched, Known, Valid, NoSession, Tokens,
     LockInv, NewInv, ProcInv, HoldsInv, AuthedInv, FileInv, InflightInv, ReqInv, BusyInv,
     AdoptInv, RotateInv, RotatedInv, ExpiredInv, RejectedInv
<1>3. ProcInv'
  <2> SUFFICES ASSUME NEW q \in Proc
              PROVE  (HoldsInv(q) /\ AuthedInv(q))'
    BY DEF ProcInv
  <2>1. HoldsInv(q)'
    BY DEF Exit, ProcInv, HoldsInv, Known, Valid, NoSession, server, TypeOK, Tokens,
       LockInv, ReqInv, BusyInv
  <2>2. AuthedInv(q)'
    BY DEF Exit, Requests, UidsAt, server, TypeOK, Untouched, Known, Valid, NoSession,
       Tokens, LockInv, NewInv, ProcInv, HoldsInv, AuthedInv, FileInv, InflightInv, ReqInv,
       BusyInv, AdoptInv, RotateInv, RotatedInv, ExpiredInv, RejectedInv
  <2> QED
    BY <2>1, <2>2
<1>4. FileInv'
  BY DEF Exit, Requests, UidsAt, server, TypeOK, Untouched, Known, Valid, NoSession, Tokens,
     LockInv, NewInv, ProcInv, HoldsInv, AuthedInv, FileInv, InflightInv, ReqInv, BusyInv,
     AdoptInv, RotateInv, RotatedInv, ExpiredInv, RejectedInv
<1>5. InflightInv'
  BY DEF Exit, Requests, UidsAt, server, TypeOK, Untouched, Known, Valid, NoSession, Tokens,
     LockInv, NewInv, ProcInv, HoldsInv, AuthedInv, FileInv, InflightInv, ReqInv, BusyInv,
     AdoptInv, RotateInv, RotatedInv, ExpiredInv, RejectedInv
<1>6. ReqInv'
  <2> SUFFICES ASSUME NEW x \in Request
              PROVE  (BusyInv(x) /\ AdoptInv(x) /\ RotateInv(x) /\ RotatedInv(x)
                        /\ ExpiredInv(x) /\ RejectedInv(x))'
    BY DEF ReqInv
  <2>1. BusyInv(x)'
    BY DEF Exit, Idle, Requests, UidsAt, ReqInv, BusyInv, Known, server
  <2>2. AdoptInv(x)'
    BY DEF Exit, Idle, Requests, UidsAt, ReqInv, AdoptInv, Known, server
  <2>3. RotateInv(x)'
    BY DEF Exit, Idle, Requests, UidsAt, ReqInv, RotateInv, server
  <2>4. RotatedInv(x)'
    BY DEF Exit, Idle, Requests, UidsAt, ReqInv, RotatedInv, server, TypeOK, Valid,
       NoSession, Tokens, Known, LockInv, BusyInv
  <2>5. ExpiredInv(x)'
    BY DEF Exit, Idle, Requests, UidsAt, ReqInv, ExpiredInv, server
  <2>6. RejectedInv(x)'
    BY DEF Exit, Idle, Requests, UidsAt, ReqInv, RejectedInv, Valid, server
  <2> QED
    BY <2>1, <2>2, <2>3, <2>4, <2>5, <2>6
<1> QED
  BY <1>1, <1>2, <1>3, <1>4, <1>5, <1>6

\* A request that was served is over; at most its login is dead.
LEMMA ServedStep ==
    ASSUME TypeOK, Assumptions, IInv, NEW r \in Request, Served(r)
    PROVE  LockInv' /\ NewInv' /\ ProcInv' /\ FileInv' /\ InflightInv' /\ ReqInv'
<1> USE Fields DEF IInv
<1>a. /\ req'[r] = Ended(req[r], "ok")
      /\ \A x \in Request : x # r => req'[x] = req[x]
  BY DEF Served, Finish, TypeOK
<1>b. /\ req'[r].pc = "idle"
      /\ req'[r].tok.uid = req[r].tok.uid
      /\ req'[r].outcome = "ok"
  BY <1>a, EndedTypes DEF TypeOK, RequestState, Outcome
<1>1. LockInv'
  BY <1>a, <1>b DEF Served, Finish, LockInv, server
<1>2. NewInv'
  BY <1>a, <1>b DEF Served, Finish, NewInv, Untouched, server
<1>3. ProcInv'
  <2> SUFFICES ASSUME NEW q \in Proc
              PROVE  (HoldsInv(q) /\ AuthedInv(q))'
    BY DEF ProcInv
  <2>1. HoldsInv(q)'
    BY <1>a, <1>b DEF Served, Finish, ProcInv, HoldsInv, Known, Valid, NoSession, server
  <2>2. AuthedInv(q)'
    BY <1>a, <1>b DEF Served, Finish, ProcInv, AuthedInv, Untouched, server
  <2> QED
    BY <2>1, <2>2
<1>4. FileInv'
  BY <1>a, <1>b DEF Served, Finish, FileInv, Valid, NoSession, server
<1>5. InflightInv'
  BY <1>a, <1>b DEF Served, Finish, InflightInv, server
<1>6. ReqInv'
  <2> SUFFICES ASSUME NEW x \in Request
              PROVE  (BusyInv(x) /\ AdoptInv(x) /\ RotateInv(x) /\ RotatedInv(x)
                        /\ ExpiredInv(x) /\ RejectedInv(x))'
    BY DEF ReqInv
  <2>1. BusyInv(x)'
    BY <1>a, <1>b DEF Served, Finish, ReqInv, BusyInv, Known, server
  <2>2. AdoptInv(x)'
    BY <1>a, <1>b DEF Served, Finish, ReqInv, AdoptInv, Known, server
  <2>3. RotateInv(x)'
    BY <1>a, <1>b DEF Served, Finish, ReqInv, RotateInv, server
  <2>4. RotatedInv(x)'
    BY <1>a, <1>b DEF Served, Finish, ReqInv, RotatedInv, server
  <2>5. ExpiredInv(x)'
    BY <1>a, <1>b DEF Served, Finish, ReqInv, ExpiredInv, server
  <2>6. RejectedInv(x)'
    BY <1>a, <1>b DEF Served, Finish, ReqInv, RejectedInv, Valid, server
  <2> QED
    BY <2>1, <2>2, <2>3, <2>4, <2>5, <2>6
<1> QED
  BY <1>1, <1>2, <1>3, <1>4, <1>5, <1>6

\* A request starts with its process's tokens.
LEMMA StartStep ==
    ASSUME TypeOK, Assumptions, IInv, NEW r \in Request, Start(r)
    PROVE  LockInv' /\ NewInv' /\ ProcInv' /\ FileInv' /\ InflightInv' /\ ReqInv'
<1> USE Fields DEF IInv
<1>a. /\ req'[r] = [Idle EXCEPT !.pc = "send", !.tok = cached[ProcOf[r]]]
      /\ \A x \in Request : x # r => req'[x] = req[x]
  BY DEF Start, TypeOK
<1>b. /\ req'[r].pc = "send"
      /\ req'[r].tok = cached[ProcOf[r]]
      /\ req'[r].outcome = "none"
  BY <1>a, IdleTypes DEF TypeOK, RequestState, Outcome
<1>1. LockInv'
  BY <1>a, <1>b DEF Start, LockInv, server
<1>2. NewInv'
  BY <1>a, <1>b DEF Start, NewInv, Untouched, server
<1>3. ProcInv'
  <2> SUFFICES ASSUME NEW q \in Proc
              PROVE  (HoldsInv(q) /\ AuthedInv(q))'
    BY DEF ProcInv
  <2>1. HoldsInv(q)'
    BY <1>a, <1>b DEF Start, ProcInv, HoldsInv, Known, Valid, NoSession, server
  <2>2. AuthedInv(q)'
    BY <1>a, <1>b DEF Start, ProcInv, AuthedInv, Untouched, server
  <2> QED
    BY <2>1, <2>2
<1>4. FileInv'
  BY <1>a, <1>b DEF Start, FileInv, Valid, NoSession, server
<1>5. InflightInv'
  BY <1>a, <1>b DEF Start, InflightInv, server
<1>6. ReqInv'
  <2> SUFFICES ASSUME NEW x \in Request
              PROVE  (BusyInv(x) /\ AdoptInv(x) /\ RotateInv(x) /\ RotatedInv(x)
                        /\ ExpiredInv(x) /\ RejectedInv(x))'
    BY DEF ReqInv
  <2>1. BusyInv(x)'
    BY <1>a, <1>b DEF Start, server, TypeOK, Known, Valid, NoSession, Tokens, LockInv,
       NewInv, ProcInv, HoldsInv, AuthedInv, FileInv, InflightInv, ReqInv, BusyInv,
       AdoptInv, RotateInv, RotatedInv, ExpiredInv, RejectedInv
  <2>2. AdoptInv(x)'
    BY <1>a, <1>b DEF Start, ReqInv, AdoptInv, Known, server
  <2>3. RotateInv(x)'
    BY <1>a, <1>b DEF Start, ReqInv, RotateInv, server
  <2>4. RotatedInv(x)'
    BY <1>a, <1>b DEF Start, ReqInv, RotatedInv, server
  <2>5. ExpiredInv(x)'
    BY <1>a, <1>b DEF Start, ReqInv, ExpiredInv, server
  <2>6. RejectedInv(x)'
    BY <1>a, <1>b DEF Start, ReqInv, RejectedInv, Valid, server
  <2> QED
    BY <2>1, <2>2, <2>3, <2>4, <2>5, <2>6
<1> QED
  BY <1>1, <1>2, <1>3, <1>4, <1>5, <1>6

\* A known token that gets a 401 is expired, superseded or dead.
LEMMA UnauthorizedStep ==
    ASSUME TypeOK, Assumptions, IInv, NEW r \in Request, Unauthorized(r)
    PROVE  LockInv' /\ NewInv' /\ ProcInv' /\ FileInv' /\ InflightInv' /\ ReqInv'
<1> USE Fields DEF IInv
<1>a. /\ req'[r] = [req[r] EXCEPT !.pc = "lock"]
      /\ \A x \in Request : x # r => req'[x] = req[x]
  BY DEF Unauthorized, TypeOK
<1>b. /\ req'[r].pc = "lock"
      /\ req'[r].tok = req[r].tok
      /\ req'[r].sess = req[r].sess
      /\ req'[r].outcome = req[r].outcome
  BY <1>a DEF TypeOK, RequestState, Outcome
<1>1. LockInv'
  BY <1>a, <1>b DEF Unauthorized, LockInv, server
<1>2. NewInv'
  BY <1>a, <1>b DEF Unauthorized, NewInv, Untouched, server
<1>3. ProcInv'
  <2> SUFFICES ASSUME NEW q \in Proc
              PROVE  (HoldsInv(q) /\ AuthedInv(q))'
    BY DEF ProcInv
  <2>1. HoldsInv(q)'
    BY <1>a, <1>b DEF Unauthorized, ProcInv, HoldsInv, Known, Valid, NoSession, server
  <2>2. AuthedInv(q)'
    BY <1>a, <1>b DEF Unauthorized, ProcInv, AuthedInv, Untouched, server
  <2> QED
    BY <2>1, <2>2
<1>4. FileInv'
  BY <1>a, <1>b DEF Unauthorized, FileInv, Valid, NoSession, server
<1>5. InflightInv'
  BY <1>a, <1>b DEF Unauthorized, InflightInv, server
<1>6. ReqInv'
  <2> SUFFICES ASSUME NEW x \in Request
              PROVE  (BusyInv(x) /\ AdoptInv(x) /\ RotateInv(x) /\ RotatedInv(x)
                        /\ ExpiredInv(x) /\ RejectedInv(x))'
    BY DEF ReqInv
  <2>1. BusyInv(x)'
    BY <1>a, <1>b DEF Unauthorized, ReqInv, BusyInv, Known, server
  <2>2. AdoptInv(x)'
    BY <1>a, <1>b DEF Unauthorized, ReqInv, AdoptInv, Known, server
  <2>3. RotateInv(x)'
    BY <1>a, <1>b DEF Unauthorized, ReqInv, RotateInv, server
  <2>4. RotatedInv(x)'
    BY <1>a, <1>b DEF Unauthorized, ReqInv, RotatedInv, server
  <2>5. ExpiredInv(x)'
    BY <1>a, <1>b DEF Unauthorized, AccessAccepted, ReqInv, ExpiredInv, server, TypeOK,
       Valid, NoSession, Tokens, Known, LockInv, BusyInv
  <2>6. RejectedInv(x)'
    BY <1>a, <1>b DEF Unauthorized, ReqInv, RejectedInv, Valid, server
  <2> QED
    BY <2>1, <2>2, <2>3, <2>4, <2>5, <2>6
<1> QED
  BY <1>1, <1>2, <1>3, <1>4, <1>5, <1>6

\* A request that is refused a second time is over.
LEMMA UnauthorizedAgainStep ==
    ASSUME TypeOK, Assumptions, IInv, NEW r \in Request, UnauthorizedAgain(r)
    PROVE  LockInv' /\ NewInv' /\ ProcInv' /\ FileInv' /\ InflightInv' /\ ReqInv'
<1> USE Fields DEF IInv
<1>a. /\ req'[r] = [Ended(req[r], "unauthorized") EXCEPT !.via = req[r].via]
      /\ \A x \in Request : x # r => req'[x] = req[x]
  BY DEF UnauthorizedAgain, TypeOK
<1>b. /\ req'[r].pc = "idle"
      /\ req'[r].tok.uid = req[r].tok.uid
      /\ req'[r].outcome = "unauthorized"
  BY <1>a, EndedTypes DEF TypeOK, RequestState, Outcome
<1>1. LockInv'
  BY <1>a, <1>b DEF UnauthorizedAgain, LockInv, server
<1>2. NewInv'
  BY <1>a, <1>b DEF UnauthorizedAgain, NewInv, Untouched, server
<1>3. ProcInv'
  <2> SUFFICES ASSUME NEW q \in Proc
              PROVE  (HoldsInv(q) /\ AuthedInv(q))'
    BY DEF ProcInv
  <2>1. HoldsInv(q)'
    BY <1>a, <1>b DEF UnauthorizedAgain, ProcInv, HoldsInv, Known, Valid, NoSession, server
  <2>2. AuthedInv(q)'
    BY <1>a, <1>b DEF UnauthorizedAgain, ProcInv, AuthedInv, Untouched, server
  <2> QED
    BY <2>1, <2>2
<1>4. FileInv'
  BY <1>a, <1>b DEF UnauthorizedAgain, FileInv, Valid, NoSession, server
<1>5. InflightInv'
  BY <1>a, <1>b DEF UnauthorizedAgain, InflightInv, server
<1>6. ReqInv'
  <2> SUFFICES ASSUME NEW x \in Request
              PROVE  (BusyInv(x) /\ AdoptInv(x) /\ RotateInv(x) /\ RotatedInv(x)
                        /\ ExpiredInv(x) /\ RejectedInv(x))'
    BY DEF ReqInv
  <2>1. BusyInv(x)'
    BY <1>a, <1>b DEF UnauthorizedAgain, ReqInv, BusyInv, Known, server
  <2>2. AdoptInv(x)'
    BY <1>a, <1>b DEF UnauthorizedAgain, ReqInv, AdoptInv, Known, server
  <2>3. RotateInv(x)'
    BY <1>a, <1>b DEF UnauthorizedAgain, ReqInv, RotateInv, server
  <2>4. RotatedInv(x)'
    BY <1>a, <1>b DEF UnauthorizedAgain, ReqInv, RotatedInv, server
  <2>5. ExpiredInv(x)'
    BY <1>a, <1>b DEF UnauthorizedAgain, ReqInv, ExpiredInv, server
  <2>6. RejectedInv(x)'
    BY <1>a, <1>b DEF UnauthorizedAgain, ReqInv, RejectedInv, Valid, server
  <2> QED
    BY <2>1, <2>2, <2>3, <2>4, <2>5, <2>6
<1> QED
  BY <1>1, <1>2, <1>3, <1>4, <1>5, <1>6

\* A throttled request keeps its tokens.
LEMMA ThrottledStep ==
    ASSUME TypeOK, Assumptions, IInv, NEW r \in Request, Throttled(r)
    PROVE  LockInv' /\ NewInv' /\ ProcInv' /\ FileInv' /\ InflightInv' /\ ReqInv'
<1> USE Fields DEF IInv
<1>a. /\ req'[r] = [req[r] EXCEPT !.attempt = req[r].attempt + 1]
      /\ \A x \in Request : x # r => req'[x] = req[x]
  BY DEF Throttled, TypeOK
<1>b. /\ req'[r].pc = req[r].pc
      /\ req'[r].tok = req[r].tok
      /\ req'[r].sess = req[r].sess
      /\ req'[r].outcome = req[r].outcome
  BY <1>a DEF TypeOK, RequestState, Outcome
<1>1. LockInv'
  BY <1>a, <1>b DEF Throttled, LockInv, server
<1>2. NewInv'
  BY <1>a, <1>b DEF Throttled, NewInv, Untouched, server
<1>3. ProcInv'
  <2> SUFFICES ASSUME NEW q \in Proc
              PROVE  (HoldsInv(q) /\ AuthedInv(q))'
    BY DEF ProcInv
  <2>1. HoldsInv(q)'
    BY <1>a, <1>b DEF Throttled, ProcInv, HoldsInv, Known, Valid, NoSession, server
  <2>2. AuthedInv(q)'
    BY <1>a, <1>b DEF Throttled, ProcInv, AuthedInv, Untouched, server
  <2> QED
    BY <2>1, <2>2
<1>4. FileInv'
  BY <1>a, <1>b DEF Throttled, FileInv, Valid, NoSession, server
<1>5. InflightInv'
  BY <1>a, <1>b DEF Throttled, InflightInv, server
<1>6. ReqInv'
  <2> SUFFICES ASSUME NEW x \in Request
              PROVE  (BusyInv(x) /\ AdoptInv(x) /\ RotateInv(x) /\ RotatedInv(x)
                        /\ ExpiredInv(x) /\ RejectedInv(x))'
    BY DEF ReqInv
  <2>1. BusyInv(x)'
    BY <1>a, <1>b DEF Throttled, ReqInv, BusyInv, Known, server
  <2>2. AdoptInv(x)'
    BY <1>a, <1>b DEF Throttled, ReqInv, AdoptInv, Known, server
  <2>3. RotateInv(x)'
    BY <1>a, <1>b DEF Throttled, ReqInv, RotateInv, server
  <2>4. RotatedInv(x)'
    BY <1>a, <1>b DEF Throttled, ReqInv, RotatedInv, server
  <2>5. ExpiredInv(x)'
    BY <1>a, <1>b DEF Throttled, ReqInv, ExpiredInv, server
  <2>6. RejectedInv(x)'
    BY <1>a, <1>b DEF Throttled, ReqInv, RejectedInv, Valid, server
  <2> QED
    BY <2>1, <2>2, <2>3, <2>4, <2>5, <2>6
<1> QED
  BY <1>1, <1>2, <1>3, <1>4, <1>5, <1>6

\* A failed request is over.
LEMMA FailsStep ==
    ASSUME TypeOK, Assumptions, IInv, NEW r \in Request, Fails(r)
    PROVE  LockInv' /\ NewInv' /\ ProcInv' /\ FileInv' /\ InflightInv' /\ ReqInv'
<1> USE Fields DEF IInv
<1>a. /\ req'[r] = Ended(req[r], "error")
      /\ \A x \in Request : x # r => req'[x] = req[x]
  BY DEF Fails, Finish, TypeOK
<1>b. /\ req'[r].pc = "idle"
      /\ req'[r].tok.uid = req[r].tok.uid
      /\ req'[r].outcome = "error"
  BY <1>a, EndedTypes DEF TypeOK, RequestState, Outcome
<1>1. LockInv'
  BY <1>a, <1>b DEF Fails, Finish, LockInv, server
<1>2. NewInv'
  BY <1>a, <1>b DEF Fails, Finish, NewInv, Untouched, server
<1>3. ProcInv'
  <2> SUFFICES ASSUME NEW q \in Proc
              PROVE  (HoldsInv(q) /\ AuthedInv(q))'
    BY DEF ProcInv
  <2>1. HoldsInv(q)'
    BY <1>a, <1>b DEF Fails, Finish, ProcInv, HoldsInv, Known, Valid, NoSession, server
  <2>2. AuthedInv(q)'
    BY <1>a, <1>b DEF Fails, Finish, ProcInv, AuthedInv, Untouched, server
  <2> QED
    BY <2>1, <2>2
<1>4. FileInv'
  BY <1>a, <1>b DEF Fails, Finish, FileInv, Valid, NoSession, server
<1>5. InflightInv'
  BY <1>a, <1>b DEF Fails, Finish, InflightInv, server
<1>6. ReqInv'
  <2> SUFFICES ASSUME NEW x \in Request
              PROVE  (BusyInv(x) /\ AdoptInv(x) /\ RotateInv(x) /\ RotatedInv(x)
                        /\ ExpiredInv(x) /\ RejectedInv(x))'
    BY DEF ReqInv
  <2>1. BusyInv(x)'
    BY <1>a, <1>b DEF Fails, Finish, ReqInv, BusyInv, Known, server
  <2>2. AdoptInv(x)'
    BY <1>a, <1>b DEF Fails, Finish, ReqInv, AdoptInv, Known, server
  <2>3. RotateInv(x)'
    BY <1>a, <1>b DEF Fails, Finish, ReqInv, RotateInv, server
  <2>4. RotatedInv(x)'
    BY <1>a, <1>b DEF Fails, Finish, ReqInv, RotatedInv, server
  <2>5. ExpiredInv(x)'
    BY <1>a, <1>b DEF Fails, Finish, ReqInv, ExpiredInv, server
  <2>6. RejectedInv(x)'
    BY <1>a, <1>b DEF Fails, Finish, ReqInv, RejectedInv, Valid, server
  <2> QED
    BY <2>1, <2>2, <2>3, <2>4, <2>5, <2>6
<1> QED
  BY <1>1, <1>2, <1>3, <1>4, <1>5, <1>6

\* A request that stops waiting for the lock is over.
LEMMA GiveUpStep ==
    ASSUME TypeOK, Assumptions, IInv, NEW r \in Request, GiveUp(r)
    PROVE  LockInv' /\ NewInv' /\ ProcInv' /\ FileInv' /\ InflightInv' /\ ReqInv'
<1> USE Fields DEF IInv
<1>a. /\ req'[r] = Ended(req[r], "error")
      /\ \A x \in Request : x # r => req'[x] = req[x]
  BY DEF GiveUp, Finish, TypeOK
<1>b. /\ req'[r].pc = "idle"
      /\ req'[r].tok.uid = req[r].tok.uid
      /\ req'[r].outcome = "error"
  BY <1>a, EndedTypes DEF TypeOK, RequestState, Outcome
<1>1. LockInv'
  BY <1>a, <1>b DEF GiveUp, Finish, LockInv, server
<1>2. NewInv'
  BY <1>a, <1>b DEF GiveUp, Finish, NewInv, Untouched, server
<1>3. ProcInv'
  <2> SUFFICES ASSUME NEW q \in Proc
              PROVE  (HoldsInv(q) /\ AuthedInv(q))'
    BY DEF ProcInv
  <2>1. HoldsInv(q)'
    BY <1>a, <1>b DEF GiveUp, Finish, ProcInv, HoldsInv, Known, Valid, NoSession, server
  <2>2. AuthedInv(q)'
    BY <1>a, <1>b DEF GiveUp, Finish, ProcInv, AuthedInv, Untouched, server
  <2> QED
    BY <2>1, <2>2
<1>4. FileInv'
  BY <1>a, <1>b DEF GiveUp, Finish, FileInv, Valid, NoSession, server
<1>5. InflightInv'
  BY <1>a, <1>b DEF GiveUp, Finish, InflightInv, server
<1>6. ReqInv'
  <2> SUFFICES ASSUME NEW x \in Request
              PROVE  (BusyInv(x) /\ AdoptInv(x) /\ RotateInv(x) /\ RotatedInv(x)
                        /\ ExpiredInv(x) /\ RejectedInv(x))'
    BY DEF ReqInv
  <2>1. BusyInv(x)'
    BY <1>a, <1>b DEF GiveUp, Finish, ReqInv, BusyInv, Known, server
  <2>2. AdoptInv(x)'
    BY <1>a, <1>b DEF GiveUp, Finish, ReqInv, AdoptInv, Known, server
  <2>3. RotateInv(x)'
    BY <1>a, <1>b DEF GiveUp, Finish, ReqInv, RotateInv, server
  <2>4. RotatedInv(x)'
    BY <1>a, <1>b DEF GiveUp, Finish, ReqInv, RotatedInv, server
  <2>5. ExpiredInv(x)'
    BY <1>a, <1>b DEF GiveUp, Finish, ReqInv, ExpiredInv, server
  <2>6. RejectedInv(x)'
    BY <1>a, <1>b DEF GiveUp, Finish, ReqInv, RejectedInv, Valid, server
  <2> QED
    BY <2>1, <2>2, <2>3, <2>4, <2>5, <2>6
<1> QED
  BY <1>1, <1>2, <1>3, <1>4, <1>5, <1>6

\* A request whose login is not in the file is over.
LEMMA RefreshRefuseStep ==
    ASSUME TypeOK, Assumptions, IInv, NEW r \in Request, RefreshRefuse(r)
    PROVE  LockInv' /\ NewInv' /\ ProcInv' /\ FileInv' /\ InflightInv' /\ ReqInv'
<1> USE Fields DEF IInv
<1>a. /\ req'[r] = Ended(req[r], "refused")
      /\ \A x \in Request : x # r => req'[x] = req[x]
  BY DEF RefreshRefuse, Finish, TypeOK
<1>b. /\ req'[r].pc = "idle"
      /\ req'[r].tok.uid = req[r].tok.uid
      /\ req'[r].outcome = "refused"
  BY <1>a, EndedTypes DEF TypeOK, RequestState, Outcome
<1>1. LockInv'
  BY <1>a, <1>b DEF RefreshRefuse, Finish, LockInv, server
<1>2. NewInv'
  BY <1>a, <1>b DEF RefreshRefuse, Finish, NewInv, Untouched, server
<1>3. ProcInv'
  <2> SUFFICES ASSUME NEW q \in Proc
              PROVE  (HoldsInv(q) /\ AuthedInv(q))'
    BY DEF ProcInv
  <2>1. HoldsInv(q)'
    BY <1>a, <1>b DEF RefreshRefuse, Finish, ProcInv, HoldsInv, Known, Valid, NoSession,
       server
  <2>2. AuthedInv(q)'
    BY <1>a, <1>b DEF RefreshRefuse, Finish, ProcInv, AuthedInv, Untouched, server
  <2> QED
    BY <2>1, <2>2
<1>4. FileInv'
  BY <1>a, <1>b DEF RefreshRefuse, Finish, FileInv, Valid, NoSession, server
<1>5. InflightInv'
  BY <1>a, <1>b DEF RefreshRefuse, Finish, InflightInv, server
<1>6. ReqInv'
  <2> SUFFICES ASSUME NEW x \in Request
              PROVE  (BusyInv(x) /\ AdoptInv(x) /\ RotateInv(x) /\ RotatedInv(x)
                        /\ ExpiredInv(x) /\ RejectedInv(x))'
    BY DEF ReqInv
  <2>1. BusyInv(x)'
    BY <1>a, <1>b DEF RefreshRefuse, Finish, ReqInv, BusyInv, Known, server
  <2>2. AdoptInv(x)'
    BY <1>a, <1>b DEF RefreshRefuse, Finish, ReqInv, AdoptInv, Known, server
  <2>3. RotateInv(x)'
    BY <1>a, <1>b DEF RefreshRefuse, Finish, ReqInv, RotateInv, server
  <2>4. RotatedInv(x)'
    BY <1>a, <1>b DEF RefreshRefuse, Finish, ReqInv, RotatedInv, server
  <2>5. ExpiredInv(x)'
    BY <1>a, <1>b DEF RefreshRefuse, Finish, ReqInv, ExpiredInv, server
  <2>6. RejectedInv(x)'
    BY <1>a, <1>b DEF RefreshRefuse, Finish, ReqInv, RejectedInv, Valid, server
  <2> QED
    BY <2>1, <2>2, <2>3, <2>4, <2>5, <2>6
<1> QED
  BY <1>1, <1>2, <1>3, <1>4, <1>5, <1>6

\* Adopted tokens are known: they are the file's.
LEMMA RefreshAdoptStep ==
    ASSUME TypeOK, Assumptions, IInv, NEW r \in Request, RefreshAdopt(r)
    PROVE  LockInv' /\ NewInv' /\ ProcInv' /\ FileInv' /\ InflightInv' /\ ReqInv'
<1> USE Fields DEF IInv
<1>a. /\ req'[r] = [req[r] EXCEPT !.pc = "adopt", !.sess = file, !.via = "adopt"]
      /\ \A x \in Request : x # r => req'[x] = req[x]
  BY DEF RefreshAdopt, TypeOK
<1>b. /\ req'[r].pc = "adopt"
      /\ req'[r].tok = req[r].tok
      /\ req'[r].sess = file
      /\ req'[r].outcome = req[r].outcome
  BY <1>a DEF TypeOK, RequestState, Outcome
<1>1. LockInv'
  BY <1>a, <1>b DEF RefreshAdopt, LockInv, server
<1>2. NewInv'
  BY <1>a, <1>b DEF RefreshAdopt, NewInv, Untouched, server
<1>3. ProcInv'
  <2> SUFFICES ASSUME NEW q \in Proc
              PROVE  (HoldsInv(q) /\ AuthedInv(q))'
    BY DEF ProcInv
  <2>1. HoldsInv(q)'
    BY <1>a, <1>b DEF RefreshAdopt, ProcInv, HoldsInv, Known, Valid, NoSession, server
  <2>2. AuthedInv(q)'
    BY <1>a, <1>b DEF RefreshAdopt, ProcInv, AuthedInv, Untouched, server
  <2> QED
    BY <2>1, <2>2
<1>4. FileInv'
  BY <1>a, <1>b DEF RefreshAdopt, FileInv, Valid, NoSession, server
<1>5. InflightInv'
  BY <1>a, <1>b DEF RefreshAdopt, InflightInv, server
<1>6. ReqInv'
  <2> SUFFICES ASSUME NEW x \in Request
              PROVE  (BusyInv(x) /\ AdoptInv(x) /\ RotateInv(x) /\ RotatedInv(x)
                        /\ ExpiredInv(x) /\ RejectedInv(x))'
    BY DEF ReqInv
  <2>1. BusyInv(x)'
    BY <1>a, <1>b DEF RefreshAdopt, ReqInv, BusyInv, Known, server
  <2>2. AdoptInv(x)'
    BY <1>a, <1>b DEF RefreshAdopt, server, Known, Valid, NoSession, Tokens, LockInv,
       NewInv, ProcInv, HoldsInv, AuthedInv, FileInv, InflightInv, ReqInv, BusyInv,
       AdoptInv, RotateInv, RotatedInv, ExpiredInv, RejectedInv
  <2>3. RotateInv(x)'
    BY <1>a, <1>b DEF RefreshAdopt, ReqInv, RotateInv, server
  <2>4. RotatedInv(x)'
    BY <1>a, <1>b DEF RefreshAdopt, ReqInv, RotatedInv, server
  <2>5. ExpiredInv(x)'
    BY <1>a, <1>b DEF RefreshAdopt, ReqInv, ExpiredInv, server
  <2>6. RejectedInv(x)'
    BY <1>a, <1>b DEF RefreshAdopt, ReqInv, RejectedInv, Valid, server
  <2> QED
    BY <2>1, <2>2, <2>3, <2>4, <2>5, <2>6
<1> QED
  BY <1>1, <1>2, <1>3, <1>4, <1>5, <1>6

\* With the lock, the file is what the request loaded.
LEMMA RefreshRotateStep ==
    ASSUME TypeOK, Assumptions, IInv, NEW r \in Request, RefreshRotate(r)
    PROVE  LockInv' /\ NewInv' /\ ProcInv' /\ FileInv' /\ InflightInv' /\ ReqInv'
<1> USE Fields DEF IInv
<1>a. /\ req'[r] = [req[r] EXCEPT !.pc = "rotate", !.sess = file, !.via = "rotate"]
      /\ \A x \in Request : x # r => req'[x] = req[x]
  BY DEF RefreshRotate, TypeOK
<1>b. /\ req'[r].pc = "rotate"
      /\ req'[r].tok = req[r].tok
      /\ req'[r].sess = file
      /\ req'[r].outcome = req[r].outcome
  BY <1>a DEF TypeOK, RequestState, Outcome
<1>1. LockInv'
  BY <1>a, <1>b DEF RefreshRotate, LockInv, server
<1>2. NewInv'
  BY <1>a, <1>b DEF RefreshRotate, NewInv, Untouched, server
<1>3. ProcInv'
  <2> SUFFICES ASSUME NEW q \in Proc
              PROVE  (HoldsInv(q) /\ AuthedInv(q))'
    BY DEF ProcInv
  <2>1. HoldsInv(q)'
    BY <1>a, <1>b DEF RefreshRotate, ProcInv, HoldsInv, Known, Valid, NoSession, server
  <2>2. AuthedInv(q)'
    BY <1>a, <1>b DEF RefreshRotate, ProcInv, AuthedInv, Untouched, server
  <2> QED
    BY <2>1, <2>2
<1>4. FileInv'
  BY <1>a, <1>b DEF RefreshRotate, FileInv, Valid, NoSession, server
<1>5. InflightInv'
  BY <1>a, <1>b DEF RefreshRotate, InflightInv, server
<1>6. ReqInv'
  <2> SUFFICES ASSUME NEW x \in Request
              PROVE  (BusyInv(x) /\ AdoptInv(x) /\ RotateInv(x) /\ RotatedInv(x)
                        /\ ExpiredInv(x) /\ RejectedInv(x))'
    BY DEF ReqInv
  <2>1. BusyInv(x)'
    BY <1>a, <1>b DEF RefreshRotate, ReqInv, BusyInv, Known, server
  <2>2. AdoptInv(x)'
    BY <1>a, <1>b DEF RefreshRotate, ReqInv, AdoptInv, Known, server
  <2>3. RotateInv(x)'
    BY <1>a, <1>b DEF RefreshRotate, ReqInv, RotateInv, server
  <2>4. RotatedInv(x)'
    BY <1>a, <1>b DEF RefreshRotate, ReqInv, RotatedInv, server
  <2>5. ExpiredInv(x)'
    BY <1>a, <1>b DEF RefreshRotate, ReqInv, ExpiredInv, server
  <2>6. RejectedInv(x)'
    BY <1>a, <1>b DEF RefreshRotate, ReqInv, RejectedInv, Valid, server
  <2> QED
    BY <2>1, <2>2, <2>3, <2>4, <2>5, <2>6
<1> QED
  BY <1>1, <1>2, <1>3, <1>4, <1>5, <1>6

\* A rotation puts the server one generation ahead of the locked file.
LEMMA RotatedStep ==
    ASSUME TypeOK, Assumptions, IInv, NEW r \in Request, Rotated(r)
    PROVE  LockInv' /\ NewInv' /\ ProcInv' /\ FileInv' /\ InflightInv' /\ ReqInv'
<1> USE Fields DEF IInv
<1>a. /\ req'[r] = [req[r] EXCEPT !.pc = "rotated", !.sess = [req[r].sess EXCEPT !.gen = req[r].sess.gen + 1]]
      /\ \A x \in Request : x # r => req'[x] = req[x]
  BY DEF Rotated, TypeOK
<1>b. /\ req'[r].pc = "rotated"
      /\ req'[r].tok = req[r].tok
      /\ req'[r].sess = [req[r].sess EXCEPT !.gen = req[r].sess.gen + 1]
      /\ req'[r].outcome = req[r].outcome
  BY <1>a DEF TypeOK, RequestState, Outcome
<1>1. LockInv'
  BY <1>a, <1>b DEF Rotated, LockInv, server
<1>2. NewInv'
  BY <1>a, <1>b DEF Rotated, Untouched, Known, Valid, NoSession, Tokens, LockInv, NewInv,
     ProcInv, HoldsInv, AuthedInv, FileInv, InflightInv, ReqInv, BusyInv, AdoptInv,
     RotateInv, RotatedInv, ExpiredInv, RejectedInv
<1>3. ProcInv'
  <2> SUFFICES ASSUME NEW q \in Proc
              PROVE  (HoldsInv(q) /\ AuthedInv(q))'
    BY DEF ProcInv
  <2>1. HoldsInv(q)'
    BY <1>a, <1>b DEF Rotated, ProcInv, HoldsInv, Known, Valid, NoSession, server
  <2>2. AuthedInv(q)'
    BY <1>a, <1>b DEF Rotated, Untouched, Known, Valid, NoSession, Tokens, LockInv, NewInv,
       ProcInv, HoldsInv, AuthedInv, FileInv, InflightInv, ReqInv, BusyInv, AdoptInv,
       RotateInv, RotatedInv, ExpiredInv, RejectedInv
  <2> QED
    BY <2>1, <2>2
<1>4. FileInv'
  BY <1>a, <1>b DEF Rotated, RefreshAccepted, TypeOK, Untouched, Known, Valid, NoSession,
     Tokens, LockInv, NewInv, ProcInv, HoldsInv, AuthedInv, FileInv, InflightInv, ReqInv,
     BusyInv, AdoptInv, RotateInv, RotatedInv, ExpiredInv, RejectedInv
<1>5. InflightInv'
  BY <1>a, <1>b DEF Rotated, InflightInv, server
<1>6. ReqInv'
  <2> SUFFICES ASSUME NEW x \in Request
              PROVE  (BusyInv(x) /\ AdoptInv(x) /\ RotateInv(x) /\ RotatedInv(x)
                        /\ ExpiredInv(x) /\ RejectedInv(x))'
    BY DEF ReqInv
  <2>1. BusyInv(x)'
    BY <1>a, <1>b DEF Rotated, ReqInv, BusyInv, Known, server, TypeOK, Valid, NoSession,
       Tokens, LockInv
  <2>2. AdoptInv(x)'
    BY <1>a, <1>b DEF Rotated, ReqInv, AdoptInv, Known, server, TypeOK, Valid, NoSession,
       Tokens, LockInv, BusyInv
  <2>3. RotateInv(x)'
    BY <1>a, <1>b DEF Rotated, ReqInv, RotateInv, server
  <2>4. RotatedInv(x)'
    BY <1>a, <1>b DEF Rotated, RefreshAccepted, TypeOK, Untouched, Known, Valid, NoSession,
       Tokens, LockInv, NewInv, ProcInv, HoldsInv, AuthedInv, FileInv, InflightInv, ReqInv,
       BusyInv, AdoptInv, RotateInv, RotatedInv, ExpiredInv, RejectedInv
  <2>5. ExpiredInv(x)'
    BY <1>a, <1>b DEF Rotated, ReqInv, ExpiredInv, TypeOK, Valid, NoSession, Tokens, Known,
       LockInv, BusyInv
  <2>6. RejectedInv(x)'
    BY <1>a, <1>b DEF Rotated, ReqInv, RejectedInv, Valid, server
  <2> QED
    BY <2>1, <2>2, <2>3, <2>4, <2>5, <2>6
<1> QED
  BY <1>1, <1>2, <1>3, <1>4, <1>5, <1>6

\* The saved token is refused only if the login is dead or lost a rotation.
LEMMA RotateRejectedStep ==
    ASSUME TypeOK, Assumptions, IInv, NEW r \in Request, RotateRejected(r)
    PROVE  LockInv' /\ NewInv' /\ ProcInv' /\ FileInv' /\ InflightInv' /\ ReqInv'
<1> USE Fields DEF IInv
<1>a. /\ req'[r] = Ended(req[r], "rejected")
      /\ \A x \in Request : x # r => req'[x] = req[x]
  BY DEF RotateRejected, Finish, TypeOK
<1>b. /\ req'[r].pc = "idle"
      /\ req'[r].tok.uid = req[r].tok.uid
      /\ req'[r].outcome = "rejected"
  BY <1>a, EndedTypes DEF TypeOK, RequestState, Outcome
<1>1. LockInv'
  BY <1>a, <1>b DEF RotateRejected, Finish, LockInv, server
<1>2. NewInv'
  BY <1>a, <1>b DEF RotateRejected, Finish, NewInv, Untouched, server
<1>3. ProcInv'
  <2> SUFFICES ASSUME NEW q \in Proc
              PROVE  (HoldsInv(q) /\ AuthedInv(q))'
    BY DEF ProcInv
  <2>1. HoldsInv(q)'
    BY <1>a, <1>b DEF RotateRejected, Finish, ProcInv, HoldsInv, Known, Valid, NoSession,
       server
  <2>2. AuthedInv(q)'
    BY <1>a, <1>b DEF RotateRejected, Finish, ProcInv, AuthedInv, Untouched, server
  <2> QED
    BY <2>1, <2>2
<1>4. FileInv'
  BY <1>a, <1>b DEF RotateRejected, FileInv, NoSession, server, TypeOK, Tokens, Known,
     LockInv, ReqInv, BusyInv
<1>5. InflightInv'
  BY <1>a, <1>b DEF RotateRejected, Finish, InflightInv, server
<1>6. ReqInv'
  <2> SUFFICES ASSUME NEW x \in Request
              PROVE  (BusyInv(x) /\ AdoptInv(x) /\ RotateInv(x) /\ RotatedInv(x)
                        /\ ExpiredInv(x) /\ RejectedInv(x))'
    BY DEF ReqInv
  <2>1. BusyInv(x)'
    BY <1>a, <1>b DEF RotateRejected, Finish, ReqInv, BusyInv, Known, server
  <2>2. AdoptInv(x)'
    BY <1>a, <1>b DEF RotateRejected, Finish, ReqInv, AdoptInv, Known, server
  <2>3. RotateInv(x)'
    BY <1>a, <1>b DEF RotateRejected, Finish, ReqInv, RotateInv, server
  <2>4. RotatedInv(x)'
    BY <1>a, <1>b DEF RotateRejected, Finish, ReqInv, RotatedInv, server
  <2>5. ExpiredInv(x)'
    BY <1>a, <1>b DEF RotateRejected, Finish, ReqInv, ExpiredInv, server
  <2>6. RejectedInv(x)'
    BY <1>a, <1>b DEF RotateRejected, RefreshAccepted, server, TypeOK, Untouched, Known,
       Valid, NoSession, Tokens, LockInv, NewInv, ProcInv, HoldsInv, AuthedInv, FileInv,
       InflightInv, ReqInv, BusyInv, AdoptInv, RotateInv, RotatedInv, ExpiredInv,
       RejectedInv
  <2> QED
    BY <2>1, <2>2, <2>3, <2>4, <2>5, <2>6
<1> QED
  BY <1>1, <1>2, <1>3, <1>4, <1>5, <1>6

\* An unanswered refresh may still be acted on: it is in flight.
LEMMA RotateUnansweredStep ==
    ASSUME TypeOK, Assumptions, IInv, NEW r \in Request, RotateUnanswered(r)
    PROVE  LockInv' /\ NewInv' /\ ProcInv' /\ FileInv' /\ InflightInv' /\ ReqInv'
<1> USE Fields DEF IInv
<1>a. /\ req'[r] = Ended(req[r], "error")
      /\ \A x \in Request : x # r => req'[x] = req[x]
  BY DEF RotateUnanswered, Finish, TypeOK
<1>b. /\ req'[r].pc = "idle"
      /\ req'[r].tok.uid = req[r].tok.uid
      /\ req'[r].outcome = "error"
  BY <1>a, EndedTypes DEF TypeOK, RequestState, Outcome
<1>1. LockInv'
  BY <1>a, <1>b DEF RotateUnanswered, Finish, LockInv, server
<1>2. NewInv'
  BY <1>a, <1>b DEF RotateUnanswered, server, Untouched, Known, Valid, NoSession, Tokens,
     LockInv, NewInv, ProcInv, HoldsInv, AuthedInv, FileInv, InflightInv, ReqInv, BusyInv,
     AdoptInv, RotateInv, RotatedInv, ExpiredInv, RejectedInv
<1>3. ProcInv'
  <2> SUFFICES ASSUME NEW q \in Proc
              PROVE  (HoldsInv(q) /\ AuthedInv(q))'
    BY DEF ProcInv
  <2>1. HoldsInv(q)'
    BY <1>a, <1>b DEF RotateUnanswered, Finish, ProcInv, HoldsInv, Known, Valid, NoSession,
       server
  <2>2. AuthedInv(q)'
    BY <1>a, <1>b DEF RotateUnanswered, server, Untouched, Known, Valid, NoSession, Tokens,
       LockInv, NewInv, ProcInv, HoldsInv, AuthedInv, FileInv, InflightInv, ReqInv, BusyInv,
       AdoptInv, RotateInv, RotatedInv, ExpiredInv, RejectedInv
  <2> QED
    BY <2>1, <2>2
<1>4. FileInv'
  BY <1>a, <1>b DEF RotateUnanswered, server, Untouched, Known, Valid, NoSession, Tokens,
     LockInv, NewInv, ProcInv, HoldsInv, AuthedInv, FileInv, InflightInv, ReqInv, BusyInv,
     AdoptInv, RotateInv, RotatedInv, ExpiredInv, RejectedInv
<1>5. InflightInv'
  BY <1>a, <1>b DEF RotateUnanswered, server, Untouched, Known, Valid, NoSession, Tokens,
     LockInv, NewInv, ProcInv, HoldsInv, AuthedInv, FileInv, InflightInv, ReqInv, BusyInv,
     AdoptInv, RotateInv, RotatedInv, ExpiredInv, RejectedInv
<1>6. ReqInv'
  <2> SUFFICES ASSUME NEW x \in Request
              PROVE  (BusyInv(x) /\ AdoptInv(x) /\ RotateInv(x) /\ RotatedInv(x)
                        /\ ExpiredInv(x) /\ RejectedInv(x))'
    BY DEF ReqInv
  <2>1. BusyInv(x)'
    BY <1>a, <1>b DEF RotateUnanswered, Finish, ReqInv, BusyInv, Known, server
  <2>2. AdoptInv(x)'
    BY <1>a, <1>b DEF RotateUnanswered, Finish, ReqInv, AdoptInv, Known, server
  <2>3. RotateInv(x)'
    BY <1>a, <1>b DEF RotateUnanswered, Finish, ReqInv, RotateInv, server
  <2>4. RotatedInv(x)'
    BY <1>a, <1>b DEF RotateUnanswered, RotatedInv, server, TypeOK, Valid, NoSession,
       Tokens, Known, LockInv, BusyInv
  <2>5. ExpiredInv(x)'
    BY <1>a, <1>b DEF RotateUnanswered, Finish, ReqInv, ExpiredInv, server
  <2>6. RejectedInv(x)'
    BY <1>a, <1>b DEF RotateUnanswered, Finish, ReqInv, RejectedInv, Valid, server
  <2> QED
    BY <2>1, <2>2, <2>3, <2>4, <2>5, <2>6
<1> QED
  BY <1>1, <1>2, <1>3, <1>4, <1>5, <1>6

\* The file catches up with the server.
LEMMA RefreshSaveStep ==
    ASSUME TypeOK, Assumptions, IInv, NEW r \in Request, RefreshSave(r)
    PROVE  LockInv' /\ NewInv' /\ ProcInv' /\ FileInv' /\ InflightInv' /\ ReqInv'
<1> USE Fields DEF IInv
<1>a. /\ req'[r] = [req[r] EXCEPT !.pc = "adopt"]
      /\ \A x \in Request : x # r => req'[x] = req[x]
  BY DEF RefreshSave, TypeOK
<1>b. /\ req'[r].pc = "adopt"
      /\ req'[r].tok = req[r].tok
      /\ req'[r].sess = req[r].sess
      /\ req'[r].outcome = req[r].outcome
  BY <1>a DEF TypeOK, RequestState, Outcome
<1>1. LockInv'
  BY <1>a, <1>b DEF RefreshSave, LockInv, server
<1>2. NewInv'
  BY <1>a, <1>b DEF RefreshSave, server, Untouched, Known, Valid, NoSession, Tokens,
     LockInv, NewInv, ProcInv, HoldsInv, AuthedInv, FileInv, InflightInv, ReqInv, BusyInv,
     AdoptInv, RotateInv, RotatedInv, ExpiredInv, RejectedInv
<1>3. ProcInv'
  <2> SUFFICES ASSUME NEW q \in Proc
              PROVE  (HoldsInv(q) /\ AuthedInv(q))'
    BY DEF ProcInv
  <2>1. HoldsInv(q)'
    BY <1>a, <1>b DEF RefreshSave, server, TypeOK, Known, Valid, NoSession, Tokens, LockInv,
       NewInv, ProcInv, HoldsInv, AuthedInv, FileInv, InflightInv, ReqInv, BusyInv,
       AdoptInv, RotateInv, RotatedInv, ExpiredInv, RejectedInv
  <2>2. AuthedInv(q)'
    BY <1>a, <1>b DEF RefreshSave, server, Untouched, Known, Valid, NoSession, Tokens,
       LockInv, NewInv, ProcInv, HoldsInv, AuthedInv, FileInv, InflightInv, ReqInv, BusyInv,
       AdoptInv, RotateInv, RotatedInv, ExpiredInv, RejectedInv
  <2> QED
    BY <2>1, <2>2
<1>4. FileInv'
  BY <1>a, <1>b DEF RefreshSave, server, Known, Valid, NoSession, Tokens, LockInv, NewInv,
     ProcInv, HoldsInv, AuthedInv, FileInv, InflightInv, ReqInv, BusyInv, AdoptInv,
     RotateInv, RotatedInv, ExpiredInv, RejectedInv
<1>5. InflightInv'
  BY <1>a, <1>b DEF RefreshSave, InflightInv, server
<1>6. ReqInv'
  <2> SUFFICES ASSUME NEW x \in Request
              PROVE  (BusyInv(x) /\ AdoptInv(x) /\ RotateInv(x) /\ RotatedInv(x)
                        /\ ExpiredInv(x) /\ RejectedInv(x))'
    BY DEF ReqInv
  <2>1. BusyInv(x)'
    BY <1>a, <1>b DEF RefreshSave, server, Known, Valid, NoSession, Tokens, LockInv, NewInv,
       ProcInv, HoldsInv, AuthedInv, FileInv, InflightInv, ReqInv, BusyInv, AdoptInv,
       RotateInv, RotatedInv, ExpiredInv, RejectedInv
  <2>2. AdoptInv(x)'
    BY <1>a, <1>b DEF RefreshSave, server, Known, Valid, NoSession, Tokens, LockInv, NewInv,
       ProcInv, HoldsInv, AuthedInv, FileInv, InflightInv, ReqInv, BusyInv, AdoptInv,
       RotateInv, RotatedInv, ExpiredInv, RejectedInv
  <2>3. RotateInv(x)'
    BY <1>a, <1>b DEF RefreshSave, RotateInv, TypeOK, Valid, NoSession, Tokens, Known,
       LockInv, BusyInv
  <2>4. RotatedInv(x)'
    BY <1>a, <1>b DEF RefreshSave, RotatedInv, TypeOK, Valid, NoSession, Tokens, Known,
       LockInv, BusyInv
  <2>5. ExpiredInv(x)'
    BY <1>a, <1>b DEF RefreshSave, ReqInv, ExpiredInv, server
  <2>6. RejectedInv(x)'
    BY <1>a, <1>b DEF RefreshSave, ReqInv, RejectedInv, Valid, server
  <2> QED
    BY <2>1, <2>2, <2>3, <2>4, <2>5, <2>6
<1> QED
  BY <1>1, <1>2, <1>3, <1>4, <1>5, <1>6

\* An unsaved rotation is lost.
LEMMA RefreshSaveFailsStep ==
    ASSUME TypeOK, Assumptions, IInv, NEW r \in Request, RefreshSaveFails(r)
    PROVE  LockInv' /\ NewInv' /\ ProcInv' /\ FileInv' /\ InflightInv' /\ ReqInv'
<1> USE Fields DEF IInv
<1>a. /\ req'[r] = Ended(req[r], "error")
      /\ \A x \in Request : x # r => req'[x] = req[x]
  BY DEF RefreshSaveFails, Finish, TypeOK
<1>b. /\ req'[r].pc = "idle"
      /\ req'[r].tok.uid = req[r].tok.uid
      /\ req'[r].outcome = "error"
  BY <1>a, EndedTypes DEF TypeOK, RequestState, Outcome
<1>1. LockInv'
  BY <1>a, <1>b DEF RefreshSaveFails, Finish, LockInv, server
<1>2. NewInv'
  BY <1>a, <1>b DEF RefreshSaveFails, server, Untouched, Known, Valid, NoSession, Tokens,
     LockInv, NewInv, ProcInv, HoldsInv, AuthedInv, FileInv, InflightInv, ReqInv, BusyInv,
     AdoptInv, RotateInv, RotatedInv, ExpiredInv, RejectedInv
<1>3. ProcInv'
  <2> SUFFICES ASSUME NEW q \in Proc
              PROVE  (HoldsInv(q) /\ AuthedInv(q))'
    BY DEF ProcInv
  <2>1. HoldsInv(q)'
    BY <1>a, <1>b DEF RefreshSaveFails, Finish, ProcInv, HoldsInv, Known, Valid, NoSession,
       server
  <2>2. AuthedInv(q)'
    BY <1>a, <1>b DEF RefreshSaveFails, server, Untouched, Known, Valid, NoSession, Tokens,
       LockInv, NewInv, ProcInv, HoldsInv, AuthedInv, FileInv, InflightInv, ReqInv, BusyInv,
       AdoptInv, RotateInv, RotatedInv, ExpiredInv, RejectedInv
  <2> QED
    BY <2>1, <2>2
<1>4. FileInv'
  BY <1>a, <1>b DEF RefreshSaveFails, server, Untouched, Known, Valid, NoSession, Tokens,
     LockInv, NewInv, ProcInv, HoldsInv, AuthedInv, FileInv, InflightInv, ReqInv, BusyInv,
     AdoptInv, RotateInv, RotatedInv, ExpiredInv, RejectedInv
<1>5. InflightInv'
  BY <1>a, <1>b DEF RefreshSaveFails, Finish, InflightInv, server
<1>6. ReqInv'
  <2> SUFFICES ASSUME NEW x \in Request
              PROVE  (BusyInv(x) /\ AdoptInv(x) /\ RotateInv(x) /\ RotatedInv(x)
                        /\ ExpiredInv(x) /\ RejectedInv(x))'
    BY DEF ReqInv
  <2>1. BusyInv(x)'
    BY <1>a, <1>b DEF RefreshSaveFails, Finish, ReqInv, BusyInv, Known, server
  <2>2. AdoptInv(x)'
    BY <1>a, <1>b DEF RefreshSaveFails, Finish, ReqInv, AdoptInv, Known, server
  <2>3. RotateInv(x)'
    BY <1>a, <1>b DEF RefreshSaveFails, Finish, ReqInv, RotateInv, server
  <2>4. RotatedInv(x)'
    BY <1>a, <1>b DEF RefreshSaveFails, RotatedInv, server, TypeOK, Valid, NoSession,
       Tokens, Known, LockInv, BusyInv
  <2>5. ExpiredInv(x)'
    BY <1>a, <1>b DEF RefreshSaveFails, Finish, ReqInv, ExpiredInv, server
  <2>6. RejectedInv(x)'
    BY <1>a, <1>b DEF RefreshSaveFails, Finish, ReqInv, RejectedInv, Valid, server
  <2> QED
    BY <2>1, <2>2, <2>3, <2>4, <2>5, <2>6
<1> QED
  BY <1>1, <1>2, <1>3, <1>4, <1>5, <1>6

\* The process takes over tokens that are known.
LEMMA SetSessionStep ==
    ASSUME TypeOK, Assumptions, IInv, NEW r \in Request, SetSession(r)
    PROVE  LockInv' /\ NewInv' /\ ProcInv' /\ FileInv' /\ InflightInv' /\ ReqInv'
<1> USE Fields DEF IInv
<1>a. /\ req'[r] = [req[r] EXCEPT !.pc = "send", !.tok = Tokens(req[r].sess), !.sess = NoSession, !.attempt = req[r].attempt + 1]
      /\ \A x \in Request : x # r => req'[x] = req[x]
  BY DEF SetSession, TypeOK
<1>b. /\ req'[r].pc = "send"
      /\ req'[r].tok = Tokens(req[r].sess)
      /\ req'[r].outcome = req[r].outcome
  BY <1>a DEF TypeOK, RequestState, Outcome
<1>1. LockInv'
  BY <1>a, <1>b DEF SetSession, LockInv, server
<1>2. NewInv'
  BY <1>a, <1>b DEF SetSession, NewInv, Untouched, server
<1>3. ProcInv'
  <2> SUFFICES ASSUME NEW q \in Proc
              PROVE  (HoldsInv(q) /\ AuthedInv(q))'
    BY DEF ProcInv
  <2>1. HoldsInv(q)'
    BY <1>a, <1>b DEF SetSession, server, TypeOK, Known, Valid, NoSession, Tokens, LockInv,
       NewInv, ProcInv, HoldsInv, AuthedInv, FileInv, InflightInv, ReqInv, BusyInv,
       AdoptInv, RotateInv, RotatedInv, ExpiredInv, RejectedInv
  <2>2. AuthedInv(q)'
    BY <1>a, <1>b DEF SetSession, server, Untouched, Known, Valid, NoSession, Tokens,
       LockInv, NewInv, ProcInv, HoldsInv, AuthedInv, FileInv, InflightInv, ReqInv, BusyInv,
       AdoptInv, RotateInv, RotatedInv, ExpiredInv, RejectedInv
  <2> QED
    BY <2>1, <2>2
<1>4. FileInv'
  BY <1>a, <1>b DEF SetSession, FileInv, Valid, NoSession, server
<1>5. InflightInv'
  BY <1>a, <1>b DEF SetSession, InflightInv, server
<1>6. ReqInv'
  <2> SUFFICES ASSUME NEW x \in Request
              PROVE  (BusyInv(x) /\ AdoptInv(x) /\ RotateInv(x) /\ RotatedInv(x)
                        /\ ExpiredInv(x) /\ RejectedInv(x))'
    BY DEF ReqInv
  <2>1. BusyInv(x)'
    BY <1>a, <1>b DEF SetSession, server, Known, Valid, NoSession, Tokens, LockInv, NewInv,
       ProcInv, HoldsInv, AuthedInv, FileInv, InflightInv, ReqInv, BusyInv, AdoptInv,
       RotateInv, RotatedInv, ExpiredInv, RejectedInv
  <2>2. AdoptInv(x)'
    BY <1>a, <1>b DEF SetSession, ReqInv, AdoptInv, Known, server
  <2>3. RotateInv(x)'
    BY <1>a, <1>b DEF SetSession, ReqInv, RotateInv, server
  <2>4. RotatedInv(x)'
    BY <1>a, <1>b DEF SetSession, ReqInv, RotatedInv, server
  <2>5. ExpiredInv(x)'
    BY <1>a, <1>b DEF SetSession, ReqInv, ExpiredInv, server
  <2>6. RejectedInv(x)'
    BY <1>a, <1>b DEF SetSession, server, Known, Valid, NoSession, Tokens, LockInv, NewInv,
       ProcInv, HoldsInv, AuthedInv, FileInv, InflightInv, ReqInv, BusyInv, AdoptInv,
       RotateInv, RotatedInv, ExpiredInv, RejectedInv
  <2> QED
    BY <2>1, <2>2, <2>3, <2>4, <2>5, <2>6
<1> QED
  BY <1>1, <1>2, <1>3, <1>4, <1>5, <1>6

-----------------------------------------------------------------------------
(* The invariant, and what follows from it.                                *)

\* IInv holds at the start: no session, no process, no request.
LEMMA InvInit == ASSUME Assumptions, Init PROVE IInv
<1>1. TypeOK
  BY IdleTypes DEF Init, TypeOK, Session, NoSession, ProcState
<1>2. \A r \in Request : req[r].pc = "idle" /\ req[r].outcome = "none"
  BY IdleTypes DEF Init
<1>3. LockInv /\ NewInv /\ FileInv /\ InflightInv /\ ReqInv
  BY <1>2 DEF Init, Assumptions, NoLoginAssumption, NoHolderAssumption, LockInv, NewInv,
     Untouched,
     FileInv, InflightInv, ReqInv, BusyInv, AdoptInv, RotateInv, RotatedInv, ExpiredInv,
     RejectedInv, Valid, NoSession
<1>4. ProcInv
  BY DEF Init, ProcInv, HoldsInv, AuthedInv, Valid, NoSession
<1> QED
  BY <1>1, <1>3, <1>4 DEF IInv

\* Every action, and a step that changes nothing, keeps IInv.
LEMMA InvStep == ASSUME Assumptions, IInv, [Next]_vars PROVE IInv'
<1>1. TypeOK /\ TypeOK'
  BY TypeStep DEF IInv
<1>2. CASE ServerNext
  BY <1>1, <1>2, ExpireStep, RevokeStep, LateRotationStep DEF ServerNext, IInv
<1>3. CASE \E p \in Proc : ProcNext(p)
  BY <1>1, <1>3, OpenStep, ExitStep, LoginSaveStep, SetKeyPassStep, LogoutLoadStep,
     LogoutClearStep, AuthenticateStep DEF ProcNext, IInv
<1>4. CASE \E r \in Request : RequestNext(r)
  BY <1>1, <1>4, StartStep, ServedStep, UnauthorizedStep, UnauthorizedAgainStep,
     ThrottledStep, FailsStep, GiveUpStep, RefreshRefuseStep, RefreshAdoptStep,
     RefreshRotateStep, RotatedStep, RotateRejectedStep, RotateUnansweredStep,
     RefreshSaveStep, RefreshSaveFailsStep, SetSessionStep DEF RequestNext, Sending,
     Refreshing, Rotating, IInv
<1>5. CASE UNCHANGED vars
  BY <1>1, <1>5 DEF vars, IInv, LockInv, NewInv, Untouched, ProcInv, HoldsInv, AuthedInv,
     Known,
     FileInv, InflightInv, ReqInv, BusyInv, AdoptInv, RotateInv, RotatedInv, ExpiredInv,
     RejectedInv, Valid
<1> QED
  BY <1>2, <1>3, <1>4, <1>5 DEF Next

\* What the constants satisfy.
LEMMA Constants == Assumptions
BY NoLoginAssumption, ProcOfAssumption, NoHolderAssumption, BoundsAssumption DEF Assumptions

\* The inductive invariant holds in every reachable state.
THEOREM Invariance == Spec => []IInv
<1>1. Init => IInv
  BY Constants, InvInit
<1>2. IInv /\ [Next]_vars => IInv'
  BY Constants, InvStep
<1> QED
  BY <1>1, <1>2, PTL DEF Spec

\* Every variable keeps its type, and no call of Do exceeds its attempts.
THEOREM TypeCorrect == Spec => []TypeOK
<1>1. IInv => TypeOK
  BY DEF IInv
<1> QED
  BY <1>1, Invariance, PTL

\* No refresh token is spent twice: because a rotating request holds the lock,
\* what it loaded is still the file, and the file is the server's newest
\* generation unless a rotation of that login was lost.
THEOREM SpendsOnce == Spec => []SingleUse
<1>1. IInv => SingleUse
  <2> SUFFICES ASSUME IInv, NEW r \in Request, req[r].pc = "rotate"
               PROVE  gen[req[r].sess.uid] = req[r].sess.gen \/ req[r].sess.uid \in lost
    BY DEF SingleUse
  <2>1. req[r].sess = file /\ Valid(file)
    BY DEF IInv, ReqInv, RotateInv, TypeOK, RequestOK
  <2>2. ~\E x \in Request : req[x].pc = "rotated" /\ lock = x
    BY DEF IInv, LockInv
  <2> QED
    BY <2>1, <2>2 DEF IInv, FileInv
<1> QED
  BY <1>1, Invariance, PTL

\* The file is at most one generation behind the server, and only while a
\* rotation is being saved or after one was lost.
THEOREM FileIsCurrent == Spec => []FileFollowsServer
<1>1. IInv => FileFollowsServer
  BY DEF IInv, FileInv, FileFollowsServer
<1> QED
  BY <1>1, Invariance, PTL

\* Tokens are in the file before any client or request uses them.
THEOREM SavesFirst == Spec => []SavedBeforeUse
<1>1. Assumptions /\ IInv => SavedBeforeUse
  <2> SUFFICES ASSUME Assumptions, IInv PROVE SavedBeforeUse
    OBVIOUS
  <2>1. ASSUME NEW p \in Proc, cached[p].uid = file.uid PROVE cached[p].gen <= file.gen
    <3>1. CASE Valid(cached[p])
      BY <2>1, <3>1 DEF IInv, ProcInv, HoldsInv, Known
    <3>2. CASE ~Valid(cached[p])
      BY <2>1, <3>2 DEF IInv, ProcInv, HoldsInv, FileInv, Valid, NoSession
    <3> QED
      BY <3>1, <3>2
  <2>2. ASSUME NEW r \in Request, req[r].pc = "send", req[r].tok.uid = file.uid
        PROVE  req[r].tok.gen <= file.gen
    BY <2>2 DEF IInv, ReqInv, BusyInv, Known
  <2> QED
    BY <2>1, <2>2 DEF SavedBeforeUse
<1> QED
  BY <1>1, Constants, Invariance, PTL

\* "Refresh token rejected" is only reported for a login that is dead or lost
\* a rotation.
THEOREM RejectsForGood == Spec => []RejectionIsFinal
<1>1. IInv => RejectionIsFinal
  BY DEF IInv, ReqInv, RejectedInv, RejectionIsFinal
<1> QED
  BY <1>1, Invariance, PTL

-----------------------------------------------------------------------------
(* What a step may do.                                                     *)

\* Only these two actions rotate a login's tokens.
LEMMA GenStep ==
    ASSUME Next, gen' # gen
    PROVE  (\E u \in Login : LateRotation(u)) \/ (\E r \in Request : Rotated(r))
BY DEF Next, ServerNext, ProcNext, RequestNext, Sending, Refreshing, Rotating, server,
   Expire, Revoke, Open, Exit, Authenticate, LoginSave, SetKeyPass, LogoutLoad, LogoutClear,
   Start, Served, Unauthorized, UnauthorizedAgain, Throttled, Fails, GiveUp, RefreshRefuse,
   RefreshAdopt, RefreshRotate, RotateRejected, RotateUnanswered, RefreshSave,
   RefreshSaveFails, SetSession

\* Tokens are rotated only after they expired: the request that rotates holds
\* the newest generation and got a 401 for it.
THEOREM RotatesExpired == Spec => NoWastedRotation
<1>1. ASSUME Assumptions, IInv, Next, NEW u \in Login, gen'[u] # gen[u] PROVE expired[u]
  <2> USE <1>1, Fields DEF IInv
  <2>1. CASE \E v \in Login : LateRotation(v)
    BY <2>1 DEF LateRotation, InflightInv, TypeOK
  <2>2. CASE \E r \in Request : Rotated(r)
    <3>1. PICK r \in Request : Rotated(r)
      BY <2>2
    <3>2. req[r].sess = file /\ file.uid = req[r].tok.uid /\ file.gen = req[r].tok.gen
      BY <3>1 DEF Rotated, ReqInv, RotateInv
    <3>3. u = file.uid /\ status[u] = "live" /\ gen[u] = file.gen
      BY <3>1, <3>2 DEF Rotated, RefreshAccepted, TypeOK
    <3> QED
      BY <3>1, <3>2, <3>3 DEF Rotated, ReqInv, ExpiredInv
  <2> QED
    BY <2>1, <2>2, GenStep
<1>2. Assumptions /\ IInv /\ [Next]_vars
         => [\A u \in Login : gen'[u] # gen[u] => expired[u]]_vars
  BY <1>1
<1> QED
  BY <1>2, Constants, Invariance, PTL DEF Spec, NoWastedRotation

\* Only these actions change a process's client without closing it.
LEMMA CachedStep ==
    ASSUME Assumptions, TypeOK, Next, NEW p \in Proc, Valid(cached'[p]), cached'[p] # cached[p]
    PROVE  \/ Open(p) \/ LogoutLoad(p) \/ \E u \in Login : Authenticate(p, u)
           \/ \E r \in Request : SetSession(r) /\ ProcOf[r] = p
<1>1. CASE \E q \in Proc : ProcNext(q)
  BY <1>1 DEF ProcNext, Open, Exit, LoginSave, SetKeyPass, LogoutLoad, LogoutClear,
     Authenticate, TypeOK, Valid, NoSession
<1>2. CASE ServerNext
  BY <1>2 DEF ServerNext, Expire, Revoke, LateRotation
<1>3. CASE \E r \in Request : RequestNext(r)
  BY <1>3 DEF Assumptions, ProcOfAssumption, TypeOK, server, RequestNext, Sending,
     Refreshing, Rotating, Start, Served, Unauthorized, UnauthorizedAgain, Throttled, Fails,
     GiveUp, RefreshRefuse, RefreshAdopt, RefreshRotate, Rotated, RotateRejected,
     RotateUnanswered, RefreshSave, RefreshSaveFails, SetSession
<1> QED
  BY <1>1, <1>2, <1>3 DEF Next

\* A client never goes over to another login: what a request adopts or rotates
\* is its own login's, and its own login is the client's.
THEOREM KeepsLogin == Spec => ClientKeepsLogin
<1>1. ASSUME Assumptions, IInv, Next, NEW p \in Proc, Valid(cached[p]), Valid(cached'[p])
      PROVE  cached'[p].uid = cached[p].uid
  <2> USE <1>1 DEF IInv
  <2>1. CASE proc[p] = "down"
    BY <2>1 DEF ProcInv, HoldsInv, Valid, NoSession
  <2>2. ASSUME NEW r \in Request, SetSession(r), ProcOf[r] = p
        PROVE  cached'[p].uid = cached[p].uid
    BY <2>2, Fields DEF SetSession, ReqInv, BusyInv, AdoptInv, TypeOK, Tokens, Session
  <2> QED
    BY <2>1, <2>2, CachedStep DEF Open, LogoutLoad, Authenticate
<1>2. Assumptions /\ IInv /\ [Next]_vars
         => [\A p \in Proc : Valid(cached[p]) /\ Valid(cached'[p])
                                => cached'[p].uid = cached[p].uid]_vars
  BY <1>1
<1> QED
  BY <1>2, Constants, Invariance, PTL DEF Spec, ClientKeepsLogin

\* Only these actions write session.json.
LEMMA FileStep ==
    ASSUME Next, file' # file
    PROVE  \/ \E p \in Proc : LoginSave(p) \/ SetKeyPass(p) \/ LogoutClear(p)
           \/ \E r \in Request : RefreshSave(r)
BY DEF Next, ServerNext, ProcNext, RequestNext, Sending, Refreshing, Rotating, server,
   LateRotation, Rotated, Expire, Revoke, Open, Exit, Authenticate, LogoutLoad, Start,
   Served, Unauthorized, UnauthorizedAgain, Throttled, Fails, GiveUp, RefreshRefuse,
   RefreshAdopt, RefreshRotate, RotateRejected, RotateUnanswered, RefreshSaveFails,
   SetSession

\* A login leaves the file only through the logout that read it.
THEOREM ClearsOwnLogin == Spec => ClearedOnlyByItsLogout
<1>1. ASSUME Assumptions, IInv, Next, Valid(file), ~Valid(file')
      PROVE  \E p \in Proc : proc[p] = "clear" /\ cached[p].uid = file.uid
  <2> USE <1>1, Fields DEF IInv
  <2>1. ASSUME NEW p \in Proc, LogoutClear(p)
        PROVE  proc[p] = "clear" /\ cached[p].uid = file.uid
    BY <2>1 DEF LogoutClear
  <2>2. ASSUME NEW p \in Proc, LoginSave(p) PROVE FALSE
    BY <2>2 DEF LoginSave, ProcInv, HoldsInv
  <2>3. ASSUME NEW p \in Proc, SetKeyPass(p) PROVE FALSE
    BY <2>3 DEF SetKeyPass, Valid
  <2>4. ASSUME NEW r \in Request, RefreshSave(r) PROVE FALSE
    BY <2>4 DEF RefreshSave, TypeOK, RequestOK
  <2> QED
    BY <2>1, <2>2, <2>3, <2>4, FileStep
<1>2. Assumptions /\ IInv /\ [Next]_vars
         => [Valid(file) /\ ~Valid(file') =>
                \E p \in Proc : proc[p] = "clear" /\ cached[p].uid = file.uid]_vars
  BY <1>1
<1> QED
  BY <1>2, Constants, Invariance, PTL DEF Spec, ClearedOnlyByItsLogout

-----------------------------------------------------------------------------
(* The refinement.                                                         *)

\* What leaves the new logins and the authenticated processes alone leaves
\* the fresh logins alone.
LEMMA FreshSame ==
    ASSUME \A u \in Login : status'[u] = "new" <=> status[u] = "new",
           \A p \in Proc : proc'[p] = "authed" <=> proc[p] = "authed",
           \A p \in Proc : proc[p] = "authed" => cached'[p].uid = cached[p].uid
    PROVE  FreshLogins' = FreshLogins
BY DEF FreshLogins

\* A fresh login is untouched, and not the file's.
LEMMA FreshUntouched ==
    ASSUME IInv, NEW u \in FreshLogins
    PROVE  Untouched(u)
BY DEF FreshLogins, IInv, NewInv, ProcInv, AuthedInv

\* The server's own steps: expiry and revocation are invisible, a late
\* rotation is a grant, of the file's login or of one that has left it.
LEMMA ServerRefines ==
    ASSUME Assumptions, IInv, ServerNext
    PROVE  Chain!ChainNext \/ UNCHANGED Chain!chainVars
<1> USE Fields DEF IInv
<1>1. ASSUME NEW u \in Login, Expire(u) PROVE UNCHANGED Chain!chainVars
  <2>1. FreshLogins' = FreshLogins
    BY <1>1, FreshSame DEF Expire
  <2> QED
    BY <1>1, <2>1 DEF Expire, Chain!chainVars
<1>2. ASSUME NEW u \in Login, Revoke(u) PROVE UNCHANGED Chain!chainVars
  <2>1. FreshLogins' = FreshLogins
    BY <1>2, FreshSame DEF Revoke, TypeOK
  <2> QED
    BY <1>2, <2>1 DEF Revoke, Chain!chainVars
<1>3. ASSUME NEW u \in Login, LateRotation(u) PROVE Chain!ChainNext
  <2>1. FreshLogins' = FreshLogins
    BY <1>3, FreshSame DEF LateRotation
  <2>2. u \notin FreshLogins
    BY <1>3, FreshUntouched DEF LateRotation, Untouched
  <2>3. CASE u = file.uid
    <3>1. Valid(file) /\ gen[file.uid] = file.gen
      BY <1>3, <2>3 DEF LateRotation, FileInv, Valid
    <3>2. Chain!Grant
      BY <1>3, <2>1, <2>3, <3>1 DEF LateRotation, Chain!Grant, Chain!Valid, Valid
    <3> QED
      BY <3>2 DEF Chain!ChainNext
  <2>4. CASE u # file.uid
    <3>1. Chain!GrantLate(u)
      BY <1>3, <2>1, <2>2, <2>4 DEF LateRotation, Chain!GrantLate
    <3> QED
      BY <3>1 DEF Chain!ChainNext
  <2> QED
    BY <2>3, <2>4
<1> QED
  BY <1>1, <1>2, <1>3 DEF ServerNext

\* A process signs in, abandons a login, stores a passphrase or signs out.
LEMMA ProcRefines ==
    ASSUME Assumptions, IInv, NEW p \in Proc, ProcNext(p)
    PROVE  Chain!ChainNext \/ UNCHANGED Chain!chainVars
<1> USE Fields DEF IInv
<1>1. CASE Open(p) \/ LogoutLoad(p)
  <2>1. FreshLogins' = FreshLogins
    BY <1>1, FreshSame DEF Open, LogoutLoad, TypeOK, server
  <2> QED
    BY <1>1, <2>1 DEF Open, LogoutLoad, Chain!chainVars, server
<1>2. CASE \E u \in Login : Authenticate(p, u)
  <2>1. FreshLogins' = FreshLogins
    BY <1>2 DEF Authenticate, FreshLogins, TypeOK, ProcInv, HoldsInv
  <2> QED
    BY <1>2, <2>1 DEF Authenticate, Chain!chainVars
<1>3. CASE LoginSave(p)
  <2> DEFINE u == cached[p].uid
  <2>1. /\ u \in Login /\ u \in FreshLogins /\ status[u] # "new"
        /\ cached[p] = [uid |-> u, gen |-> 0, key |-> NoLogin]
        /\ \A q \in Proc : cached[q].uid = u => q = p
    BY <1>3 DEF LoginSave, ProcInv, HoldsInv, AuthedInv, Known, Valid, FreshLogins
  <2>2. FreshLogins' = FreshLogins \ {u}
    BY <1>3, <2>1 DEF LoginSave, FreshLogins, TypeOK, server
  <2>3. Chain!SignIn(u)
    BY <1>3, <2>1, <2>2 DEF LoginSave, Chain!SignIn, server
  <2> QED
    BY <2>1, <2>3 DEF Chain!ChainNext
<1>4. CASE SetKeyPass(p)
  <2>1. FreshLogins' = FreshLogins
    BY <1>4, FreshSame DEF SetKeyPass, TypeOK, server
  <2>2. CASE file.uid = cached[p].uid
    <3>1. Valid(file)
      BY <1>4, <2>2 DEF SetKeyPass, ProcInv, HoldsInv, Valid
    <3>2. Chain!StoreKeyPass
      BY <1>4, <2>1, <2>2, <3>1 DEF SetKeyPass, Chain!StoreKeyPass, Chain!Valid, Valid, server
    <3> QED
      BY <3>2 DEF Chain!ChainNext
  <2>3. CASE file.uid # cached[p].uid
    BY <1>4, <2>1, <2>3 DEF SetKeyPass, Chain!chainVars, server
  <2> QED
    BY <2>2, <2>3
<1>5. CASE LogoutClear(p)
  <2>1. FreshLogins' = FreshLogins
    BY <1>5, FreshSame DEF LogoutClear, TypeOK, server
  <2>2. CASE file.uid = cached[p].uid
    <3>1. Chain!SignOut
      BY <1>5, <2>1, <2>2 DEF LogoutClear, Chain!SignOut, NoSession, Chain!NoSession, server
    <3> QED
      BY <3>1 DEF Chain!ChainNext
  <2>3. CASE file.uid # cached[p].uid
    BY <1>5, <2>1, <2>3 DEF LogoutClear, Chain!chainVars, server
  <2> QED
    BY <2>2, <2>3
<1>6. CASE Exit(p)
  <2>1. CASE proc[p] = "authed"
    <3> DEFINE u == cached[p].uid
    <3>1. /\ u \in Login /\ u \in FreshLogins /\ status[u] # "new"
          /\ \A q \in Proc : cached[q].uid = u => q = p
      BY <2>1 DEF ProcInv, HoldsInv, AuthedInv, Known, Valid, FreshLogins
    <3>2. FreshLogins' = FreshLogins \ {u}
      BY <1>6, <2>1, <3>1 DEF Exit, FreshLogins, TypeOK, server
    <3>3. Chain!Abandon(u)
      BY <1>6, <3>1, <3>2 DEF Exit, Chain!Abandon, server
    <3> QED
      BY <3>1, <3>3 DEF Chain!ChainNext
  <2>2. CASE proc[p] # "authed"
    <3>1. FreshLogins' = FreshLogins
      BY <1>6, <2>2, FreshSame DEF Exit, TypeOK, server
    <3> QED
      BY <1>6, <3>1 DEF Exit, Chain!chainVars, server
  <2> QED
    BY <2>1, <2>2
<1> QED
  BY <1>1, <1>2, <1>3, <1>4, <1>5, <1>6 DEF ProcNext

\* Of a request's steps the rotation is a grant and the save stores it; the
\* others are invisible.
LEMMA RequestRefines ==
    ASSUME Assumptions, IInv, NEW r \in Request, RequestNext(r)
    PROVE  Chain!ChainNext \/ UNCHANGED Chain!chainVars
<1> USE Fields DEF IInv
<1>1. CASE Rotated(r)
  <2>1. FreshLogins' = FreshLogins
    BY <1>1, FreshSame DEF Rotated
  <2>2. req[r].sess = file /\ Valid(file) /\ gen[file.uid] = file.gen
    BY <1>1 DEF Rotated, RefreshAccepted, ReqInv, RotateInv, TypeOK, RequestOK
  <2>3. Chain!Grant
    BY <1>1, <2>1, <2>2 DEF Rotated, Chain!Grant, Chain!Valid, Valid
  <2> QED
    BY <2>3 DEF Chain!ChainNext
<1>2. CASE RefreshSave(r)
  <2>1. FreshLogins' = FreshLogins
    BY <1>2, FreshSame DEF RefreshSave, server
  <2>2. /\ Valid(file) /\ gen[file.uid] = file.gen + 1
        /\ req[r].sess = [file EXCEPT !.gen = file.gen + 1]
    BY <1>2 DEF RefreshSave, ReqInv, RotatedInv, TypeOK, RequestOK, Valid
  <2>3. Chain!Store
    BY <1>2, <2>1, <2>2 DEF RefreshSave, Chain!Store, Chain!Valid, Valid, server
  <2> QED
    BY <2>3 DEF Chain!ChainNext
<1>3. CASE SetSession(r)
  <2>1. proc[ProcOf[r]] # "authed"
    BY <1>3 DEF SetSession, ReqInv, BusyInv
  <2>2. FreshLogins' = FreshLogins
    BY <1>3, <2>1, FreshSame DEF SetSession, TypeOK, server
  <2> QED
    BY <1>3, <2>2 DEF SetSession, Chain!chainVars, server
<1>4. CASE Start(r)
  <2>1. FreshLogins' = FreshLogins
    BY <1>4, FreshSame DEF Start, TypeOK, server
  <2> QED
    BY <1>4, <2>1 DEF Start, Chain!chainVars, server
<1>5. CASE Served(r)
  <2>1. FreshLogins' = FreshLogins
    BY <1>5, FreshSame DEF Served, AccessAccepted, TypeOK
  <2> QED
    BY <1>5, <2>1 DEF Served, Chain!chainVars
<1>6. ASSUME UNCHANGED <<status, gen, file, proc, cached>> PROVE UNCHANGED Chain!chainVars
  BY <1>6 DEF FreshLogins, Chain!chainVars
<1> QED
  BY <1>1, <1>2, <1>3, <1>4, <1>5, <1>6 DEF RequestNext, Sending, Refreshing, Rotating,
     server, Unauthorized, UnauthorizedAgain, Throttled, Fails, GiveUp, RefreshRefuse,
     RefreshAdopt, RefreshRotate, RotateRejected, RotateUnanswered, RefreshSaveFails

\* session.json is one chain of generations per login: whatever processes and
\* requests do, the file and the server move as SessionChain says.
THEOREM FileIsAChain == Spec => ImplementsSessionChain
<1>1. Init => Chain!ChainInit
  BY Constants DEF Init, Chain!ChainInit, FreshLogins, NoSession, Chain!NoSession
<1>2. Assumptions /\ IInv /\ [Next]_vars => [Chain!ChainNext]_(Chain!chainVars)
  <2>1. CASE Next
    BY <2>1, ServerRefines, ProcRefines, RequestRefines DEF Next
  <2>2. CASE UNCHANGED vars
    BY <2>2 DEF vars, FreshLogins, Chain!chainVars
  <2> QED
    BY <2>1, <2>2
<1> QED
  BY <1>1, <1>2, Constants, Invariance, PTL DEF Spec, ImplementsSessionChain, Chain!ChainSpec

=============================================================================
