------------------------ MODULE BootstrapCacheProofs ------------------------
(***************************************************************************)
(* Proofs about BootstrapCache, for any number of logins, processes,       *)
(* goroutines and keys.                                                    *)
(*                                                                         *)
(* That a process only uses its own login's responses needs the same of    *)
(* the file (with its scope), of what an updater loaded, and of a response *)
(* on its way.  That updates do not clobber each other needs that the file *)
(* stays as the lock's holder loaded it, but for a logout.                 *)
(***************************************************************************)
EXTENDS BootstrapCache, TLAPS

Assumptions == NoLoginAssumption /\ ProcOfAssumption /\ NoHolderAssumption

\* Entries that one login fetched.
Of(entries, u) == \A k \in Key : entries[k] \in {NoLogin, u}

DocInv == Of(doc.entries, doc.scope)

SnapInv == \A p \in Proc : Of(snap[p], scope[p])

\* A goroutine at work has a process that is up, and what it is going to store
\* is its process's own.
CallInv == \A c \in Call :
    /\ call[c].pc # "idle" => scope[ProcOf[c]] # NoLogin
    /\ call[c].pc \in {"put", "putting"} => call[c].val = scope[ProcOf[c]]

\* The lock's holder is updating; what it loaded is its login's, and still what
\* the file says if that has its scope.
WorkInv == \A c \in Call : flock = c =>
    /\ call[c].pc \in {"putting", "dropping"}
    /\ Of(work, scope[ProcOf[c]])
    /\ doc.scope = scope[ProcOf[c]] => work = doc.entries

IInv == TypeOK /\ DocInv /\ SnapInv /\ CallInv /\ WorkInv

-----------------------------------------------------------------------------
(* Types.                                                                  *)

\* The assumptions of the model, as one fact.
LEMMA Constants == Assumptions
BY NoLoginAssumption, ProcOfAssumption, NoHolderAssumption DEF Assumptions

\* What a goroutine's local state and its process's are.
LEMMA CallTypes ==
    ASSUME TypeOK, Assumptions, NEW c \in Call
    PROVE  /\ call[c] \in CallState /\ Idle \in CallState
           /\ ProcOf[c] \in Proc /\ scope[ProcOf[c]] \in Logins
           /\ Empty \in Entries /\ work \in Entries /\ snap[ProcOf[c]] \in Entries
           /\ doc.scope \in Logins /\ doc.entries \in Entries
BY DEF TypeOK, Assumptions, ProcOfAssumption, CallState, Idle, Pc, Logins, Empty, Entries

\* Whatever the file holds, a load yields entries of the login that loads.
LEMMA LoadDocTypes ==
    ASSUME TypeOK, DocInv, NEW u
    PROVE  LoadDoc(u) \in Entries /\ Of(LoadDoc(u), u)
BY DEF TypeOK, DocInv, LoadDoc, Of, Empty, Entries, Logins

\* An update changes entries within its login, and only its keys.
LEMMA AppliedTypes ==
    ASSUME TypeOK, CallInv, NEW c \in Call, NEW e \in Entries, Of(e, scope[ProcOf[c]]),
           call[c].pc \in {"put", "putting", "drop", "dropping"}, Assumptions
    PROVE  /\ Applied(c, e) \in Entries /\ Of(Applied(c, e), scope[ProcOf[c]])
           /\ \A k \in Key : k \notin call[c].keys => Applied(c, e)[k] = e[k]
<1>1. call[c].val \in Logins
  BY CallTypes DEF CallState
<1>2. Storing(c) => call[c].val = scope[ProcOf[c]]
  BY DEF CallInv, Storing
<1> QED
  BY <1>1, <1>2 DEF Applied, Of, Entries, Logins

\* Every action keeps the types.
LEMMA TypeStep == ASSUME IInv, Assumptions, [Next]_vars PROVE TypeOK'
<1> USE DEF IInv
<1>0. TypeOK /\ DocInv /\ CallInv
  OBVIOUS
<1>1. ASSUME NEW u \in Login, SignIn(u) PROVE TypeOK'
  BY <1>1, <1>0 DEF SignIn, TypeOK, Logins
<1>2. ASSUME Logout PROVE TypeOK'
  BY <1>2, <1>0 DEF Logout, TypeOK, Logins
<1>3. ASSUME ClearCache PROVE TypeOK'
  BY <1>3, <1>0 DEF ClearCache, TypeOK, NoDoc, Logins, Empty, Entries
<1>4. ASSUME NEW p \in Proc, OpenCache(p) PROVE TypeOK'
  BY <1>4, <1>0, LoadDocTypes DEF OpenCache, TypeOK, session
<1>5. ASSUME NEW p \in Proc, Exit(p) PROVE TypeOK'
  <2>1. Idle \in CallState /\ Empty \in Entries /\ NoLogin \in Logins
    BY DEF Idle, CallState, Pc, Logins, Empty, Entries
  <2> QED
    BY <1>5, <1>0, <2>1 DEF Exit, TypeOK, session, Calls, Idle, Assumptions
<1>6. ASSUME NEW c \in Call, CallNext(c) PROVE TypeOK'
  <2>0. /\ call[c] \in CallState /\ Idle \in CallState
        /\ ProcOf[c] \in Proc /\ scope[ProcOf[c]] \in Logins
        /\ Empty \in Entries /\ work \in Entries /\ snap[ProcOf[c]] \in Entries
    BY <1>0, CallTypes
  <2>1. ASSUME NEW k \in Key, GetMiss(c, k) PROVE TypeOK'
    BY <2>1, <2>0, <1>0 DEF GetMiss, TypeOK, session, CallState, Pc, Idle
  <2>2. ASSUME Fetched(c) PROVE TypeOK'
    BY <2>2, <2>0, <1>0 DEF Fetched, TypeOK, session, CallState, Pc
  <2>3. ASSUME FetchFails(c) PROVE TypeOK'
    BY <2>3, <2>0, <1>0 DEF FetchFails, TypeOK, session, Idle
  <2>4. ASSUME NEW keys \in (SUBSET Key) \ {{}}, Invalidate(c, keys) PROVE TypeOK'
    BY <2>4, <2>0, <1>0 DEF Invalidate, TypeOK, session, CallState, Pc, Idle
  <2>5. ASSUME UpdateBegins(c) PROVE TypeOK'
    <3>1. LoadDoc(scope[ProcOf[c]]) \in Entries
      BY <1>0, LoadDocTypes
    <3> QED
      BY <2>5, <3>1, <2>0, <1>0
         DEF UpdateBegins, Begun, TypeOK, session, CallState, Pc, Assumptions, NoHolderAssumption
  <2>6. ASSUME UpdateWrites(c) PROVE TypeOK'
    <3>1. Applied(c, work) \in Entries
      BY <2>6, <2>0, <1>0, AppliedTypes DEF UpdateWrites, Updating, WorkInv, TypeOK
    <3> QED
      BY <2>6, <3>1, <2>0, <1>0 DEF UpdateWrites, Updated, Updating, TypeOK, session, Idle
  <2>7. ASSUME UpdateWriteFails(c) PROVE TypeOK'
    <3>1. Applied(c, work) \in Entries
      BY <2>7, <2>0, <1>0, AppliedTypes DEF UpdateWriteFails, Updating, WorkInv, TypeOK
    <3> QED
      BY <2>7, <3>1, <2>0, <1>0 DEF UpdateWriteFails, Updated, Updating, TypeOK, session, Idle
  <2>8. ASSUME UpdateLockFails(c) PROVE TypeOK'
    <3>1. Applied(c, snap[ProcOf[c]]) \in Entries
      BY <2>8, <2>0, <1>0, AppliedTypes DEF UpdateLockFails, SnapInv
    <3> QED
      BY <2>8, <3>1, <2>0, <1>0 DEF UpdateLockFails, Updated, TypeOK, session, Idle
  <2> QED
    BY <1>6, <2>1, <2>2, <2>3, <2>4, <2>5, <2>6, <2>7, <2>8 DEF CallNext
<1>7. ASSUME UNCHANGED vars PROVE TypeOK'
  BY <1>7, <1>0 DEF vars, session, TypeOK
<1> QED
  BY <1>1, <1>2, <1>3, <1>4, <1>5, <1>6, <1>7 DEF Next

-----------------------------------------------------------------------------
(* The inductive invariant.                                                *)

\* Initially nothing is cached and nobody is at work.
LEMMA InvInit == Init => IInv
<1> SUFFICES ASSUME Init PROVE IInv
  OBVIOUS
<1>1. TypeOK
  BY Constants DEF Init, TypeOK, NoDoc, Logins, Empty, Entries, Idle, CallState, Pc
<1>2. DocInv /\ SnapInv
  BY DEF Init, DocInv, SnapInv, NoDoc, Empty, Of
<1>3. CallInv
  BY DEF Init, CallInv, Idle
<1>4. WorkInv
  BY Constants DEF Init, WorkInv, Assumptions, NoHolderAssumption
<1> QED
  BY <1>1, <1>2, <1>3, <1>4 DEF IInv

\* Beside the types, what an action keeps.
Kept == DocInv' /\ SnapInv' /\ CallInv' /\ WorkInv'

\* A goroutine that touches neither lock nor file moves on.
LEMMA MovesOn ==
    ASSUME IInv, NEW c \in Call, NEW s,
           call' = [call EXCEPT ![c] = s],
           scope[ProcOf[c]] # NoLogin, flock # c,
           s.pc \in {"put", "putting"} => s.val = scope[ProcOf[c]],
           UNCHANGED <<doc, flock, work, scope, snap>>
    PROVE  Kept
<1>1. DocInv' /\ SnapInv'
  BY DEF IInv, DocInv, SnapInv
<1>2. CallInv'
  BY DEF IInv, CallInv, TypeOK
<1>3. WorkInv'
  BY DEF IInv, WorkInv, TypeOK
<1> QED
  BY <1>1, <1>2, <1>3 DEF Kept

\* A goroutine is done with its update: it has dropped the lock, or never had it.
LEMMA IsDone ==
    ASSUME IInv, Assumptions, NEW c \in Call, NEW e \in Entries, Of(e, scope[ProcOf[c]]),
           call' = Updated(c), snap' = [snap EXCEPT ![ProcOf[c]] = e],
           UNCHANGED scope
    PROVE  SnapInv' /\ CallInv'
<1>1. SnapInv'
  BY CallTypes DEF IInv, SnapInv, TypeOK
<1>2. CallInv'
  BY DEF IInv, CallInv, TypeOK, Updated, Idle
<1> QED
  BY <1>1, <1>2

\* Every action keeps the inductive invariant.
LEMMA InvStep == ASSUME IInv, Assumptions, [Next]_vars PROVE IInv'
<1>0. TypeOK /\ DocInv /\ SnapInv /\ CallInv /\ WorkInv
  BY DEF IInv
<1>1. ASSUME NEW u \in Login, SignIn(u) PROVE Kept
  BY <1>1, <1>0 DEF SignIn, Kept, DocInv, SnapInv, CallInv, WorkInv
<1>2. ASSUME Logout PROVE Kept
  BY <1>2, <1>0 DEF Logout, Kept, DocInv, SnapInv, CallInv, WorkInv
<1>3. ASSUME ClearCache PROVE Kept
  <2>1. DocInv'
    BY <1>3 DEF ClearCache, DocInv, NoDoc, Empty, Of
  <2>2. SnapInv' /\ CallInv'
    BY <1>3, <1>0 DEF ClearCache, SnapInv, CallInv
  <2>3. WorkInv'
    \* The file's scope is no process's now, so nothing is asked of `work`.
    BY <1>3, <1>0 DEF ClearCache, WorkInv, CallInv, NoDoc
  <2> QED
    BY <2>1, <2>2, <2>3 DEF Kept
<1>4. ASSUME NEW p \in Proc, OpenCache(p) PROVE Kept
  <2>1. Of(LoadDoc(current), current)
    BY <1>0, LoadDocTypes
  <2>2. SnapInv'
    BY <1>4, <2>1, <1>0 DEF OpenCache, SnapInv, TypeOK
  <2>3. \A c \in Call : ProcOf[c] = p => call[c].pc = "idle"
    BY <1>4, <1>0 DEF OpenCache, CallInv
  <2>4. CallInv' /\ WorkInv'
    BY <1>4, <2>3, <1>0 DEF OpenCache, CallInv, WorkInv, TypeOK
  <2> QED
    BY <1>4, <2>2, <2>4, <1>0 DEF OpenCache, Kept, DocInv
<1>5. ASSUME NEW p \in Proc, Exit(p) PROVE Kept
  <2>1. SnapInv'
    BY <1>5, <1>0 DEF Exit, SnapInv, TypeOK, Of, Empty
  <2>2. CallInv'
    BY <1>5, <1>0 DEF Exit, CallInv, TypeOK, Idle
  <2>3. WorkInv'
    BY <1>5, <1>0 DEF Exit, WorkInv, TypeOK, Calls, Assumptions, NoHolderAssumption
  <2> QED
    BY <1>5, <2>1, <2>2, <2>3, <1>0 DEF Exit, Kept, DocInv
<1>6. ASSUME NEW c \in Call, CallNext(c) PROVE Kept
  <2>0. ProcOf[c] \in Proc /\ call[c] \in CallState
    BY <1>0, CallTypes
  <2>1. ASSUME NEW k \in Key, GetMiss(c, k) PROVE Kept
    BY <2>1, <2>0, <1>0, MovesOn DEF IInv, GetMiss, Ready, Idle, WorkInv
  <2>2. CASE Fetched(c)
    <3> DEFINE s == [call[c] EXCEPT !.pc = "put", !.val = scope[ProcOf[c]]]
    <3>1. s.val = scope[ProcOf[c]] /\ call' = [call EXCEPT ![c] = s]
      BY <2>2, <2>0, <1>0 DEF Fetched, CallState, TypeOK
    <3>2. flock # c /\ scope[ProcOf[c]] # NoLogin
      BY <2>2, <1>0 DEF Fetched, WorkInv, CallInv
    <3> QED
      BY <2>2, <3>1, <3>2, MovesOn DEF Fetched
  <2>3. CASE FetchFails(c)
    BY <2>3, <1>0, MovesOn DEF FetchFails, Idle, WorkInv, CallInv
  <2>4. ASSUME NEW keys \in (SUBSET Key) \ {{}}, Invalidate(c, keys) PROVE Kept
    BY <2>4, <2>0, <1>0, MovesOn DEF Invalidate, Ready, Idle, WorkInv
  <2>5. CASE UpdateBegins(c)
    <3>1. LoadDoc(scope[ProcOf[c]]) \in Entries /\ Of(LoadDoc(scope[ProcOf[c]]), scope[ProcOf[c]])
      BY <1>0, LoadDocTypes
    <3>2. DocInv' /\ SnapInv'
      BY <2>5, <1>0 DEF UpdateBegins, DocInv, SnapInv
    <3>3. CallInv'
      BY <2>5, <2>0, <1>0 DEF UpdateBegins, Begun, CallInv, TypeOK, CallState
    <3>4. WorkInv'
      BY <2>5, <3>1, <2>0, <1>0 DEF UpdateBegins, Begun, WorkInv, TypeOK, CallState, LoadDoc
    <3> QED
      BY <3>2, <3>3, <3>4 DEF Kept
  <2>6. CASE UpdateWrites(c)
    <3>1. flock = c /\ work \in Entries /\ Of(work, scope[ProcOf[c]])
      BY <2>6, <1>0 DEF UpdateWrites, Updating, TypeOK, WorkInv
    <3>2. Applied(c, work) \in Entries /\ Of(Applied(c, work), scope[ProcOf[c]])
      BY <2>6, <3>1, <1>0, AppliedTypes DEF UpdateWrites, Updating
    <3>3. SnapInv' /\ CallInv'
      BY <2>6, <3>2, IsDone DEF UpdateWrites
    <3>4. DocInv'
      BY <2>6, <3>2 DEF UpdateWrites, DocInv
    <3>5. WorkInv'
      BY <2>6 DEF UpdateWrites, WorkInv, Assumptions, NoHolderAssumption
    <3> QED
      BY <3>3, <3>4, <3>5 DEF Kept
  <2>7. CASE UpdateWriteFails(c)
    <3>1. flock = c /\ work \in Entries /\ Of(work, scope[ProcOf[c]])
      BY <2>7, <1>0 DEF UpdateWriteFails, Updating, TypeOK, WorkInv
    <3>2. Applied(c, work) \in Entries /\ Of(Applied(c, work), scope[ProcOf[c]])
      BY <2>7, <3>1, <1>0, AppliedTypes DEF UpdateWriteFails, Updating
    <3>3. SnapInv' /\ CallInv'
      BY <2>7, <3>2, IsDone DEF UpdateWriteFails
    <3>4. DocInv' /\ WorkInv'
      BY <2>7, <1>0 DEF UpdateWriteFails, DocInv, WorkInv, Assumptions, NoHolderAssumption
    <3> QED
      BY <3>3, <3>4 DEF Kept
  <2>8. CASE UpdateLockFails(c)
    <3>1. flock # c /\ snap[ProcOf[c]] \in Entries /\ Of(snap[ProcOf[c]], scope[ProcOf[c]])
      BY <2>8, <2>0, <1>0 DEF UpdateLockFails, TypeOK, WorkInv, SnapInv
    <3>2. /\ Applied(c, snap[ProcOf[c]]) \in Entries
          /\ Of(Applied(c, snap[ProcOf[c]]), scope[ProcOf[c]])
      BY <2>8, <3>1, <1>0, AppliedTypes DEF UpdateLockFails
    <3>3. SnapInv' /\ CallInv'
      BY <2>8, <3>2, IsDone DEF UpdateLockFails
    <3>4. DocInv' /\ WorkInv'
      BY <2>8, <3>1, <1>0 DEF UpdateLockFails, Updated, DocInv, WorkInv, TypeOK
    <3> QED
      BY <3>3, <3>4 DEF Kept
  <2> QED
    BY <1>6, <2>1, <2>2, <2>3, <2>4, <2>5, <2>6, <2>7, <2>8 DEF CallNext
<1>7. ASSUME UNCHANGED vars PROVE Kept
  BY <1>7, <1>0 DEF vars, session, Kept, DocInv, SnapInv, CallInv, WorkInv
<1>8. Kept
  BY <1>1, <1>2, <1>3, <1>4, <1>5, <1>6, <1>7 DEF Next
<1> QED
  BY <1>8, TypeStep DEF IInv, Kept

\* The inductive invariant holds in every reachable state.
THEOREM Invariance == Spec => []IInv
<1>1. IInv /\ [Next]_vars => IInv'
  BY Constants, InvStep
<1> QED
  BY InvInit, <1>1, PTL DEF Spec

-----------------------------------------------------------------------------
(* The properties.                                                         *)

\* Every variable keeps its type, and only the lock's holder updates the file.
THEOREM TypeCorrect == Spec => []TypeOK
<1>1. IInv => TypeOK
  BY DEF IInv
<1> QED
  BY <1>1, Invariance, PTL

\* No process, however old, uses a response that another login fetched.
THEOREM UsesOwnLogin == Spec => []OwnSessionOnly
<1>1. IInv => OwnSessionOnly
  BY DEF IInv, SnapInv, Of, OwnSessionOnly
<1> QED
  BY <1>1, Invariance, PTL

\* What a step may do to the file's entries.
LEMMA KeepsOtherKeys ==
    ASSUME IInv, Assumptions, [Next]_vars, NEW k \in Key,
           doc'.scope = doc.scope, doc'.entries[k] # doc.entries[k]
    PROVE  \E c \in Call : Updating(c) /\ k \in call[c].keys
<1>0. TypeOK /\ DocInv /\ CallInv /\ WorkInv
  BY DEF IInv
<1>1. ~ClearCache
  \* The file would have no scope, before as after: it would be empty already.
  BY <1>0 DEF ClearCache, DocInv, Of, NoDoc, Empty
<1>2. \E c \in Call : UpdateWrites(c)
  BY <1>1 DEF Next, vars, session, SignIn, Logout, OpenCache, Exit, CallNext, GetMiss, Fetched,
              FetchFails, Invalidate, UpdateBegins, UpdateWriteFails, UpdateLockFails
<1>3. PICK c \in Call : UpdateWrites(c)
  BY <1>2
<1>4. flock = c /\ work \in Entries /\ Of(work, scope[ProcOf[c]])
  BY <1>3, <1>0 DEF UpdateWrites, Updating, TypeOK, WorkInv
<1>5. work = doc.entries /\ doc'.entries = Applied(c, work)
  BY <1>3, <1>4, <1>0 DEF UpdateWrites, WorkInv
<1>6. k \in call[c].keys
  BY <1>3, <1>4, <1>5, <1>0, AppliedTypes DEF UpdateWrites, Updating
<1> QED
  BY <1>3, <1>6 DEF UpdateWrites

\* An update changes no key but its own.
THEOREM UpdatesOwnKeys == Spec => NoLostUpdate
<1>1. IInv /\ [Next]_vars =>
         [\A k \in Key : doc'.scope = doc.scope /\ doc'.entries[k] # doc.entries[k]
                         => \E c \in Call : Updating(c) /\ k \in call[c].keys]_vars
  BY Constants, KeepsOtherKeys
<1> QED
  BY <1>1, Invariance, PTL DEF Spec, NoLostUpdate
=============================================================================
