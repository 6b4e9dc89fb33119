--------------------------- MODULE BootstrapCache ---------------------------
(***************************************************************************)
(* cache.json and the processes that read bootstrap responses through it.  *)
(*                                                                         *)
(* Each process reads the file once, when it opens the cache, and answers  *)
(* its reads from that snapshot.  An update (Put after a network fetch, or *)
(* Delete) takes the file lock, reloads the file, changes it, and replaces *)
(* both snapshot and file; the lock is held between the reload and the     *)
(* write, so they are two steps.  The lock's holder also holds its         *)
(* process's mutex, and reads of that process wait.  Logout removes the    *)
(* file without taking the lock.                                           *)
(*                                                                         *)
(* What a response says is immaterial here: an entry is the login it was   *)
(* fetched with.  Time is not modelled: an entry may be past its TTL.      *)
(***************************************************************************)

CONSTANTS Login,     \* session UIDs (the cache's scope, with one base URL)
          NoLogin,
          Proc,      \* processes: commands and MCP servers
          Call,      \* goroutines of the processes
          ProcOf,    \* ProcOf[c]: the process goroutine c runs in
          Key,       \* cacheable paths
          NoHolder   \* the file lock is free

ASSUME NoLoginAssumption == NoLogin \notin Login
ASSUME ProcOfAssumption == ProcOf \in [Call -> Proc]
ASSUME NoHolderAssumption == NoHolder \notin Call

VARIABLES current,   \* the login in session.json
          fresh,     \* logins not issued yet
          clearing,  \* a logout has cleared the session but not yet the cache
          doc,       \* cache.json
          flock,     \* who holds cache.lock
          work,      \* the entries the holder loaded
          scope,     \* the login each process works with; NoLogin when down
          snap,      \* each process's snapshot of the entries
          call       \* local state of the goroutines

session == <<current, fresh, clearing>>
vars == <<session, doc, flock, work, scope, snap, call>>

Logins == Login \cup {NoLogin}
Entries == [Key -> Logins]           \* NoLogin: no entry
Empty == [k \in Key |-> NoLogin]
NoDoc == [scope |-> NoLogin, entries |-> Empty]

Pc == {"idle", "fetch", "put", "putting", "drop", "dropping"}
CallState == [pc : Pc, keys : SUBSET Key, val : Logins]
Idle == [pc |-> "idle", keys |-> {}, val |-> NoLogin]
Calls(p) == {c \in Call : ProcOf[c] = p}

\* Types, and at most one update at a time between its reload and its write.
TypeOK ==
    /\ current \in Logins /\ fresh \in SUBSET Login /\ clearing \in BOOLEAN
    /\ doc \in [scope : Logins, entries : Entries]
    /\ flock \in Call \cup {NoHolder}
    /\ work \in Entries
    /\ scope \in [Proc -> Logins]
    /\ snap \in [Proc -> Entries]
    /\ call \in [Call -> CallState]
    /\ \A c \in Call : call[c].pc \in {"putting", "dropping"} => flock = c

Init ==
    /\ current = NoLogin /\ fresh = Login /\ clearing = FALSE
    /\ doc = NoDoc
    /\ flock = NoHolder /\ work = Empty
    /\ scope = [p \in Proc |-> NoLogin]
    /\ snap = [p \in Proc |-> Empty]
    /\ call = [c \in Call |-> Idle]

-----------------------------------------------------------------------------
(* Logins and logouts.                                                     *)

SignIn(u) ==
    /\ u \in fresh
    /\ current' = u /\ fresh' = fresh \ {u}
    /\ UNCHANGED <<clearing, doc, flock, work, scope, snap, call>>

Logout ==
    /\ current' = NoLogin /\ clearing' = TRUE
    /\ UNCHANGED <<fresh, doc, flock, work, scope, snap, call>>

\* If the removal fails, or logout is killed before it, `clearing` stays TRUE.
ClearCache ==
    /\ clearing
    /\ doc' = NoDoc /\ clearing' = FALSE
    /\ UNCHANGED <<current, fresh, flock, work, scope, snap, call>>

-----------------------------------------------------------------------------
(* Processes.                                                              *)

\* Seeded fault: the file's scope is not looked at.
LoadDocOfAnyScope(u) == doc.entries

\* A missing, corrupt or foreign-scoped file loads as an empty one.
LoadDoc(u) == IF doc.scope = u THEN doc.entries ELSE Empty

OpenCache(p) ==
    /\ scope[p] = NoLogin /\ current # NoLogin
    /\ scope' = [scope EXCEPT ![p] = current]
    /\ snap' = [snap EXCEPT ![p] = LoadDoc(current)]
    /\ UNCHANGED <<session, doc, flock, work, call>>

\* The process ends at any point; the operating system drops its lock.
Exit(p) ==
    /\ scope[p] # NoLogin
    /\ scope' = [scope EXCEPT ![p] = NoLogin]
    /\ snap' = [snap EXCEPT ![p] = Empty]
    /\ call' = [c \in Call |-> IF ProcOf[c] = p THEN Idle ELSE call[c]]
    /\ flock' = IF flock \in Calls(p) THEN NoHolder ELSE flock
    /\ work' = IF flock \in Calls(p) THEN Empty ELSE work
    /\ UNCHANGED <<session, doc>>

-----------------------------------------------------------------------------
(* cachedAPI.Get and cachedAPI.invalidate.  A hit only reads the snapshot;  *)
(* what the hits of one process mean to it is the subject of KeyHealing.   *)

MutexFree(p) == flock \notin Calls(p)
Ready(c) == call[c].pc = "idle" /\ scope[ProcOf[c]] # NoLogin

\* No entry, one past its TTL, or a read that bypasses the cache: a fetch.
GetMiss(c, k) ==
    /\ Ready(c) /\ MutexFree(ProcOf[c])
    /\ call' = [call EXCEPT ![c] = [Idle EXCEPT !.pc = "fetch", !.keys = {k}]]
    /\ UNCHANGED <<session, doc, flock, work, scope, snap>>

\* The response arrives; after a logout, one may still be on its way.
Fetched(c) ==
    /\ call[c].pc = "fetch"
    /\ call' = [call EXCEPT ![c].pc = "put", ![c].val = scope[ProcOf[c]]]
    /\ UNCHANGED <<session, doc, flock, work, scope, snap>>

FetchFails(c) ==
    /\ call[c].pc = "fetch"
    /\ call' = [call EXCEPT ![c] = Idle]
    /\ UNCHANGED <<session, doc, flock, work, scope, snap>>

\* cachedAPI.invalidate deletes keys.
Invalidate(c, keys) ==
    /\ Ready(c)
    /\ call' = [call EXCEPT ![c] = [Idle EXCEPT !.pc = "drop", !.keys = keys]]
    /\ UNCHANGED <<session, doc, flock, work, scope, snap>>

-----------------------------------------------------------------------------
(* Cache.update, for Put and Delete.                                       *)

Storing(c) == call[c].pc \in {"put", "putting"}
Updating(c) == call[c].pc \in {"putting", "dropping"}
Begun(c) == [call EXCEPT ![c].pc = IF @ = "put" THEN "putting" ELSE "dropping"]

\* Seeded fault: the update starts from the snapshot, not from the file.
UpdateBeginsFromSnapshot(c) ==
    /\ call[c].pc \in {"put", "drop"} /\ flock = NoHolder
    /\ flock' = c /\ work' = snap[ProcOf[c]]
    /\ call' = Begun(c)
    /\ UNCHANGED <<session, doc, scope, snap>>

\* Seeded fault: no file lock is taken, only the process's mutex.
UpdateBeginsUnlocked(c) ==
    /\ call[c].pc \in {"put", "drop"} /\ MutexFree(ProcOf[c])
    /\ flock' = c /\ work' = IF flock = NoHolder THEN LoadDoc(scope[ProcOf[c]]) ELSE work
    /\ call' = Begun(c)
    /\ UNCHANGED <<session, doc, scope, snap>>

\* With the mutex and the lock, the file is loaded again.
UpdateBegins(c) ==
    /\ call[c].pc \in {"put", "drop"} /\ flock = NoHolder
    /\ flock' = c /\ work' = LoadDoc(scope[ProcOf[c]])
    /\ call' = Begun(c)
    /\ UNCHANGED <<session, doc, scope, snap>>

\* What the update makes of the entries.
Applied(c, entries) ==
    [k \in Key |-> IF k \notin call[c].keys THEN entries[k]
                   ELSE IF Storing(c) THEN call[c].val ELSE NoLogin]

Updated(c) == [call EXCEPT ![c] = Idle]

\* Snapshot and file become the changed entries.
UpdateWrites(c) ==
    /\ Updating(c)
    /\ snap' = [snap EXCEPT ![ProcOf[c]] = Applied(c, work)]
    /\ doc' = [scope |-> scope[ProcOf[c]], entries |-> Applied(c, work)]
    /\ call' = Updated(c)
    /\ flock' = NoHolder /\ work' = Empty
    /\ UNCHANGED <<session, scope>>

\* The write fails, quietly: only the snapshot changes.
UpdateWriteFails(c) ==
    /\ Updating(c)
    /\ snap' = [snap EXCEPT ![ProcOf[c]] = Applied(c, work)]
    /\ call' = Updated(c)
    /\ flock' = NoHolder /\ work' = Empty
    /\ UNCHANGED <<session, doc, scope>>

\* The lock cannot be had: only the snapshot changes.
UpdateLockFails(c) ==
    /\ call[c].pc \in {"put", "drop"} /\ MutexFree(ProcOf[c])
    /\ snap' = [snap EXCEPT ![ProcOf[c]] = Applied(c, snap[ProcOf[c]])]
    /\ call' = Updated(c)
    /\ UNCHANGED <<session, doc, flock, work, scope>>

-----------------------------------------------------------------------------

CallNext(c) ==
    \/ \E k \in Key : GetMiss(c, k)
    \/ Fetched(c) \/ FetchFails(c)
    \/ \E keys \in (SUBSET Key) \ {{}} : Invalidate(c, keys)
    \/ UpdateBegins(c) \/ UpdateWrites(c) \/ UpdateWriteFails(c) \/ UpdateLockFails(c)

Next ==
    \/ \E u \in Login : SignIn(u)
    \/ Logout \/ ClearCache
    \/ \E p \in Proc : OpenCache(p) \/ Exit(p)
    \/ \E c \in Call : CallNext(c)

Spec == Init /\ [][Next]_vars

-----------------------------------------------------------------------------
(* Properties.                                                             *)

\* A process never works with a response another login fetched, however
\* logins, logouts, old MCP servers and their late writes interleave
\* (README.md:202-203 "scoped to the session (re-login discards it)").
OwnSessionOnly == \A p \in Proc, k \in Key : snap[p][k] \in {NoLogin, scope[p]}

\* Processes that cache different keys do not clobber each other (the comment
\* of Cache.Put): an update of the file changes, apart from foreign-scoped
\* content it replaces, only the keys it is about.
NoLostUpdate ==
    [][\A k \in Key :
          doc'.scope = doc.scope /\ doc'.entries[k] # doc.entries[k]
          => \E c \in Call : Updating(c) /\ k \in call[c].keys]_vars

\* What ClearCache's comment says of logout: it leaves no key material behind.
LogoutLeavesNothing == current = NoLogin /\ ~clearing => doc.entries = Empty
=============================================================================
