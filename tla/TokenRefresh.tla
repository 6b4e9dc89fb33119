---------------------------- MODULE TokenRefresh ----------------------------
(***************************************************************************)
(* Processes (CLI commands, login, logout, a long-running MCP server) that *)
(* share session.json, and the API requests their goroutines make.         *)
(*                                                                         *)
(* A session's two tokens rotate together, so a token pair is the number   *)
(* of rotations that produced it: generation g is accepted as an access    *)
(* token while g is the newest generation and has not expired, and as a    *)
(* refresh token while g is the newest generation (refresh tokens are      *)
(* single-use).  The key passphrase is the login it was derived under.     *)
(*                                                                         *)
(* Load, Save, SetKeyPass, Clear, and Refresh's early returns hold the     *)
(* file lock for one step each, so they are one action guarded by a free   *)
(* lock.  Refresh keeps the lock across the HTTP exchange with the server: *)
(* there `lock` names the request that holds it.                           *)
(***************************************************************************)
EXTENDS Naturals

CONSTANTS Login,      \* the UIDs the server can hand out, one per login
          NoLogin,    \* the empty UID
          Proc,       \* operating-system processes
          Request,    \* request slots: the goroutines that call Client.Do
          ProcOf,     \* ProcOf[r]: the process request r runs in
          NoHolder,   \* the lock is free
          MaxGen,     \* bound: access tokens up to this generation expire
          MaxRateLimitRetries

ASSUME NoLoginAssumption == NoLogin \notin Login
ASSUME ProcOfAssumption == ProcOf \in [Request -> Proc]
ASSUME NoHolderAssumption == NoHolder \notin Request
ASSUME BoundsAssumption == MaxGen \in Nat /\ MaxRateLimitRetries \in Nat

VARIABLES status,   \* server: "new" (never issued), "live" or "dead" (revoked)
          gen,      \* server: the newest token generation of each login
          expired,  \* server: has the newest access token expired
          file,     \* session.json
          lock,     \* the flock on the session lock file
          proc,     \* what each process is doing
          cached,   \* Client.sess of each process, or what it will make it
          req,      \* each request's local state
          inflight, \* logins whose newest refresh token sits in a request that
                    \* nobody waits for any more; the server may still act on it
          lost      \* history: logins a rotation of which never reached the file

server == <<status, gen, expired>>
vars == <<status, gen, expired, file, lock, proc, cached, req, inflight, lost>>

Session == [uid : Login \cup {NoLogin}, gen : Nat, key : Login \cup {NoLogin}]
NoSession == [uid |-> NoLogin, gen |-> 0, key |-> NoLogin]
Valid(s) == s.uid # NoLogin
Tokens(s) == [s EXCEPT !.key = NoLogin]

ProcState == {"down", "up", "authed", "login", "clear", "revoke", "revoking"}
Pc == {"idle", "send", "lock", "rotate", "rotated", "adopt"}
Outcome == {"none", "ok", "error", "unauthorized", "refused", "rejected"}

\* tok: the tokens in use; sess: the session Refresh loaded, and returns; via:
\* how Refresh came by it ("none" until Do's one refresh, its `refreshed`).
RequestState == [pc : Pc, tok : Session, sess : Session, via : {"none", "adopt", "rotate"},
                 attempt : Nat, outcome : Outcome]
Idle == [pc |-> "idle", tok |-> NoSession, sess |-> NoSession,
         via |-> "none", attempt |-> 0, outcome |-> "none"]

Requests(p) == {r \in Request : ProcOf[r] = p}
AccessAccepted(s) ==
    status[s.uid] = "live" /\ gen[s.uid] = s.gen /\ ~expired[s.uid]
RefreshAccepted(s) == status[s.uid] = "live" /\ gen[s.uid] = s.gen

\* Do's one refresh takes an attempt of its own beside the rate-limit retries.
AttemptBounded(q) ==
    \/ q.attempt <= MaxRateLimitRetries
    \/ q.attempt = MaxRateLimitRetries + 1 /\ q.pc = "send" /\ q.via # "none"

RequestOK(q) ==
    /\ AttemptBounded(q)
    /\ q.pc \in {"rotate", "rotated", "adopt"} => Valid(q.sess) /\ q.via # "none"

\* Types, and how often one call of Do can send its request (papi.go:203-250).
TypeOK ==
    /\ status \in [Login -> {"new", "live", "dead"}]
    /\ gen \in [Login -> Nat]
    /\ expired \in [Login -> BOOLEAN]
    /\ file \in Session
    /\ lock \in Request \cup {NoHolder}
    /\ proc \in [Proc -> ProcState]
    /\ cached \in [Proc -> Session]
    /\ req \in [Request -> RequestState]
    /\ \A r \in Request : RequestOK(req[r])
    /\ inflight \in SUBSET Login
    /\ lost \in SUBSET Login

Init ==
    /\ status = [u \in Login |-> "new"]
    /\ gen = [u \in Login |-> 0]
    /\ expired = [u \in Login |-> FALSE]
    /\ file = NoSession
    /\ lock = NoHolder
    /\ proc = [p \in Proc |-> "down"]
    /\ cached = [p \in Proc |-> NoSession]
    /\ req = [r \in Request |-> Idle]
    /\ inflight = {}
    /\ lost = {}

-----------------------------------------------------------------------------
(* The server on its own.                                                  *)

Expire(u) ==
    /\ status[u] = "live" /\ ~expired[u] /\ gen[u] < MaxGen
    /\ expired' = [expired EXCEPT ![u] = TRUE]
    /\ UNCHANGED <<status, gen, file, lock, proc, cached, req, inflight, lost>>

Revoke(u) ==
    /\ status[u] = "live"
    /\ status' = [status EXCEPT ![u] = "dead"]
    /\ UNCHANGED <<gen, expired, file, lock, proc, cached, req, inflight, lost>>

\* The server acts on a refresh request whose sender gave up or was killed.
LateRotation(u) ==
    /\ u \in inflight /\ status[u] = "live"
    /\ gen' = [gen EXCEPT ![u] = @ + 1]
    /\ expired' = [expired EXCEPT ![u] = FALSE]
    /\ inflight' = inflight \ {u}
    /\ lost' = lost \cup {u}
    /\ UNCHANGED <<status, file, lock, proc, cached, req>>

-----------------------------------------------------------------------------
(* Processes.                                                              *)

\* FromSession: a command or the MCP server restores a client from the file.
Open(p) ==
    /\ proc[p] = "down" /\ lock = NoHolder /\ Valid(file)
    /\ proc' = [proc EXCEPT ![p] = "up"]
    /\ cached' = [cached EXCEPT ![p] = Tokens(file)]
    /\ UNCHANGED <<server, file, lock, req, inflight, lost>>

\* The logins whose refresh a request of p has taken as far as pc.
UidsAt(p, pc) ==
    {req[r].sess.uid :
        r \in {q \in Requests(p) : req[q].pc = pc /\ req[q].sess.gen = gen[req[q].sess.uid]}}

\* The process ends: it returned, failed, or was killed at any point.  The
\* operating system drops its lock; a rotation it had not saved is lost, and a
\* refresh request it had sent may still arrive.
Exit(p) ==
    /\ proc[p] # "down"
    /\ proc' = [proc EXCEPT ![p] = "down"]
    /\ cached' = [cached EXCEPT ![p] = NoSession]
    /\ req' = [r \in Request |-> IF ProcOf[r] = p THEN Idle ELSE req[r]]
    /\ lock' = IF lock \in Requests(p) THEN NoHolder ELSE lock
    /\ inflight' = inflight \cup UidsAt(p, "rotate")
    /\ lost' = lost \cup UidsAt(p, "rotated")
    /\ UNCHANGED <<server, file>>

\* Login: the SRP handshake (and second factor) yields a new session.
Authenticate(p, u) ==
    /\ proc[p] = "down" /\ status[u] = "new"
    /\ status' = [status EXCEPT ![u] = "live"]
    /\ proc' = [proc EXCEPT ![p] = "authed"]
    /\ cached' = [cached EXCEPT ![p] = [uid |-> u, gen |-> 0, key |-> NoLogin]]
    /\ UNCHANGED <<gen, expired, file, lock, req, inflight, lost>>

\* Login saves the tokens before it has a key passphrase, over any session.
LoginSave(p) ==
    /\ proc[p] = "authed" /\ lock = NoHolder
    /\ file' = cached[p]
    /\ proc' = [proc EXCEPT ![p] = "login"]
    /\ UNCHANGED <<server, lock, cached, req, inflight, lost>>

\* Seeded fault: the whole session Login started from is written back.
SetKeyPassOverwrites(p) ==
    /\ proc[p] = "login" /\ lock = NoHolder
    /\ \A r \in Requests(p) : req[r].pc = "idle" /\ req[r].outcome = "ok"
    /\ file' = IF file.uid = cached[p].uid
               THEN [uid |-> file.uid, gen |-> 0, key |-> file.uid] ELSE file
    /\ proc' = [proc EXCEPT ![p] = "down"]
    /\ cached' = [cached EXCEPT ![p] = NoSession]
    /\ req' = [r \in Request |-> IF ProcOf[r] = p THEN Idle ELSE req[r]]
    /\ UNCHANGED <<server, lock, inflight, lost>>

\* After Login's requests succeeded it adds the passphrase to its own session
\* (SetKeyPass); for another login's session it fails.  Login is then over.
SetKeyPass(p) ==
    /\ proc[p] = "login" /\ lock = NoHolder
    /\ \A r \in Requests(p) : req[r].pc = "idle" /\ req[r].outcome = "ok"
    /\ file' = IF file.uid = cached[p].uid THEN [file EXCEPT !.key = file.uid] ELSE file
    /\ proc' = [proc EXCEPT ![p] = "down"]
    /\ cached' = [cached EXCEPT ![p] = NoSession]
    /\ req' = [r \in Request |-> IF ProcOf[r] = p THEN Idle ELSE req[r]]
    /\ UNCHANGED <<server, lock, inflight, lost>>

\* Logout reads the session it is going to revoke; a missing one is no error.
LogoutLoad(p) ==
    /\ proc[p] = "down" /\ lock = NoHolder
    /\ proc' = [proc EXCEPT ![p] = "clear"]
    /\ cached' = [cached EXCEPT ![p] = Tokens(file)]
    /\ UNCHANGED <<server, file, lock, req, inflight, lost>>

\* Seeded fault: Clear removes the file whatever login it holds by now.
LogoutClearAnyLogin(p) ==
    /\ proc[p] = "clear" /\ lock = NoHolder
    /\ file' = NoSession
    /\ proc' = [proc EXCEPT ![p] = IF Valid(cached[p]) THEN "revoke" ELSE "down"]
    /\ UNCHANGED <<server, lock, cached, req, inflight, lost>>

\* Clear removes the file if it still holds that login; with a session in
\* hand, Logout then goes on to revoke it at the server.
LogoutClear(p) ==
    /\ proc[p] = "clear" /\ lock = NoHolder
    /\ file' = IF file.uid = cached[p].uid THEN NoSession ELSE file
    /\ proc' = [proc EXCEPT ![p] = IF Valid(cached[p]) THEN "revoke" ELSE "down"]
    /\ UNCHANGED <<server, lock, cached, req, inflight, lost>>

-----------------------------------------------------------------------------
(* Client.Do.                                                              *)

\* A request that has returned; of its tokens only the login is remembered.
Ended(q, outcome) ==
    [Idle EXCEPT !.tok = [NoSession EXCEPT !.uid = q.tok.uid], !.outcome = outcome]
Finish(r, outcome) == [req EXCEPT ![r] = Ended(req[r], outcome)]

\* Do takes the process's tokens once; Logout makes a single request.
Start(r) ==
    /\ req[r].pc = "idle" /\ proc[ProcOf[r]] \in {"up", "login", "revoke"}
    /\ proc[ProcOf[r]] = "login" => req[r].outcome \in {"none", "ok"}
    /\ req' = [req EXCEPT ![r] = [Idle EXCEPT !.pc = "send", !.tok = cached[ProcOf[r]]]]
    /\ proc' = [proc EXCEPT ![ProcOf[r]] = IF @ = "revoke" THEN "revoking" ELSE @]
    /\ UNCHANGED <<server, file, lock, cached, inflight, lost>>

\* The API accepts the request; Logout's DELETE /auth/v4 revokes the session.
Served(r) ==
    /\ req[r].pc = "send" /\ AccessAccepted(req[r].tok)
    /\ req' = Finish(r, "ok")
    /\ status' = IF proc[ProcOf[r]] = "revoking"
                 THEN [status EXCEPT ![req[r].tok.uid] = "dead"] ELSE status
    /\ UNCHANGED <<gen, expired, file, lock, proc, cached, inflight, lost>>

\* The first 401 goes to Refresh.
Unauthorized(r) ==
    /\ req[r].pc = "send" /\ ~AccessAccepted(req[r].tok) /\ req[r].via = "none"
    /\ req' = [req EXCEPT ![r] = [req[r] EXCEPT !.pc = "lock"]]
    /\ UNCHANGED <<server, file, lock, proc, cached, inflight, lost>>

\* A second 401 ends the request with "session unauthorized".
UnauthorizedAgain(r) ==
    /\ req[r].pc = "send" /\ ~AccessAccepted(req[r].tok) /\ req[r].via # "none"
    /\ req' = [req EXCEPT ![r] = [Ended(req[r], "unauthorized") EXCEPT !.via = req[r].via]]
    /\ UNCHANGED <<server, file, lock, proc, cached, inflight, lost>>

\* Seeded fault: the attempts are not compared with their limit.
ThrottledWithoutLimit(r) ==
    /\ req[r].pc = "send"
    /\ req' = [req EXCEPT ![r] = [req[r] EXCEPT !.attempt = req[r].attempt + 1]]
    /\ UNCHANGED <<server, file, lock, proc, cached, inflight, lost>>

\* 429: wait for Retry-After and send again, a bounded number of times.
Throttled(r) ==
    /\ req[r].pc = "send" /\ req[r].attempt < MaxRateLimitRetries
    /\ req' = [req EXCEPT ![r] = [req[r] EXCEPT !.attempt = req[r].attempt + 1]]
    /\ UNCHANGED <<server, file, lock, proc, cached, inflight, lost>>

\* Any other status, a transport error, or the caller's cancellation.
Fails(r) ==
    /\ req[r].pc = "send"
    /\ req' = Finish(r, "error")
    /\ UNCHANGED <<server, file, lock, proc, cached, inflight, lost>>

-----------------------------------------------------------------------------
(* SessionStore.Refresh and Client.rotateTokens.                           *)

\* The context ends, or locking fails, before the refresh token is sent.
GiveUp(r) ==
    /\ req[r].pc = "lock"
    /\ req' = Finish(r, "error")
    /\ UNCHANGED <<server, file, lock, proc, cached, inflight, lost>>

\* The file was cleared (ErrNoSession) or holds another login
\* (ErrSessionChanged).
RefreshRefuse(r) ==
    /\ req[r].pc = "lock" /\ lock = NoHolder
    /\ ~Valid(file) \/ file.uid # req[r].tok.uid
    /\ req' = Finish(r, "refused")
    /\ UNCHANGED <<server, file, lock, proc, cached, inflight, lost>>

\* Seeded fault: whatever session the file holds is adopted.
RefreshAdoptAnyLogin(r) ==
    /\ req[r].pc = "lock" /\ lock = NoHolder
    /\ Valid(file) /\ <<file.uid, file.gen>> # <<req[r].tok.uid, req[r].tok.gen>>
    /\ req' = [req EXCEPT ![r] = [req[r] EXCEPT !.pc = "adopt", !.sess = file,
                                                 !.via = "adopt"]]
    /\ UNCHANGED <<server, file, lock, proc, cached, inflight, lost>>

\* Another request has rotated and saved these tokens already.
RefreshAdopt(r) ==
    /\ req[r].pc = "lock" /\ lock = NoHolder
    /\ Valid(file) /\ file.uid = req[r].tok.uid /\ file.gen # req[r].tok.gen
    /\ req' = [req EXCEPT ![r] = [req[r] EXCEPT !.pc = "adopt", !.sess = file,
                                                 !.via = "adopt"]]
    /\ UNCHANGED <<server, file, lock, proc, cached, inflight, lost>>

\* Seeded fault: the tokens are rotated without comparing them with the file.
RefreshRotateAlways(r) ==
    /\ req[r].pc = "lock" /\ lock = NoHolder
    /\ Valid(file) /\ file.uid = req[r].tok.uid
    /\ req' = [req EXCEPT ![r] = [req[r] EXCEPT !.pc = "rotate", !.sess = file,
                                                 !.via = "rotate"]]
    /\ lock' = r
    /\ UNCHANGED <<server, file, proc, cached, inflight, lost>>

\* Seeded fault: the refresh proceeds while another request rotates.
RefreshRotateUnlocked(r) ==
    /\ req[r].pc = "lock"
    /\ Valid(file) /\ file.uid = req[r].tok.uid /\ file.gen = req[r].tok.gen
    /\ req' = [req EXCEPT ![r] = [req[r] EXCEPT !.pc = "rotate", !.sess = file,
                                                 !.via = "rotate"]]
    /\ lock' = r
    /\ UNCHANGED <<server, file, proc, cached, inflight, lost>>

\* The file still has the tokens that got a 401: this request rotates them
\* and keeps the lock while it does.
RefreshRotate(r) ==
    /\ req[r].pc = "lock" /\ lock = NoHolder
    /\ Valid(file) /\ file.uid = req[r].tok.uid /\ file.gen = req[r].tok.gen
    /\ req' = [req EXCEPT ![r] = [req[r] EXCEPT !.pc = "rotate", !.sess = file,
                                                 !.via = "rotate"]]
    /\ lock' = r
    /\ UNCHANGED <<server, file, proc, cached, inflight, lost>>

\* The server spends the refresh token and its answer arrives.
Rotated(r) ==
    /\ req[r].pc = "rotate" /\ RefreshAccepted(req[r].sess)
    /\ gen' = [gen EXCEPT ![req[r].sess.uid] = @ + 1]
    /\ expired' = [expired EXCEPT ![req[r].sess.uid] = FALSE]
    /\ req' = [req EXCEPT ![r] = [req[r] EXCEPT !.pc = "rotated",
                           !.sess = [req[r].sess EXCEPT !.gen = req[r].sess.gen + 1]]]
    /\ inflight' = inflight \ {req[r].sess.uid}
    /\ UNCHANGED <<status, file, lock, proc, cached, lost>>

\* The server does not accept the refresh token: it was spent or revoked.
RotateRejected(r) ==
    /\ req[r].pc = "rotate" /\ ~RefreshAccepted(req[r].sess)
    /\ req' = Finish(r, "rejected")
    /\ lock' = NoHolder
    /\ UNCHANGED <<server, file, proc, cached, inflight, lost>>

\* No usable answer to the refresh request: the server may have acted on it,
\* may act on it later, or never does.
RotateUnanswered(r) ==
    /\ req[r].pc = "rotate"
    /\ req' = Finish(r, "error")
    /\ lock' = NoHolder
    /\ inflight' = IF gen[req[r].sess.uid] = req[r].sess.gen
                   THEN inflight \cup {req[r].sess.uid} ELSE inflight
    /\ UNCHANGED <<server, file, proc, cached, lost>>

RefreshSave(r) ==
    /\ req[r].pc = "rotated"
    /\ file' = req[r].sess
    /\ req' = [req EXCEPT ![r] = [req[r] EXCEPT !.pc = "adopt"]]
    /\ lock' = NoHolder
    /\ UNCHANGED <<server, proc, cached, inflight, lost>>

\* Seeded fault: the failed save is ignored and the new tokens are used.
RefreshSaveFailureIgnored(r) ==
    /\ req[r].pc = "rotated"
    /\ lost' = lost \cup {req[r].sess.uid}
    /\ req' = [req EXCEPT ![r] = [req[r] EXCEPT !.pc = "adopt"]]
    /\ lock' = NoHolder
    /\ UNCHANGED <<server, file, proc, cached, inflight>>

\* Seeded fault: the failing return keeps the lock.
RefreshSaveFailureKeepsLock(r) ==
    /\ req[r].pc = "rotated"
    /\ lost' = lost \cup {req[r].sess.uid}
    /\ req' = Finish(r, "error")
    /\ UNCHANGED <<server, file, lock, proc, cached, inflight>>

RefreshSaveFails(r) ==
    /\ req[r].pc = "rotated"
    /\ lost' = lost \cup {req[r].sess.uid}
    /\ req' = Finish(r, "error")
    /\ lock' = NoHolder
    /\ UNCHANGED <<server, file, proc, cached, inflight>>

\* Back in Do, after the lock is released: the tokens become the process's
\* and the request is sent again.
SetSession(r) ==
    /\ req[r].pc = "adopt"
    /\ cached' = [cached EXCEPT ![ProcOf[r]] = Tokens(req[r].sess)]
    /\ req' = [req EXCEPT ![r] = [req[r] EXCEPT !.pc = "send", !.tok = Tokens(req[r].sess),
                           !.sess = NoSession, !.attempt = req[r].attempt + 1]]
    /\ UNCHANGED <<server, file, lock, proc, inflight, lost>>

-----------------------------------------------------------------------------

Sending(r) == Served(r) \/ Unauthorized(r) \/ UnauthorizedAgain(r) \/ Throttled(r) \/ Fails(r)
Refreshing(r) == RefreshRefuse(r) \/ RefreshAdopt(r) \/ RefreshRotate(r)
Rotating(r) ==
    \/ Rotated(r) \/ RotateRejected(r) \/ RotateUnanswered(r)
    \/ RefreshSave(r) \/ RefreshSaveFails(r) \/ SetSession(r)

ServerNext == \E u \in Login : Expire(u) \/ Revoke(u) \/ LateRotation(u)
ProcNext(p) ==
    \/ Open(p) \/ Exit(p) \/ LoginSave(p) \/ SetKeyPass(p)
    \/ LogoutLoad(p) \/ LogoutClear(p)
    \/ \E u \in Login : Authenticate(p, u)
RequestNext(r) == Start(r) \/ Sending(r) \/ GiveUp(r) \/ Refreshing(r) \/ Rotating(r)

Next ==
    \/ ServerNext
    \/ \E p \in Proc : ProcNext(p)
    \/ \E r \in Request : RequestNext(r)

Spec == Init /\ [][Next]_vars

\* HTTP timeouts bound every exchange, so requests keep moving.  The lock is
\* polled: it is free again and again, but not continuously, while others
\* refresh, and a waiter is assumed to catch it eventually.
Fairness == \A r \in Request :
    WF_vars(Sending(r)) /\ SF_vars(Refreshing(r)) /\ WF_vars(Rotating(r))
FairSpec == Spec /\ Fairness

-----------------------------------------------------------------------------
(* Properties.                                                             *)

\* Single-use tokens: a refresh token a request is about to spend is the
\* newest one the server issued, unless an earlier rotation of that login was
\* lost on its way to the file.  No interleaving of processes and goroutines
\* spends a token twice (config.go:196-233, docs/overview.md "the loser's
\* tokens are dead").
SingleUse ==
    \A r \in Request : req[r].pc = "rotate" =>
        \/ gen[req[r].sess.uid] = req[r].sess.gen
        \/ req[r].sess.uid \in lost

\* A loss costs one generation: the file is never more than one rotation
\* behind the server, and behind at all only while a rotation is being saved
\* or after one was lost.
FileFollowsServer ==
    Valid(file) =>
        \/ gen[file.uid] = file.gen
        \/ /\ gen[file.uid] = file.gen + 1
           /\ \/ file.uid \in lost
              \/ \E r \in Request : req[r].pc = "rotated" /\ lock = r

\* Tokens are saved before they are used: no client holds, and no request is
\* sent with, a generation its login's file does not have yet.
SavedBeforeUse ==
    /\ \A p \in Proc : cached[p].uid = file.uid => cached[p].gen <= file.gen
    /\ \A r \in Request :
          req[r].pc = "send" /\ req[r].tok.uid = file.uid => req[r].tok.gen <= file.gen

\* "Refresh token rejected (run login)" is only reported for a login that has
\* indeed become unusable: revoked, or with a rotation lost.
RejectionIsFinal ==
    \A r \in Request : req[r].outcome = "rejected" =>
        status[req[r].tok.uid] = "dead" \/ req[r].tok.uid \in lost

\* The server rotates a login's tokens only when its newest access token has
\* expired: any number of requests that meet one expiry cause one rotation.
NoWastedRotation == [][\A u \in Login : gen'[u] # gen[u] => expired[u]]_vars

\* A running client keeps to the login it was opened with (ErrSessionChanged).
ClientKeepsLogin ==
    [][\A p \in Proc : Valid(cached[p]) /\ Valid(cached'[p])
                          => cached'[p].uid = cached[p].uid]_vars

\* A login disappears from the file only through a logout that read this very
\* login; a logout that lost the race against a new login leaves it alone.
ClearedOnlyByItsLogout ==
    [][Valid(file) /\ ~Valid(file') =>
          \E p \in Proc : proc[p] = "clear" /\ cached[p].uid = file.uid]_vars

\* Every request ends: none waits for ever for the lock, and none loops
\* between 401 answers and refreshes.
RequestsFinish == \A r \in Request : (req[r].pc # "idle") ~> (req[r].pc = "idle")

\* session.json is one chain of generations per login (module SessionChain).
FreshLogins ==
    {u \in Login : status[u] = "new"}
        \cup {cached[p].uid : p \in {q \in Proc : proc[q] = "authed"}}
Chain == INSTANCE SessionChain
         WITH saved <- file, issued <- gen, fresh <- FreshLogins
ImplementsSessionChain == Chain!ChainSpec

\* What README.md:185-188 leads one to expect: on an expired access token the
\* tokens are rotated or adopted and the request retried, and only a rejected
\* refresh token asks for a new login.  A request that adopted tokens does not
\* end "unauthorized (run login)" while the file holds a refresh token the
\* server would accept.
NoNeedlessLogin ==
    \A r \in Request : req[r].outcome = "unauthorized" /\ req[r].via = "adopt" =>
        ~(file.uid = req[r].tok.uid /\ RefreshAccepted(file))

\* What README.md:181-183 says of logout: it revokes the session.  A logout
\* whose API request was answered leaves no session behind that still lives.
LogoutRevokes ==
    \A r \in Request :
        proc[ProcOf[r]] = "revoking" /\ req[r].pc = "idle"
            /\ req[r].outcome \in {"ok", "unauthorized", "refused"}
        => status[req[r].tok.uid] # "live"
=============================================================================
