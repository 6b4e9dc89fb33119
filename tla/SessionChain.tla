---------------------------- MODULE SessionChain ----------------------------
(***************************************************************************)
(* What session.json promises to every process that shares it: one chain   *)
(* of token generations per login.  The file holds at most one login; the  *)
(* server is only ever asked to rotate the generation that is saved; a     *)
(* rotation moves the file by exactly one generation and keeps the key     *)
(* passphrase; a passphrase, once stored, belongs to the login it sits     *)
(* beside; and a login that has left the file never comes back.            *)
(***************************************************************************)
EXTENDS Naturals

CONSTANTS Login,    \* the sessions the server can hand out (their UIDs)
          NoLogin   \* the empty UID

VARIABLES saved,    \* the content of session.json
          issued,   \* issued[u]: the newest generation the server gave login u
          fresh     \* logins that were never written to the file

chainVars == <<saved, issued, fresh>>

NoSession == [uid |-> NoLogin, gen |-> 0, key |-> NoLogin]
Valid(s) == s.uid # NoLogin

ChainInit ==
    /\ saved = NoSession
    /\ issued = [u \in Login |-> 0]
    /\ fresh = Login

\* A completed authentication replaces whatever login the file held.
SignIn(u) ==
    /\ u \in fresh
    /\ saved' = [uid |-> u, gen |-> 0, key |-> NoLogin]
    /\ fresh' = fresh \ {u}
    /\ UNCHANGED issued

\* The process that authenticated ended before it wrote the file.
Abandon(u) ==
    /\ u \in fresh
    /\ fresh' = fresh \ {u}
    /\ UNCHANGED <<saved, issued>>

\* The server accepts the saved refresh token and answers with the next pair.
Grant ==
    /\ Valid(saved)
    /\ issued[saved.uid] = saved.gen
    /\ issued' = [issued EXCEPT ![saved.uid] = @ + 1]
    /\ UNCHANGED <<saved, fresh>>

\* A refresh request of a login that has left the file meanwhile is served.
GrantLate(u) ==
    /\ u \notin fresh /\ u # saved.uid
    /\ issued' = [issued EXCEPT ![u] = @ + 1]
    /\ UNCHANGED <<saved, fresh>>

\* The file catches up with the pair that was granted.
Store ==
    /\ Valid(saved)
    /\ issued[saved.uid] = saved.gen + 1
    /\ saved' = [saved EXCEPT !.gen = @ + 1]
    /\ UNCHANGED <<issued, fresh>>

StoreKeyPass ==
    /\ Valid(saved)
    /\ saved' = [saved EXCEPT !.key = saved.uid]
    /\ UNCHANGED <<issued, fresh>>

SignOut ==
    /\ saved' = NoSession
    /\ UNCHANGED <<issued, fresh>>

ChainNext ==
    \/ \E u \in Login : SignIn(u) \/ Abandon(u) \/ GrantLate(u)
    \/ Grant \/ Store \/ StoreKeyPass \/ SignOut

ChainSpec == ChainInit /\ [][ChainNext]_chainVars
=============================================================================
