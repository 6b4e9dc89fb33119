----------------------------- MODULE KeyHealing -----------------------------
(***************************************************************************)
(* The keychain of one process, the cached responses it is built from, and *)
(* the retry with fresh ones when they turn out to be stale.               *)
(*                                                                         *)
(* The process is an MCP server: goroutines serve requests concurrently    *)
(* and share the cache, the marks of what was served from it, and the      *)
(* keychain.  A request unlocks the account's keys and then a calendar's,  *)
(* and uses them; or it changes a calendar's settings, which come in the   *)
(* same response as its keys.                                              *)
(*                                                                         *)
(* A response is known by its version at the server.  It is stale when its *)
(* keys have been replaced since; a stale one fails to unlock or to        *)
(* decrypt, or still happens to work.  `Account` stands for the user and   *)
(* the addresses, which are fetched, cached and dropped together.          *)
(*                                                                         *)
(* The cache is a snapshot and a file, and an update is best effort: when  *)
(* the lock or the write of the file fails, what was replaced or dropped   *)
(* in the snapshot is still in the file, and is back with the next update. *)
(* Other processes' use of the file is the subject of BootstrapCache.      *)
(***************************************************************************)
EXTENDS Naturals, FiniteSets

CONSTANTS Cal,         \* calendars
          Account,
          Request,     \* goroutines
          NoRequest,
          Chain,       \* keychain objects
          NoChain,
          MaxVersion,  \* bound on the versions of a response
          MaxChanged,  \* bound on the responses the server changes
          MaxFailed    \* bound on the failed updates of the cache

Key == Cal \cup {Account}

ASSUME AccountAssumption == Account \notin Cal
ASSUME NoRequestAssumption == NoRequest \notin Request
ASSUME NoChainAssumption == NoChain \notin Chain
ASSUME EnoughChains ==
    /\ IsFiniteSet(Request) /\ IsFiniteSet(Chain)
    /\ Cardinality(Chain) >= Cardinality(Request)
ASSUME MaxVersionAssumption == MaxVersion \in Nat \ {0}

VARIABLES version,   \* the server's version of each response
          keysOf,    \* the first version with the keys the server has now
          cache,     \* the version in the process's snapshot of the cache, or 0
          file,      \* the version in cache.json, or 0
          served,    \* cachedAPI.served
          keychain,  \* Service.keychain
          chains,    \* the keychain objects
          kcMu,      \* who builds a keychain, holding Service.kcMu
          req,       \* local state of the goroutines
          written,   \* the version each calendar's last acknowledged write made
          raced,     \* calendars whose write met a read that was under way
          returned,  \* calendars of which an old response came back
          failed     \* number of updates of the cache that failed

cached == <<cache, file, returned, failed>>
vars == <<version, keysOf, cached, served, keychain, chains, kcMu, req, written, raced>>

Version == 0..MaxVersion
Item == [v : Version, cached : BOOLEAN]     \* a response and where it came from
NoItem == [v |-> 0, cached |-> FALSE]
Keychain == [account : Item, access : [Cal -> Item]]
Empty == [account |-> NoItem, access |-> [c \in Cal |-> NoItem]]

Pc == {"idle", "lazy", "open", "get", "mark", "put", "unlock", "use",
       "write", "delete", "unmark", "drop", "find", "forget", "show"}
Blame == {"none", "cache", "network"}
Local == [pc : Pc, writes : BOOLEAN, cal : Cal, key : Key, chain : Chain \cup {NoChain},
          item : Item, again : BOOLEAN, healed : BOOLEAN, attempt : 0..1,
          floor : Version, disturbed : BOOLEAN, blame : Blame]

\* Types; snapshot and file hold what the server has issued; and a keychain is built
\* by who holds the mutex.
TypeOK ==
    /\ version \in [Key -> Version \ {0}] /\ keysOf \in [Key -> Version \ {0}]
    /\ cache \in [Key -> Version] /\ \A k \in Key : cache[k] <= version[k]
    /\ file \in [Key -> Version] /\ \A k \in Key : file[k] <= version[k]
    /\ served \in [Key -> BOOLEAN]
    /\ keychain \in Chain \cup {NoChain} /\ chains \in [Chain -> Keychain]
    /\ kcMu \in Request \cup {NoRequest}
    /\ \A r \in Request : kcMu = r <=>
          req[r].key = Account /\ req[r].pc \in {"get", "mark", "put", "unlock", "delete", "unmark"}
    /\ req \in [Request -> Local]
    /\ written \in [Cal -> Version] /\ raced \in SUBSET Cal
    /\ returned \in SUBSET Cal /\ failed \in Nat

Idle(c) == [pc |-> "idle", writes |-> FALSE, cal |-> c, key |-> Account, chain |-> NoChain,
            item |-> NoItem, again |-> FALSE, healed |-> FALSE, attempt |-> 0,
            floor |-> 0, disturbed |-> FALSE, blame |-> "none"]

\* An earlier run has left any of the responses in the cache.
Init ==
    /\ version = [k \in Key |-> 1] /\ keysOf = [k \in Key |-> 1]
    /\ cache \in [Key -> 0..1] /\ file = cache
    /\ served = [k \in Key |-> FALSE]
    /\ keychain = NoChain /\ chains = [n \in Chain |-> Empty]
    /\ kcMu = NoRequest
    /\ \E c \in Cal : req = [r \in Request |-> Idle(c)]
    /\ written = [c \in Cal |-> 0] /\ raced = {} /\ returned = {} /\ failed = 0

-----------------------------------------------------------------------------
(* Helpers.                                                                *)

Active(r) == req[r].pc # "idle"
Stale(k, item) == item.v < keysOf[k]
Move(r, pc) == [req EXCEPT ![r].pc = pc]

\* Requests other than r that depend on one of the keys learn of an event.
Disturb(f, r, keys) ==
    [q \in Request |->
        IF q # r /\ Active(q) /\ keys \cap {Account, req[q].cal} # {}
        THEN [f[q] EXCEPT !.disturbed = TRUE] ELSE f[q]]

\* The request is over.  `items` are the stale responses it failed with.
Ended(r, items) ==
    [req EXCEPT ![r] =
        IF items = {} THEN Idle(req[r].cal)
        ELSE [Idle(req[r].cal) EXCEPT
                !.blame = IF \E i \in items : i.cached THEN "cache" ELSE "network",
                !.disturbed = req[r].disturbed]]

\* Seeded fault: an early return leaves the mutex locked.
ReleaseNothing(r) == UNCHANGED kcMu

Release(r) == kcMu' = IF kcMu = r THEN NoRequest ELSE kcMu

\* cachedAPI.servedAny
ServedAny(keys) == \E k \in keys : served[k]

\* Seeded fault: only the calendar's own response counts.
HealCalendarOnly(c) == {c}

\* What healCalendarKeys drops, and asks to have been served.
HealKeys(c) == {Account, c}

\* The responses behind what the request has unlocked, or fails with.
Behind(r) ==
    {<<req[r].key, req[r].item>>} \cup
    IF req[r].pc = "unlock" /\ req[r].key # Account
    THEN {<<Account, chains[req[r].chain].account>>} ELSE {}

StaleBehind(r) == {p[2] : p \in {q \in Behind(r) : Stale(q[1], q[2])}}

\* Keychains that neither the service nor a request refers to are garbage.
InUse(kc, reqs) == {kc} \cup {reqs[r].chain : r \in Request}
Referred(objects, kc, reqs) ==
    [n \in Chain |-> IF n \in InUse(kc, reqs) THEN objects[n] ELSE Empty]

\* Old entries, replaced or dropped in the snapshot only, that are back when
\* the file is loaded again to update `keys`.
Back(keys) ==
    {k \in Key \ keys : file[k] \notin {0, cache[k]} /\ file[k] < version[k]}

Fails == failed < MaxFailed /\ failed' = failed + 1

Updated(entries, keys, v) == [k \in Key |-> IF k \in keys THEN v ELSE entries[k]]

\* Cache.update.  Without the lock only the snapshot changes.  With it, the
\* snapshot is what the file has, changed; and the write of the file may fail.
Update(keys, v, reqs) ==
    \/ /\ cache' = Updated(cache, keys, v) /\ req' = reqs
       /\ Fails /\ UNCHANGED <<file, returned>>
    \/ /\ cache' = Updated(file, keys, v)
       /\ \/ file' = cache' /\ UNCHANGED failed
          \/ UNCHANGED file /\ Fails
       /\ req' = Disturb(reqs, NoRequest, Back(keys))
       /\ returned' = returned \cup (Back(keys) \cap Cal)

\* Somebody is dropping what is stale.
Invalidating == \E r \in Request : req[r].pc \in {"delete", "unmark", "drop", "find", "forget"}

-----------------------------------------------------------------------------
(* The server.                                                             *)

\* Within the bounds.
Changes(k) ==
    version[k] < MaxVersion /\ Cardinality({j \in Key \ {k} : version[j] > 1}) < MaxChanged

\* The account's or a calendar's keys are replaced.
Rotate(k) ==
    /\ Changes(k)
    /\ version' = [version EXCEPT ![k] = @ + 1]
    /\ keysOf' = [keysOf EXCEPT ![k] = version[k] + 1]
    /\ req' = Disturb(req, NoRequest, {k})
    /\ UNCHANGED <<cached, served, keychain, chains, kcMu, written, raced>>

-----------------------------------------------------------------------------
(* Service.keychainLazy and the requests' begin and end.                   *)

Start(r, c) ==
    /\ ~Active(r)
    /\ \E w \in BOOLEAN :
          req' = [req EXCEPT ![r] = [Idle(c) EXCEPT !.pc = IF w THEN "write" ELSE "lazy",
                                        !.writes = w, !.key = IF w THEN c ELSE Account,
                                        !.floor = written[c], !.disturbed = Invalidating]]
    /\ UNCHANGED <<version, keysOf, cached, served, keychain, chains, kcMu, written, raced>>

KeychainHave(r) ==
    /\ req[r].pc = "lazy" /\ kcMu = NoRequest /\ keychain # NoChain
    /\ req' = [req EXCEPT ![r].pc = "open", ![r].chain = keychain]
    /\ UNCHANGED <<version, keysOf, cached, served, keychain, chains, kcMu, written, raced>>

KeychainBuild(r) ==
    /\ req[r].pc = "lazy" /\ kcMu = NoRequest /\ keychain = NoChain
    /\ kcMu' = r
    /\ req' = [req EXCEPT ![r].pc = "get", ![r].key = Account]
    /\ UNCHANGED <<version, keysOf, cached, served, keychain, chains, written, raced>>

\* The process restarts: what is left is the file.
Restart ==
    /\ req' = [r \in Request |-> Idle(req[r].cal)]
    /\ served' = [k \in Key |-> FALSE]
    /\ keychain' = NoChain /\ chains' = [n \in Chain |-> Empty]
    /\ kcMu' = NoRequest
    /\ cache' = file /\ returned' = returned \cup (Back({}) \cap Cal)
    /\ UNCHANGED <<version, keysOf, file, failed, written, raced>>

-----------------------------------------------------------------------------
(* cachedAPI.Get, in the phases between which other requests may come.     *)

AfterGet(r) == IF req[r].writes THEN "show" ELSE "unlock"

GetHit(r) ==
    /\ req[r].pc = "get" /\ cache[req[r].key] # 0
    /\ req' = [req EXCEPT ![r].pc = "mark",
                          ![r].item = [v |-> cache[req[r].key], cached |-> TRUE]]
    /\ UNCHANGED <<version, keysOf, cached, served, keychain, chains, kcMu, written, raced>>

\* Seeded fault: a hit leaves no mark.
MarkNothing(r) ==
    /\ req[r].pc = "mark"
    /\ req' = Move(r, AfterGet(r))
    /\ UNCHANGED <<version, keysOf, cached, served, keychain, chains, kcMu, written, raced>>

Mark(r) ==
    /\ req[r].pc = "mark"
    /\ served' = [served EXCEPT ![req[r].key] = TRUE]
    /\ req' = Move(r, AfterGet(r))
    /\ UNCHANGED <<version, keysOf, cached, keychain, chains, kcMu, written, raced>>

\* No entry, or one past its TTL: the response is what the server has now.
Fetched(r) ==
    /\ req[r].pc = "get"
    /\ req' = [req EXCEPT ![r].pc = "put",
                          ![r].item = [v |-> version[req[r].key], cached |-> FALSE]]
    /\ UNCHANGED <<version, keysOf, cached, served, keychain, chains, kcMu, written, raced>>

Put(r) ==
    LET k == req[r].key
        moved == Move(r, AfterGet(r))
    IN  /\ req[r].pc = "put"
        /\ Update({k}, req[r].item.v,
                  IF req[r].item.v < version[k] THEN Disturb(moved, r, {k}) ELSE moved)
        /\ UNCHANGED <<version, keysOf, served, keychain, chains, kcMu, written, raced>>

\* A response of other keys is cached or dropped: the calendar list, the
\* default, or the first of the two that stand for the account here.
PutElsewhere ==
    /\ cache # file
    /\ cache' = file
    /\ req' = Disturb(req, NoRequest, Back({}))
    /\ returned' = returned \cup (Back({}) \cap Cal)
    /\ UNCHANGED <<version, keysOf, file, failed, served, keychain, chains, kcMu, written, raced>>

-----------------------------------------------------------------------------
(* Unlocking, with its retry: the account's keys in keychainLazy, the      *)
(* calendar's in Keychain.Unlock and unlockCalendar.                       *)

\* Keychain.Unlock looks for the calendar's keys.
OpenMiss(r) ==
    /\ req[r].pc = "open" /\ chains[req[r].chain].access[req[r].cal] = NoItem
    /\ req' = [req EXCEPT ![r].key = req[r].cal, ![r].pc = "get"]
    /\ UNCHANGED <<version, keysOf, cached, served, keychain, chains, kcMu, written, raced>>

\* The request has what it needs, and no more use for the keychain.
Uses(r, item, objects) ==
    LET leaves == [req EXCEPT ![r].pc = "use", ![r].key = req[r].cal, ![r].item = item,
                              ![r].chain = NoChain, ![r].healed = FALSE]
    IN  /\ req' = leaves
        /\ chains' = Referred(objects, keychain, leaves)
        /\ UNCHANGED <<version, keysOf, cached, served, keychain, kcMu, written, raced>>

OpenHave(r) ==
    LET access == chains[req[r].chain].access[req[r].cal]
    IN  req[r].pc = "open" /\ access # NoItem /\ Uses(r, access, chains)

\* A stale response may still do.
UnlockedAccount(r) ==
    /\ req[r].pc = "unlock" /\ req[r].key = Account
    /\ \E n \in Chain \ InUse(keychain, req) :
           /\ chains' = [chains EXCEPT ![n] = [Empty EXCEPT !.account = req[r].item]]
           /\ keychain' = n
           /\ req' = [req EXCEPT ![r].pc = "open", ![r].chain = n,
                                 ![r].item = NoItem, ![r].again = FALSE]
    /\ kcMu' = NoRequest
    /\ UNCHANGED <<version, keysOf, cached, served, written, raced>>

UnlockedCalendar(r) ==
    /\ req[r].pc = "unlock" /\ req[r].key # Account
    /\ Uses(r, req[r].item,
            [chains EXCEPT ![req[r].chain].access[req[r].cal] = req[r].item])

\* The request is over, for want of what `items` were to give.
Gives(r, items) ==
    /\ req' = Ended(r, items) /\ Release(r)
    /\ chains' = Referred(chains, keychain, Ended(r, items))
    /\ UNCHANGED <<version, keysOf, cached, served, keychain, written, raced>>

\* Is a failure put down to the cache, and this the first one?
RetriesAccount(r) == req[r].key = Account /\ ~req[r].again /\ ServedAny({Account})
RetriesCalendar(r) ==
    req[r].key # Account /\ ~req[r].healed /\ ServedAny(HealKeys(req[r].cal))
Retries(r) == ~req[r].writes /\ (RetriesAccount(r) \/ RetriesCalendar(r))

RetryFetch(r) ==
    LET retry == IF req[r].key = Account THEN [req[r] EXCEPT !.again = TRUE]
                 ELSE [req[r] EXCEPT !.healed = TRUE, !.chain = NoChain]
        leaves == [req EXCEPT ![r] = [retry EXCEPT !.pc = "delete", !.item = NoItem]]
    IN  /\ req' = leaves
        /\ chains' = Referred(chains, keychain, leaves)
        /\ UNCHANGED <<version, keysOf, cached, served, keychain, kcMu, written, raced>>

\* Nothing unlocks.
UnlockFails(r) ==
    /\ req[r].pc = "unlock" /\ StaleBehind(r) # {}
    /\ \/ Retries(r) /\ RetryFetch(r)
       \/ ~Retries(r) /\ Gives(r, StaleBehind(r))

\* The network fails, which counts as a failure to unlock.
FetchFails(r) ==
    /\ req[r].pc = "get"
    /\ \/ Retries(r) /\ RetryFetch(r)
       \/ ~Retries(r) /\ Gives(r, {})

\* The caller cancels, or the calendar is gone: no retry here.
GiveUp(r) == req[r].pc = "get" /\ Gives(r, {})

-----------------------------------------------------------------------------
(* What withAccess runs, and its retry.                                    *)

UsedWell(r) == req[r].pc = "use" /\ Gives(r, {})

\* Something does not decrypt: the keys are stale, or it is damaged.
Degraded(r) ==
    /\ req[r].pc = "use"
    /\ \/ /\ req[r].attempt = 0 /\ ServedAny(HealKeys(req[r].cal))
          /\ req' = [req EXCEPT ![r].pc = "delete", ![r].item = NoItem,
                                ![r].attempt = 1]
          /\ UNCHANGED <<version, keysOf, cached, served, keychain, chains, kcMu, written, raced>>
       \/ /\ ~(req[r].attempt = 0 /\ ServedAny(HealKeys(req[r].cal)))
          /\ Gives(r, StaleBehind(r))

-----------------------------------------------------------------------------
(* cachedAPI.invalidate, and what its callers do next.                     *)

DropKeys(r) ==
    IF req[r].writes THEN {req[r].cal}
    ELSE IF req[r].key = Account THEN {Account} ELSE HealKeys(req[r].cal)

\* Another request has read the calendar's response and not used it yet.
Holding(r, c) ==
    \E q \in Request \ {r} : req[q].key = c /\ req[q].pc \in {"mark", "put", "unlock"}

RacedBy(r) == IF req[r].writes /\ Holding(r, req[r].cal) THEN raced \cup {req[r].cal} ELSE raced

Delete(r) ==
    /\ req[r].pc = "delete"
    /\ Update(DropKeys(r), 0, Move(r, "unmark"))
    /\ raced' = RacedBy(r)
    /\ UNCHANGED <<version, keysOf, served, keychain, chains, kcMu, written>>

AfterUnmark(r) ==
    IF req[r].writes THEN "find" ELSE IF req[r].key = Account THEN "get" ELSE "drop"

Unmark(r) ==
    /\ req[r].pc = "unmark"
    /\ served' = [k \in Key |-> k \notin DropKeys(r) /\ served[k]]
    /\ req' = Disturb(Move(r, AfterUnmark(r)), r, DropKeys(r))
    /\ UNCHANGED <<version, keysOf, cached, keychain, chains, kcMu, written, raced>>

\* Seeded fault: the keychain with the stale keys stays.
DropNothing(r) ==
    /\ req[r].pc = "drop" /\ kcMu = NoRequest
    /\ req' = Move(r, "lazy")
    /\ UNCHANGED <<version, keysOf, cached, served, keychain, chains, kcMu, written, raced>>

\* healCalendarKeys drops the keychain; the request then starts over.
DropKeychain(r) ==
    /\ req[r].pc = "drop" /\ kcMu = NoRequest
    /\ keychain' = NoChain
    /\ req' = Disturb([req EXCEPT ![r].pc = "lazy", ![r].key = Account], r, {Account})
    /\ chains' = Referred(chains, NoChain, req)
    /\ UNCHANGED <<version, keysOf, cached, served, kcMu, written, raced>>

-----------------------------------------------------------------------------
(* UpdateCalendar with settings.                                           *)

\* PUT .../settings; the reply may be lost.
Write(r) ==
    LET c == req[r].cal
    IN  /\ req[r].pc = "write" /\ Changes(c)
        /\ version' = [version EXCEPT ![c] = @ + 1]
        /\ \/ /\ req' = [req EXCEPT ![r].pc = "delete", ![r].floor = version[c] + 1]
              /\ UNCHANGED <<chains, kcMu>>
           \/ req' = Ended(r, {}) /\ UNCHANGED <<chains, kcMu>>
        /\ UNCHANGED <<keysOf, cached, served, keychain, written, raced>>

WriteFails(r) == req[r].pc = "write" /\ Gives(r, {})

\* invalidateCalendarKeys takes the keychain, and
Find(r) ==
    /\ req[r].pc = "find" /\ kcMu = NoRequest
    /\ req' = [req EXCEPT ![r].pc = "forget", ![r].chain = keychain]
    /\ UNCHANGED <<version, keysOf, cached, served, keychain, chains, kcMu, written, raced>>

Told(r) == [written EXCEPT ![req[r].cal] = IF @ < req[r].floor THEN req[r].floor ELSE @]

\* Seeded fault: the keychain keeps the calendar's unlocked keys and settings.
ForgetNothing(r) ==
    LET leaves == [req EXCEPT ![r].pc = "get", ![r].chain = NoChain]
    IN  /\ req[r].pc = "forget"
        /\ req' = leaves /\ written' = Told(r) /\ raced' = RacedBy(r)
        /\ chains' = Referred(chains, keychain, leaves)
        /\ UNCHANGED <<version, keysOf, cached, served, keychain, kcMu>>

\* has it forget the calendar.  UpdateCalendar then fetches the settings.
Forget(r) ==
    LET leaves == [req EXCEPT ![r].pc = "get", ![r].chain = NoChain]
        forgotten == [n \in Chain |->
            IF n = req[r].chain THEN [chains[n] EXCEPT !.access[req[r].cal] = NoItem]
            ELSE chains[n]]
    IN  /\ req[r].pc = "forget"
        /\ req' = leaves /\ written' = Told(r) /\ raced' = RacedBy(r)
        /\ chains' = Referred(forgotten, keychain, leaves)
        /\ UNCHANGED <<version, keysOf, cached, served, keychain, kcMu>>

Show(r) == req[r].pc = "show" /\ Gives(r, {})

-----------------------------------------------------------------------------

Serve(r) ==
    \/ KeychainHave(r) \/ KeychainBuild(r)
    \/ GetHit(r) \/ Mark(r) \/ Fetched(r) \/ Put(r)
    \/ OpenMiss(r) \/ OpenHave(r) \/ UnlockedAccount(r) \/ UnlockedCalendar(r)
    \/ UnlockFails(r) \/ FetchFails(r) \/ GiveUp(r)
    \/ UsedWell(r) \/ Degraded(r)
    \/ Delete(r) \/ Unmark(r) \/ DropKeychain(r)
    \/ Write(r) \/ WriteFails(r) \/ Find(r) \/ Forget(r) \/ Show(r)

Next ==
    \/ \E k \in Key : Rotate(k)
    \/ \E r \in Request, c \in Cal : Start(r, c)
    \/ \E r \in Request : Serve(r)
    \/ PutElsewhere
    \/ Restart

Spec == Init /\ [][Next]_vars

-----------------------------------------------------------------------------
(* Properties.                                                             *)

\* What was unlocked from cached responses can be healed: their marks are
\* there until a retry is on its way to drop the keychain.
HealableKeychain ==
    LET healing == \E r \in Request : req[r].pc = "drop"
        forgetting(c) == \E r \in Request : req[r].pc \in {"find", "forget"} /\ req[r].cal = c
    IN  keychain # NoChain =>
          /\ chains[keychain].account.cached => served[Account] \/ healing
          /\ \A c \in Cal : chains[keychain].access[c].cached =>
                served[c] \/ healing \/ forgetting(c) \/ c \in raced

\* No request ends because of stale responses from the cache, unless keys are
\* replaced, another request invalidates, a late answer is cached, or an old
\* response comes back from the file meanwhile, or a write to its calendar has
\* met a read that was under way.
StaleCacheIsRetried ==
    \A r \in Request : req[r].blame = "cache" => req[r].disturbed \/ req[r].cal \in raced

\* What README.md:197 says of wrong keys, wherever they were unlocked from.
WrongKeysAreRetried ==
    \A r \in Request : req[r].blame # "none" => req[r].disturbed

\* The settings a request works with, or the update reports.
SeesWrites(r) ==
    req[r].pc \in {"use", "show"} => req[r].item.v >= req[r].floor

\* A settings write is seen by requests that begin after it, and by its own
\* report, unless it met a read that was under way, or an old response of the
\* calendar has come back from the file.
WritesAreSeen == \A r \in Request : req[r].cal \notin raced \cup returned => SeesWrites(r)

\* What docs/api.md:96-98 says of a settings write.
WritesAreAlwaysSeen == \A r \in Request : SeesWrites(r)
=============================================================================
