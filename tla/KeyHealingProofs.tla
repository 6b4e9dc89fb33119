-------------------------- MODULE KeyHealingProofs --------------------------
(***************************************************************************)
(* Proofs about KeyHealing, for any calendars, requests and keychains, and *)
(* any number of changes at the server: the types, that every keychain     *)
(* built from cached responses can be healed, and that settings writes     *)
(* are seen.                                                               *)
(*                                                                         *)
(* A mark in `served` is what a retry asks for.  It must be there while a  *)
(* cached response is in the keychain, or in the hands of a request about  *)
(* to put it there, or somebody must be about to drop the response.        *)
(***************************************************************************)
EXTENDS KeyHealing, FiniteSetTheorems, TLAPS

Assumptions ==
    /\ AccountAssumption /\ NoRequestAssumption /\ NoChainAssumption
    /\ EnoughChains /\ MaxVersionAssumption

USE DEF cached

\* What a request is doing, whatever it has been told of.
Same(a, b) ==
    /\ a.pc = b.pc /\ a.writes = b.writes /\ a.cal = b.cal /\ a.key = b.key
    /\ a.chain = b.chain /\ a.item = b.item /\ a.floor = b.floor

\* Only r moves.
Moves(r, next) ==
    /\ req' \in [Request -> Local] /\ Same(req'[r], next)
    /\ \A q \in Request \ {r} : Same(req'[q], req[q])

FileTyped ==
    /\ file \in [Key -> Version] /\ \A k \in Key : file[k] <= version[k]
    /\ returned \in SUBSET Cal /\ failed \in Nat

Building(me) == me.key = Account /\ me.pc \in {"get", "mark", "put", "unlock", "delete", "unmark"}

\* What is so of each request.
LocalOK(me, ver) ==
    /\ me.key \in {Account, me.cal} /\ (me.writes => me.key = me.cal)
    /\ me.pc \in {"lazy", "open", "unlock", "use", "drop"} => ~me.writes
    /\ me.pc \in {"find", "forget", "write"} => me.writes
    /\ me.pc \in {"use", "drop"} => me.key # Account
    /\ me.pc = "open" => me.chain \in Chain
    /\ me.pc \in {"get", "mark", "put", "unlock"} /\ me.key # Account /\ ~me.writes =>
          me.chain \in Chain
    /\ me.pc = "put" => ~me.item.cached /\ me.item.v <= ver[me.key]

LocalInv == \A r \in Request : LocalOK(req[r], version)
BuildInv == kcMu # NoRequest => keychain = NoChain

\* A cached response of calendar c in the keychain can be healed, or is on its
\* way out of it.
Healing == \E r \in Request : req[r].pc = "drop"
Forgets(me, c) == me.cal = c /\ (me.pc = "find" \/ (me.pc = "forget" /\ me.chain = keychain))
Covered(c) == served[c] \/ Healing \/ c \in raced \/ \E r \in Request : Forgets(req[r], c)

KeychainCovered ==
    keychain # NoChain =>
        /\ chains[keychain].account.cached => served[Account] \/ Healing
        /\ \A c \in Cal : chains[keychain].access[c].cached => Covered(c)

\* So can one that a request is about to put into it.
HeldCovered ==
    \A r \in Request : req[r].pc = "unlock" /\ req[r].item.cached =>
        /\ req[r].key = Account => served[Account] \/ Healing
        /\ \A c \in Cal : req[r].key = c /\ req[r].chain = keychain => Covered(c)

IInv == TypeOK /\ LocalInv /\ BuildInv /\ KeychainCovered /\ HeldCovered

-----------------------------------------------------------------------------
(* Moves of one request.                                                   *)

\* The assumptions of the model, as one fact.
LEMMA Constants == Assumptions
BY AccountAssumption, NoRequestAssumption, NoChainAssumption, EnoughChains,
   MaxVersionAssumption DEF Assumptions

LEMMA SimpleMove ==
    ASSUME TypeOK, NEW r \in Request, NEW next \in Local, req' = [req EXCEPT ![r] = next]
    PROVE  Moves(r, next)
BY DEF TypeOK, Moves, Same

\* Being told of an event moves nobody.
LEMMA DisturbKeeps ==
    ASSUME NEW f \in [Request -> Local], NEW r, NEW keys
    PROVE  /\ Disturb(f, r, keys) \in [Request -> Local]
           /\ \A q \in Request : Same(Disturb(f, r, keys)[q], f[q])
<1>1. \A q \in Request : [f[q] EXCEPT !.disturbed = TRUE] \in Local
                         /\ Same([f[q] EXCEPT !.disturbed = TRUE], f[q])
  BY DEF Local, Same
<1>2. \A q \in Request : Disturb(f, r, keys)[q] \in {f[q], [f[q] EXCEPT !.disturbed = TRUE]}
  BY DEF Disturb
<1>3. DOMAIN Disturb(f, r, keys) = Request
  BY DEF Disturb
<1>4. \A q \in Request : Same(f[q], f[q])
  BY DEF Same
<1>5. Disturb(f, r, keys) = [q \in Request |-> Disturb(f, r, keys)[q]]
  BY DEF Disturb
<1>6. \A q \in Request : Disturb(f, r, keys)[q] \in Local
  BY <1>1, <1>2
<1> QED
  BY <1>1, <1>2, <1>4, <1>5, <1>6

LEMMA DisturbingMove ==
    ASSUME TypeOK, NEW r \in Request, NEW next \in Local, NEW q, NEW keys,
           req' = Disturb([req EXCEPT ![r] = next], q, keys)
    PROVE  Moves(r, next)
<1> DEFINE f == [req EXCEPT ![r] = next]
<1>1. f \in [Request -> Local] /\ f[r] = next /\ \A p \in Request \ {r} : f[p] = req[p]
  BY DEF TypeOK
<1>2. req' \in [Request -> Local] /\ \A p \in Request : Same(req'[p], f[p])
  BY <1>1, DisturbKeeps
<1> QED
  BY <1>1, <1>2 DEF Moves

\* The types, as far as one request's move is concerned.
LEMMA LocalStep ==
    ASSUME TypeOK, LocalInv, NEW r \in Request, NEW next, Moves(r, next),
           LocalOK(next, version'), version' = version \/ \E k \in Key : version' = [version EXCEPT ![k] = @ + 1],
           version' \in [Key -> Version \ {0}], MaxVersionAssumption
    PROVE  LocalInv'
<1> SUFFICES ASSUME NEW q \in Request PROVE LocalOK(req'[q], version')
  BY DEF LocalInv
<1>1. CASE q = r
  BY <1>1 DEF Moves, Same, LocalOK
<1>2. CASE q # r
  <2>1. Same(req'[q], req[q]) /\ LocalOK(req[q], version) /\ req[q] \in Local
    BY <1>2 DEF Moves, LocalInv, TypeOK
  <2>2. \A k \in Key : version[k] <= version'[k] /\ version[k] \in Nat /\ version'[k] \in Nat
    BY DEF TypeOK, Version, MaxVersionAssumption
  <2>3. req[q].item.v <= version[req[q].key] => req[q].item.v <= version'[req[q].key]
    BY <2>1, <2>2 DEF Local, Item, Version, MaxVersionAssumption
  <2> QED
    BY <2>1, <2>3 DEF LocalOK, Same
<1> QED
  BY <1>1, <1>2

LEMMA TypeStep ==
    ASSUME TypeOK, NEW r \in Request, NEW next, Moves(r, next),
           kcMu' \in Request \cup {NoRequest}, kcMu' = r <=> Building(next),
           \A q \in Request \ {r} : kcMu' = q <=> kcMu = q,
           version' \in [Key -> Version \ {0}], keysOf' \in [Key -> Version \ {0}],
           cache' \in [Key -> Version], \A k \in Key : cache'[k] <= version'[k],
           served' \in [Key -> BOOLEAN], keychain' \in Chain \cup {NoChain},
           chains' \in [Chain -> Keychain], written' \in [Cal -> Version], raced' \in SUBSET Cal, FileTyped'
    PROVE  TypeOK'
<1>1. \A q \in Request : kcMu' = q <=> Building(req'[q])
  <2> TAKE q \in Request
  <2>1. CASE q = r
    BY <2>1 DEF Moves, Same, Building
  <2>2. CASE q # r
    BY <2>2 DEF Moves, Same, Building, TypeOK
  <2> QED
    BY <2>1, <2>2
<1>2. req' \in [Request -> Local]
  BY DEF Moves
<1> QED
  BY <1>1, <1>2 DEF TypeOK, Building, FileTyped

-----------------------------------------------------------------------------
(* The actions that touch neither marks nor the service's keychain.        *)

\* Who builds the keychain: nothing changes, r is done, or r begins.
Mutex(r, next) ==
    \/ kcMu' = kcMu /\ (Building(next) <=> kcMu = r)
    \/ kcMu = r /\ kcMu' = NoRequest /\ ~Building(next)
    \/ kcMu = NoRequest /\ keychain = NoChain /\ kcMu' = r /\ Building(next)

\* The data of server, cache and keychains are still as the types say.
DataTyped ==
    /\ version' = version \/ \E k \in Key : version' = [version EXCEPT ![k] = @ + 1]
    /\ version' \in [Key -> Version \ {0}] /\ keysOf' \in [Key -> Version \ {0}]
    /\ cache' \in [Key -> Version] /\ \A k \in Key : cache'[k] <= version'[k]
    /\ chains' \in [Chain -> Keychain] /\ written' \in [Cal -> Version]
    /\ raced \subseteq raced' /\ raced' \in SUBSET Cal
    /\ FileTyped'

LEMMA DataUnchanged ==
    ASSUME TypeOK, UNCHANGED <<version, keysOf, cached, chains, written, raced>>
    PROVE  DataTyped
BY DEF TypeOK, DataTyped, FileTyped

\* The service's keychain is in use, and stays.
LEMMA ReferredOK ==
    ASSUME NEW objects \in [Chain -> Keychain], NEW kc, NEW reqs, Assumptions
    PROVE  /\ Referred(objects, kc, reqs) \in [Chain -> Keychain]
           /\ kc \in Chain => Referred(objects, kc, reqs)[kc] = objects[kc]
<1>1. Empty \in Keychain
  BY DEF Empty, Keychain, NoItem, Item, Version, Assumptions, MaxVersionAssumption
<1> QED
  BY <1>1 DEF Referred, InUse

\* The parts of the invariant that any move keeps.
LEMMA FrameStep ==
    ASSUME IInv, Assumptions, NEW r \in Request, NEW next, Moves(r, next), Mutex(r, next),
           LocalOK(next, version'), DataTyped, served' \in [Key -> BOOLEAN], keychain' = keychain
    PROVE  TypeOK' /\ LocalInv' /\ BuildInv'
<1>0. TypeOK /\ LocalInv /\ BuildInv /\ MaxVersionAssumption /\ NoRequest \notin Request
  BY DEF IInv, Assumptions, NoRequestAssumption
<1>1. LocalInv'
  BY <1>0, LocalStep DEF DataTyped
<1>2. /\ kcMu' \in Request \cup {NoRequest} /\ (kcMu' = r <=> Building(next))
      /\ \A q \in Request \ {r} : kcMu' = q <=> kcMu = q
  BY <1>0 DEF Mutex, TypeOK
<1>3. TypeOK'
  BY <1>0, <1>2, TypeStep DEF DataTyped, TypeOK
<1>4. BuildInv'
  BY <1>0 DEF BuildInv, Mutex
<1> QED
  BY <1>1, <1>3, <1>4

\* What is covered stays covered when r moves, if r is not the one who drops it.
LEMMA StillCovered ==
    ASSUME NEW r \in Request, NEW next, Moves(r, next), keychain' = keychain,
           req[r].pc \notin {"drop", "find", "forget"}, raced \subseteq raced'
    PROVE  /\ Healing => Healing'
           /\ \A c \in Cal : (served[c] => served'[c]) => (Covered(c) => Covered(c)')
<1>1. \A q \in Request : req[q].pc = "drop" => req'[q].pc = "drop"
  BY DEF Moves, Same
<1>2. \A q \in Request, c \in Cal : Forgets(req[q], c) => Forgets(req[q], c)'
  BY DEF Moves, Same, Forgets
<1> QED
  BY <1>1, <1>2 DEF Healing, Covered

\* No mark goes, and what comes into the keychain is covered.
LEMMA CoveredStep ==
    ASSUME IInv, Assumptions, NEW r \in Request, NEW next, Moves(r, next), Mutex(r, next),
           LocalOK(next, version'), DataTyped, keychain' = keychain,
           served' \in [Key -> BOOLEAN], \A k \in Key : served[k] => served'[k],
           keychain # NoChain =>
               /\ chains'[keychain].account = chains[keychain].account
               /\ \A c \in Cal : chains'[keychain].access[c].cached =>
                     chains[keychain].access[c].cached \/ Covered(c),
           req[r].pc \notin {"drop", "find", "forget"},
           next.pc = "unlock" /\ next.item.cached => served'[next.key]
    PROVE  IInv'
<1>1. TypeOK' /\ LocalInv' /\ BuildInv'
  BY FrameStep DEF IInv
<1>0. Account \in Key /\ Cal \subseteq Key /\ (\A c \in Cal : served[c] => served'[c])
      /\ (served[Account] => served'[Account])
  BY DEF Key
<1>2. (Healing => Healing') /\ \A c \in Cal : Covered(c) => Covered(c)'
  BY <1>0, StillCovered DEF DataTyped
<1>3. KeychainCovered'
  BY <1>0, <1>2 DEF IInv, KeychainCovered
<1>4. HeldCovered'
  <2> SUFFICES ASSUME NEW q \in Request, req'[q].pc = "unlock", req'[q].item.cached
               PROVE  /\ req'[q].key = Account => served'[Account] \/ Healing'
                      /\ \A c \in Cal : req'[q].key = c /\ req'[q].chain = keychain => Covered(c)'
    BY DEF HeldCovered
  <2>1. CASE q = r
    <3>1. served'[req'[q].key]
      BY <2>1 DEF Moves, Same
    <3> QED
      BY <3>1 DEF Covered
  <2>2. CASE q # r
    <3>1. Same(req'[q], req[q])
      BY <2>2 DEF Moves
    <3> QED
      BY <1>0, <1>2, <3>1 DEF IInv, HeldCovered, Same
  <2> QED
    BY <2>1, <2>2
<1> QED
  BY <1>1, <1>3, <1>4 DEF IInv

LEMMA QuietStep ==
    ASSUME IInv, Assumptions, NEW r \in Request, NEW next, Moves(r, next), Mutex(r, next),
           LocalOK(next, version'), DataTyped, served' = served, keychain' = keychain,
           keychain # NoChain => chains'[keychain] = chains[keychain],
           req[r].pc \notin {"drop", "find", "forget"},
           next.pc = "unlock" => ~next.item.cached
    PROVE  IInv'
BY CoveredStep DEF IInv, TypeOK

-----------------------------------------------------------------------------
(* Requests begin, read and end.                                           *)

LEMMA Facts ==
    ASSUME IInv, Assumptions, NEW r \in Request
    PROVE  /\ TypeOK /\ req[r] \in Local /\ LocalOK(req[r], version)
           /\ (kcMu = r <=> Building(req[r])) /\ req[r].cal \in Cal /\ req[r].key \in Key
           /\ Account \notin Cal /\ NoChain \notin Chain /\ NoRequest \notin Request
BY DEF IInv, TypeOK, LocalInv, Building, Local, Assumptions, AccountAssumption,
       NoChainAssumption, NoRequestAssumption

LEMMA IdleOK ==
    ASSUME Assumptions, NEW c \in Cal, NEW ver
    PROVE  /\ Idle(c) \in Local /\ Idle(c).pc = "idle" /\ LocalOK(Idle(c), ver)
           /\ ~Building(Idle(c)) /\ ~Idle(c).item.cached
BY DEF Idle, Local, Pc, Key, NoItem, Item, Version, Blame, LocalOK, Building, Assumptions,
       MaxVersionAssumption, AccountAssumption

\* The end of a request, whatever it ends with.
LEMMA EndedMoves ==
    ASSUME TypeOK, Assumptions, NEW r \in Request, NEW items, req' = Ended(r, items), NEW ver
    PROVE  \E next : Moves(r, next) /\ next.pc = "idle" /\ LocalOK(next, ver) /\ ~Building(next)
<1> DEFINE idle == Idle(req[r].cal)
           told == [idle EXCEPT !.blame = IF \E i \in items : i.cached THEN "cache" ELSE "network",
                                !.disturbed = req[r].disturbed]
<1>1. req[r].cal \in Cal /\ req[r].disturbed \in BOOLEAN
  BY DEF TypeOK, Local
<1>2. idle \in Local /\ idle.pc = "idle" /\ idle.key = Account /\ ~idle.writes
  BY <1>1, IdleOK DEF Idle
<1>3. told \in Local /\ told.pc = "idle" /\ told.key = Account /\ ~told.writes
  BY <1>1, <1>2 DEF Local, Blame
<1>4. PICK next \in {idle, told} : req' = [req EXCEPT ![r] = next]
  BY DEF Ended
<1>5. next \in Local /\ next.pc = "idle" /\ next.key = Account /\ ~next.writes
  BY <1>2, <1>3
<1>6. Moves(r, next)
  BY <1>4, <1>5, SimpleMove
<1> QED
  BY <1>5, <1>6 DEF LocalOK, Building

LEMMA EndStep ==
    ASSUME IInv, Assumptions, NEW r \in Request, req[r].pc \notin {"drop", "find", "forget"},
           NEW items, req' = Ended(r, items), Release(r) \/ (kcMu # r /\ kcMu' = kcMu),
           chains' \in [Chain -> Keychain],
           keychain # NoChain => chains'[keychain] = chains[keychain],
           version' = version \/ \E k \in Key : version' = [version EXCEPT ![k] = @ + 1],
           version' \in [Key -> Version \ {0}],
           \A k \in Key : cache[k] <= version'[k] /\ file[k] <= version'[k],
           UNCHANGED <<keysOf, cached, served, keychain, written, raced>>
    PROVE  IInv'
<1>1. PICK next : Moves(r, next) /\ next.pc = "idle" /\ LocalOK(next, version') /\ ~Building(next)
  BY Facts, EndedMoves
<1>2. Mutex(r, next)
  BY <1>1, Facts DEF Mutex, Release
<1>3. DataTyped
  BY Facts DEF DataTyped, FileTyped, TypeOK
<1> QED
  BY <1>1, <1>2, <1>3, QuietStep

LEMMA GivesStep ==
    ASSUME IInv, Assumptions, NEW r \in Request, req[r].pc \notin {"drop", "find", "forget"},
           NEW items, Gives(r, items)
    PROVE  IInv'
<1>1. chains \in [Chain -> Keychain] /\ keychain \in Chain \cup {NoChain}
  BY Facts DEF TypeOK
<1>2. /\ chains' \in [Chain -> Keychain]
      /\ keychain # NoChain => chains'[keychain] = chains[keychain]
  BY <1>1, ReferredOK DEF Gives
<1>3. /\ version \in [Key -> Version \ {0}]
      /\ \A k \in Key : cache[k] <= version[k] /\ file[k] <= version[k]
  BY Facts DEF TypeOK
<1> QED
  BY <1>2, <1>3, EndStep DEF Gives

\* A request goes on, and nothing else happens.
LEMMA GoOnStep ==
    ASSUME IInv, Assumptions, NEW r \in Request, NEW next \in Local, req' = [req EXCEPT ![r] = next],
           LocalOK(next, version), Mutex(r, next),
           req[r].pc \notin {"drop", "find", "forget"},
           next.pc = "unlock" => ~next.item.cached,
           UNCHANGED <<version, keysOf, cached, served, keychain, chains, written, raced>>
    PROVE  IInv'
BY Facts, SimpleMove, DataUnchanged, QuietStep

LEMMA StartStep ==
    ASSUME IInv, Assumptions, NEW r \in Request, NEW c \in Cal, Start(r, c)
    PROVE  IInv'
<1>1. PICK w \in BOOLEAN :
        req' = [req EXCEPT ![r] = [Idle(c) EXCEPT !.pc = IF w THEN "write" ELSE "lazy",
                                      !.writes = w, !.key = IF w THEN c ELSE Account,
                                      !.floor = written[c], !.disturbed = Invalidating]]
  BY Zenon DEF Start
<1> DEFINE next == [Idle(c) EXCEPT !.pc = IF w THEN "write" ELSE "lazy",
                                      !.writes = w, !.key = IF w THEN c ELSE Account,
                                      !.floor = written[c], !.disturbed = Invalidating]
<1>2. written[c] \in Version /\ Invalidating \in BOOLEAN
  BY Facts DEF TypeOK, Invalidating
<1>3. /\ next \in Local /\ next.pc = (IF w THEN "write" ELSE "lazy") /\ next.writes = w
      /\ next.key = (IF w THEN c ELSE Account) /\ next.cal = c
  <2>1. {"lazy", "write"} \subseteq Pc /\ {c, Account} \subseteq Key
    BY DEF Pc, Key
  <2>2. Idle(c) \in Local /\ Idle(c).cal = c
    BY IdleOK DEF Idle
  <2> QED
    BY <1>2, <2>1, <2>2 DEF Local
<1>4. LocalOK(next, version) /\ ~Building(next)
  BY <1>3 DEF LocalOK, Building
<1>5. req[r].pc = "idle" /\ kcMu' = kcMu /\ kcMu # r
  BY Facts DEF Start, Active, Building
<1>6. Mutex(r, next) /\ next.pc # "unlock"
  BY <1>3, <1>4, <1>5 DEF Mutex
<1>7. UNCHANGED <<version, keysOf, cached, served, keychain, chains, written, raced>>
  BY DEF Start
<1> QED
  BY <1>1, <1>3, <1>4, <1>5, <1>6, <1>7, GoOnStep

LEMMA KeychainHaveStep ==
    ASSUME IInv, Assumptions, NEW r \in Request, KeychainHave(r) PROVE IInv'
<1> DEFINE next == [req[r] EXCEPT !.pc = "open", !.chain = keychain]
<1>1. req[r].pc = "lazy" /\ keychain \in Chain /\ kcMu # r
  BY Facts DEF KeychainHave, TypeOK, Building
<1>2. req' = [req EXCEPT ![r] = next]
  BY Facts DEF KeychainHave, TypeOK
<1>3. /\ next \in Local /\ next.pc = "open" /\ next.chain \in Chain
      /\ next.writes = req[r].writes /\ next.key = req[r].key /\ next.cal = req[r].cal
  <2>1. "open" \in Pc
    BY DEF Pc
  <2> QED
    BY <1>1, <2>1, Facts DEF Local
<1>4. LocalOK(next, version) /\ ~Building(next)
  BY <1>1, <1>3, Facts DEF LocalOK, Building
<1> QED
  BY <1>1, <1>2, <1>3, <1>4, GoOnStep DEF KeychainHave, Mutex

LEMMA KeychainBuildStep ==
    ASSUME IInv, Assumptions, NEW r \in Request, KeychainBuild(r) PROVE IInv'
<1> DEFINE next == [req[r] EXCEPT !.pc = "get", !.key = Account]
<1>1. req[r].pc = "lazy" /\ keychain = NoChain /\ kcMu = NoRequest /\ kcMu' = r
  BY DEF KeychainBuild
<1>2. req' = [req EXCEPT ![r] = next]
  BY Facts DEF KeychainBuild, TypeOK
<1>3. next \in Local /\ next.pc = "get" /\ next.key = Account /\ next.writes = req[r].writes
  <2>1. "get" \in Pc /\ Account \in Key
    BY DEF Pc, Key
  <2> QED
    BY <2>1, Facts DEF Local
<1>4. LocalOK(next, version) /\ Building(next)
  BY <1>1, <1>3, Facts DEF LocalOK, Building
<1> QED
  BY <1>1, <1>2, <1>3, <1>4, GoOnStep DEF KeychainBuild, Mutex

LEMMA GetHitStep ==
    ASSUME IInv, Assumptions, NEW r \in Request, GetHit(r) PROVE IInv'
<1> DEFINE next == [req[r] EXCEPT !.pc = "mark",
                                  !.item = [v |-> cache[req[r].key], cached |-> TRUE]]
<1>1. req[r].pc = "get" /\ cache[req[r].key] \in Version
  BY Facts DEF GetHit, TypeOK
<1>2. req' = [req EXCEPT ![r] = next]
  BY Facts DEF GetHit, TypeOK
<1>3. /\ next \in Local /\ next.pc = "mark" /\ next.key = req[r].key /\ next.writes = req[r].writes
      /\ next.chain = req[r].chain /\ next.cal = req[r].cal
  <2>1. [v |-> cache[req[r].key], cached |-> TRUE] \in Item /\ "mark" \in Pc
    BY <1>1 DEF Item, Pc
  <2> QED
    BY <2>1, Facts DEF Local
<1>4. LocalOK(next, version) /\ (Building(next) <=> Building(req[r]))
  BY <1>1, <1>3, Facts DEF LocalOK, Building
<1>5. Mutex(r, next)
  BY <1>4, Facts DEF GetHit, Mutex
<1> QED
  BY <1>1, <1>2, <1>3, <1>4, <1>5, GoOnStep DEF GetHit

LEMMA FetchedStep ==
    ASSUME IInv, Assumptions, NEW r \in Request, Fetched(r) PROVE IInv'
<1> DEFINE next == [req[r] EXCEPT !.pc = "put",
                                  !.item = [v |-> version[req[r].key], cached |-> FALSE]]
<1>1. req[r].pc = "get" /\ version[req[r].key] \in Version
  BY Facts DEF Fetched, TypeOK
<1>2. req' = [req EXCEPT ![r] = next]
  BY Facts DEF Fetched, TypeOK
<1>3. /\ next \in Local /\ next.pc = "put" /\ next.key = req[r].key /\ next.writes = req[r].writes
      /\ next.chain = req[r].chain /\ next.cal = req[r].cal
      /\ next.item = [v |-> version[req[r].key], cached |-> FALSE]
  <2>1. [v |-> version[req[r].key], cached |-> FALSE] \in Item /\ "put" \in Pc
    BY <1>1 DEF Item, Pc
  <2> QED
    BY <2>1, Facts DEF Local
<1>4. LocalOK(next, version) /\ (Building(next) <=> Building(req[r]))
  BY <1>1, <1>3, Facts DEF LocalOK, Building, Version, Assumptions, MaxVersionAssumption
<1>5. Mutex(r, next)
  BY <1>4, Facts DEF Fetched, Mutex
<1> QED
  BY <1>1, <1>2, <1>3, <1>4, <1>5, GoOnStep DEF Fetched

\* An update of the cache, whether it fails or not, keeps the types, and only
\* tells requests of what came back.
LEMMA UpdateTyped ==
    ASSUME TypeOK, Assumptions, NEW keys \in SUBSET Key, NEW v \in Version,
           \A k \in keys : v <= version[k], NEW reqs \in [Request -> Local],
           Update(keys, v, reqs), version' = version
    PROVE  /\ cache' \in [Key -> Version] /\ \A k \in Key : cache'[k] <= version'[k]
           /\ FileTyped'
           /\ req' \in [Request -> Local] /\ \A q \in Request : Same(req'[q], reqs[q])
<1>1. /\ cache \in [Key -> Version] /\ \A k \in Key : cache[k] <= version[k]
      /\ file \in [Key -> Version] /\ \A k \in Key : file[k] <= version[k]
      /\ returned \in SUBSET Cal /\ failed \in Nat
  BY DEF TypeOK
<1>2. ASSUME NEW entries \in [Key -> Version], \A k \in Key : entries[k] <= version[k]
      PROVE  /\ Updated(entries, keys, v) \in [Key -> Version]
             /\ \A k \in Key : Updated(entries, keys, v)[k] <= version[k]
  BY <1>2 DEF Updated
<1>3. cache' \in {Updated(cache, keys, v), Updated(file, keys, v)} /\ file' \in {file, cache'}
      /\ failed' \in {failed, failed + 1} /\ returned' \subseteq returned \cup Cal
  BY DEF Update, Fails
<1>4. cache' \in [Key -> Version] /\ \A k \in Key : cache'[k] <= version'[k]
  BY <1>1, <1>2, <1>3
<1>5. FileTyped'
  BY <1>1, <1>3, <1>4 DEF FileTyped
<1>6. req' = reqs \/ req' = Disturb(reqs, NoRequest, Back(keys))
  BY DEF Update
<1>7. req' \in [Request -> Local] /\ \A q \in Request : Same(req'[q], reqs[q])
  BY <1>6, DisturbKeeps DEF Same
<1> QED
  BY <1>4, <1>5, <1>7

\* Who is only told of something moves as before.
LEMMA MovesAlike ==
    ASSUME TypeOK, NEW r \in Request, NEW next \in Local, NEW q, NEW keys, NEW reqs,
           reqs = [req EXCEPT ![r] = next] \/ reqs = Disturb([req EXCEPT ![r] = next], q, keys)
    PROVE  /\ reqs \in [Request -> Local]
           /\ req' \in [Request -> Local] /\ (\A p \in Request : Same(req'[p], reqs[p])) =>
                 Moves(r, next)
<1>a. PICK f : f = [req EXCEPT ![r] = next]
  OBVIOUS
<1>1. f \in [Request -> Local] /\ f[r] = next /\ \A p \in Request \ {r} : f[p] = req[p]
  BY <1>a DEF TypeOK
<1>b. reqs = f \/ reqs = Disturb(f, q, keys)
  BY <1>a
<1>2. reqs \in [Request -> Local] /\ \A p \in Request : Same(reqs[p], f[p])
  <2>1. /\ Disturb(f, q, keys) \in [Request -> Local]
        /\ \A p \in Request : Same(Disturb(f, q, keys)[p], f[p])
    BY <1>1, DisturbKeeps
  <2>2. \A p \in Request : Same(f[p], f[p])
    BY DEF Same
  <2> QED
    BY <1>1, <1>b, <2>1, <2>2
<1>3. ASSUME \A p \in Request : Same(req'[p], reqs[p])
      PROVE  \A p \in Request : Same(req'[p], f[p])
  BY <1>2, <1>3 DEF Same
<1> QED
  BY <1>1, <1>2, <1>3 DEF Moves

LEMMA PutStep ==
    ASSUME IInv, Assumptions, NEW r \in Request, Put(r) PROVE IInv'
<1> DEFINE k == req[r].key
           next == [req[r] EXCEPT !.pc = AfterGet(r)]
<1>1. /\ req[r].pc = "put" /\ ~req[r].item.cached /\ req[r].item.v <= version[k]
      /\ req[r].item.v \in Version /\ k \in Key
  BY Facts DEF Put, LocalOK, Local, Item
<1>2. /\ next \in Local /\ next.pc = AfterGet(r) /\ AfterGet(r) \in {"show", "unlock"}
      /\ next.key = k /\ next.writes = req[r].writes /\ next.chain = req[r].chain
      /\ next.cal = req[r].cal /\ next.item = req[r].item
      /\ (AfterGet(r) = "unlock" <=> ~req[r].writes)
  BY Facts DEF Local, Pc, AfterGet
<1>3. Move(r, AfterGet(r)) = [req EXCEPT ![r] = next]
  BY Facts DEF Move, TypeOK
<1>a. PICK reqs : reqs = IF req[r].item.v < version[k]
                        THEN Disturb(Move(r, AfterGet(r)), r, {k}) ELSE Move(r, AfterGet(r))
  OBVIOUS
<1>b. Update({k}, req[r].item.v, reqs) /\ version' = version
  BY <1>a DEF Put
<1>c. reqs \in [Request -> Local]
      /\ (req' \in [Request -> Local] /\ (\A p \in Request : Same(req'[p], reqs[p])) => Moves(r, next))
  BY <1>2, <1>3, <1>a, Facts, MovesAlike
<1>d. /\ cache' \in [Key -> Version] /\ \A x \in Key : cache'[x] <= version'[x]
      /\ FileTyped'
      /\ req' \in [Request -> Local] /\ \A q \in Request : Same(req'[q], reqs[q])
  BY <1>1, <1>b, <1>c, Facts, UpdateTyped
<1>4. Moves(r, next)
  BY <1>c, <1>d
<1>5. LocalOK(next, version) /\ (Building(next) <=> Building(req[r]))
  BY <1>1, <1>2, Facts DEF LocalOK, Building
<1>6. Mutex(r, next)
  BY <1>5, Facts DEF Put, Mutex
<1>7. DataTyped
  BY <1>d, Facts DEF Put, DataTyped, TypeOK
<1> QED
  BY <1>1, <1>2, <1>4, <1>5, <1>6, <1>7, QuietStep DEF Put

LEMMA OpenMissStep ==
    ASSUME IInv, Assumptions, NEW r \in Request, OpenMiss(r) PROVE IInv'
<1> DEFINE next == [req[r] EXCEPT !.key = req[r].cal, !.pc = "get"]
<1>1. req[r].pc = "open" /\ req[r].chain \in Chain /\ ~req[r].writes
  BY Facts DEF OpenMiss, LocalOK
<1>2. req' = [req EXCEPT ![r] = next]
  BY Facts DEF OpenMiss, TypeOK
<1>3. /\ next \in Local /\ next.pc = "get" /\ next.key = req[r].cal /\ ~next.writes
      /\ next.chain = req[r].chain /\ next.cal = req[r].cal
  <2>1. "get" \in Pc /\ req[r].cal \in Key
    BY Facts DEF Pc, Key
  <2> QED
    BY <1>1, <2>1, Facts DEF Local
<1>4. LocalOK(next, version) /\ ~Building(next) /\ ~Building(req[r])
  BY <1>1, <1>3, Facts DEF LocalOK, Building
<1>5. Mutex(r, next)
  BY <1>4, Facts DEF OpenMiss, Mutex
<1> QED
  BY <1>1, <1>2, <1>3, <1>4, <1>5, GoOnStep DEF OpenMiss

-----------------------------------------------------------------------------
(* Unlocking.                                                              *)

LEMMA MarkStep ==
    ASSUME IInv, Assumptions, NEW r \in Request, Mark(r) PROVE IInv'
<1> DEFINE k == req[r].key
           next == [req[r] EXCEPT !.pc = AfterGet(r)]
<1>1. req[r].pc = "mark" /\ k \in Key
  BY Facts DEF Mark
<1>2. /\ next \in Local /\ next.pc = AfterGet(r) /\ AfterGet(r) \in {"show", "unlock"}
      /\ next.key = k /\ next.writes = req[r].writes /\ next.chain = req[r].chain
      /\ next.cal = req[r].cal /\ next.item = req[r].item
      /\ (AfterGet(r) = "unlock" <=> ~req[r].writes)
  BY Facts DEF Local, Pc, AfterGet
<1>3. req' = [req EXCEPT ![r] = next]
  BY Facts DEF Mark, Move, TypeOK
<1>4. Moves(r, next)
  BY <1>2, <1>3, Facts, SimpleMove
<1>5. LocalOK(next, version) /\ (Building(next) <=> Building(req[r]))
  BY <1>1, <1>2, Facts DEF LocalOK, Building
<1>6. Mutex(r, next)
  BY <1>5, Facts DEF Mark, Mutex
<1>7. DataTyped
  BY Facts, DataUnchanged DEF Mark
<1>8. served' \in [Key -> BOOLEAN] /\ served'[k] /\ \A x \in Key : served[x] => served'[x]
  BY <1>1, Facts DEF Mark, TypeOK
<1> QED
  BY <1>1, <1>2, <1>4, <1>5, <1>6, <1>7, <1>8, CoveredStep DEF Mark

\* A request has its calendar's keys, and what it puts into the keychain is
\* covered.
LEMMA UsesStep ==
    ASSUME IInv, Assumptions, NEW r \in Request, ~Building(req[r]), ~req[r].writes,
           req[r].pc \in {"open", "unlock"},
           NEW item \in Item, NEW objects \in [Chain -> Keychain], Uses(r, item, objects),
           keychain # NoChain =>
               /\ objects[keychain].account = chains[keychain].account
               /\ \A c \in Cal : objects[keychain].access[c].cached =>
                     chains[keychain].access[c].cached \/ Covered(c)
    PROVE  IInv'
<1> DEFINE next == [req[r] EXCEPT !.pc = "use", !.key = req[r].cal, !.item = item,
                                  !.chain = NoChain, !.healed = FALSE]
<1>1. req' = [req EXCEPT ![r] = next]
  BY Facts DEF Uses, TypeOK
<1>2. /\ next \in Local /\ next.pc = "use" /\ next.key = req[r].cal
      /\ next.writes = req[r].writes /\ next.cal = req[r].cal
  <2>1. req[r] \in Local /\ req[r].cal \in Key /\ "use" \in Pc
    BY Facts DEF Local, Pc, Key
  <2> QED
    BY <2>1 DEF Local
<1>3. LocalOK(next, version) /\ ~Building(next)
  BY <1>2, Facts DEF LocalOK, Building
<1>4. Moves(r, next) /\ Mutex(r, next)
  BY <1>1, <1>2, <1>3, Facts, SimpleMove DEF Uses, Mutex
<1>5. /\ chains' \in [Chain -> Keychain]
      /\ keychain # NoChain => chains'[keychain] = objects[keychain]
  <2>1. chains' = Referred(objects, keychain, req') /\ keychain \in Chain \cup {NoChain}
    BY Facts DEF Uses, TypeOK
  <2> QED
    BY <2>1, ReferredOK
<1>6. DataTyped
  BY <1>5, Facts DEF Uses, DataTyped, FileTyped, TypeOK
<1>7. served' = served /\ keychain' = keychain /\ version' = version /\ served \in [Key -> BOOLEAN]
  BY Facts DEF Uses, TypeOK
<1> QED
  BY <1>2, <1>3, <1>4, <1>5, <1>6, <1>7, CoveredStep

LEMMA OpenHaveStep ==
    ASSUME IInv, Assumptions, NEW r \in Request, OpenHave(r) PROVE IInv'
<1>1. req[r].pc = "open" /\ ~req[r].writes /\ req[r].chain \in Chain /\ ~Building(req[r])
  BY Facts DEF OpenHave, LocalOK, Building
<1>2. chains[req[r].chain].access[req[r].cal] \in Item /\ chains \in [Chain -> Keychain]
  BY <1>1, Facts DEF TypeOK, Keychain
<1> QED
  BY <1>1, <1>2, UsesStep DEF OpenHave

LEMMA UnlockedCalendarStep ==
    ASSUME IInv, Assumptions, NEW r \in Request, UnlockedCalendar(r) PROVE IInv'
<1> DEFINE n == req[r].chain
           c == req[r].cal
           objects == [chains EXCEPT ![n].access[c] = req[r].item]
<1>1. /\ req[r].pc = "unlock" /\ ~req[r].writes /\ ~Building(req[r]) /\ n \in Chain
      /\ c \in Cal /\ req[r].key = c /\ req[r].item \in Item
  BY Facts DEF UnlockedCalendar, LocalOK, Building, Local
<1>2. chains[n] \in Keychain /\ chains \in [Chain -> Keychain]
  BY <1>1, Facts DEF TypeOK
<1>3. [chains[n] EXCEPT !.access[c] = req[r].item] \in Keychain
  BY <1>1, <1>2 DEF Keychain
<1>4. objects \in [Chain -> Keychain]
  BY <1>2, <1>3
<1>5. /\ \A m \in Chain : objects[m].account = chains[m].account
      /\ \A m \in Chain, d \in Cal : m # n \/ d # c => objects[m].access[d] = chains[m].access[d]
      /\ objects[n].access[c] = req[r].item
  BY <1>1, <1>2 DEF Keychain
<1>6. n = keychain /\ req[r].item.cached => Covered(c)
  BY <1>1 DEF IInv, HeldCovered
<1>7. keychain # NoChain =>
         /\ objects[keychain].account = chains[keychain].account
         /\ \A d \in Cal : objects[keychain].access[d].cached =>
               chains[keychain].access[d].cached \/ Covered(d)
  BY <1>1, <1>5, <1>6, Facts DEF TypeOK
<1> QED
  BY <1>1, <1>4, <1>7, UsesStep DEF UnlockedCalendar

\* A new keychain has the account's keys only.
LEMMA NewKeychain ==
    ASSUME Assumptions, NEW item \in Item
    PROVE  /\ [Empty EXCEPT !.account = item] \in Keychain
           /\ [Empty EXCEPT !.account = item].account = item
           /\ \A c \in Cal : ~[Empty EXCEPT !.account = item].access[c].cached
<1> DEFINE none == [c \in Cal |-> NoItem]
<1>1. NoItem \in Item /\ ~NoItem.cached
  BY DEF NoItem, Item, Version, Assumptions, MaxVersionAssumption
<1>2. none \in [Cal -> Item] /\ \A c \in Cal : ~none[c].cached
  BY <1>1
<1>3. [Empty EXCEPT !.account = item] = [account |-> item, access |-> none]
  BY DEF Empty
<1> HIDE DEF none
<1> QED
  BY <1>2, <1>3 DEF Keychain

LEMMA UnlockedAccountStep ==
    ASSUME IInv, Assumptions, NEW r \in Request, UnlockedAccount(r) PROVE IInv'
<1>0. /\ req[r].pc = "unlock" /\ req[r].key = Account /\ ~req[r].writes /\ kcMu = r
      /\ kcMu' = NoRequest /\ keychain = NoChain /\ req[r].item \in Item /\ req[r] \in Local
  BY Facts DEF UnlockedAccount, LocalOK, Building, IInv, BuildInv, Local
<1>1. PICK n \in Chain :
         /\ n \notin InUse(keychain, req) /\ keychain' = n
         /\ chains' = [chains EXCEPT ![n] = [Empty EXCEPT !.account = req[r].item]]
         /\ req' = [req EXCEPT ![r].pc = "open", ![r].chain = n,
                               ![r].item = NoItem, ![r].again = FALSE]
  BY DEF UnlockedAccount
<1> DEFINE next == [req[r] EXCEPT !.pc = "open", !.chain = n, !.item = NoItem, !.again = FALSE]
<1>2. req' = [req EXCEPT ![r] = next]
  BY <1>1, Facts DEF TypeOK
<1>3. /\ next \in Local /\ next.pc = "open" /\ next.chain = n /\ next.writes = req[r].writes
      /\ next.key = req[r].key /\ next.cal = req[r].cal
  <2>1. "open" \in Pc /\ NoItem \in Item
    BY DEF Pc, NoItem, Item, Version, Assumptions, MaxVersionAssumption
  <2> QED
    BY <1>0, <2>1 DEF Local
<1>4. Moves(r, next) /\ LocalOK(next, version) /\ ~Building(next)
  BY <1>0, <1>2, <1>3, Facts, SimpleMove DEF LocalOK, Building
<1>5. /\ [Empty EXCEPT !.account = req[r].item] \in Keychain
      /\ [Empty EXCEPT !.account = req[r].item].account = req[r].item
      /\ \A c \in Cal : ~[Empty EXCEPT !.account = req[r].item].access[c].cached
  BY <1>0, NewKeychain
<1>6. /\ version' = version /\ keysOf' = keysOf /\ cached' = cached /\ served' = served
      /\ written' = written /\ raced' = raced
  BY DEF UnlockedAccount
<1>7. TypeOK'
  <2>1. chains' \in [Chain -> Keychain]
    BY <1>1, <1>5, Facts DEF TypeOK
  <2>2. kcMu' \in Request \cup {NoRequest} /\ (kcMu' = r <=> Building(next))
        /\ \A q \in Request \ {r} : kcMu' = q <=> kcMu = q
    BY <1>0, <1>4, Facts
  <2> QED
    BY <1>1, <1>4, <1>6, <2>1, <2>2, Facts, TypeStep DEF FileTyped, TypeOK
<1>8. LocalInv'
  BY <1>4, <1>6, Facts, LocalStep DEF IInv, TypeOK, Assumptions
<1>9. BuildInv'
  BY <1>0 DEF BuildInv
<1>10. Healing => Healing'
  BY <1>0, <1>4 DEF Healing, Moves, Same
<1>11. KeychainCovered'
  <2>1. req[r].item.cached => served[Account] \/ Healing
    BY <1>0 DEF IInv, HeldCovered
  <2>2. chains'[keychain'] = [Empty EXCEPT !.account = req[r].item]
    BY <1>1, Facts DEF TypeOK
  <2> QED
    BY <1>5, <1>6, <1>10, <2>1, <2>2 DEF KeychainCovered
<1>12. HeldCovered'
  <2> SUFFICES ASSUME NEW q \in Request, req'[q].pc = "unlock", req'[q].item.cached
               PROVE  /\ req'[q].key = Account => served'[Account] \/ Healing'
                      /\ \A c \in Cal : req'[q].key = c /\ req'[q].chain = keychain' => Covered(c)'
    BY DEF HeldCovered
  <2>1. q # r /\ Same(req'[q], req[q])
    BY <1>3, <1>4 DEF Moves, Same
  <2>2. req'[q].chain # keychain'
    BY <1>1, <2>1 DEF InUse, Same
  <2> QED
    BY <1>6, <1>10, <2>1, <2>2 DEF IInv, HeldCovered, Same
<1> QED
  BY <1>7, <1>8, <1>9, <1>11, <1>12 DEF IInv

\* A first failure goes on to drop what was cached.
LEMMA RetryStep ==
    ASSUME IInv, Assumptions, NEW r \in Request, req[r].pc \in {"get", "unlock"}, Retries(r),
           RetryFetch(r)
    PROVE  IInv'
<1> DEFINE account == [req[r] EXCEPT !.again = TRUE]
           calendar == [req[r] EXCEPT !.healed = TRUE, !.chain = NoChain]
           retry == IF req[r].key = Account THEN account ELSE calendar
           next == [retry EXCEPT !.pc = "delete", !.item = NoItem]
<1>0. ~req[r].writes /\ req[r] \in Local
  BY Facts DEF Retries
<1>1. retry \in Local /\ retry.key = req[r].key /\ retry.writes = req[r].writes /\ retry.cal = req[r].cal
  BY <1>0 DEF Local
<1>2. /\ next \in Local /\ next.pc = "delete" /\ next.key = req[r].key
      /\ next.writes = req[r].writes /\ next.cal = req[r].cal
  <2>1. "delete" \in Pc /\ NoItem \in Item
    BY DEF Pc, NoItem, Item, Version, Assumptions, MaxVersionAssumption
  <2> QED
    BY <1>1, <2>1 DEF Local
<1>3. req' = [req EXCEPT ![r] = next] /\ chains' = Referred(chains, keychain, req')
  BY DEF RetryFetch
<1>4. LocalOK(next, version) /\ (Building(next) <=> Building(req[r]))
  BY <1>0, <1>2, Facts DEF LocalOK, Building
<1>5. Moves(r, next) /\ Mutex(r, next)
  BY <1>2, <1>3, <1>4, Facts, SimpleMove DEF RetryFetch, Mutex
<1>6. /\ chains' \in [Chain -> Keychain]
      /\ keychain # NoChain => chains'[keychain] = chains[keychain]
  BY <1>3, Facts, ReferredOK DEF TypeOK
<1>7. DataTyped /\ served' = served /\ keychain' = keychain /\ version' = version
  BY <1>6, Facts DEF RetryFetch, DataTyped, FileTyped, TypeOK
<1> QED
  BY <1>2, <1>4, <1>5, <1>6, <1>7, QuietStep

LEMMA FailureSteps ==
    ASSUME IInv, Assumptions, NEW r \in Request,
           UnlockFails(r) \/ FetchFails(r) \/ GiveUp(r) \/ UsedWell(r) \/ WriteFails(r) \/ Show(r)
    PROVE  IInv'
<1>1. CASE UnlockFails(r)
  BY <1>1, RetryStep, GivesStep DEF UnlockFails
<1>2. CASE FetchFails(r)
  BY <1>2, RetryStep, GivesStep DEF FetchFails
<1>3. CASE GiveUp(r) \/ UsedWell(r) \/ WriteFails(r) \/ Show(r)
  BY <1>3, GivesStep DEF GiveUp, UsedWell, WriteFails, Show
<1> QED
  BY <1>1, <1>2, <1>3

LEMMA DegradedStep ==
    ASSUME IInv, Assumptions, NEW r \in Request, Degraded(r) PROVE IInv'
<1> DEFINE me == req[r]
           next == [me EXCEPT !.pc = "delete", !.item = NoItem, !.attempt = 1]
<1>0. req[r].pc = "use" /\ req[r] \in Local /\ ~req[r].writes /\ req[r].key # Account
  BY Facts DEF Degraded, LocalOK
<1>1. CASE Gives(r, StaleBehind(r))
  BY <1>0, <1>1, GivesStep
<1>2. CASE ~Gives(r, StaleBehind(r))
  <2>1. req' = [req EXCEPT ![r] = next]
        /\ UNCHANGED <<version, keysOf, cached, served, keychain, chains, kcMu, written, raced>>
    BY <1>2, Facts DEF Degraded, TypeOK
  <2>2. /\ next \in Local /\ next.pc = "delete" /\ next.key = req[r].key
        /\ next.writes = req[r].writes /\ next.cal = req[r].cal
    <3>1. "delete" \in Pc /\ NoItem \in Item /\ 1 \in 0..1
      BY DEF Pc, NoItem, Item, Version, Assumptions, MaxVersionAssumption
    <3>2. [me EXCEPT !.pc = "delete", !.item = NoItem] \in Local
      BY <1>0, <3>1 DEF Local
    <3> QED
      BY <1>0, <3>1, <3>2 DEF Local
  <2>3. LocalOK(next, version) /\ ~Building(next) /\ kcMu # r
    BY <1>0, <2>2, Facts DEF LocalOK, Building
  <2> QED
    BY <1>0, <2>1, <2>2, <2>3, GoOnStep DEF Mutex
<1> QED
  BY <1>1, <1>2

-----------------------------------------------------------------------------
(* Dropping what is stale.                                                 *)

LEMMA DeleteStep ==
    ASSUME IInv, Assumptions, NEW r \in Request, Delete(r) PROVE IInv'
<1> DEFINE next == [req[r] EXCEPT !.pc = "unmark"]
<1>0. req[r].pc = "delete" /\ req[r] \in Local /\ req[r].cal \in Cal
  BY Facts DEF Delete
<1>1. Move(r, "unmark") = [req EXCEPT ![r] = next]
  BY Facts DEF Move, TypeOK
<1>2. /\ next \in Local /\ next.pc = "unmark" /\ next.key = req[r].key
      /\ next.writes = req[r].writes /\ next.cal = req[r].cal
  BY <1>0 DEF Local, Pc
<1>3. LocalOK(next, version) /\ (Building(next) <=> Building(req[r]))
  BY <1>0, <1>2, Facts DEF LocalOK, Building
<1>a. PICK reqs : reqs = Move(r, "unmark")
  OBVIOUS
<1>b. Update(DropKeys(r), 0, reqs) /\ version' = version
  BY <1>a DEF Delete
<1>c. reqs \in [Request -> Local]
      /\ (req' \in [Request -> Local] /\ (\A p \in Request : Same(req'[p], reqs[p])) => Moves(r, next))
  BY <1>1, <1>2, <1>a, Facts, MovesAlike
<1>d. DropKeys(r) \in SUBSET Key /\ 0 \in Version /\ \A k \in DropKeys(r) : 0 <= version[k]
  BY <1>0, Facts DEF DropKeys, HealKeys, Key, TypeOK, Version, Assumptions, MaxVersionAssumption
<1>5. /\ cache' \in [Key -> Version] /\ \A x \in Key : cache'[x] <= version'[x]
      /\ FileTyped'
      /\ req' \in [Request -> Local] /\ \A q \in Request : Same(req'[q], reqs[q])
  BY <1>b, <1>c, <1>d, Facts, UpdateTyped
<1>4. Moves(r, next) /\ Mutex(r, next)
  BY <1>3, <1>5, <1>c, Facts DEF Delete, Mutex
<1>6. raced \subseteq raced' /\ raced' \in SUBSET Cal
  BY <1>0, Facts DEF Delete, RacedBy, TypeOK
<1>7. DataTyped
  BY <1>5, <1>6, Facts DEF Delete, DataTyped, TypeOK
<1> QED
  BY <1>0, <1>2, <1>3, <1>4, <1>7, QuietStep DEF Delete

\* What covers the keychain and what is held, when they do not change.
LEMMA CoverStep ==
    ASSUME IInv, NEW r \in Request, NEW next, Moves(r, next), next.pc # "unlock",
           keychain' = keychain, keychain # NoChain => chains'[keychain] = chains[keychain],
           \A c \in Cal : Covered(c) => Covered(c)',
           \/ served[Account] \/ Healing => served'[Account] \/ Healing'
           \/ keychain = NoChain /\ \A q \in Request : req[q].pc = "unlock" => req[q].key # Account
    PROVE  KeychainCovered' /\ HeldCovered'
<1>1. KeychainCovered'
  BY DEF IInv, KeychainCovered
<1>2. HeldCovered'
  <2> SUFFICES ASSUME NEW q \in Request, req'[q].pc = "unlock", req'[q].item.cached
               PROVE  /\ req'[q].key = Account => served'[Account] \/ Healing'
                      /\ \A c \in Cal : req'[q].key = c /\ req'[q].chain = keychain => Covered(c)'
    BY DEF HeldCovered
  <2>1. q # r /\ Same(req'[q], req[q])
    BY DEF Moves, Same
  <2> QED
    BY <2>1 DEF IInv, HeldCovered, Same
<1> QED
  BY <1>1, <1>2

LEMMA UnmarkStep ==
    ASSUME IInv, Assumptions, NEW r \in Request, Unmark(r) PROVE IInv'
<1> DEFINE me == req[r]
           next == [me EXCEPT !.pc = AfterUnmark(r)]
<1>0. /\ me.pc = "unmark" /\ me \in Local /\ me.cal \in Cal /\ me.key \in Key
      /\ Account \notin Cal
  BY Facts DEF Unmark
<1>1. AfterUnmark(r) \in {"find", "get", "drop"}
  BY DEF AfterUnmark
<1>2. /\ next \in Local /\ next.pc = AfterUnmark(r) /\ next.key = me.key
      /\ next.writes = me.writes /\ next.cal = me.cal
  BY <1>0, <1>1 DEF Local, Pc
<1>3. Move(r, AfterUnmark(r)) = [req EXCEPT ![r] = next]
  BY Facts DEF Move, TypeOK
<1>4. Moves(r, next)
  BY <1>2, <1>3, Facts, DisturbingMove DEF Unmark
<1>5. LocalOK(next, version) /\ (Building(next) <=> Building(me))
  BY <1>0, <1>2, Facts DEF LocalOK, Building, AfterUnmark
<1>6. Mutex(r, next) /\ DataTyped /\ served' \in [Key -> BOOLEAN]
  BY <1>5, Facts, DataUnchanged DEF Unmark, Mutex, TypeOK
<1>7. TypeOK' /\ LocalInv' /\ BuildInv'
  BY <1>4, <1>5, <1>6, FrameStep DEF Unmark
<1>8. /\ Healing => Healing'
      /\ \A c \in Cal : (served[c] => served'[c]) => (Covered(c) => Covered(c)')
  BY <1>0, <1>4, StillCovered DEF Unmark
<1>9. \A k \in Key : k \notin DropKeys(r) => served'[k] = served[k]
  BY Facts DEF Unmark, TypeOK
<1>10. \A c \in Cal : Covered(c) => Covered(c)'
  <2>1. CASE me.writes
    <3>1. DropKeys(r) = {me.cal}
      BY <2>1 DEF DropKeys
    <3>2. req'[r].cal = me.cal /\ req'[r].pc = "find"
      BY <1>2, <1>4, <2>1 DEF AfterUnmark, Moves, Same
    <3>3. PICK d \in Cal : d = me.cal
      BY <1>0
    <3>4. Covered(d)'
      BY <3>2, <3>3 DEF Covered, Forgets
    <3>5. \A c \in Cal \ {d} : served'[c] = served[c]
      BY <1>9, <3>1, <3>3 DEF Key
    <3> QED
      BY <1>8, <3>4, <3>5
  <2>2. CASE ~me.writes /\ me.key = Account
    BY <1>0, <1>8, <1>9, <2>2 DEF DropKeys, Key
  <2>3. CASE ~me.writes /\ me.key # Account
    <3>1. Healing'
      BY <1>2, <1>4, <2>3 DEF AfterUnmark, Moves, Same, Healing
    <3> QED
      BY <3>1 DEF Covered
  <2> QED
    BY <2>1, <2>2, <2>3
<1>11. \/ served[Account] \/ Healing => served'[Account] \/ Healing'
       \/ keychain = NoChain /\ \A q \in Request : req[q].pc = "unlock" => req[q].key # Account
  <2>1. CASE me.writes
    <3>1. served'[Account] = served[Account]
      BY <1>0, <1>9, <2>1 DEF DropKeys, Key
    <3> QED
      BY <1>8, <3>1
  <2>2. CASE ~me.writes /\ me.key = Account
    <3>1. kcMu = r
      BY <1>0, <2>2, Facts DEF Building
    <3>2. \A q \in Request : req[q].pc = "unlock" => req[q].key # Account
      BY <1>0, <3>1, Facts DEF Building
    <3>3. keychain = NoChain
      BY <3>1, Facts DEF IInv, BuildInv
    <3> QED
      BY <3>2, <3>3
  <2>3. CASE ~me.writes /\ me.key # Account
    BY <1>2, <1>4, <2>3 DEF AfterUnmark, Moves, Same, Healing
  <2> QED
    BY <2>1, <2>2, <2>3
<1>12. KeychainCovered' /\ HeldCovered'
  BY <1>1, <1>2, <1>4, <1>10, <1>11, CoverStep DEF Unmark
<1> QED
  BY <1>7, <1>12 DEF IInv

LEMMA DropKeychainStep ==
    ASSUME IInv, Assumptions, NEW r \in Request, DropKeychain(r) PROVE IInv'
<1> DEFINE me == req[r]
           next == [me EXCEPT !.pc = "lazy", !.key = Account]
<1>0. /\ me.pc = "drop" /\ me \in Local /\ ~me.writes /\ kcMu = NoRequest /\ kcMu' = NoRequest
      /\ keychain' = NoChain /\ TypeOK /\ LocalInv
  BY Facts DEF DropKeychain, LocalOK, IInv
<1>1. [req EXCEPT ![r].pc = "lazy", ![r].key = Account] = [req EXCEPT ![r] = next]
  BY <1>0 DEF TypeOK
<1>2. /\ next \in Local /\ next.pc = "lazy" /\ next.key = Account
      /\ next.writes = me.writes /\ next.cal = me.cal
  BY <1>0 DEF Local, Pc, Key
<1>3. Moves(r, next)
  BY <1>0, <1>1, <1>2, DisturbingMove DEF DropKeychain
<1>4. LocalOK(next, version) /\ ~Building(next)
  BY <1>0, <1>2 DEF LocalOK, Building
<1>5. /\ version' = version /\ keysOf' = keysOf /\ cached' = cached /\ served' = served
      /\ written' = written /\ raced' = raced
  BY DEF DropKeychain
<1>6. chains' \in [Chain -> Keychain]
  BY <1>0, ReferredOK DEF DropKeychain, TypeOK
<1>7. kcMu' # r /\ \A q \in Request : kcMu' # q /\ kcMu # q
  BY <1>0, Facts
<1>8. TypeOK'
  BY <1>0, <1>3, <1>4, <1>5, <1>6, <1>7, TypeStep DEF FileTyped, TypeOK
<1>9. LocalInv'
  BY <1>0, <1>3, <1>4, <1>5, LocalStep DEF TypeOK, Assumptions
<1>10. BuildInv' /\ KeychainCovered'
  BY <1>0 DEF BuildInv, KeychainCovered
<1>11. HeldCovered'
  <2> SUFFICES ASSUME NEW q \in Request, req'[q].pc = "unlock"
               PROVE  /\ req'[q].key # Account
                      /\ \A c \in Cal : req'[q].key = c => req'[q].chain # keychain'
    BY DEF HeldCovered
  <2>1. q # r /\ Same(req'[q], req[q])
    BY <1>2, <1>3 DEF Moves, Same
  <2>2. req[q].pc = "unlock" /\ LocalOK(req[q], version) /\ kcMu # q
    BY <1>0, <1>7, <2>1 DEF Same, LocalInv
  <2>3. req[q].key # Account
    BY <2>2, Facts DEF Building
  <2>4. req[q].chain \in Chain
    BY <2>2, <2>3 DEF LocalOK
  <2> QED
    BY <1>0, <2>1, <2>3, <2>4, Facts DEF Same
<1> QED
  BY <1>8, <1>9, <1>10, <1>11 DEF IInv

-----------------------------------------------------------------------------
(* UpdateCalendar.                                                         *)

\* A new version at the server is as good as the one before it.
LEMMA NewVersion ==
    ASSUME TypeOK, Assumptions, NEW k \in Key, version[k] < MaxVersion,
           version' = [version EXCEPT ![k] = @ + 1]
    PROVE  /\ version' \in [Key -> Version \ {0}]
           /\ \A x \in Key : cache[x] <= version'[x] /\ file[x] <= version'[x]
           /\ version[k] + 1 \in Version \ {0}
BY DEF TypeOK, Version, Assumptions, MaxVersionAssumption

LEMMA WriteStep ==
    ASSUME IInv, Assumptions, NEW r \in Request, Write(r) PROVE IInv'
<1> DEFINE me == req[r]
           c == me.cal
           next == [me EXCEPT !.pc = "delete", !.floor = version[c] + 1]
<1>0. /\ me.pc = "write" /\ me \in Local /\ me.writes /\ me.key = c /\ c \in Cal /\ c \in Key
      /\ c # Account /\ version[c] < MaxVersion /\ version' = [version EXCEPT ![c] = @ + 1]
      /\ kcMu' = kcMu
  BY Facts DEF Write, Changes, LocalOK, Key
<1>1. /\ version' \in [Key -> Version \ {0}]
      /\ \A x \in Key : cache[x] <= version'[x] /\ file[x] <= version'[x]
      /\ version[c] + 1 \in Version \ {0}
  BY <1>0, Facts, NewVersion
<1>2. kcMu # r
  BY <1>0, Facts DEF Building
<1>3. /\ UNCHANGED <<keysOf, cached, served, keychain, written, raced>>
      /\ chains' = chains /\ chains \in [Chain -> Keychain]
  BY Facts DEF Write, TypeOK
<1>4. CASE req' = Ended(r, {})
  BY <1>0, <1>1, <1>2, <1>3, <1>4, EndStep
<1>5. CASE req' # Ended(r, {})
  <2>1. req' = [req EXCEPT ![r] = next]
    BY <1>5, Facts DEF Write, TypeOK
  <2>2. /\ next \in Local /\ next.pc = "delete" /\ next.key = me.key
        /\ next.writes = me.writes /\ next.cal = me.cal
    BY <1>0, <1>1 DEF Local, Pc
  <2>3. LocalOK(next, version') /\ ~Building(next)
    BY <1>0, <2>2 DEF LocalOK, Building
  <2>4. Moves(r, next) /\ Mutex(r, next)
    BY <1>0, <1>2, <2>1, <2>2, <2>3, Facts, SimpleMove DEF Mutex
  <2>5. DataTyped
    BY <1>0, <1>1, <1>3, Facts DEF DataTyped, FileTyped, TypeOK
  <2> QED
    BY <1>0, <1>3, <2>2, <2>3, <2>4, <2>5, QuietStep
<1> QED
  BY <1>4, <1>5

LEMMA FindStep ==
    ASSUME IInv, Assumptions, NEW r \in Request, Find(r) PROVE IInv'
<1> DEFINE me == req[r]
           next == [me EXCEPT !.pc = "forget", !.chain = keychain]
<1>0. /\ me.pc = "find" /\ me \in Local /\ me.writes /\ me.cal \in Cal /\ kcMu # r
      /\ keychain \in Chain \cup {NoChain} /\ served \in [Key -> BOOLEAN]
  BY Facts DEF Find, LocalOK, TypeOK, Building
<1>1. req' = [req EXCEPT ![r] = next]
  BY Facts DEF Find, TypeOK
<1>2. /\ next \in Local /\ next.pc = "forget" /\ next.key = me.key /\ next.chain = keychain
      /\ next.writes = me.writes /\ next.cal = me.cal
  BY <1>0 DEF Local, Pc
<1>3. LocalOK(next, version) /\ ~Building(next)
  BY <1>0, <1>2, Facts DEF LocalOK, Building
<1>4. Moves(r, next) /\ Mutex(r, next)
  BY <1>0, <1>1, <1>2, <1>3, Facts, SimpleMove DEF Find, Mutex
<1>5. DataTyped
  BY Facts, DataUnchanged DEF Find
<1>6. UNCHANGED <<version, served, keychain, chains, raced>>
  BY DEF Find
<1>7. TypeOK' /\ LocalInv' /\ BuildInv'
  BY <1>0, <1>3, <1>4, <1>5, <1>6, FrameStep
<1>8. Healing => Healing'
  BY <1>0, <1>4 DEF Healing, Moves, Same
<1>9. ASSUME NEW c \in Cal, Covered(c) PROVE Covered(c)'
  <2>1. ASSUME NEW q \in Request, Forgets(req[q], c) PROVE Forgets(req[q], c)'
    <3>1. CASE q = r
      BY <1>2, <1>4, <1>6, <2>1, <3>1 DEF Moves, Same, Forgets
    <3>2. CASE q # r
      BY <1>4, <1>6, <2>1, <3>2 DEF Moves, Same, Forgets
    <3> QED
      BY <3>1, <3>2
  <2> QED
    BY <1>6, <1>8, <1>9, <2>1 DEF Covered
<1>10. KeychainCovered' /\ HeldCovered'
  BY <1>2, <1>4, <1>6, <1>8, <1>9, CoverStep
<1> QED
  BY <1>7, <1>10 DEF IInv

LEMMA ForgetStep ==
    ASSUME IInv, Assumptions, NEW r \in Request, Forget(r) PROVE IInv'
<1> DEFINE me == req[r]
           next == [me EXCEPT !.pc = "get", !.chain = NoChain]
           emptied == [chains[me.chain] EXCEPT !.access[me.cal] = NoItem]
           forgotten == [n \in Chain |-> IF n = me.chain THEN emptied ELSE chains[n]]
<1>0. /\ me.pc = "forget" /\ me \in Local /\ me.writes /\ me.cal \in Cal /\ me.key = me.cal
      /\ kcMu # r /\ keychain \in Chain \cup {NoChain} /\ served \in [Key -> BOOLEAN]
      /\ chains \in [Chain -> Keychain] /\ me.floor \in Version
  BY Facts DEF Forget, LocalOK, TypeOK, Building, Local
<1>1. req' = [req EXCEPT ![r] = next] /\ chains' = Referred(forgotten, keychain, req')
      /\ written' = Told(r) /\ raced' = RacedBy(r)
  BY Facts DEF Forget, TypeOK
<1>2. UNCHANGED <<version, keysOf, cached, served, keychain, kcMu>>
  BY DEF Forget
<1>3. /\ next \in Local /\ next.pc = "get" /\ next.key = me.key
      /\ next.writes = me.writes /\ next.cal = me.cal
  BY <1>0 DEF Local, Pc
<1>4. LocalOK(next, version) /\ ~Building(next)
  BY <1>0, <1>3, Facts DEF LocalOK, Building
<1>5. Moves(r, next) /\ Mutex(r, next)
  BY <1>0, <1>1, <1>2, <1>3, <1>4, Facts, SimpleMove DEF Mutex
<1>6. /\ forgotten \in [Chain -> Keychain]
      /\ \A n \in Chain : forgotten[n].account = chains[n].account
      /\ \A n \in Chain, c \in Cal : forgotten[n].access[c].cached =>
            chains[n].access[c].cached /\ (n # me.chain \/ c # me.cal)
  <2>1. NoItem \in Item /\ ~NoItem.cached
    BY DEF NoItem, Item, Version, Assumptions, MaxVersionAssumption
  <2>2. ASSUME me.chain \in Chain
        PROVE  /\ emptied \in Keychain /\ emptied.account = chains[me.chain].account
               /\ emptied.access[me.cal] = NoItem
               /\ \A c \in Cal \ {me.cal} : emptied.access[c] = chains[me.chain].access[c]
    BY <1>0, <2>1, <2>2 DEF Keychain
  <2>3. \A n \in Chain : n # me.chain => forgotten[n] = chains[n]
    OBVIOUS
  <2>4. \A n \in Chain : n = me.chain => forgotten[n] = emptied
    OBVIOUS
  <2>5. \A n \in Chain : forgotten[n] \in Keychain
    BY <1>0, <2>2, <2>3, <2>4
  <2> HIDE DEF emptied
  <2>6. forgotten \in [Chain -> Keychain]
    BY <2>5
  <2> HIDE DEF forgotten
  <2> QED
    BY <2>1, <2>2, <2>3, <2>4, <2>6
<1> HIDE DEF forgotten
<1>7. chains' \in [Chain -> Keychain] /\ (keychain # NoChain => chains'[keychain] = forgotten[keychain])
  BY <1>0, <1>1, <1>6, ReferredOK
<1>8. written' \in [Cal -> Version]
  BY <1>0, <1>1, Facts DEF Told, TypeOK
<1>9. raced \subseteq raced' /\ raced' \in SUBSET Cal /\ (Holding(r, me.cal) => me.cal \in raced')
  BY <1>0, <1>1, Facts DEF RacedBy, TypeOK
<1>10. DataTyped
  BY <1>2, <1>7, <1>8, <1>9, Facts DEF DataTyped, FileTyped, TypeOK
<1>11. TypeOK' /\ LocalInv' /\ BuildInv'
  BY <1>0, <1>2, <1>4, <1>5, <1>10, FrameStep
<1>12. Healing => Healing'
  BY <1>0, <1>5 DEF Healing, Moves, Same
<1>13. ASSUME NEW c \in Cal, Covered(c), c # me.cal \/ me.chain # keychain PROVE Covered(c)'
  <2>1. ASSUME NEW q \in Request, Forgets(req[q], c) PROVE Forgets(req[q], c)'
    <3>1. q # r
      BY <1>0, <1>13, <2>1 DEF Forgets
    <3> QED
      BY <1>2, <1>5, <2>1, <3>1 DEF Moves, Same, Forgets
  <2> QED
    BY <1>2, <1>9, <1>12, <1>13, <2>1 DEF Covered
<1>14. KeychainCovered'
  <2>1. ASSUME keychain # NoChain
        PROVE  chains[keychain].account.cached => served[Account] \/ Healing
    BY <2>1 DEF IInv, KeychainCovered
  <2>2. ASSUME keychain # NoChain, NEW c \in Cal, chains'[keychain].access[c].cached
        PROVE  Covered(c)'
    <3>1. chains[keychain].access[c].cached /\ (keychain # me.chain \/ c # me.cal)
      BY <1>0, <1>6, <1>7, <2>2
    <3> QED
      BY <1>13, <2>2, <3>1 DEF IInv, KeychainCovered
  <2> QED
    BY <1>0, <1>2, <1>6, <1>7, <1>12, <2>1, <2>2 DEF KeychainCovered
<1>15. HeldCovered'
  <2> SUFFICES ASSUME NEW q \in Request, req'[q].pc = "unlock", req'[q].item.cached
               PROVE  /\ req'[q].key = Account => served'[Account] \/ Healing'
                      /\ \A c \in Cal : req'[q].key = c /\ req'[q].chain = keychain => Covered(c)'
    BY <1>2 DEF HeldCovered
  <2>1. q # r /\ Same(req'[q], req[q])
    BY <1>3, <1>5 DEF Moves, Same
  <2>2. req'[q].key = Account => served'[Account] \/ Healing'
    BY <1>2, <1>12, <2>1 DEF IInv, HeldCovered, Same
  <2>3. ASSUME NEW c \in Cal, req'[q].key = c, req'[q].chain = keychain PROVE Covered(c)'
    <3>1. Covered(c)
      BY <2>1, <2>3 DEF IInv, HeldCovered, Same
    <3>2. CASE c = me.cal
      <4>1. Holding(r, me.cal)
        BY <2>1, <2>3, <3>2 DEF Holding, Same
      <4> QED
        BY <1>9, <3>2, <4>1 DEF Covered
    <3>3. CASE c # me.cal
      BY <1>13, <3>1, <3>3
    <3> QED
      BY <3>2, <3>3
  <2> QED
    BY <2>2, <2>3
<1> QED
  BY <1>11, <1>14, <1>15 DEF IInv

-----------------------------------------------------------------------------
(* The server, and a restart.                                              *)

LEMMA RotateStep ==
    ASSUME IInv, Assumptions, NEW k \in Key, Rotate(k) PROVE IInv'
<1>0. TypeOK /\ LocalInv /\ BuildInv /\ KeychainCovered /\ HeldCovered
  BY DEF IInv
<1>1. /\ version' \in [Key -> Version \ {0}]
      /\ \A x \in Key : cache[x] <= version'[x] /\ file[x] <= version'[x]
      /\ version[k] + 1 \in Version \ {0}
  BY <1>0, NewVersion DEF Rotate, Changes
<1>2. req' \in [Request -> Local] /\ \A q \in Request : Same(req'[q], req[q])
  BY <1>0, DisturbKeeps DEF Rotate, TypeOK
<1>3. UNCHANGED <<cached, served, keychain, chains, kcMu, written, raced>>
  BY DEF Rotate
<1>4. keysOf' \in [Key -> Version \ {0}]
  BY <1>0, <1>1 DEF Rotate, TypeOK
<1>5. \A q \in Request : Building(req'[q]) <=> Building(req[q])
  BY <1>2 DEF Same, Building
<1>6. TypeOK'
  BY <1>0, <1>1, <1>2, <1>3, <1>4, <1>5 DEF TypeOK, Building
<1>7. LocalInv'
  <2> SUFFICES ASSUME NEW q \in Request PROVE LocalOK(req'[q], version')
    BY DEF LocalInv
  <2>1. Same(req'[q], req[q]) /\ LocalOK(req[q], version) /\ req[q] \in Local
    BY <1>0, <1>2 DEF LocalInv, TypeOK
  <2>2. \A x \in Key : version[x] <= version'[x] /\ version[x] \in Nat /\ version'[x] \in Nat
    BY <1>0 DEF Rotate, TypeOK, Version, Assumptions, MaxVersionAssumption
  <2>3. req[q].item.v <= version[req[q].key] => req[q].item.v <= version'[req[q].key]
    BY <2>1, <2>2 DEF Local, Item, Version, Assumptions, MaxVersionAssumption
  <2> QED
    BY <2>1, <2>3 DEF LocalOK, Same
<1>8. (Healing => Healing') /\ \A c \in Cal : Covered(c) => Covered(c)'
  <2>1. \A q \in Request : req[q].pc = "drop" => req'[q].pc = "drop"
    BY <1>2 DEF Same
  <2>2. \A q \in Request, c \in Cal : Forgets(req[q], c) => Forgets(req[q], c)'
    BY <1>2, <1>3 DEF Same, Forgets
  <2> QED
    BY <1>3, <2>1, <2>2 DEF Healing, Covered
<1>9. KeychainCovered' /\ BuildInv'
  BY <1>0, <1>3, <1>8 DEF KeychainCovered, BuildInv
<1>10. HeldCovered'
  BY <1>0, <1>2, <1>3, <1>8 DEF HeldCovered, Same
<1> QED
  BY <1>6, <1>7, <1>9, <1>10 DEF IInv

\* What came back is told, and nobody moves.
LEMMA PutElsewhereStep ==
    ASSUME IInv, Assumptions, PutElsewhere PROVE IInv'
<1>0. TypeOK /\ LocalInv /\ BuildInv /\ KeychainCovered /\ HeldCovered
  BY DEF IInv
<1>1. req' \in [Request -> Local] /\ \A q \in Request : Same(req'[q], req[q])
  BY <1>0, DisturbKeeps DEF PutElsewhere, TypeOK
<1>2. UNCHANGED <<version, keysOf, served, keychain, chains, kcMu, written, raced>>
  BY DEF PutElsewhere
<1>3. \A q \in Request : Building(req'[q]) <=> Building(req[q])
  BY <1>1 DEF Same, Building
<1>4. TypeOK'
  BY <1>0, <1>1, <1>2, <1>3 DEF PutElsewhere, TypeOK, Building
<1>5. LocalInv'
  BY <1>0, <1>1, <1>2 DEF LocalInv, LocalOK, Same
<1>6. (Healing => Healing') /\ \A c \in Cal : Covered(c) => Covered(c)'
  BY <1>1, <1>2 DEF Healing, Covered, Forgets, Same
<1>7. KeychainCovered' /\ BuildInv'
  BY <1>0, <1>2, <1>6 DEF KeychainCovered, BuildInv
<1>8. HeldCovered'
  BY <1>0, <1>1, <1>2, <1>6 DEF HeldCovered, Same
<1> QED
  BY <1>4, <1>5, <1>7, <1>8 DEF IInv

\* All requests idle and no keychain.
LEMMA FreshStart ==
    ASSUME Assumptions, \A q \in Request : \E c \in Cal : req[q] = Idle(c),
           keychain = NoChain, kcMu = NoRequest
    PROVE  /\ LocalInv /\ BuildInv /\ KeychainCovered /\ HeldCovered
           /\ \A q \in Request : req[q] \in Local /\ ~Building(req[q]) /\ kcMu # q
<1>1. \A q \in Request : /\ req[q] \in Local /\ req[q].pc = "idle"
                         /\ LocalOK(req[q], version) /\ ~Building(req[q])
  BY IdleOK
<1> QED
  BY <1>1 DEF LocalInv, BuildInv, KeychainCovered, HeldCovered, Assumptions, NoRequestAssumption

LEMMA RestartStep ==
    ASSUME IInv, Assumptions, Restart PROVE IInv'
<1>1. Empty \in Keychain
  BY DEF Empty, Keychain, NoItem, Item, Version, Assumptions, MaxVersionAssumption
<1>2. /\ req' = [r \in Request |-> Idle(req[r].cal)] /\ keychain' = NoChain /\ kcMu' = NoRequest
      /\ version' = version
  BY DEF Restart
<1>3. \A q \in Request : \E c \in Cal : req'[q] = Idle(c)
  BY <1>2, Facts
<1>4. \A q \in Request : /\ req'[q] \in Local /\ req'[q].pc = "idle"
                         /\ LocalOK(req'[q], version') /\ ~Building(req'[q])
  BY <1>3, IdleOK
<1>5. LocalInv' /\ BuildInv' /\ KeychainCovered' /\ HeldCovered'
  BY <1>2, <1>4 DEF LocalInv, BuildInv, KeychainCovered, HeldCovered
<1>6. TypeOK'
  <2>1. req' \in [Request -> Local]
    BY <1>2, <1>4
  <2>2. \A q \in Request : kcMu' # q
    BY <1>2 DEF Assumptions, NoRequestAssumption
  <2> QED
    BY <1>1, <1>2, <1>4, <2>1, <2>2 DEF Restart, IInv, TypeOK, Building
<1> QED
  BY <1>5, <1>6 DEF IInv

-----------------------------------------------------------------------------
(* The theorems.                                                           *)

LEMMA InvInit == Assumptions /\ Init => IInv
<1> SUFFICES ASSUME Assumptions, Init PROVE IInv
  OBVIOUS
<1>1. PICK c \in Cal : req = [r \in Request |-> Idle(c)]
  BY DEF Init
<1>2. Empty \in Keychain /\ 0 \in Version /\ 1 \in Version \ {0}
  BY DEF Empty, Keychain, NoItem, Item, Version, Assumptions, MaxVersionAssumption
<1>3. /\ LocalInv /\ BuildInv /\ KeychainCovered /\ HeldCovered
      /\ \A q \in Request : req[q] \in Local /\ ~Building(req[q]) /\ kcMu # q
  BY <1>1, FreshStart DEF Init
<1>4. req \in [Request -> Local]
  BY <1>1, <1>3
<1>5. /\ cache \in [Key -> Version] /\ \A k \in Key : cache[k] <= version[k]
      /\ file \in [Key -> Version] /\ \A k \in Key : file[k] <= version[k]
  BY <1>2 DEF Init
<1>6. TypeOK
  BY <1>2, <1>3, <1>4, <1>5 DEF Init, TypeOK, Building
<1> QED
  BY <1>3, <1>6 DEF IInv

LEMMA ServeStep ==
    ASSUME IInv, Assumptions, NEW r \in Request, Serve(r) PROVE IInv'
<1>1. CASE KeychainHave(r) \/ KeychainBuild(r)
  BY <1>1, KeychainHaveStep, KeychainBuildStep
<1>2. CASE GetHit(r) \/ Mark(r) \/ Fetched(r) \/ Put(r)
  BY <1>2, GetHitStep, MarkStep, FetchedStep, PutStep
<1>3. CASE OpenMiss(r) \/ OpenHave(r) \/ UnlockedAccount(r) \/ UnlockedCalendar(r)
  BY <1>3, OpenMissStep, OpenHaveStep, UnlockedAccountStep, UnlockedCalendarStep
<1>4. CASE UnlockFails(r) \/ FetchFails(r) \/ GiveUp(r) \/ UsedWell(r) \/ WriteFails(r) \/ Show(r)
  BY <1>4, FailureSteps
<1>5. CASE Degraded(r) \/ Delete(r) \/ Unmark(r) \/ DropKeychain(r)
  BY <1>5, DegradedStep, DeleteStep, UnmarkStep, DropKeychainStep
<1>6. CASE Write(r) \/ Find(r) \/ Forget(r)
  BY <1>6, WriteStep, FindStep, ForgetStep
<1> QED
  BY <1>1, <1>2, <1>3, <1>4, <1>5, <1>6 DEF Serve

LEMMA InvStep == Assumptions /\ IInv /\ [Next]_vars => IInv'
<1> SUFFICES ASSUME Assumptions, IInv, [Next]_vars PROVE IInv'
  OBVIOUS
<1>1. CASE \E k \in Key : Rotate(k)
  BY <1>1, RotateStep
<1>2. CASE \E r \in Request, c \in Cal : Start(r, c)
  BY <1>2, StartStep
<1>3. CASE \E r \in Request : Serve(r)
  BY <1>3, ServeStep
<1>4. CASE Restart
  BY <1>4, RestartStep
<1>5. CASE PutElsewhere
  BY <1>5, PutElsewhereStep
<1>6. CASE UNCHANGED vars
  BY <1>6 DEF vars, IInv, TypeOK, LocalInv, BuildInv, KeychainCovered, HeldCovered, Covered,
              Healing, Forgets
<1> QED
  BY <1>1, <1>2, <1>3, <1>4, <1>5, <1>6 DEF Next

\* The inductive invariant: types, what each request is about, and a mark, a
\* retry or a race behind every cached response that is unlocked or about to be.
THEOREM Invariance == Spec => []IInv
<1>1. Init => IInv
  BY Constants, InvInit
<1>2. IInv /\ [Next]_vars => IInv'
  BY Constants, InvStep
<1> QED
  BY <1>1, <1>2, PTL DEF Spec

\* The types are right, the cache holds what the server has issued, and the
\* mutex of keychainLazy is held by who builds a keychain, and nobody else.
THEOREM TypeCorrect == Spec => []TypeOK
<1>1. IInv => TypeOK
  BY DEF IInv
<1> QED
  BY <1>1, Invariance, PTL

\* A keychain built from cached responses can be healed: the mark that a retry
\* asks for is there, or somebody is about to drop what was unlocked.
THEOREM Heals == Spec => []HealableKeychain
<1>1. IInv => HealableKeychain
  BY DEF IInv, KeychainCovered, HealableKeychain, Covered, Healing, Forgets
<1> QED
  BY <1>1, Invariance, PTL

-----------------------------------------------------------------------------
(* That a settings write is seen: for any calendars, requests and changes, *)
(* WritesAreSeen of KeyHealing.                                            *)
(*                                                                         *)
(* A response of a calendar is Fresh if no acknowledged write is missing   *)
(* from it, nor one whose request has emptied the cache already.  After    *)
(* that, only fresh responses come into the cache and the hands of         *)
(* requests, unless one held a response read before (raced), or an older   *)
(* one is still in the file and comes back (returned).  The keychain may   *)
(* have an older one until the write has made it forget the calendar.      *)

\* A settings write between its answer and its acknowledgement, and one that
\* has emptied the cache.
Writing(me) == me.writes /\ me.pc \in {"delete", "unmark", "find", "forget"}
Past(me, c) == me.writes /\ me.cal = c /\ me.pc \in {"unmark", "find", "forget"}

Fresh(c, v, wr, reqs) ==
    v >= wr[c] /\ \A w \in Request : Past(reqs[w], c) => v >= reqs[w].floor

\* Keychain object n has a response of calendar c not older than v, or none.
SeenIn(n, c, v, objects) ==
    n \in Chain /\ objects[n].access[c] # NoItem => objects[n].access[c].v >= v

SeenOK(me, ver, wr, objects, reqs, ra) ==
    /\ me.floor <= ver[me.cal]
    /\ ~Writing(me) => me.floor <= wr[me.cal]
    /\ me.cal \notin ra =>
         /\ me.pc \in {"mark", "put", "unlock"} /\ me.key = me.cal =>
               Fresh(me.cal, me.item.v, wr, reqs)
         /\ me.pc = "open" => SeenIn(me.chain, me.cal, me.floor, objects)
         /\ me.pc \in {"use", "show"} => me.item.v >= me.floor

CacheOK(c, ca, wr, reqs) == ca[c] # 0 => Fresh(c, ca[c], wr, reqs)

\* A write that looked for the keychain before this one was built will not
\* find it.
KeychainOK(c, kc, wr, objects, reqs) ==
    /\ SeenIn(kc, c, wr[c], objects)
    /\ \A w \in Request :
          reqs[w].writes /\ reqs[w].pc = "forget" /\ reqs[w].cal = c /\ reqs[w].chain # kc =>
              SeenIn(kc, c, reqs[w].floor, objects)

\* What came late, and what came back.
Excused == raced \cup returned

RequestsSee == \A r \in Request : SeenOK(req[r], version, written, chains, req, Excused)
WrittenIssued == \A c \in Cal : written[c] <= version[c]
CacheSees == \A c \in Cal \ Excused : CacheOK(c, cache, written, req)
KeychainSees == \A c \in Cal \ Excused : KeychainOK(c, keychain, written, chains, req)

SeenInv == RequestsSee /\ WrittenIssued /\ CacheSees /\ KeychainSees

-----------------------------------------------------------------------------
(* Steps in which no write is acknowledged and no keychain changes.        *)

OthersSee(r) == \A q \in Request \ {r} : Same(req'[q], req[q])
Later == \A k \in Key : version[k] <= version'[k]

LEMMA Numbers ==
    ASSUME IInv, Assumptions
    PROVE  /\ \A k \in Key : version[k] \in Nat /\ cache[k] \in Nat /\ cache[k] <= version[k]
           /\ \A c \in Cal : written[c] \in Nat /\ c \in Key
           /\ \A r \in Request : req[r].floor \in Nat /\ req[r].item.v \in Nat
           /\ Version \subseteq Nat
BY DEF IInv, TypeOK, Local, Item, Version, Key, Assumptions, MaxVersionAssumption

\* Objects in use are kept.
LEMMA StillReferred ==
    ASSUME NEW n \in Chain, NEW kc, NEW reqs, NEW objects,
           n = kc \/ \E q \in Request : reqs[q].chain = n
    PROVE  Referred(objects, kc, reqs)[n] = objects[n]
BY DEF Referred, InUse

\* Nobody minds newer versions at the server.
LEMMA LaterOK ==
    ASSUME IInv, IInv', Assumptions, Later, Excused \subseteq Excused', NEW q \in Request,
           Same(req'[q], req[q]), SeenOK(req[q], version, written, chains, req, Excused)
    PROVE  SeenOK(req'[q], version', written, chains, req, Excused')
<1>1. req[q].cal \in Key
  BY Facts DEF Key
<1>2. version[req[q].cal] <= version'[req[q].cal] /\ version'[req[q].cal] \in Nat
  BY <1>1 DEF Later, IInv, TypeOK, Version, Assumptions, MaxVersionAssumption
<1>3. req[q].floor <= version'[req[q].cal]
  BY <1>1, <1>2, Numbers DEF SeenOK
<1> QED
  BY <1>3 DEF SeenOK, Same, Writing

LEMMA WrittenLater ==
    ASSUME IInv, IInv', Assumptions, Later, WrittenIssued, written' = written
    PROVE  WrittenIssued'
<1> SUFFICES ASSUME NEW c \in Cal PROVE written[c] <= version'[c]
  BY DEF WrittenIssued
<1>1. c \in Key /\ version[c] <= version'[c] /\ written[c] <= version[c]
  BY Numbers DEF Later, WrittenIssued
<1>2. version'[c] \in Nat
  BY <1>1 DEF IInv, TypeOK, Version, Assumptions, MaxVersionAssumption
<1> QED
  BY <1>1, <1>2, Numbers

LEMMA Calm ==
    ASSUME IInv, IInv', Assumptions, SeenInv, NEW r \in Request, OthersSee(r), Later,
           written' = written, Excused \subseteq Excused', keychain' = keychain,
           chains' = chains \/ chains' = Referred(chains, keychain, req'),
           \A c \in Cal \ Excused' : CacheOK(c, cache', written, req),
           \A c \in Cal : Past(req'[r], c) => Past(req[r], c) /\ req'[r].floor = req[r].floor,
           req'[r].pc = "forget" =>
               req'[r].chain = keychain \/ Same(req'[r], req[r]),
           SeenOK(req'[r], version', written, chains, req, Excused')
    PROVE  SeenInv'
<1>0. RequestsSee /\ WrittenIssued /\ CacheSees /\ KeychainSees
  BY DEF SeenInv
<1>1. ASSUME NEW c \in Cal, NEW v, Fresh(c, v, written, req) PROVE Fresh(c, v, written', req')
  <2>1. ASSUME NEW w \in Request, Past(req'[w], c) PROVE Past(req[w], c) /\ req'[w].floor = req[w].floor
    BY <2>1 DEF OthersSee, Same, Past
  <2> QED
    BY <1>1, <2>1 DEF Fresh
<1>2. ASSUME NEW c \in Cal, NEW v, NEW n, n = keychain \/ (\E q \in Request : req'[q].chain = n),
             SeenIn(n, c, v, chains)
      PROVE  SeenIn(n, c, v, chains')
  BY <1>2, StillReferred DEF SeenIn
<1>3. ASSUME NEW q \in Request, SeenOK(req'[q], version', written, chains, req, Excused')
      PROVE  SeenOK(req'[q], version', written', chains', req', Excused')
  <2>1. req'[q].cal \in Cal
    BY DEF IInv, TypeOK, Local
  <2> QED
    BY <1>1, <1>2, <1>3, <2>1 DEF SeenOK
<1>4. ASSUME NEW q \in Request, q # r
      PROVE  SeenOK(req'[q], version', written, chains, req, Excused')
  BY <1>0, <1>4, LaterOK DEF OthersSee, RequestsSee
<1>5. RequestsSee'
  BY <1>3, <1>4 DEF RequestsSee
<1>6. WrittenIssued'
  BY <1>0, WrittenLater
<1>7. CacheSees'
  BY <1>1 DEF CacheSees, CacheOK
<1>8. KeychainSees'
  <2> SUFFICES ASSUME NEW c \in Cal \ Excused' PROVE KeychainOK(c, keychain, written, chains', req')
    BY DEF KeychainSees
  <2>1. KeychainOK(c, keychain, written, chains, req)
    BY <1>0 DEF KeychainSees
  <2>2. SeenIn(keychain, c, written[c], chains')
    BY <1>2, <2>1 DEF KeychainOK
  <2>3. ASSUME NEW w \in Request, req'[w].writes, req'[w].pc = "forget", req'[w].cal = c, req'[w].chain # keychain
        PROVE  SeenIn(keychain, c, req'[w].floor, chains')
    <3>1. Same(req'[w], req[w])
      BY <2>3 DEF OthersSee
    <3>2. SeenIn(keychain, c, req'[w].floor, chains)
      BY <2>1, <2>3, <3>1 DEF KeychainOK, Same
    <3> QED
      BY <1>2, <3>2
  <2> QED
    BY <2>2, <2>3 DEF KeychainOK
<1> QED
  BY <1>5, <1>6, <1>7, <1>8 DEF SeenInv

-----------------------------------------------------------------------------
(* The actions of one request, as far as they are calm.                    *)

\* What is so of a request now.
LEMMA MeNow ==
    ASSUME IInv, SeenInv, Assumptions, NEW r \in Request
    PROVE  /\ TypeOK /\ SeenOK(req[r], version, written, chains, req, Excused)
           /\ req[r].cal \in Cal /\ req[r].cal \in Key /\ Account \notin Cal
           /\ LocalOK(req[r], version)
           /\ written[req[r].cal] \in Nat /\ version[req[r].cal] \in Nat
           /\ written[req[r].cal] <= version[req[r].cal]
           /\ req[r].floor \in Nat /\ req[r].item.v \in Nat
           /\ DOMAIN req = Request
           /\ \A c \in Cal \ Excused : CacheOK(c, cache, written, req)
BY Facts, Numbers DEF SeenInv, RequestsSee, WrittenIssued, CacheSees, Key, TypeOK

\* What the server has now misses no write.
LEMMA NewestFresh ==
    ASSUME IInv, SeenInv, Assumptions, NEW c \in Cal, NEW v \in Nat, v >= version[c]
    PROVE  Fresh(c, v, written, req)
<1>1. c \in Key /\ version[c] \in Nat /\ written[c] \in Nat /\ written[c] <= version[c]
  BY Numbers DEF SeenInv, WrittenIssued
<1>2. v >= written[c]
  BY <1>1
<1>3. ASSUME NEW w \in Request, Past(req[w], c) PROVE v >= req[w].floor
  <2>1. req[w].floor <= version[c] /\ req[w].floor \in Nat
    BY <1>3, MeNow DEF SeenOK, Past
  <2> QED
    BY <1>1, <2>1
<1> QED
  BY <1>2, <1>3 DEF Fresh

\* Nor does what is loaded from the file, unless it comes back.
LEMMA Reloaded ==
    ASSUME IInv, SeenInv, Assumptions, NEW keys,
           NEW c \in Cal, c \notin keys, c \notin Excused, c \notin Back(keys)
    PROVE  CacheOK(c, file, written, req)
<1>1. c \in Key /\ CacheOK(c, cache, written, req)
  BY Numbers DEF SeenInv, CacheSees
<1>2. /\ file[c] = 0 \/ file[c] = cache[c] \/ file[c] >= version[c]
      /\ file[c] \in Nat
  <2>1. file[c] \in Nat /\ version[c] \in Nat
    BY <1>1, Numbers DEF IInv, TypeOK
  <2> QED
    BY <1>1, <2>1 DEF Back
<1>3. CASE file[c] = cache[c]
  BY <1>1, <1>3 DEF CacheOK
<1> QED
  BY <1>2, <1>3, NewestFresh DEF CacheOK

LEMMA UpdateSees ==
    ASSUME IInv, SeenInv, Assumptions, NEW keys, NEW v, NEW reqs,
           Update(keys, v, reqs), raced \subseteq raced'
    PROVE  /\ Excused \subseteq Excused'
           /\ \A k \in Key \cap keys : cache'[k] = v
           /\ \A c \in Cal \ Excused' : c \notin keys => CacheOK(c, cache', written, req)
<1>1. returned \subseteq returned' /\ Excused \subseteq Excused'
  BY DEF Update, Excused
<1>2. cache' \in {Updated(cache, keys, v), Updated(file, keys, v)}
  BY DEF Update
<1>3. \A k \in Key \cap keys : cache'[k] = v
  BY <1>2 DEF Updated
<1>4. ASSUME NEW c \in Cal, c \notin Excused', c \notin keys PROVE CacheOK(c, cache', written, req)
  <2>1. c \notin Excused /\ c \notin returned' /\ c \in Key
    BY <1>1, <1>4 DEF Excused, Key
  <2>2. CASE cache' = Updated(cache, keys, v)
    <3>1. cache'[c] = cache[c]
      BY <1>4, <2>1, <2>2 DEF Updated
    <3> QED
      BY <2>1, <3>1 DEF SeenInv, CacheSees, CacheOK
  <2>3. CASE cache' # Updated(cache, keys, v)
    <3>1. cache' = Updated(file, keys, v) /\ c \notin Back(keys)
      BY <2>1, <2>3 DEF Update
    <3>2. cache'[c] = file[c]
      BY <1>4, <2>1, <3>1 DEF Updated
    <3>3. CacheOK(c, file, written, req)
      BY <1>4, <2>1, <3>1, Reloaded
    <3> QED
      BY <3>2, <3>3 DEF CacheOK
  <2> QED
    BY <2>2, <2>3
<1> QED
  BY <1>1, <1>3, <1>4

\* Nothing but r's own state, and garbage.
LEMMA CalmMove ==
    ASSUME IInv, IInv', Assumptions, SeenInv, NEW r \in Request, OthersSee(r),
           UNCHANGED <<version, cached, keychain, written, Excused>>,
           chains' = chains \/ chains' = Referred(chains, keychain, req'),
           \A c \in Cal : Past(req'[r], c) => Past(req[r], c) /\ req'[r].floor = req[r].floor,
           req'[r].pc = "forget" => req'[r].chain = keychain,
           SeenOK(req'[r], version, written, chains, req, Excused)
    PROVE  SeenInv'
<1>1. Later
  BY Numbers DEF Later
<1> QED
  BY <1>1, Calm DEF SeenInv, CacheSees

\* The request is over.
LEMMA OverOK ==
    ASSUME IInv, Assumptions, NEW r \in Request, NEW items, req' = Ended(r, items)
    PROVE  /\ OthersSee(r) /\ req'[r].pc = "idle" /\ req'[r].floor = 0 /\ req'[r].cal = req[r].cal
<1> DEFINE idle == Idle(req[r].cal)
<1>1. idle.pc = "idle" /\ idle.floor = 0 /\ idle.cal = req[r].cal
  BY DEF Idle
<1>2. DOMAIN req = Request
  BY DEF IInv, TypeOK
<1>3. \A q \in Request \ {r} : req'[q] = req[q]
  BY <1>2 DEF Ended
<1>4. req'[r] = idle \/ \E b, d : req'[r] = [idle EXCEPT !.blame = b, !.disturbed = d]
  BY <1>2 DEF Ended
<1>5. OthersSee(r)
  BY <1>3 DEF OthersSee, Same
<1>6. req'[r].pc = "idle" /\ req'[r].floor = 0 /\ req'[r].cal = req[r].cal
  <2>1. CASE req'[r] = idle
    BY <1>1, <2>1
  <2>2. CASE req'[r] # idle
    <3>1. PICK b, d : req'[r] = [idle EXCEPT !.blame = b, !.disturbed = d]
      BY <1>4, <2>2
    <3> QED
      BY <3>1 DEF Idle
  <2> QED
    BY <2>1, <2>2
<1> QED
  BY <1>5, <1>6

LEMMA OverSees ==
    ASSUME IInv, SeenInv, Assumptions, NEW r \in Request, NEW items, req' = Ended(r, items),
           NEW ver, ver[req[r].cal] >= 0, NEW ra
    PROVE  SeenOK(req'[r], ver, written, chains, req, ra)
BY OverOK, MeNow DEF SeenOK, Writing

LEMMA GivesSees ==
    ASSUME IInv, IInv', SeenInv, Assumptions, NEW r \in Request, NEW items, Gives(r, items)
    PROVE  SeenInv'
<1>1. req' = Ended(r, items) /\ chains' = Referred(chains, keychain, req')
      /\ UNCHANGED <<version, cached, keychain, written, Excused>>
  BY DEF Gives, Excused
<1>2. SeenOK(req'[r], version, written, chains, req, Excused)
  BY <1>1, MeNow, OverSees
<1>3. \A c : ~Past(req'[r], c)
  BY <1>1, OverOK DEF Past
<1> QED
  BY <1>1, <1>2, <1>3, OverOK, CalmMove

LEMMA StartSees ==
    ASSUME IInv, IInv', SeenInv, Assumptions, NEW r \in Request, NEW c \in Cal, Start(r, c)
    PROVE  SeenInv'
<1>1. PICK w \in BOOLEAN :
        req' = [req EXCEPT ![r] = [Idle(c) EXCEPT !.pc = IF w THEN "write" ELSE "lazy",
                                      !.writes = w, !.key = IF w THEN c ELSE Account,
                                      !.floor = written[c], !.disturbed = Invalidating]]
  BY Zenon DEF Start
<1>2. /\ req'[r].pc \in {"write", "lazy"} /\ req'[r].floor = written[c] /\ req'[r].cal = c
      /\ OthersSee(r)
  BY <1>1, MeNow DEF OthersSee, Same, Idle
<1>3. written[c] <= version[c] /\ written[c] \in Nat /\ version[c] \in Nat
  BY Numbers DEF SeenInv, WrittenIssued
<1>4. SeenOK(req'[r], version, written, chains, req, Excused)
  BY <1>2, <1>3 DEF SeenOK, Writing
<1>5. UNCHANGED <<version, cached, keychain, chains, written, Excused>>
  BY DEF Start, Excused
<1> QED
  BY <1>2, <1>4, <1>5, CalmMove DEF Past

LEMMA OpensSee ==
    ASSUME IInv, IInv', SeenInv, Assumptions, NEW r \in Request,
           KeychainHave(r) \/ KeychainBuild(r) \/ OpenMiss(r)
    PROVE  SeenInv'
<1>1. UNCHANGED <<version, cached, keychain, chains, written, Excused>>
  BY DEF KeychainHave, KeychainBuild, OpenMiss, Excused
<1>2. /\ OthersSee(r) /\ req'[r].cal = req[r].cal /\ req'[r].floor = req[r].floor
      /\ req'[r].writes = req[r].writes /\ ~Writing(req[r]) /\ req'[r].pc \in {"open", "get"}
      /\ req'[r].pc = "open" => keychain \in Chain /\ req'[r].chain = keychain
  <2>1. CASE KeychainHave(r)
    BY <2>1, MeNow DEF KeychainHave, OthersSee, Same, Writing, TypeOK
  <2>2. CASE KeychainBuild(r)
    BY <2>2, MeNow DEF KeychainBuild, OthersSee, Same, Writing, TypeOK
  <2>3. CASE OpenMiss(r)
    BY <2>3, MeNow DEF OpenMiss, OthersSee, Same, Writing, TypeOK
  <2> QED
    BY <2>1, <2>2, <2>3
<1>3. req[r].cal \notin Excused => SeenIn(keychain, req[r].cal, req[r].floor, chains)
  <2>1. SUFFICES ASSUME req[r].cal \notin Excused, keychain \in Chain,
                        chains[keychain].access[req[r].cal] # NoItem
                 PROVE  chains[keychain].access[req[r].cal].v >= req[r].floor
    BY DEF SeenIn
  <2>2. chains[keychain].access[req[r].cal].v >= written[req[r].cal]
    BY <2>1, MeNow DEF SeenInv, KeychainSees, KeychainOK, SeenIn
  <2>3. chains[keychain].access[req[r].cal].v \in Nat
    BY <2>1, MeNow, Numbers DEF TypeOK, Keychain, Item
  <2> QED
    BY <1>2, <2>2, <2>3, MeNow DEF SeenOK
<1>4. SeenOK(req'[r], version, written, chains, req, Excused)
  BY <1>2, <1>3, MeNow DEF SeenOK, Writing
<1> QED
  BY <1>1, <1>2, <1>4, CalmMove DEF Past

\* What is read is fresh: an entry of the cache, and what the server has now.
LEMMA GetHitSees ==
    ASSUME IInv, IInv', SeenInv, Assumptions, NEW r \in Request, GetHit(r) PROVE SeenInv'
<1> DEFINE k == req[r].key
<1>1. UNCHANGED <<version, cached, keychain, chains, written, Excused>> /\ cache[k] # 0
      /\ req[r].pc = "get"
  BY DEF GetHit, Excused
<1>2. /\ OthersSee(r) /\ req'[r].cal = req[r].cal /\ req'[r].floor = req[r].floor
      /\ req'[r].writes = req[r].writes /\ req'[r].pc = "mark" /\ req'[r].key = k
      /\ req'[r].item.v = cache[k]
  BY MeNow DEF GetHit, OthersSee, Same
<1>3. req[r].cal \notin Excused /\ k = req[r].cal => Fresh(req[r].cal, cache[k], written, req)
  BY <1>1, MeNow DEF CacheOK
<1>4. SeenOK(req'[r], version, written, chains, req, Excused)
  BY <1>1, <1>2, <1>3, MeNow DEF SeenOK, Writing
<1> QED
  BY <1>1, <1>2, <1>4, CalmMove DEF Past

LEMMA FetchedSees ==
    ASSUME IInv, IInv', SeenInv, Assumptions, NEW r \in Request, Fetched(r) PROVE SeenInv'
<1> DEFINE k == req[r].key
           c == req[r].cal
<1>1. UNCHANGED <<version, cached, keychain, chains, written, Excused>> /\ req[r].pc = "get"
  BY DEF Fetched, Excused
<1>2. /\ OthersSee(r) /\ req'[r].cal = c /\ req'[r].floor = req[r].floor
      /\ req'[r].writes = req[r].writes /\ req'[r].pc = "put" /\ req'[r].key = k
      /\ req'[r].item.v = version[k]
  BY MeNow DEF Fetched, OthersSee, Same
<1>3. Fresh(c, version[c], written, req)
  BY MeNow, NewestFresh
<1>4. SeenOK(req'[r], version, written, chains, req, Excused)
  BY <1>1, <1>2, <1>3, MeNow DEF SeenOK, Writing
<1> QED
  BY <1>1, <1>2, <1>4, CalmMove DEF Past

\* A request has read what it asked for.
LEMMA ReadOK ==
    ASSUME IInv, SeenInv, Assumptions, NEW r \in Request, req[r].pc \in {"mark", "put"},
           NEW me, Same(me, [req[r] EXCEPT !.pc = AfterGet(r)])
    PROVE  SeenOK(me, version, written, chains, req, Excused)
<1>1. /\ me.pc = (IF req[r].writes THEN "show" ELSE "unlock") /\ me.cal = req[r].cal
      /\ me.key = req[r].key /\ me.floor = req[r].floor /\ me.item = req[r].item
      /\ me.writes = req[r].writes
  BY Facts DEF Same, AfterGet, Local
<1>2. req[r].writes /\ req[r].cal \notin Excused => req[r].item.v >= req[r].floor
  BY MeNow DEF SeenOK, Fresh, LocalOK, Writing
<1> QED
  BY <1>1, <1>2, MeNow DEF SeenOK, Writing

LEMMA MarkSees ==
    ASSUME IInv, IInv', SeenInv, Assumptions, NEW r \in Request, Mark(r) PROVE SeenInv'
<1>1. UNCHANGED <<version, cached, keychain, chains, written, Excused>> /\ req[r].pc = "mark"
  BY DEF Mark, Excused
<1>2. OthersSee(r) /\ req'[r] = [req[r] EXCEPT !.pc = AfterGet(r)]
  BY MeNow DEF Mark, Move, OthersSee, Same
<1>3. SeenOK(req'[r], version, written, chains, req, Excused)
  BY <1>1, <1>2, ReadOK DEF Same
<1>4. req'[r].pc \in {"show", "unlock"}
  BY <1>2, Facts DEF AfterGet, Local
<1> QED
  BY <1>1, <1>2, <1>3, <1>4, CalmMove DEF Past

LEMMA PutSees ==
    ASSUME IInv, IInv', SeenInv, Assumptions, NEW r \in Request, Put(r) PROVE SeenInv'
<1> DEFINE k == req[r].key
           next == [req[r] EXCEPT !.pc = AfterGet(r)]
<1>1. UNCHANGED <<version, keychain, chains, written, raced>> /\ req[r].pc = "put" /\ k \in Key
  BY Facts DEF Put
<1>2. /\ next \in Local /\ next.pc \in {"show", "unlock"} /\ next.cal = req[r].cal
      /\ next.floor = req[r].floor
  BY Facts DEF Local, Pc, AfterGet
<1>3. Move(r, AfterGet(r)) = [req EXCEPT ![r] = next]
  BY MeNow DEF Move
<1>a. PICK reqs : reqs = IF req[r].item.v < version[k]
                        THEN Disturb(Move(r, AfterGet(r)), r, {k}) ELSE Move(r, AfterGet(r))
  OBVIOUS
<1>b. Update({k}, req[r].item.v, reqs)
  BY <1>a DEF Put
<1>c. reqs \in [Request -> Local]
      /\ (req' \in [Request -> Local] /\ (\A p \in Request : Same(req'[p], reqs[p])) => Moves(r, next))
  BY <1>2, <1>3, <1>a, MeNow, MovesAlike
<1>d. req' \in [Request -> Local] /\ \A q \in Request : Same(req'[q], reqs[q])
  <2>1. req[r].item.v \in Version /\ req[r].item.v <= version[k]
    BY <1>1, Facts DEF LocalOK, Local, Item
  <2> QED
    BY <1>1, <1>b, <1>c, <2>1, MeNow, UpdateTyped
<1>4. OthersSee(r) /\ Same(req'[r], next)
  BY <1>c, <1>d DEF OthersSee, Moves
<1>e. /\ Excused \subseteq Excused' /\ cache'[k] = req[r].item.v
      /\ \A c \in Cal \ Excused' : c \notin {k} => CacheOK(c, cache', written, req)
  BY <1>1, <1>b, UpdateSees
<1>5. SeenOK(req'[r], version, written, chains, req, Excused)
  BY <1>1, <1>4, ReadOK
<1>6. SeenOK(req'[r], version, written, chains, req, Excused')
  BY <1>5, <1>e DEF SeenOK
<1>7. \A c \in Cal \ Excused' : CacheOK(c, cache', written, req)
  <2> SUFFICES ASSUME NEW c \in Cal, c \notin Excused', c = k PROVE CacheOK(c, cache', written, req)
    BY <1>e
  <2>1. req[r].cal = c /\ c \notin Excused
    BY <1>e, MeNow DEF LocalOK
  <2>2. Fresh(c, req[r].item.v, written, req)
    BY <1>1, <2>1, MeNow DEF SeenOK
  <2> QED
    BY <1>e, <2>2 DEF CacheOK
<1>8. Later
  BY <1>1, Numbers DEF Later
<1>9. req'[r].pc \in {"show", "unlock"}
  BY <1>2, <1>4 DEF Same
<1> QED
  BY <1>1, <1>4, <1>6, <1>7, <1>8, <1>9, <1>e, Calm DEF Past

\* Without the keys, or past them.
LEMMA RetrySees ==
    ASSUME IInv, IInv', SeenInv, Assumptions, NEW r \in Request, ~req[r].writes,
           OthersSee(r), req'[r].pc = "delete", ~req'[r].writes,
           req'[r].cal = req[r].cal, req'[r].floor = req[r].floor,
           UNCHANGED <<version, cached, keychain, written, Excused>>,
           chains' = chains \/ chains' = Referred(chains, keychain, req')
    PROVE  SeenInv'
<1>1. SeenOK(req'[r], version, written, chains, req, Excused)
  BY MeNow DEF SeenOK, Writing
<1> QED
  BY <1>1, CalmMove DEF Past

LEMMA FailureSees ==
    ASSUME IInv, IInv', SeenInv, Assumptions, NEW r \in Request,
           \/ UnlockFails(r) \/ FetchFails(r) \/ GiveUp(r) \/ UsedWell(r)
           \/ Degraded(r) \/ WriteFails(r) \/ Show(r)
    PROVE  SeenInv'
<1>1. CASE Retries(r) /\ RetryFetch(r)
  <2> DEFINE retry == IF req[r].key = Account THEN [req[r] EXCEPT !.again = TRUE]
                      ELSE [req[r] EXCEPT !.healed = TRUE, !.chain = NoChain]
             next == [retry EXCEPT !.pc = "delete", !.item = NoItem]
  <2>1. ~req[r].writes /\ req[r] \in Local
    BY <1>1, Facts DEF Retries
  <2>2. /\ retry \in Local /\ retry.cal = req[r].cal /\ retry.floor = req[r].floor
        /\ retry.writes = req[r].writes
    BY <2>1 DEF Local
  <2>3. /\ next.pc = "delete" /\ next.cal = req[r].cal /\ next.floor = req[r].floor
        /\ next.writes = req[r].writes
    BY <2>2 DEF Local
  <2>4. req' = [req EXCEPT ![r] = next] /\ chains' = Referred(chains, keychain, req')
        /\ UNCHANGED <<version, cached, keychain, written, Excused>>
    BY <1>1 DEF RetryFetch, Excused
  <2>5. OthersSee(r) /\ req'[r] = next
    BY <2>4, MeNow DEF OthersSee, Same
  <2> QED
    BY <2>1, <2>3, <2>4, <2>5, RetrySees
<1>2. CASE \E items : Gives(r, items)
  BY <1>2, GivesSees
<1>3. CASE Degraded(r) /\ ~Gives(r, StaleBehind(r))
  <2>1. req[r].pc = "use" /\ ~req[r].writes
    BY <1>3, MeNow DEF Degraded, LocalOK
  <2>2. /\ req' = [req EXCEPT ![r].pc = "delete", ![r].item = NoItem, ![r].attempt = 1]
        /\ UNCHANGED <<version, cached, keychain, chains, written, Excused>>
    BY <1>3 DEF Degraded, Excused
  <2>3. /\ OthersSee(r) /\ req'[r].pc = "delete" /\ req'[r].cal = req[r].cal
        /\ req'[r].floor = req[r].floor /\ req'[r].writes = req[r].writes
    BY <2>2, MeNow, Facts DEF OthersSee, Same, Local
  <2> QED
    BY <2>1, <2>2, <2>3, RetrySees
<1> QED
  BY <1>1, <1>2, <1>3 DEF UnlockFails, FetchFails, GiveUp, UsedWell, Degraded, WriteFails, Show

LEMMA UnmarkSees ==
    ASSUME IInv, IInv', SeenInv, Assumptions, NEW r \in Request, Unmark(r) PROVE SeenInv'
<1> DEFINE f == Move(r, AfterUnmark(r))
<1>1. UNCHANGED <<version, cached, keychain, chains, written, Excused>> /\ req[r].pc = "unmark"
      /\ req' = Disturb(f, r, DropKeys(r))
  BY DEF Unmark, Excused
<1>2. /\ f \in [Request -> Local] /\ f[r] = [req[r] EXCEPT !.pc = AfterUnmark(r)]
      /\ \A q \in Request \ {r} : f[q] = req[q]
  <2>1. req[r] \in Local /\ req \in [Request -> Local] /\ AfterUnmark(r) \in Pc
    BY Facts DEF AfterUnmark, Pc, TypeOK
  <2>2. [req[r] EXCEPT !.pc = AfterUnmark(r)] \in Local
    BY <2>1 DEF Local
  <2> QED
    BY <2>1, <2>2 DEF Move
<1>3. \A q \in Request : Same(req'[q], f[q])
  BY <1>1, <1>2, DisturbKeeps
<1>4. /\ OthersSee(r) /\ req'[r].pc = AfterUnmark(r) /\ req'[r].cal = req[r].cal
      /\ req'[r].floor = req[r].floor /\ req'[r].writes = req[r].writes
  BY <1>2, <1>3, Facts DEF OthersSee, Same, Local
<1>5. req'[r].pc \in {"find", "get", "drop"} /\ (req'[r].pc = "find" <=> req[r].writes)
  BY <1>4 DEF AfterUnmark
<1>6. SeenOK(req'[r], version, written, chains, req, Excused)
  BY <1>1, <1>4, <1>5, MeNow DEF SeenOK, Writing
<1> QED
  BY <1>1, <1>4, <1>5, <1>6, CalmMove DEF Past

LEMMA FindSees ==
    ASSUME IInv, IInv', SeenInv, Assumptions, NEW r \in Request, Find(r) PROVE SeenInv'
<1>1. UNCHANGED <<version, cached, keychain, chains, written, Excused>> /\ req[r].pc = "find"
  BY DEF Find, Excused
<1>2. /\ OthersSee(r) /\ req'[r].pc = "forget" /\ req'[r].cal = req[r].cal
      /\ req'[r].floor = req[r].floor /\ req'[r].writes = req[r].writes /\ req'[r].chain = keychain
  BY MeNow DEF Find, OthersSee, Same
<1>3. SeenOK(req'[r], version, written, chains, req, Excused)
  BY <1>1, <1>2, MeNow DEF SeenOK, Writing, LocalOK
<1> QED
  BY <1>1, <1>2, <1>3, CalmMove DEF Past

LEMMA WriteSees ==
    ASSUME IInv, IInv', SeenInv, Assumptions, NEW r \in Request, Write(r) PROVE SeenInv'
<1> DEFINE c == req[r].cal
<1>1. /\ UNCHANGED <<cached, keychain, chains, written, Excused>> /\ req[r].pc = "write"
      /\ version' = [version EXCEPT ![c] = @ + 1]
  BY DEF Write, Excused
<1>2. version'[c] = version[c] + 1 /\ \A k \in Key \ {c} : version'[k] = version[k]
  BY <1>1, MeNow DEF TypeOK
<1>3. Later
  BY <1>2, Numbers DEF Later
<1>4. \A d \in Cal \ Excused' : CacheOK(d, cache', written, req)
  BY <1>1, MeNow
<1>5. CASE req' = Ended(r, {})
  <2>1. SeenOK(req'[r], version', written, chains, req, Excused')
    BY <1>2, <1>5, MeNow, OverSees
  <2> QED
    BY <1>1, <1>3, <1>4, <1>5, <2>1, OverOK, Calm DEF Past
<1>6. CASE req' = [req EXCEPT ![r].pc = "delete", ![r].floor = version[c] + 1]
  <2>1. /\ OthersSee(r) /\ req'[r].pc = "delete" /\ req'[r].cal = c /\ req'[r].writes = req[r].writes
        /\ req'[r].floor = version[c] + 1
    BY <1>6, MeNow, Facts DEF OthersSee, Same, Local
  <2>2. SeenOK(req'[r], version', written, chains, req, Excused')
    BY <1>1, <1>2, <2>1, MeNow DEF SeenOK, Writing, LocalOK
  <2> QED
    BY <1>1, <1>3, <1>4, <2>1, <2>2, Calm DEF Past
<1> QED
  BY <1>5, <1>6 DEF Write

LEMMA OpenHaveSees ==
    ASSUME IInv, IInv', SeenInv, Assumptions, NEW r \in Request, OpenHave(r) PROVE SeenInv'
<1> DEFINE access == chains[req[r].chain].access[req[r].cal]
<1>1. /\ UNCHANGED <<version, cached, keychain, written, Excused>> /\ req[r].pc = "open"
      /\ access # NoItem /\ chains' = Referred(chains, keychain, req')
      /\ req' = [req EXCEPT ![r].pc = "use", ![r].key = req[r].cal, ![r].item = access,
                            ![r].chain = NoChain, ![r].healed = FALSE]
  BY DEF OpenHave, Uses, Excused
<1>2. /\ OthersSee(r) /\ req'[r].pc = "use" /\ req'[r].cal = req[r].cal
      /\ req'[r].floor = req[r].floor /\ req'[r].writes = req[r].writes /\ req'[r].item = access
  <2>1. /\ \A q \in Request \ {r} : req'[q] = req[q]
        /\ req'[r] = [req[r] EXCEPT !.pc = "use", !.key = req[r].cal, !.item = access,
                                    !.chain = NoChain, !.healed = FALSE]
    BY <1>1, Facts DEF TypeOK
  <2> HIDE DEF access
  <2> QED
    BY <2>1, Facts DEF OthersSee, Same, Local
<1>3. req[r].cal \notin Excused => access.v >= req[r].floor
  BY <1>1, MeNow DEF SeenOK, SeenIn, LocalOK
<1>4. SeenOK(req'[r], version, written, chains, req, Excused)
  BY <1>1, <1>2, <1>3, MeNow DEF SeenOK, Writing
<1> QED
  BY <1>1, <1>2, <1>4, CalmMove DEF Past

-----------------------------------------------------------------------------
(* The actions that change keychains.                                      *)

\* A step of r in which no write comes or goes, and nothing at the server.
LEMMA ChainMove ==
    ASSUME IInv, SeenInv, Assumptions, NEW r \in Request, OthersSee(r),
           UNCHANGED <<version, cached, written, Excused>>, ~Writing(req[r]), ~Writing(req'[r]),
           req'[r].cal = req[r].cal, req'[r].floor = req[r].floor,
           req'[r].pc \notin {"mark", "put", "unlock"},
           req[r].cal \notin Excused /\ req'[r].pc = "open" =>
               SeenIn(req'[r].chain, req[r].cal, req[r].floor, chains'),
           req[r].cal \notin Excused /\ req'[r].pc \in {"use", "show"} => req'[r].item.v >= req[r].floor,
           \A q \in Request \ {r} :
               req[q].pc = "open" /\ SeenIn(req[q].chain, req[q].cal, req[q].floor, chains)
                                 /\ req[q].cal \notin Excused =>
                   SeenIn(req[q].chain, req[q].cal, req[q].floor, chains'),
           \A c \in Cal \ Excused :
               KeychainOK(c, keychain, written, chains, req) =>
                   KeychainOK(c, keychain', written, chains', req)
    PROVE  SeenInv'
<1>0. RequestsSee /\ WrittenIssued /\ CacheSees /\ KeychainSees
  BY DEF SeenInv
<1>1. ASSUME NEW w \in Request, NEW c, Past(req'[w], c)
      PROVE  Past(req[w], c) /\ req'[w].floor = req[w].floor
  BY <1>1 DEF OthersSee, Same, Past, Writing
<1>2. ASSUME NEW c, NEW v, Fresh(c, v, written, req) PROVE Fresh(c, v, written, req')
  BY <1>1, <1>2 DEF Fresh
<1>3. ASSUME NEW q \in Request PROVE SeenOK(req'[q], version, written, chains', req', Excused)
  <2>1. SeenOK(req[q], version, written, chains, req, Excused)
    BY <1>0 DEF RequestsSee
  <2>2. CASE q = r
    BY <2>1, <2>2 DEF SeenOK
  <2>3. CASE q # r
    <3>1. Same(req'[q], req[q])
      BY <2>3 DEF OthersSee
    <3>2. /\ req[q].floor <= version[req[q].cal]
          /\ ~Writing(req'[q]) => req[q].floor <= written[req[q].cal]
      BY <2>1, <3>1 DEF SeenOK, Same, Writing
    <3>3. ASSUME req[q].cal \notin Excused
          PROVE  /\ req[q].pc \in {"mark", "put", "unlock"} /\ req[q].key = req[q].cal =>
                       Fresh(req[q].cal, req[q].item.v, written, req')
                 /\ req[q].pc = "open" => SeenIn(req[q].chain, req[q].cal, req[q].floor, chains')
                 /\ req[q].pc \in {"use", "show"} => req[q].item.v >= req[q].floor
      BY <1>2, <2>1, <2>3, <3>3 DEF SeenOK
    <3> QED
      BY <3>1, <3>2, <3>3 DEF SeenOK, Same
  <2> QED
    BY <2>2, <2>3
<1>4. RequestsSee' /\ WrittenIssued'
  BY <1>0, <1>3 DEF RequestsSee, WrittenIssued
<1>5. CacheSees'
  BY <1>0, <1>2 DEF CacheSees, CacheOK
<1>6. ASSUME NEW c \in Cal \ Excused PROVE KeychainOK(c, keychain', written, chains', req')
  <2>1. KeychainOK(c, keychain', written, chains', req)
    BY <1>0 DEF KeychainSees
  <2>2. ASSUME NEW w \in Request, req'[w].writes, req'[w].pc = "forget" PROVE Same(req'[w], req[w])
    BY <2>2 DEF OthersSee, Writing
  <2> QED
    BY <2>1, <2>2 DEF KeychainOK, Same
<1>7. KeychainSees'
  BY <1>6 DEF KeychainSees
<1> QED
  BY <1>4, <1>5, <1>7 DEF SeenInv

\* A new keychain has no responses of calendars yet.
LEMMA UnlockedAccountSees ==
    ASSUME IInv, SeenInv, Assumptions, NEW r \in Request, UnlockedAccount(r) PROVE SeenInv'
<1>0. req[r].pc = "unlock" /\ req[r].key = Account /\ keychain = NoChain
  BY Facts DEF UnlockedAccount, Building, IInv, BuildInv
<1>1. PICK n \in Chain :
         /\ n \notin InUse(keychain, req) /\ keychain' = n
         /\ chains' = [chains EXCEPT ![n] = [Empty EXCEPT !.account = req[r].item]]
         /\ req' = [req EXCEPT ![r].pc = "open", ![r].chain = n,
                               ![r].item = NoItem, ![r].again = FALSE]
  BY DEF UnlockedAccount
<1>2. UNCHANGED <<version, cached, written, Excused>>
  BY DEF UnlockedAccount, Excused
<1>3. /\ OthersSee(r) /\ req'[r].pc = "open" /\ req'[r].chain = n /\ req'[r].cal = req[r].cal
      /\ req'[r].floor = req[r].floor /\ req'[r].writes = req[r].writes
  BY <1>1, MeNow, Facts DEF OthersSee, Same, Local
<1>4. chains'[n] = [Empty EXCEPT !.account = req[r].item]
      /\ \A m \in Chain \ {n} : chains'[m] = chains[m]
  BY <1>1, MeNow DEF TypeOK
<1>5. \A c \in Cal : chains'[n].access[c] = NoItem
  BY <1>4 DEF Empty
<1>6. \A c \in Cal : \A v : SeenIn(n, c, v, chains')
  BY <1>5 DEF SeenIn
<1>7. \A q \in Request : req[q].chain # n
  BY <1>1 DEF InUse
<1>8. \A q \in Request \ {r} :
          SeenIn(req[q].chain, req[q].cal, req[q].floor, chains) =>
              SeenIn(req[q].chain, req[q].cal, req[q].floor, chains')
  BY <1>4, <1>7 DEF SeenIn
<1>9. \A c \in Cal : KeychainOK(c, n, written, chains', req)
  BY <1>6 DEF KeychainOK
<1>10. ~Writing(req[r]) /\ ~Writing(req'[r])
  BY <1>0, <1>3 DEF Writing
<1>11. req[r].cal \in Cal
  BY Facts
<1> QED
  BY <1>1, <1>2, <1>3, <1>6, <1>8, <1>9, <1>10, <1>11, ChainMove

\* What comes into a keychain is fresh.
LEMMA UnlockedCalendarSees ==
    ASSUME IInv, SeenInv, Assumptions, NEW r \in Request, UnlockedCalendar(r) PROVE SeenInv'
<1> DEFINE n == req[r].chain
           c == req[r].cal
           item == req[r].item
           objects == [chains EXCEPT ![n].access[c] = item]
<1>1. /\ UNCHANGED <<version, cached, keychain, written, Excused>> /\ req[r].pc = "unlock"
      /\ req[r].key = c /\ ~req[r].writes /\ n \in Chain
      /\ chains' = Referred(objects, keychain, req')
      /\ req' = [req EXCEPT ![r].pc = "use", ![r].key = req[r].cal, ![r].item = item,
                            ![r].chain = NoChain, ![r].healed = FALSE]
  BY MeNow DEF UnlockedCalendar, Uses, LocalOK, Excused
<1>2. /\ OthersSee(r) /\ req'[r].pc = "use" /\ req'[r].cal = c
      /\ req'[r].floor = req[r].floor /\ req'[r].item = item
  <2>1. /\ \A q \in Request \ {r} : req'[q] = req[q]
        /\ req'[r] = [req[r] EXCEPT !.pc = "use", !.key = req[r].cal, !.item = item,
                                    !.chain = NoChain, !.healed = FALSE]
    BY <1>1, Facts DEF TypeOK
  <2> HIDE DEF item
  <2> QED
    BY <2>1, Facts DEF OthersSee, Same, Local
<1>3. /\ objects[n].access[c] = item
      /\ \A m \in Chain, d \in Cal : m # n \/ d # c => objects[m].access[d] = chains[m].access[d]
  <2>1. chains \in [Chain -> Keychain] /\ chains[n] \in Keychain /\ c \in Cal
    BY <1>1, MeNow DEF TypeOK
  <2> QED
    BY <1>1, <2>1 DEF Keychain
<1> HIDE DEF objects
<1>4. \A m \in Chain : m = keychain \/ (\E q \in Request : req'[q].chain = m) => chains'[m] = objects[m]
  BY <1>1 DEF Referred, InUse
<1>5. c \notin Excused => item.v >= written[c]
  BY <1>1, MeNow DEF SeenOK, Fresh
<1>6. c \notin Excused => \A w \in Request : Past(req[w], c) => item.v >= req[w].floor
  BY <1>1, MeNow DEF SeenOK, Fresh
<1>7. ASSUME NEW q \in Request \ {r}, req[q].pc = "open", req[q].cal \notin Excused,
             SeenIn(req[q].chain, req[q].cal, req[q].floor, chains)
      PROVE  SeenIn(req[q].chain, req[q].cal, req[q].floor, chains')
  <2>1. SUFFICES ASSUME req[q].chain \in Chain
                 PROVE  SeenIn(req[q].chain, req[q].cal, req[q].floor, objects)
    <3>1. req'[q].chain = req[q].chain
      BY <1>2 DEF OthersSee, Same
    <3> QED
      BY <1>4, <3>1 DEF SeenIn
  <2>2. req[q].cal = c => item.v >= req[q].floor
    <3>1. req[q].floor <= written[req[q].cal]
      BY <1>7, MeNow DEF SeenOK, Writing
    <3>2. req[q].floor \in Nat /\ written[c] \in Nat /\ item.v \in Nat
      BY MeNow
    <3> QED
      BY <1>5, <1>7, <3>1, <3>2
  <2>3. req[q].cal \in Cal
    BY MeNow
  <2> QED
    BY <1>3, <1>7, <2>1, <2>2, <2>3 DEF SeenIn
<1>8. ASSUME NEW d \in Cal \ Excused, KeychainOK(d, keychain, written, chains, req)
      PROVE  KeychainOK(d, keychain, written, chains', req)
  <2>1. ASSUME NEW v, SeenIn(keychain, d, v, chains), d = c => item.v >= v
        PROVE  SeenIn(keychain, d, v, chains')
    BY <1>3, <1>4, <2>1 DEF SeenIn
  <2>2. SeenIn(keychain, d, written[d], chains')
    BY <1>5, <1>8, <2>1 DEF KeychainOK
  <2>3. ASSUME NEW w \in Request, req[w].writes, req[w].pc = "forget", req[w].cal = d, req[w].chain # keychain
        PROVE  SeenIn(keychain, d, req[w].floor, chains')
    BY <1>6, <1>8, <2>1, <2>3 DEF KeychainOK, Past
  <2> QED
    BY <2>2, <2>3 DEF KeychainOK
<1>9. ~Writing(req[r]) /\ ~Writing(req'[r])
  BY <1>1, <1>2 DEF Writing
<1>10. c \notin Excused => item.v >= req[r].floor
  BY <1>5, <1>9, MeNow DEF SeenOK
<1> QED
  BY <1>1, <1>2, <1>7, <1>8, <1>9, <1>10, ChainMove

LEMMA DropKeychainSees ==
    ASSUME IInv, SeenInv, Assumptions, NEW r \in Request, DropKeychain(r) PROVE SeenInv'
<1> DEFINE f == [req EXCEPT ![r].pc = "lazy", ![r].key = Account]
<1>1. /\ UNCHANGED <<version, cached, written, Excused>> /\ req[r].pc = "drop" /\ keychain' = NoChain
      /\ req' = Disturb(f, r, {Account}) /\ chains' = Referred(chains, NoChain, req)
  BY DEF DropKeychain, Excused
<1>2. /\ f \in [Request -> Local] /\ f[r].pc = "lazy" /\ f[r].cal = req[r].cal
      /\ f[r].floor = req[r].floor
      /\ \A q \in Request \ {r} : f[q] = req[q]
  <2>1. req[r] \in Local /\ req \in [Request -> Local]
    BY Facts DEF TypeOK
  <2>2. [req[r] EXCEPT !.pc = "lazy", !.key = Account] \in Local
    BY <2>1 DEF Local, Pc, Key
  <2>3. f = [req EXCEPT ![r] = [req[r] EXCEPT !.pc = "lazy", !.key = Account]]
    BY <2>1
  <2> QED
    BY <2>1, <2>2, <2>3 DEF Local
<1>3. \A q \in Request : Same(req'[q], f[q])
  BY <1>1, <1>2, DisturbKeeps
<1>4. OthersSee(r) /\ req'[r].pc = "lazy" /\ req'[r].cal = req[r].cal /\ req'[r].floor = req[r].floor
  BY <1>2, <1>3 DEF OthersSee, Same
<1>5. \A q \in Request \ {r} :
          SeenIn(req[q].chain, req[q].cal, req[q].floor, chains) =>
              SeenIn(req[q].chain, req[q].cal, req[q].floor, chains')
  BY <1>1, StillReferred DEF SeenIn
<1>6. \A c \in Cal : KeychainOK(c, NoChain, written, chains', req)
  BY Facts DEF KeychainOK, SeenIn
<1>7. ~Writing(req[r]) /\ ~Writing(req'[r])
  BY <1>1, <1>4 DEF Writing
<1> QED
  BY <1>1, <1>4, <1>5, <1>6, <1>7, ChainMove

-----------------------------------------------------------------------------
(* The cache is emptied, and the keychain forgets.                         *)

LEMMA DeleteSees ==
    ASSUME IInv, IInv', SeenInv, Assumptions, NEW r \in Request, Delete(r) PROVE SeenInv'
<1> DEFINE me == req[r]
<1>0. RequestsSee /\ WrittenIssued /\ CacheSees /\ KeychainSees
  BY DEF SeenInv
<1>a. /\ UNCHANGED <<version, keychain, chains, written>> /\ me.pc = "delete"
      /\ raced' = RacedBy(r) /\ raced \subseteq raced'
      /\ Update(DropKeys(r), 0, Move(r, "unmark"))
  BY DEF Delete, RacedBy
<1>b. /\ Excused \subseteq Excused' /\ \A k \in Key \cap DropKeys(r) : cache'[k] = 0
      /\ \A c \in Cal \ Excused' : c \notin DropKeys(r) => CacheOK(c, cache', written, req)
  BY <1>a, UpdateSees
<1>1. /\ UNCHANGED <<version, keychain, chains, written>> /\ me.pc = "delete"
      /\ Excused \subseteq Excused' /\ \A c : c \notin Excused' => c \notin RacedBy(r)
  BY <1>a, <1>b DEF Excused
<1>c. PICK next : next = [me EXCEPT !.pc = "unmark"]
  OBVIOUS
<1>d. /\ next \in Local /\ next.pc = "unmark" /\ next.cal = me.cal /\ next.floor = me.floor
      /\ next.writes = me.writes
  BY <1>c, Facts DEF Local, Pc
<1>e. Move(r, "unmark") = [req EXCEPT ![r] = next]
  BY <1>c, MeNow DEF Move
<1>f. /\ Move(r, "unmark") \in [Request -> Local]
      /\ req' \in [Request -> Local] /\ (\A q \in Request : Same(req'[q], Move(r, "unmark")[q])) =>
            Moves(r, next)
  BY <1>d, <1>e, MeNow, MovesAlike
<1>g. req' \in [Request -> Local] /\ \A q \in Request : Same(req'[q], Move(r, "unmark")[q])
  <2>1. DropKeys(r) \in SUBSET Key /\ 0 \in Version /\ \A k \in Key : 0 <= version[k]
    BY Facts, Numbers DEF DropKeys, HealKeys, Key, Version, Assumptions, MaxVersionAssumption
  <2> QED
    BY <1>a, <1>f, <2>1, MeNow, UpdateTyped
<1>2. /\ OthersSee(r) /\ req'[r].pc = "unmark" /\ req'[r].cal = me.cal /\ req'[r].floor = me.floor
      /\ req'[r].writes = me.writes
  BY <1>d, <1>f, <1>g DEF OthersSee, Moves, Same
<1>3. ASSUME NEW w \in Request, NEW c, Past(req'[w], c), ~(me.writes /\ me.cal = c)
      PROVE  Past(req[w], c) /\ req'[w].floor = req[w].floor
  BY <1>2, <1>3 DEF OthersSee, Same, Past
<1>4. ASSUME NEW c, NEW v, Fresh(c, v, written, req), ~(me.writes /\ me.cal = c)
      PROVE  Fresh(c, v, written, req')
  BY <1>3, <1>4 DEF Fresh
<1>5. ASSUME NEW q \in Request PROVE SeenOK(req'[q], version, written, chains, req', Excused')
  <2>1. SeenOK(req[q], version, written, chains, req, Excused)
    BY <1>0 DEF RequestsSee
  <2>2. CASE q = r
    BY <1>1, <1>2, <2>1, <2>2 DEF SeenOK, Writing
  <2>3. CASE q # r
    <3>1. Same(req'[q], req[q])
      BY <1>2, <2>3 DEF OthersSee
    <3>2. /\ req[q].floor <= version[req[q].cal]
          /\ ~Writing(req'[q]) => req[q].floor <= written[req[q].cal]
      BY <2>1, <3>1 DEF SeenOK, Same, Writing
    <3>3. ASSUME req[q].cal \notin Excused', req[q].pc \in {"mark", "put", "unlock"}, req[q].key = req[q].cal
          PROVE  Fresh(req[q].cal, req[q].item.v, written, req')
      <4>1. Fresh(req[q].cal, req[q].item.v, written, req)
        BY <1>1, <2>1, <3>3 DEF SeenOK
      <4>2. ~(me.writes /\ me.cal = req[q].cal)
        BY <1>1, <2>3, <3>3 DEF RacedBy, Holding
      <4> QED
        BY <1>4, <4>1, <4>2
    <3>4. req[q].cal \notin Excused' =>
            /\ req[q].pc = "open" => SeenIn(req[q].chain, req[q].cal, req[q].floor, chains)
            /\ req[q].pc \in {"use", "show"} => req[q].item.v >= req[q].floor
      BY <1>1, <2>1 DEF SeenOK
    <3> QED
      BY <3>1, <3>2, <3>3, <3>4 DEF SeenOK, Same
  <2> QED
    BY <2>2, <2>3
<1>6. RequestsSee' /\ WrittenIssued'
  BY <1>0, <1>1, <1>5 DEF RequestsSee, WrittenIssued
<1>7. CacheSees'
  <2> SUFFICES ASSUME NEW c \in Cal \ Excused', cache'[c] # 0 PROVE Fresh(c, cache'[c], written, req')
    BY <1>1 DEF CacheSees, CacheOK
  <2>1. c \notin DropKeys(r)
    BY <1>b DEF Key
  <2>2. Fresh(c, cache'[c], written, req)
    BY <1>b, <2>1 DEF CacheOK
  <2>3. ~(me.writes /\ me.cal = c)
    BY <2>1 DEF DropKeys
  <2> QED
    BY <1>4, <2>1, <2>2, <2>3
<1>8. KeychainSees'
  <2> SUFFICES ASSUME NEW c \in Cal \ Excused' PROVE KeychainOK(c, keychain, written, chains, req')
    BY <1>1 DEF KeychainSees
  <2>1. KeychainOK(c, keychain, written, chains, req)
    BY <1>0, <1>1 DEF KeychainSees
  <2>2. ASSUME NEW w \in Request, req'[w].pc = "forget" PROVE Same(req'[w], req[w])
    BY <1>2, <2>2 DEF OthersSee
  <2> QED
    BY <2>1, <2>2 DEF KeychainOK, Same
<1> QED
  BY <1>6, <1>7, <1>8 DEF SeenInv

\* A write is acknowledged when nothing older is left to be seen.
LEMMA ForgetSees ==
    ASSUME IInv, IInv', SeenInv, Assumptions, NEW r \in Request, Forget(r) PROVE SeenInv'
<1> DEFINE me == req[r]
           c == me.cal
           leaves == [req EXCEPT ![r].pc = "get", ![r].chain = NoChain]
           emptied == [chains[me.chain] EXCEPT !.access[c] = NoItem]
           forgotten == [n \in Chain |-> IF n = me.chain THEN emptied ELSE chains[n]]
<1>0. /\ RequestsSee /\ WrittenIssued /\ CacheSees /\ KeychainSees
      /\ me.writes /\ me.key = c /\ me.pc = "forget" /\ c \in Cal
  BY MeNow DEF SeenInv, Forget, LocalOK
<1>1. /\ UNCHANGED <<version, cached, keychain>> /\ Excused \subseteq Excused'
      /\ req' = leaves /\ written' = Told(r) /\ chains' = Referred(forgotten, keychain, req')
  BY DEF Forget, RacedBy, Excused
<1>2. /\ OthersSee(r) /\ req'[r].pc = "get" /\ req'[r].cal = c /\ req'[r].floor = me.floor
  BY <1>1, MeNow, Facts DEF OthersSee, Same, Local
<1>3. /\ \A d \in Cal \ {c} : written'[d] = written[d]
      /\ written'[c] \in {written[c], me.floor} /\ written'[c] >= written[c] /\ written'[c] >= me.floor
  BY <1>0, <1>1, MeNow DEF Told, TypeOK
<1>4. ASSUME NEW d \in Cal, NEW v, Fresh(d, v, written, req) PROVE Fresh(d, v, written', req')
  <2>1. v >= written'[d]
    BY <1>0, <1>3, <1>4 DEF Fresh, Past
  <2>2. ASSUME NEW w \in Request, Past(req'[w], d) PROVE Past(req[w], d) /\ req'[w].floor = req[w].floor
    BY <1>2, <2>2 DEF OthersSee, Same, Past
  <2> QED
    BY <1>4, <2>1, <2>2 DEF Fresh
<1>5. \A n \in Chain, d \in Cal :
         /\ n = me.chain /\ d = c => forgotten[n].access[d] = NoItem
         /\ n # me.chain \/ d # c => forgotten[n].access[d] = chains[n].access[d]
  <2>1. chains \in [Chain -> Keychain]
    BY MeNow DEF TypeOK
  <2>2. ASSUME me.chain \in Chain
        PROVE  emptied.access[c] = NoItem
               /\ \A d \in Cal \ {c} : emptied.access[d] = chains[me.chain].access[d]
    BY <1>0, <2>1, <2>2 DEF Keychain
  <2>3. \A n \in Chain : (n # me.chain => forgotten[n] = chains[n]) /\ (n = me.chain => forgotten[n] = emptied)
    OBVIOUS
  <2> HIDE DEF emptied, forgotten
  <2> QED
    BY <2>2, <2>3
<1> HIDE DEF forgotten
<1>6. \A n \in Chain : n = keychain \/ (\E q \in Request : req'[q].chain = n) => chains'[n] = forgotten[n]
  BY <1>1 DEF Referred, InUse
<1>7. ASSUME NEW n, n = keychain \/ (\E q \in Request : req'[q].chain = n), NEW d \in Cal, NEW v,
             SeenIn(n, d, v, chains) \/ (n = me.chain /\ d = c)
      PROVE  SeenIn(n, d, v, chains')
  BY <1>5, <1>6, <1>7 DEF SeenIn
<1>8. ASSUME NEW q \in Request PROVE SeenOK(req'[q], version, written', chains', req', Excused')
  <2>1. SeenOK(req[q], version, written, chains, req, Excused) /\ req[q].cal \in Cal
    BY <1>0, MeNow DEF RequestsSee
  <2>2. CASE q = r
    BY <1>2, <1>3, <2>1, <2>2 DEF SeenOK
  <2>3. CASE q # r
    <3>1. Same(req'[q], req[q])
      BY <1>2, <2>3 DEF OthersSee
    <3>2. req[q].floor <= version[req[q].cal]
      BY <2>1 DEF SeenOK
    <3>3. ASSUME ~Writing(req'[q]) PROVE req[q].floor <= written'[req[q].cal]
      <4>1. req[q].floor <= written[req[q].cal]
        BY <2>1, <3>1, <3>3 DEF SeenOK, Same, Writing
      <4>2. written[req[q].cal] <= written'[req[q].cal] /\ written'[req[q].cal] \in Nat
        BY <1>3, <2>1, MeNow
      <4> QED
        BY <4>1, <4>2, MeNow
    <3>4. ASSUME req[q].cal \notin Excused
          PROVE  /\ req[q].pc \in {"mark", "put", "unlock"} /\ req[q].key = req[q].cal =>
                       Fresh(req[q].cal, req[q].item.v, written', req')
                 /\ req[q].pc = "open" => SeenIn(req[q].chain, req[q].cal, req[q].floor, chains')
                 /\ req[q].pc \in {"use", "show"} => req[q].item.v >= req[q].floor
      <4>1. req'[q].chain = req[q].chain
        BY <3>1 DEF Same
      <4> QED
        BY <1>4, <1>7, <2>1, <3>4, <4>1 DEF SeenOK
    <3> QED
      BY <1>1, <3>1, <3>2, <3>3, <3>4 DEF SeenOK, Same
  <2> QED
    BY <2>2, <2>3
<1>9. RequestsSee'
  BY <1>1, <1>8 DEF RequestsSee
<1>10. WrittenIssued'
  <2>1. me.floor <= version[c]
    BY MeNow DEF SeenOK
  <2> QED
    BY <1>0, <1>1, <1>3, <2>1 DEF WrittenIssued
<1>11. CacheSees'
  BY <1>0, <1>1, <1>4 DEF CacheSees, CacheOK
<1>12. KeychainSees'
  <2> SUFFICES ASSUME NEW d \in Cal \ Excused' PROVE KeychainOK(d, keychain, written', chains', req')
    BY <1>1 DEF KeychainSees
  <2>1. KeychainOK(d, keychain, written, chains, req)
    BY <1>0, <1>1 DEF KeychainSees
  <2>2. SeenIn(keychain, d, written'[d], chains')
    <3>1. CASE d # c
      BY <1>3, <1>7, <2>1, <3>1 DEF KeychainOK
    <3>2. CASE d = c /\ keychain = me.chain
      BY <1>7, <3>2
    <3>3. CASE d = c /\ keychain # me.chain
      BY <1>0, <1>3, <1>7, <2>1, <3>3 DEF KeychainOK
    <3> QED
      BY <3>1, <3>2, <3>3
  <2>3. ASSUME NEW w \in Request, req'[w].writes, req'[w].pc = "forget", req'[w].cal = d,
               req'[w].chain # keychain
        PROVE  SeenIn(keychain, d, req'[w].floor, chains')
    <3>1. Same(req'[w], req[w])
      BY <1>2, <2>3 DEF OthersSee
    <3> QED
      BY <1>7, <2>1, <2>3, <3>1 DEF KeychainOK, Same
  <2> QED
    BY <2>2, <2>3 DEF KeychainOK
<1> QED
  BY <1>9, <1>10, <1>11, <1>12 DEF SeenInv

-----------------------------------------------------------------------------
(* The server, a restart and the theorem.                                  *)

LEMMA RotateSees ==
    ASSUME IInv, IInv', SeenInv, Assumptions, NEW k \in Key, Rotate(k) PROVE SeenInv'
<1>0. RequestsSee /\ WrittenIssued /\ CacheSees /\ KeychainSees
  BY DEF SeenInv
<1>1. /\ UNCHANGED <<cached, keychain, chains, written, Excused>>
      /\ version' = [version EXCEPT ![k] = @ + 1]
  BY DEF Rotate, Excused
<1>2. \A q \in Request : Same(req'[q], req[q])
  BY DisturbKeeps DEF Rotate, IInv, TypeOK
<1>3. Later
  BY <1>1, Numbers DEF Later, IInv, TypeOK
<1>4. ASSUME NEW c, NEW v, Fresh(c, v, written, req) PROVE Fresh(c, v, written, req')
  BY <1>2, <1>4 DEF Fresh, Past, Same
<1>5. ASSUME NEW q \in Request PROVE SeenOK(req'[q], version', written, chains, req', Excused)
  <2>1. SeenOK(req'[q], version', written, chains, req, Excused)
    BY <1>0, <1>1, <1>2, <1>3, LaterOK DEF RequestsSee
  <2> QED
    BY <1>4, <2>1 DEF SeenOK
<1>6. RequestsSee' /\ WrittenIssued'
  BY <1>0, <1>1, <1>3, <1>5, WrittenLater DEF RequestsSee
<1>7. CacheSees'
  BY <1>0, <1>1, <1>4 DEF CacheSees, CacheOK
<1>8. KeychainSees'
  BY <1>0, <1>1, <1>2 DEF KeychainSees, KeychainOK, Same
<1> QED
  BY <1>6, <1>7, <1>8 DEF SeenInv

\* Old responses that come back with the file are excused.
LEMMA PutElsewhereSees ==
    ASSUME IInv, IInv', SeenInv, Assumptions, PutElsewhere PROVE SeenInv'
<1>0. RequestsSee /\ WrittenIssued /\ CacheSees /\ KeychainSees
  BY DEF SeenInv
<1>1. /\ UNCHANGED <<version, keychain, chains, written>> /\ cache' = file
      /\ Excused \subseteq Excused' /\ \A c \in Cal : c \notin Excused' => c \notin Back({})
  BY DEF PutElsewhere, Excused
<1>2. \A q \in Request : Same(req'[q], req[q])
  BY DisturbKeeps DEF PutElsewhere, IInv, TypeOK
<1>3. ASSUME NEW c, NEW v, Fresh(c, v, written, req) PROVE Fresh(c, v, written, req')
  BY <1>2, <1>3 DEF Fresh, Past, Same
<1>4. ASSUME NEW q \in Request PROVE SeenOK(req'[q], version, written, chains, req', Excused')
  <2>1. SeenOK(req[q], version, written, chains, req, Excused)
    BY <1>0 DEF RequestsSee
  <2>2. SeenOK(req[q], version, written, chains, req', Excused')
    BY <1>1, <1>3, <2>1 DEF SeenOK
  <2> QED
    BY <1>2, <2>2 DEF SeenOK, Same, Writing
<1>5. RequestsSee' /\ WrittenIssued'
  BY <1>0, <1>1, <1>4 DEF RequestsSee, WrittenIssued
<1>6. CacheSees'
  <2> SUFFICES ASSUME NEW c \in Cal, c \notin Excused' PROVE CacheOK(c, file, written, req')
    BY <1>1 DEF CacheSees
  <2>1. CacheOK(c, file, written, req)
    BY <1>1, Reloaded
  <2> QED
    BY <1>3, <2>1 DEF CacheOK
<1>7. KeychainSees'
  BY <1>0, <1>1, <1>2 DEF KeychainSees, KeychainOK, Same
<1> QED
  BY <1>5, <1>6, <1>7 DEF SeenInv

\* Requests that are over have no writes that others could miss.
LEMMA IdleSees ==
    ASSUME \A q \in Request : req[q].pc = "idle" /\ req[q].floor = 0 /\ req[q].cal \in Cal,
           \A c \in Cal : written[c] \in Nat /\ version[c] \in Nat /\ written[c] <= version[c],
           \A c \in Cal \ Excused : cache[c] = 0 \/ cache[c] >= written[c],
           keychain = NoChain, Assumptions
    PROVE  SeenInv
<1>1. \A q \in Request : SeenOK(req[q], version, written, chains, req, Excused)
  BY DEF SeenOK
<1>2. \A c : \A w \in Request : ~Past(req[w], c)
  BY DEF Past
<1>3. \A c \in Cal : KeychainOK(c, keychain, written, chains, req)
  BY DEF KeychainOK, SeenIn, Assumptions, NoChainAssumption
<1>4. \A c \in Cal \ Excused : CacheOK(c, cache, written, req)
  BY <1>2 DEF CacheOK, Fresh
<1> QED
  BY <1>1, <1>3, <1>4 DEF SeenInv, RequestsSee, WrittenIssued, CacheSees, KeychainSees

LEMMA RestartSees ==
    ASSUME IInv, SeenInv, Assumptions, Restart PROVE SeenInv'
<1>1. /\ UNCHANGED <<version, written>> /\ keychain' = NoChain /\ cache' = file
      /\ Excused \subseteq Excused' /\ \A c \in Cal : c \notin Excused' => c \notin Back({})
      /\ req' = [r \in Request |-> Idle(req[r].cal)]
  BY DEF Restart, Excused
<1>2. \A q \in Request : req'[q].pc = "idle" /\ req'[q].floor = 0 /\ req'[q].cal \in Cal
  BY <1>1, Facts DEF Idle
<1>3. \A q \in Request : SeenOK(req'[q], version, written, chains', req', Excused')
  BY <1>2, Numbers DEF SeenOK, SeenInv, WrittenIssued
<1>4. \A c : \A w \in Request : ~Past(req'[w], c)
  BY <1>2 DEF Past
<1>5. \A c \in Cal : KeychainOK(c, NoChain, written, chains', req')
  BY DEF KeychainOK, SeenIn, Assumptions, NoChainAssumption
<1>6. ASSUME NEW c \in Cal, c \notin Excused' PROVE CacheOK(c, file, written, req')
  <2>1. CacheOK(c, file, written, req)
    BY <1>1, <1>6, Reloaded
  <2> QED
    BY <1>4, <2>1 DEF CacheOK, Fresh
<1> QED
  BY <1>1, <1>3, <1>5, <1>6 DEF SeenInv, RequestsSee, WrittenIssued, CacheSees, KeychainSees

LEMMA SeenInit == ASSUME Init, Assumptions PROVE SeenInv
<1>1. PICK c \in Cal : req = [r \in Request |-> Idle(c)]
  BY DEF Init
<1>2. \A q \in Request : req[q].pc = "idle" /\ req[q].floor = 0 /\ req[q].cal \in Cal
  BY <1>1 DEF Idle
<1>3. \A d \in Cal : written[d] = 0 /\ version[d] = 1 /\ cache[d] \in 0..1
  BY DEF Init, Key
<1> QED
  BY <1>2, <1>3, IdleSees DEF Init

LEMMA SeenStep ==
    ASSUME IInv, IInv', SeenInv, Assumptions, [Next]_vars PROVE SeenInv'
<1>1. CASE \E k \in Key : Rotate(k)
  BY <1>1, RotateSees
<1>2. CASE \E r \in Request, c \in Cal : Start(r, c)
  BY <1>2, StartSees
<1>3. ASSUME NEW r \in Request, Serve(r) PROVE SeenInv'
  <2>1. CASE KeychainHave(r) \/ KeychainBuild(r) \/ OpenMiss(r) \/ OpenHave(r)
    BY <2>1, OpensSee, OpenHaveSees
  <2>2. CASE GetHit(r) \/ Mark(r) \/ Fetched(r) \/ Put(r)
    BY <2>2, GetHitSees, MarkSees, FetchedSees, PutSees
  <2>3. CASE UnlockedAccount(r) \/ UnlockedCalendar(r) \/ DropKeychain(r)
    BY <2>3, UnlockedAccountSees, UnlockedCalendarSees, DropKeychainSees
  <2>4. CASE \/ UnlockFails(r) \/ FetchFails(r) \/ GiveUp(r) \/ UsedWell(r)
             \/ Degraded(r) \/ WriteFails(r) \/ Show(r)
    BY <2>4, FailureSees
  <2>5. CASE Delete(r) \/ Unmark(r)
    BY <2>5, DeleteSees, UnmarkSees
  <2>6. CASE Write(r) \/ Find(r) \/ Forget(r)
    BY <2>6, WriteSees, FindSees, ForgetSees
  <2> QED
    BY <1>3, <2>1, <2>2, <2>3, <2>4, <2>5, <2>6 DEF Serve
<1>4. CASE PutElsewhere
  BY <1>4, PutElsewhereSees
<1>5. CASE Restart
  BY <1>5, RestartSees
<1>6. CASE UNCHANGED vars
  BY <1>6 DEF vars, Excused, SeenInv, RequestsSee, WrittenIssued, CacheSees, KeychainSees
<1> QED
  BY <1>1, <1>2, <1>3, <1>4, <1>5, <1>6 DEF Next

\* Settings a request works with, or an update reports, have every write that
\* was acknowledged before the request began, and the update's own, unless a
\* read was under way when the write emptied the cache, or an older response
\* has come back from the file.
THEOREM Sees == Spec => []WritesAreSeen
<1>1. Init => SeenInv
  BY Constants, SeenInit
<1>2. IInv /\ IInv' /\ SeenInv /\ [Next]_vars => SeenInv'
  BY Constants, SeenStep
<1>3. SeenInv => WritesAreSeen
  BY DEF SeenInv, RequestsSee, SeenOK, Excused, WritesAreSeen, SeesWrites
<1> QED
  BY <1>1, <1>2, <1>3, Invariance, PTL DEF Spec
=============================================================================
