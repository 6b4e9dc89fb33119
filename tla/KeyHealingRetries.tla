-------------------------- MODULE KeyHealingRetries --------------------------
(***************************************************************************)
(* That stale cached responses are retried: for any calendars, requests    *)
(* and changes, StaleCacheIsRetried of KeyHealing.                         *)
(*                                                                         *)
(* A request that nothing has disturbed, and that has emptied the cache,   *)
(* finds nothing stale there any more; and once it has dropped the         *)
(* keychain, nothing stale in a new one either, whoever built it.  Before  *)
(* that, the marks of what it was given are still there.  A request to     *)
(* which an old response may come back from the file counts as disturbed.  *)
(***************************************************************************)
EXTENDS KeyHealingProofs

USE DEF cached

Undisturbed(me) == me.pc # "idle" /\ ~me.disturbed

\* The request has emptied the cache of the calendar's keys and the account's,
\* has dropped the keychain, or has emptied the cache of the account's keys.
Healed(me) ==
    /\ ~me.writes /\ (me.healed \/ me.attempt = 1)
    /\ ~(me.pc = "delete" /\ me.key # Account)
Dropped(me) == Healed(me) /\ me.pc # "drop" /\ ~(me.pc = "unmark" /\ me.key # Account)
Again(me) == me.again /\ me.pc # "delete"
Renewed(me, k) == (k = Account /\ Again(me)) \/ (k \in {Account, me.cal} /\ Healed(me))

Reading == {"mark", "put", "unlock"}

\* The request has taken the keychain, to open a calendar with it.
Opens(me) == me.pc = "open" \/ (me.pc \in {"get"} \cup Reading /\ me.key # Account /\ ~me.writes)

Current(k, ca, ke) == ca[k] = 0 \/ ca[k] >= ke[k]
CurrentChain(n, c, objects, ke) ==
    /\ objects[n].account.v >= ke[Account]
    /\ objects[n].access[c] = NoItem \/ objects[n].access[c].v >= ke[c]

\* What is so of each request,
MeOK(me, ke, ca, se, kc, objects, ra) ==
    /\ me.again => Building(me)
    /\ me.blame = "cache" => me.disturbed \/ me.cal \in ra
    /\ Undisturbed(me) =>
         /\ Opens(me) => me.chain = kc
         /\ \A k \in Key : Renewed(me, k) => Current(k, ca, ke)
         /\ me.pc \in Reading \cup {"use"} /\ Renewed(me, me.key) => me.item.v >= ke[me.key]
         /\ Dropped(me) /\ kc \in Chain => CurrentChain(kc, me.cal, objects, ke)
         /\ me.pc = "use" /\ me.item.cached /\ me.cal \notin ra => se[me.cal]

\* and of another one while it is under way.
PairOK(me, other, ke, kc) ==
    Undisturbed(me) =>
        /\ other.pc # "drop"
        /\ other.pc \in {"find", "forget"} => other.cal # me.cal
        /\ Dropped(me) /\ other.pc \in Reading =>
             /\ other.key = Account => other.item.v >= ke[Account]
             /\ other.key = me.cal /\ ~other.writes /\ other.chain = kc => other.item.v >= ke[me.cal]

Issued == \A k \in Key : keysOf[k] <= version[k]
Mine == \A r \in Request : MeOK(req[r], keysOf, cache, served, keychain, chains, raced)
Pairs == \A r \in Request : \A q \in Request \ {r} : PairOK(req[r], req[q], keysOf, keychain)

RetryInv == Issued /\ Mine /\ Pairs

-----------------------------------------------------------------------------
(* Steps of one request.                                                   *)

\* A request may be told of an event, and otherwise stays as it is.
Stays(a, b) ==
    /\ a.pc = b.pc /\ a.writes = b.writes /\ a.cal = b.cal /\ a.key = b.key
    /\ a.chain = b.chain /\ a.item = b.item /\ a.again = b.again /\ a.healed = b.healed
    /\ a.attempt = b.attempt /\ a.blame = b.blame /\ (b.disturbed => a.disturbed)

Others(r) == \A q \in Request \ {r} : Stays(req'[q], req[q])

LEMMA StaysUndisturbed ==
    ASSUME NEW a, NEW b, Stays(a, b)
    PROVE  /\ Undisturbed(a) => Undisturbed(b)
           /\ Healed(a) <=> Healed(b)
           /\ Dropped(a) <=> Dropped(b)
           /\ Building(a) <=> Building(b)
           /\ Opens(a) <=> Opens(b)
           /\ \A k : Renewed(a, k) <=> Renewed(b, k)
BY DEF Stays, Undisturbed, Healed, Dropped, Building, Renewed, Again, Opens

LEMMA StaysMind ==
    ASSUME NEW a, NEW b, Stays(a, b), NEW ke, NEW kc, NEW other
    PROVE  /\ PairOK(b, other, ke, kc) => PairOK(a, other, ke, kc)
           /\ PairOK(other, b, ke, kc) => PairOK(other, a, ke, kc)
BY StaysUndisturbed DEF PairOK, Stays

LEMMA StaysMeOK ==
    ASSUME NEW a, NEW b, Stays(a, b), NEW ke, NEW ca, NEW old, NEW se, NEW kc, NEW objects,
           NEW ra, NEW less, less \subseteq ra, MeOK(b, ke, old, se, kc, objects, less),
           Undisturbed(a) => \A k \in Key : Renewed(b, k) => Current(k, ca, ke)
    PROVE  MeOK(a, ke, ca, se, kc, objects, ra)
BY StaysUndisturbed DEF MeOK, Stays

\* What is loaded from the file is as current as what it replaces, for those
\* who are not told of it.
LEMMA ReloadKeeps ==
    ASSUME IInv, Assumptions, RetryInv, NEW keys, NEW k \in Key, k \notin keys \cup Back(keys),
           Current(k, cache, keysOf)
    PROVE  Current(k, file, keysOf)
<1>1. file[k] \in Nat /\ cache[k] \in Nat /\ version[k] \in Nat /\ keysOf[k] \in Nat
  BY DEF IInv, TypeOK, Version, Assumptions, MaxVersionAssumption
<1>2. keysOf[k] <= version[k]
  BY DEF RetryInv, Issued
<1>3. file[k] \in {0, cache[k]} \/ file[k] >= version[k]
  BY <1>1 DEF Back
<1> QED
  BY <1>1, <1>2, <1>3 DEF Current

LEMMA UpdateKeeps ==
    ASSUME IInv, Assumptions, RetryInv, NEW keys, NEW v, NEW reqs \in [Request -> Local],
           Update(keys, v, reqs), NEW q \in Request,
           reqs[q].pc # "idle" => Active(q)
    PROVE  /\ Stays(req'[q], reqs[q])
           /\ \A k \in Key \cap keys : cache'[k] = v
           /\ Undisturbed(req'[q]) => \A k \in {Account, req[q].cal} : k \notin keys =>
                 (Current(k, cache, keysOf) => Current(k, cache', keysOf))
<1>1. reqs[q] \in Local /\ req[q].cal \in Cal
  BY Facts
<1>2. /\ Stays(reqs[q], reqs[q]) /\ Stays([reqs[q] EXCEPT !.disturbed = TRUE], reqs[q])
      /\ [reqs[q] EXCEPT !.disturbed = TRUE].disturbed
  BY <1>1 DEF Stays, Local
<1>3. NoRequest # q
  BY DEF Assumptions, NoRequestAssumption
<1>4. \A k \in Key : /\ Updated(cache, keys, v)[k] = IF k \in keys THEN v ELSE cache[k]
                     /\ Updated(file, keys, v)[k] = IF k \in keys THEN v ELSE file[k]
  BY DEF Updated
<1>5. {Account, req[q].cal} \subseteq Key
  BY <1>1 DEF Key
<1>6. CASE cache' = Updated(cache, keys, v) /\ req' = reqs
  BY <1>2, <1>4, <1>5, <1>6 DEF Current
<1>7. CASE cache' = Updated(file, keys, v) /\ req' = Disturb(reqs, NoRequest, Back(keys))
  <2>1. req'[q] = IF Active(q) /\ Back(keys) \cap {Account, req[q].cal} # {}
                  THEN [reqs[q] EXCEPT !.disturbed = TRUE] ELSE reqs[q]
    BY <1>3, <1>7 DEF Disturb, Active
  <2>2. Stays(req'[q], reqs[q])
    BY <1>2, <2>1
  <2>3. Undisturbed(req'[q]) => Back(keys) \cap {Account, req[q].cal} = {}
    BY <1>2, <2>1 DEF Undisturbed
  <2>4. ASSUME Undisturbed(req'[q]), NEW k \in {Account, req[q].cal}, k \notin keys,
               Current(k, cache, keysOf)
        PROVE  Current(k, cache', keysOf)
    <3>1. k \in Key /\ k \notin keys \cup Back(keys)
      BY <1>5, <2>3, <2>4
    <3>2. Current(k, file, keysOf)
      BY <2>4, <3>1, ReloadKeeps
    <3> QED
      BY <1>4, <1>7, <2>4, <3>1, <3>2 DEF Current
  <2> QED
    BY <1>4, <1>7, <2>2, <2>4
<1> QED
  BY <1>6, <1>7 DEF Update

\* What another request relies on is kept.
Kept(me) ==
    /\ \A k \in {Account, me.cal} : Current(k, cache, keysOf) => Current(k, cache', keysOf)
    /\ served[me.cal] => served'[me.cal]
    /\ Dropped(me) /\ keychain \in Chain /\ CurrentChain(keychain, me.cal, chains, keysOf) =>
          CurrentChain(keychain, me.cal, chains', keysOf)

\* A step that leaves the service's keychain in place.
LEMMA Step ==
    ASSUME RetryInv, NEW r \in Request, Others(r), keysOf' = keysOf, keychain' = keychain,
           Issued', raced \subseteq raced',
           \A q \in Request \ {r} : Undisturbed(req'[q]) /\ Undisturbed(req[q]) =>
               Kept(req[q]) /\ PairOK(req[q], req'[r], keysOf, keychain),
           MeOK(req'[r], keysOf, cache', served', keychain, chains', raced'),
           \A q \in Request \ {r} : PairOK(req'[r], req[q], keysOf, keychain)
    PROVE  RetryInv'
<1>0. Mine /\ Pairs
  BY DEF RetryInv
<1>1. ASSUME NEW q \in Request \ {r}
      PROVE  MeOK(req'[q], keysOf, cache', served', keychain, chains', raced')
  <2>1. MeOK(req[q], keysOf, cache, served, keychain, chains, raced)
    BY <1>0 DEF Mine
  <2>2. Stays(req'[q], req[q])
    BY DEF Others
  <2>3. /\ req'[q].again => Building(req'[q])
        /\ req'[q].blame = "cache" => req'[q].disturbed \/ req'[q].cal \in raced'
    BY <2>1, <2>2, StaysUndisturbed DEF MeOK, Stays
  <2>4. ASSUME Undisturbed(req'[q])
        PROVE  /\ Opens(req'[q]) => req'[q].chain = keychain
               /\ \A k \in Key : Renewed(req'[q], k) => Current(k, cache', keysOf)
               /\ req'[q].pc \in Reading \cup {"use"} /\ Renewed(req'[q], req'[q].key) =>
                     req'[q].item.v >= keysOf[req'[q].key]
               /\ Dropped(req'[q]) /\ keychain \in Chain =>
                     CurrentChain(keychain, req'[q].cal, chains', keysOf)
               /\ req'[q].pc = "use" /\ req'[q].item.cached /\ req'[q].cal \notin raced' =>
                     served'[req'[q].cal]
    <3>1. Undisturbed(req[q]) /\ Kept(req[q])
      BY <2>2, <2>4, StaysUndisturbed
    <3>2. \A k \in Key : Renewed(req'[q], k) => Current(k, cache', keysOf)
      <4>1. \A k \in Key : Renewed(req[q], k) => k \in {Account, req[q].cal} /\ Current(k, cache, keysOf)
        BY <2>1, <3>1 DEF MeOK, Renewed
      <4> QED
        BY <2>2, <3>1, <4>1, StaysUndisturbed DEF Kept
    <3>3. Dropped(req'[q]) /\ keychain \in Chain => CurrentChain(keychain, req'[q].cal, chains', keysOf)
      BY <2>1, <2>2, <3>1, StaysUndisturbed DEF MeOK, Kept, Stays
    <3>4. req'[q].pc \in Reading \cup {"use"} /\ Renewed(req'[q], req'[q].key) =>
              req'[q].item.v >= keysOf[req'[q].key]
      BY <2>1, <2>2, <3>1, StaysUndisturbed DEF MeOK, Stays
    <3> QED
      BY <2>1, <2>2, <3>1, <3>2, <3>3, <3>4, StaysUndisturbed DEF MeOK, Kept, Stays
  <2> QED
    BY <2>3, <2>4 DEF MeOK
<1>2. ASSUME NEW p \in Request, NEW q \in Request \ {p} PROVE PairOK(req'[p], req'[q], keysOf, keychain)
  <2>1. PairOK(req[p], req[q], keysOf, keychain)
    BY <1>0 DEF Pairs
  <2>2. CASE p # r /\ q # r
    <3>1. Stays(req'[p], req[p]) /\ Stays(req'[q], req[q])
      BY <2>2 DEF Others
    <3> QED
      BY <2>1, <3>1, StaysUndisturbed DEF PairOK, Stays
  <2>3. CASE p # r /\ q = r
    <3>1. Stays(req'[p], req[p])
      BY <2>3 DEF Others
    <3>2. Undisturbed(req'[p]) => PairOK(req[p], req'[q], keysOf, keychain)
      BY <2>3, <3>1, StaysUndisturbed
    <3> QED
      BY <3>1, <3>2, StaysUndisturbed DEF PairOK, Stays
  <2>4. CASE p = r
    <3>1. Stays(req'[q], req[q]) /\ PairOK(req'[p], req[q], keysOf, keychain)
      BY <2>4 DEF Others
    <3> QED
      BY <3>1 DEF PairOK, Stays
  <2> QED
    BY <2>2, <2>3, <2>4
<1> QED
  BY <1>1, <1>2 DEF RetryInv, Mine, Pairs

LEMMA Alone ==
    ASSUME IInv, NEW r \in Request, NEW next, req' = [req EXCEPT ![r] = next]
    PROVE  req'[r] = next /\ Others(r)
BY DEF IInv, TypeOK, Others, Stays

\* The service's keychain is as it was, whatever became garbage.
KeepsKeychain ==
    keychain' = keychain /\ (keychain \in Chain => chains'[keychain] = chains[keychain])

\* Neither what the step leaves of the request nor what it leaves to others is
\* worse than before.
LEMMA Passes ==
    ASSUME RetryInv, IInv, NEW r \in Request, NEW next, req' = [req EXCEPT ![r] = next],
           UNCHANGED <<keysOf, cache>>, KeepsKeychain, Issued', raced \subseteq raced',
           \A k \in Key : served[k] => served'[k],
           \A q \in Request \ {r} : Undisturbed(req[q]) => PairOK(req[q], next, keysOf, keychain),
           MeOK(next, keysOf, cache, served', keychain, chains', raced'),
           next.cal = req[r].cal, Undisturbed(next) => Undisturbed(req[r]),
           Dropped(next) => Dropped(req[r])
    PROVE  RetryInv'
<1>1. req'[r] = next /\ Others(r)
  BY Alone
<1>2. ASSUME NEW q \in Request PROVE Kept(req[q])
  <2>1. req[q].cal \in Key
    BY DEF IInv, TypeOK, Local, Key
  <2> QED
    BY <2>1 DEF Kept, KeepsKeychain, CurrentChain, Current
<1>3. ASSUME NEW q \in Request \ {r} PROVE PairOK(next, req[q], keysOf, keychain)
  <2>1. PairOK(req[r], req[q], keysOf, keychain)
    BY DEF RetryInv, Pairs
  <2> QED
    BY <2>1 DEF PairOK
<1> QED
  BY <1>1, <1>2, <1>3, Step DEF KeepsKeychain

\* A request that is not reading, nor dropping what others have.
LEMMA Harmless ==
    ASSUME NEW me, NEW other, NEW ke, NEW kc,
           other.pc \notin Reading \cup {"drop", "find", "forget"}
    PROVE  PairOK(me, other, ke, kc)
BY DEF PairOK

LEMMA Own ==
    ASSUME RetryInv, NEW r \in Request
    PROVE  /\ Issued /\ MeOK(req[r], keysOf, cache, served, keychain, chains, raced)
           /\ \A q \in Request \ {r} : /\ PairOK(req[r], req[q], keysOf, keychain)
                                       /\ PairOK(req[q], req[r], keysOf, keychain)
BY DEF RetryInv, Mine, Pairs

\* The step is one of reading or unlocking, which changes none of the rest.
Keeps(next, me) ==
    /\ next.cal = me.cal /\ (next.writes <=> me.writes) /\ (next.again <=> me.again)
    /\ (next.healed <=> me.healed) /\ next.attempt = me.attempt
    /\ (next.disturbed <=> me.disturbed) /\ next.blame = me.blame

LEMMA KeepsMind ==
    ASSUME NEW next, NEW me, Keeps(next, me),
           {next.pc, me.pc} \cap {"idle", "delete", "unmark", "drop"} = {}
    PROVE  /\ Undisturbed(next) <=> Undisturbed(me)
           /\ Healed(next) <=> Healed(me)
           /\ Dropped(next) <=> Dropped(me)
           /\ \A k : Renewed(next, k) <=> Renewed(me, k)
BY DEF Keeps, Undisturbed, Healed, Dropped, Renewed, Again

-----------------------------------------------------------------------------
(* Requests begin, and read.                                               *)

LEMMA StartHolds ==
    ASSUME IInv, Assumptions, RetryInv, NEW r \in Request, NEW c \in Cal, Start(r, c)
    PROVE  RetryInv'
<1> DEFINE begun(w) == [Idle(c) EXCEPT !.pc = IF w THEN "write" ELSE "lazy", !.writes = w,
                                       !.key = IF w THEN c ELSE Account,
                                       !.floor = written[c], !.disturbed = Invalidating]
<1>1. PICK w \in BOOLEAN : req' = [req EXCEPT ![r] = begun(w)]
  BY DEF Start
<1> DEFINE next == begun(w)
<1>2. /\ next.pc \in {"lazy", "write"} /\ next.cal = c /\ ~next.again
      /\ ~next.healed /\ next.attempt = 0 /\ (next.disturbed <=> Invalidating)
      /\ next.blame = "none"
  BY DEF Idle
<1> HIDE DEF begun
<1>3. ~Healed(next) /\ ~Dropped(next) /\ ~Opens(next) /\ \A k : ~Renewed(next, k)
  BY <1>2 DEF Healed, Dropped, Opens, Renewed, Again, Reading
<1>4. UNCHANGED <<version, keysOf, cache, served, keychain, chains, raced>>
  BY DEF Start
<1>5. MeOK(next, keysOf, cache, served, keychain, chains, raced)
  BY <1>2, <1>3 DEF MeOK, Reading
<1>6. \A q \in Request : PairOK(req[q], next, keysOf, keychain)
  BY <1>2, Harmless DEF Reading
<1>7. \A q \in Request : PairOK(next, req[q], keysOf, keychain)
  BY <1>2, <1>3 DEF PairOK, Undisturbed, Invalidating
<1>8. req'[r] = next /\ Others(r)
  BY <1>1, Alone
<1>9. Issued' /\ \A q \in Request : Kept(req[q])
  BY <1>4, Own DEF Issued, Kept, Current, CurrentChain
<1> QED
  BY <1>4, <1>5, <1>6, <1>7, <1>8, <1>9, Step

LEMMA KeychainHaveHolds ==
    ASSUME IInv, Assumptions, RetryInv, NEW r \in Request, KeychainHave(r) PROVE RetryInv'
<1> DEFINE me == req[r]
           next == [me EXCEPT !.pc = "open", !.chain = keychain]
<1>0. me.pc = "lazy" /\ me \in Local /\ UNCHANGED <<version, keysOf, cache, served, keychain, chains, raced>>
  BY Facts DEF KeychainHave
<1>1. req' = [req EXCEPT ![r] = next]
  BY Facts DEF KeychainHave, TypeOK
<1>2. /\ next.pc = "open" /\ next.chain = keychain /\ next.key = me.key /\ Keeps(next, me)
  BY <1>0 DEF Local, Keeps
<1> HIDE DEF next
<1>3. /\ Undisturbed(next) => Undisturbed(me)
      /\ Dropped(next) <=> Dropped(me)
      /\ \A k : Renewed(next, k) <=> Renewed(me, k)
  BY <1>0, <1>2, KeepsMind
<1>4. MeOK(next, keysOf, cache, served, keychain, chains, raced)
  BY <1>0, <1>2, <1>3, Own DEF Keeps, MeOK, Building, Reading
<1>5. \A q \in Request : PairOK(req[q], next, keysOf, keychain)
  BY <1>2, Harmless DEF Reading
<1> QED
  BY <1>0, <1>1, <1>2, <1>3, <1>4, <1>5, Own, Passes DEF Keeps, KeepsKeychain, Issued

LEMMA KeychainBuildHolds ==
    ASSUME IInv, Assumptions, RetryInv, NEW r \in Request, KeychainBuild(r) PROVE RetryInv'
<1> DEFINE me == req[r]
           next == [me EXCEPT !.pc = "get", !.key = Account]
<1>0. me.pc = "lazy" /\ me \in Local /\ UNCHANGED <<version, keysOf, cache, served, keychain, chains, raced>>
  BY Facts DEF KeychainBuild
<1>1. req' = [req EXCEPT ![r] = next]
  BY Facts DEF KeychainBuild, TypeOK
<1>2. /\ next.pc = "get" /\ next.key = Account /\ Keeps(next, me)
  BY <1>0 DEF Local, Keeps
<1> HIDE DEF next
<1>3. /\ Undisturbed(next) => Undisturbed(me)
      /\ Dropped(next) <=> Dropped(me)
      /\ \A k : Renewed(next, k) <=> Renewed(me, k)
  BY <1>0, <1>2, KeepsMind
<1>4. MeOK(next, keysOf, cache, served, keychain, chains, raced)
  BY <1>0, <1>2, <1>3, Own DEF Keeps, MeOK, Building, Reading, Opens
<1>5. \A q \in Request : PairOK(req[q], next, keysOf, keychain)
  BY <1>2, Harmless DEF Reading
<1> QED
  BY <1>0, <1>1, <1>2, <1>3, <1>4, <1>5, Own, Passes DEF Keeps, KeepsKeychain, Issued

\* What a request gets to read.
LEMMA ReadHolds ==
    ASSUME IInv, Assumptions, RetryInv, NEW r \in Request, NEW v \in Version, NEW b \in BOOLEAN,
           NEW pc \in {"mark", "put"}, req[r].pc = "get",
           req' = [req EXCEPT ![r] = [req[r] EXCEPT !.pc = pc, !.item = [v |-> v, cached |-> b]]],
           v >= keysOf[req[r].key] \/ (cache[req[r].key] # 0 /\ v = cache[req[r].key]),
           UNCHANGED <<version, keysOf, cache, served, keychain, chains, raced>>
    PROVE  RetryInv'
<1> DEFINE me == req[r]
           next == [me EXCEPT !.pc = pc, !.item = [v |-> v, cached |-> b]]
<1>0. me.pc = "get" /\ me \in Local
  BY Facts
<1>1. req' = [req EXCEPT ![r] = next]
  OBVIOUS
<1>2. /\ next.pc = pc /\ next.key = me.key /\ next.chain = me.chain /\ Keeps(next, me)
      /\ next.item.v = v
  BY <1>0 DEF Local, Keeps
<1> HIDE DEF next
<1>3. /\ Undisturbed(next) => Undisturbed(me)
      /\ Dropped(next) <=> Dropped(me)
      /\ \A k : Renewed(next, k) <=> Renewed(me, k)
      /\ Opens(next) <=> Opens(me)
      /\ Building(next) <=> Building(me)
  BY <1>0, <1>2, KeepsMind DEF Keeps, Opens, Building, Reading
<1>4. ASSUME NEW k \in Key, Current(k, cache, keysOf), next.key = k PROVE next.item.v >= keysOf[k]
  BY <1>2, <1>4 DEF Current
<1>5. MeOK(next, keysOf, cache, served, keychain, chains, raced)
  BY <1>0, <1>2, <1>3, <1>4, Own, Facts DEF Keeps, MeOK, Reading
<1>6. ASSUME NEW q \in Request \ {r}, Undisturbed(req[q]) PROVE PairOK(req[q], next, keysOf, keychain)
  <2>1. ASSUME Dropped(req[q]), NEW k \in {Account, req[q].cal}, next.key = k
        PROVE  next.item.v >= keysOf[k]
    <3>1. Renewed(req[q], k) /\ k \in Key
      BY <2>1, Facts DEF Renewed, Dropped, Key
    <3>2. Current(k, cache, keysOf)
      BY <1>6, <3>1, Own DEF Keeps, MeOK
    <3> QED
      BY <1>4, <2>1, <3>1, <3>2
  <2> QED
    BY <1>2, <2>1 DEF PairOK
<1> QED
  BY <1>1, <1>2, <1>3, <1>5, <1>6, Own, Passes DEF Keeps, KeepsKeychain, Issued

LEMMA GetHolds ==
    ASSUME IInv, Assumptions, RetryInv, NEW r \in Request, GetHit(r) \/ Fetched(r)
    PROVE  RetryInv'
<1> DEFINE me == req[r]
<1>0. me.pc = "get" /\ me \in Local /\ me.key \in Key
      /\ UNCHANGED <<version, keysOf, cache, served, keychain, chains, raced>>
  BY Facts DEF GetHit, Fetched
<1>1. CASE GetHit(r)
  <2>1. req' = [req EXCEPT ![r] = [me EXCEPT !.pc = "mark",
                                            !.item = [v |-> cache[me.key], cached |-> TRUE]]]
    BY <1>1, Facts DEF GetHit, TypeOK
  <2>2. cache[me.key] # 0 /\ cache[me.key] \in Version
    BY <1>0, <1>1, Facts DEF GetHit, TypeOK
  <2> QED
    BY <1>0, <2>1, <2>2, ReadHolds
<1>2. CASE Fetched(r)
  <2>1. req' = [req EXCEPT ![r] = [me EXCEPT !.pc = "put",
                                            !.item = [v |-> version[me.key], cached |-> FALSE]]]
    BY <1>2, Facts DEF Fetched, TypeOK
  <2>2. version[me.key] \in Version /\ keysOf[me.key] \in Version /\ keysOf[me.key] <= version[me.key]
    BY <1>0, Facts, Own DEF TypeOK, Issued
  <2>3. version[me.key] >= keysOf[me.key]
    BY <2>2 DEF Version, Assumptions, MaxVersionAssumption
  <2> QED
    BY <1>0, <2>1, <2>2, <2>3, ReadHolds
<1> QED
  BY <1>1, <1>2

Onward(r) == [req[r] EXCEPT !.pc = AfterGet(r)]

\* What has been read is put down, and the request goes on with it.
LEMMA ReadOn ==
    ASSUME IInv, Assumptions, RetryInv, NEW r \in Request, NEW next, req[r].pc \in {"mark", "put"},
           next = Onward(r)
    PROVE  /\ next.pc \in {"show", "unlock"} /\ next.cal = req[r].cal
           /\ Undisturbed(next) => Undisturbed(req[r])
           /\ Dropped(next) => Dropped(req[r])
           /\ \A k : Renewed(next, k) => Renewed(req[r], k)
           /\ MeOK(next, keysOf, cache, served, keychain, chains, raced)
           /\ \A q \in Request \ {r} : PairOK(req[q], next, keysOf, keychain)
<1> DEFINE me == req[r]
<1>0. me \in Local /\ me.pc \in {"mark", "put"} /\ (me.writes => me.key # Account)
  BY Facts DEF LocalOK
<1>1. /\ next.pc \in {"show", "unlock"} /\ (next.pc = "show" <=> me.writes) /\ next.key = me.key
      /\ next.chain = me.chain /\ next.item = me.item /\ Keeps(next, me)
  BY <1>0 DEF Onward, AfterGet, Local, Keeps
<1>2. /\ Undisturbed(next) <=> Undisturbed(me)
      /\ Dropped(next) <=> Dropped(me)
      /\ \A k : Renewed(next, k) <=> Renewed(me, k)
  BY <1>0, <1>1, KeepsMind
<1>3. /\ Opens(next) => Opens(me)
      /\ next.again => Building(next)
  BY <1>0, <1>1, Own DEF MeOK, Keeps, Opens, Building, Reading
<1>4. MeOK(next, keysOf, cache, served, keychain, chains, raced)
  BY <1>0, <1>1, <1>2, <1>3, Own DEF MeOK, Keeps, Reading
<1>5. \A q \in Request \ {r} : PairOK(req[q], next, keysOf, keychain)
  BY <1>0, <1>1, Own DEF PairOK, Keeps, Reading
<1> QED
  BY <1>1, <1>2, <1>4, <1>5 DEF Keeps

LEMMA MarkHolds ==
    ASSUME IInv, Assumptions, RetryInv, NEW r \in Request, Mark(r) PROVE RetryInv'
<1> DEFINE next == Onward(r)
<1>1. /\ req[r].pc = "mark" /\ UNCHANGED <<version, keysOf, cache, keychain, chains, raced>>
      /\ served' = [served EXCEPT ![req[r].key] = TRUE]
  BY DEF Mark
<1>2. req' = [req EXCEPT ![r] = next]
  BY Facts DEF Mark, Move, TypeOK, Onward
<1>3. \A k \in Key : served[k] => served'[k]
  BY <1>1, Facts DEF TypeOK
<1>4. req[r].cal \in Key
  BY Facts DEF Key
<1>5. /\ next.pc \in {"show", "unlock"} /\ next.cal = req[r].cal
      /\ Undisturbed(next) => Undisturbed(req[r])
      /\ Dropped(next) => Dropped(req[r])
      /\ \A k : Renewed(next, k) => Renewed(req[r], k)
      /\ MeOK(next, keysOf, cache, served, keychain, chains, raced)
      /\ \A q \in Request \ {r} : PairOK(req[q], next, keysOf, keychain)
  BY <1>1, ReadOn
<1> HIDE DEF next
<1>6. MeOK(next, keysOf, cache, served', keychain, chains, raced)
  BY <1>1, <1>3, <1>4, <1>5 DEF MeOK
<1> QED
  BY <1>1, <1>2, <1>3, <1>5, <1>6, Own, Passes DEF KeepsKeychain, Issued

LEMMA PutHolds ==
    ASSUME IInv, Assumptions, RetryInv, NEW r \in Request, Put(r) PROVE RetryInv'
<1> DEFINE me == req[r]
           k == me.key
           next == Onward(r)
           moved == [req EXCEPT ![r] = next]
<1>1. /\ me.pc = "put" /\ UNCHANGED <<version, keysOf, served, keychain, chains, raced>>
      /\ k \in Key /\ me.item.v \in Version /\ version[k] \in Version /\ keysOf[k] \in Version
  BY Facts DEF Put, TypeOK, Local, Item
<1>a. PICK reqs : reqs = IF me.item.v < version[k] THEN Disturb(moved, r, {k}) ELSE moved
  OBVIOUS
<1>2. Update({k}, me.item.v, reqs)
  BY <1>a, Facts DEF Put, Move, TypeOK, Onward
<1>3. moved[r] = next /\ (\A q \in Request \ {r} : moved[q] = req[q]) /\ next.pc # "idle"
  BY <1>1, Facts DEF TypeOK, Onward, AfterGet, Local
<1>4. reqs[r] = next
  BY <1>a, <1>3 DEF Disturb
<1>5. \A q \in Request \ {r} :
          \/ reqs[q] = req[q]
          \/ Active(q) /\ {k} \cap {Account, req[q].cal} # {} /\ me.item.v < version[k]
             /\ reqs[q] = [req[q] EXCEPT !.disturbed = TRUE]
  BY <1>a, <1>3 DEF Disturb, Active
<1>b. \A q \in Request : /\ Stays(req[q], req[q]) /\ Stays([req[q] EXCEPT !.disturbed = TRUE], req[q])
                         /\ [req[q] EXCEPT !.disturbed = TRUE].disturbed
  BY Facts DEF Stays, Local
<1>c. \A q \in Request \ {r} : Stays(reqs[q], req[q])
  BY <1>5, <1>b
<1>d. reqs \in [Request -> Local]
  <2>1. next \in Local
    BY Facts DEF Onward, AfterGet, Local, Pc
  <2>2. \A q \in Request : [req[q] EXCEPT !.disturbed = TRUE] \in Local
    BY Facts DEF Local
  <2>3. DOMAIN moved = Request
    BY Facts DEF TypeOK
  <2>4. reqs = [q \in Request |-> reqs[q]]
    BY <1>a, <2>3 DEF Disturb
  <2>5. \A q \in Request : reqs[q] \in Local
    BY <1>4, <1>5, <2>1, <2>2, Facts
  <2> QED
    BY <2>4, <2>5
<1>e. \A q \in Request : reqs[q].pc # "idle" => Active(q)
  BY <1>1, <1>3, <1>4, <1>c DEF Stays, Active
<1>7. \A q \in Request :
        /\ Stays(req'[q], reqs[q]) /\ cache'[k] = me.item.v
        /\ Undisturbed(req'[q]) => \A x \in {Account, req[q].cal} : x \notin {k} =>
              (Current(x, cache, keysOf) => Current(x, cache', keysOf))
  BY <1>1, <1>2, <1>d, <1>e, UpdateKeeps
<1>6. Others(r) /\ Stays(req'[r], next)
  BY <1>4, <1>7, <1>c DEF Others, Stays
<1>8. ASSUME NEW q \in Request \ {r}, Undisturbed(req'[q]) PROVE Kept(req[q])
  <2>1. k \in {Account, req[q].cal} => me.item.v >= keysOf[k]
    <3>1. Undisturbed(reqs[q])
      BY <1>7, <1>8, StaysUndisturbed
    <3>2. k \in {Account, req[q].cal} => ~(me.item.v < version[k])
      BY <1>a, <1>3, <1>b, <3>1 DEF Disturb, Active, Undisturbed
    <3>3. keysOf[k] <= version[k]
      BY <1>1, Own DEF Issued
    <3> QED
      BY <1>1, <3>2, <3>3 DEF Version, Assumptions, MaxVersionAssumption
  <2>2. \A x \in {Account, req[q].cal} : Current(x, cache, keysOf) => Current(x, cache', keysOf)
    BY <1>7, <1>8, <2>1 DEF Current
  <2> QED
    BY <1>1, <2>2 DEF Kept, CurrentChain
<1>9. /\ next.pc \in {"show", "unlock"} /\ next.cal = me.cal
      /\ Undisturbed(next) => Undisturbed(me)
      /\ Dropped(next) => Dropped(me)
      /\ \A x : Renewed(next, x) => Renewed(me, x)
      /\ MeOK(next, keysOf, cache, served, keychain, chains, raced)
      /\ \A q \in Request \ {r} : PairOK(req[q], next, keysOf, keychain)
  BY <1>1, ReadOn
<1> HIDE DEF next
<1>10. MeOK(req'[r], keysOf, cache', served, keychain, chains, raced)
  <2>1. ASSUME NEW x \in Key, Undisturbed(req'[r]), Renewed(next, x) PROVE Current(x, cache', keysOf)
    <3>1. Undisturbed(me) /\ Renewed(me, x)
      BY <2>1, <1>6, <1>9, StaysUndisturbed
    <3>2. x \in {Account, me.cal} /\ Current(x, cache, keysOf)
      BY <3>1, Own DEF MeOK, Renewed
    <3>3. CASE x = k
      BY <1>1, <1>7, <3>1, <3>3, Own DEF MeOK, Current, Reading
    <3> QED
      BY <1>7, <2>1, <3>2, <3>3
  <2> QED
    BY <1>6, <1>9, <2>1, StaysMeOK
<1>11. \A q \in Request \ {r} : PairOK(req'[r], req[q], keysOf, keychain)
  <2>1. \A q \in Request \ {r} : PairOK(next, req[q], keysOf, keychain)
    BY <1>9, Own DEF PairOK
  <2> QED
    BY <1>6, <2>1, StaysMind
<1>12. Issued'
  BY <1>1, Own DEF Issued
<1>13. \A q \in Request \ {r} : PairOK(req[q], req'[r], keysOf, keychain)
  BY <1>6, <1>9, StaysMind
<1> QED
  BY <1>1, <1>6, <1>8, <1>10, <1>11, <1>12, <1>13, Step

-----------------------------------------------------------------------------
(* Requests unlock.                                                        *)

LEMMA OpenMissHolds ==
    ASSUME IInv, Assumptions, RetryInv, NEW r \in Request, OpenMiss(r) PROVE RetryInv'
<1> DEFINE me == req[r]
           next == [me EXCEPT !.key = me.cal, !.pc = "get"]
<1>0. me.pc = "open" /\ me \in Local /\ UNCHANGED <<version, keysOf, cache, served, keychain, chains, raced>>
  BY Facts DEF OpenMiss
<1>1. req' = [req EXCEPT ![r] = next]
  BY Facts DEF OpenMiss, TypeOK
<1>2. next.pc = "get" /\ next.key = me.cal /\ next.chain = me.chain /\ Keeps(next, me)
  BY <1>0, Facts DEF Local, Keeps
<1> HIDE DEF next
<1>3. /\ Undisturbed(next) => Undisturbed(me)
      /\ Dropped(next) <=> Dropped(me)
      /\ \A k : Renewed(next, k) <=> Renewed(me, k)
  BY <1>0, <1>2, KeepsMind
<1>4. MeOK(next, keysOf, cache, served, keychain, chains, raced)
  BY <1>0, <1>2, <1>3, Own DEF Keeps, MeOK, Building, Reading, Opens
<1>5. \A q \in Request : PairOK(req[q], next, keysOf, keychain)
  BY <1>2, Harmless DEF Reading
<1> QED
  BY <1>0, <1>1, <1>2, <1>3, <1>4, <1>5, Own, Passes DEF Keeps, KeepsKeychain, Issued

\* Nobody is dropping what an undisturbed request has unlocked.
LEMMA Marked ==
    ASSUME RetryInv, NEW r \in Request, Undisturbed(req[r]),
           req[r].pc \notin {"drop", "find", "forget"}
    PROVE  /\ ~Healing
           /\ Covered(req[r].cal) => served[req[r].cal] \/ req[r].cal \in raced
BY Own DEF PairOK, Healing, Covered, Forgets

LEMMA UsesHolds ==
    ASSUME IInv, Assumptions, RetryInv, NEW r \in Request, NEW item, NEW objects \in [Chain -> Keychain],
           req[r].pc = "open" \/ (req[r].pc = "unlock" /\ req[r].key # Account),
           Undisturbed(req[r]) =>
               /\ Dropped(req[r]) => item.v >= keysOf[req[r].cal]
               /\ item.cached => served[req[r].cal] \/ req[r].cal \in raced,
           keychain \in Chain => \A q \in Request :
               Undisturbed(req[q]) /\ Dropped(req[q]) =>
                   CurrentChain(keychain, req[q].cal, objects, keysOf),
           Uses(r, item, objects)
    PROVE  RetryInv'
<1> DEFINE me == req[r]
           next == [me EXCEPT !.pc = "use", !.key = me.cal, !.item = item,
                              !.chain = NoChain, !.healed = FALSE]
<1>0. /\ me \in Local /\ ~me.writes /\ me.pc \in {"open", "unlock"}
      /\ ~me.again /\ UNCHANGED <<version, keysOf, cache, served, keychain, raced>>
  BY Facts, Own DEF LocalOK, MeOK, Building, Uses
<1>1. req' = [req EXCEPT ![r] = next] /\ chains' = Referred(objects, keychain, req')
  BY Facts DEF Uses, TypeOK
<1>2. /\ next.pc = "use" /\ next.key = me.cal /\ next.item = item /\ next.cal = me.cal
      /\ ~next.again /\ ~next.healed /\ next.attempt = me.attempt /\ ~next.writes
      /\ (next.disturbed <=> me.disturbed) /\ next.blame = me.blame
  BY <1>0 DEF Local
<1> HIDE DEF next
<1>3. /\ Undisturbed(next) => Undisturbed(me)
      /\ Healed(next) => Dropped(me) /\ Healed(me)
      /\ ~Opens(next)
  BY <1>0, <1>2 DEF Undisturbed, Healed, Dropped, Opens, Reading
<1>4. keychain \in Chain => chains'[keychain] = objects[keychain]
  BY <1>1, ReferredOK
<1>5. MeOK(next, keysOf, cache, served, keychain, chains', raced)
  <2>1. ASSUME Undisturbed(next), NEW k \in Key, Renewed(next, k) PROVE Current(k, cache, keysOf)
    <3>1. Renewed(me, k)
      BY <1>2, <1>3, <2>1 DEF Renewed, Again
    <3> QED
      BY <1>3, <2>1, <3>1, Own DEF MeOK
  <2>2. ASSUME Undisturbed(next), Renewed(next, next.key) PROVE next.item.v >= keysOf[next.key]
    BY <1>2, <1>3, <2>2 DEF Renewed, Again
  <2>3. ASSUME Undisturbed(next), Dropped(next), keychain \in Chain
        PROVE  CurrentChain(keychain, next.cal, chains', keysOf)
    BY <1>2, <1>3, <1>4, <2>3 DEF Dropped, CurrentChain
  <2>4. next.blame = "cache" => next.disturbed \/ next.cal \in raced
    BY <1>2, Own DEF MeOK
  <2> QED
    BY <1>2, <1>3, <2>1, <2>2, <2>3, <2>4 DEF MeOK
<1>6. \A q \in Request : PairOK(req[q], next, keysOf, keychain)
  BY <1>2, Harmless DEF Reading
<1>7. \A q \in Request \ {r} : PairOK(next, req[q], keysOf, keychain)
  BY <1>2, <1>3, Own DEF PairOK, Dropped
<1>8. ASSUME NEW q \in Request, Undisturbed(req[q]) PROVE Kept(req[q])
  BY <1>0, <1>4, <1>8 DEF Kept, CurrentChain, Current
<1>9. req'[r] = next /\ Others(r) /\ Issued'
  BY <1>0, <1>1, Alone, Own DEF Issued
<1> QED
  BY <1>0, <1>5, <1>6, <1>7, <1>8, <1>9, Step

LEMMA OpenHaveHolds ==
    ASSUME IInv, Assumptions, RetryInv, NEW r \in Request, OpenHave(r) PROVE RetryInv'
<1> DEFINE me == req[r]
           access == chains[me.chain].access[me.cal]
<1>1. /\ me.pc = "open" /\ me.chain \in Chain /\ access # NoItem /\ me.cal \in Cal
      /\ Uses(r, access, chains) /\ chains \in [Chain -> Keychain]
  BY Facts DEF OpenHave, LocalOK, TypeOK
<1>2. Undisturbed(me) => me.chain = keychain
  BY <1>1, Own DEF MeOK, Opens
<1>3. Undisturbed(me) /\ Dropped(me) => access.v >= keysOf[me.cal]
  BY <1>1, <1>2, Own DEF MeOK, CurrentChain
<1>4. Undisturbed(me) /\ access.cached => served[me.cal] \/ me.cal \in raced
  <2> SUFFICES ASSUME Undisturbed(me), access.cached PROVE served[me.cal] \/ me.cal \in raced
    OBVIOUS
  <2>1. Covered(me.cal)
    BY <1>1, <1>2, Facts DEF IInv, KeychainCovered
  <2> QED
    BY <1>1, <2>1, Marked
<1>5. \A q \in Request : Undisturbed(req[q]) /\ Dropped(req[q]) /\ keychain \in Chain =>
          CurrentChain(keychain, req[q].cal, chains, keysOf)
  BY Own DEF MeOK
<1> HIDE DEF access
<1> QED
  BY <1>1, <1>3, <1>4, <1>5, UsesHolds

LEMMA UnlockedCalendarHolds ==
    ASSUME IInv, Assumptions, RetryInv, NEW r \in Request, UnlockedCalendar(r) PROVE RetryInv'
<1> DEFINE me == req[r]
           objects == [chains EXCEPT ![me.chain].access[me.cal] = me.item]
<1>1. /\ me.pc = "unlock" /\ me.key = me.cal /\ me.key # Account /\ ~me.writes
      /\ me.chain \in Chain /\ me.cal \in Cal /\ me.item \in Item
      /\ Uses(r, me.item, objects) /\ chains \in [Chain -> Keychain]
  BY Facts DEF UnlockedCalendar, LocalOK, TypeOK, Local
<1>2. Undisturbed(me) => me.chain = keychain
  BY <1>1, Own DEF MeOK, Opens, Reading
<1>3. Undisturbed(me) /\ Dropped(me) => me.item.v >= keysOf[me.cal]
  BY <1>1, Own DEF MeOK, Renewed, Dropped, Reading
<1>4. Undisturbed(me) /\ me.item.cached => served[me.cal] \/ me.cal \in raced
  <2> SUFFICES ASSUME Undisturbed(me), me.item.cached PROVE served[me.cal] \/ me.cal \in raced
    OBVIOUS
  <2>1. Covered(me.cal)
    BY <1>1, <1>2 DEF IInv, HeldCovered
  <2> QED
    BY <1>1, <2>1, Marked
<1>5. /\ objects \in [Chain -> Keychain]
      /\ \A n \in Chain : objects[n].account = chains[n].account
      /\ \A n \in Chain, c \in Cal : objects[n].access[c] =
            IF n = me.chain /\ c = me.cal THEN me.item ELSE chains[n].access[c]
  BY <1>1 DEF Keychain
<1> HIDE DEF objects
<1>6. ASSUME NEW q \in Request, Undisturbed(req[q]), Dropped(req[q]), keychain \in Chain
      PROVE  CurrentChain(keychain, req[q].cal, objects, keysOf)
  <2>1. CurrentChain(keychain, req[q].cal, chains, keysOf) /\ req[q].cal \in Cal
    BY <1>6, Own, Facts DEF MeOK
  <2>2. me.chain = keychain /\ req[q].cal = me.cal => me.item.v >= keysOf[me.cal]
    BY <1>1, <1>3, <1>6, Own DEF PairOK, Reading
  <2> QED
    BY <1>5, <1>6, <2>1, <2>2 DEF CurrentChain
<1> QED
  BY <1>1, <1>3, <1>4, <1>5, <1>6, UsesHolds

\* The new keychain is current for whoever relies on it, and nobody has it yet.
LEMMA UnlockedAccountHolds ==
    ASSUME IInv, Assumptions, RetryInv, NEW r \in Request, UnlockedAccount(r) PROVE RetryInv'
<1> DEFINE me == req[r]
<1>0. /\ me.pc = "unlock" /\ me.key = Account /\ me \in Local /\ ~me.writes
      /\ keychain = NoChain /\ NoChain \notin Chain
      /\ UNCHANGED <<version, keysOf, cache, served, raced>>
  <2>1. kcMu = r
    BY Facts DEF UnlockedAccount, Building
  <2> QED
    BY <2>1, Facts DEF UnlockedAccount, LocalOK, IInv, BuildInv
<1>1. PICK n \in Chain :
         /\ n \notin InUse(keychain, req) /\ keychain' = n
         /\ chains' = [chains EXCEPT ![n] = [Empty EXCEPT !.account = me.item]]
         /\ req' = [req EXCEPT ![r].pc = "open", ![r].chain = n,
                               ![r].item = NoItem, ![r].again = FALSE]
  BY DEF UnlockedAccount
<1> DEFINE next == [me EXCEPT !.pc = "open", !.chain = n, !.item = NoItem, !.again = FALSE]
<1>2. /\ next.pc = "open" /\ next.chain = n /\ next.cal = me.cal /\ ~next.again /\ ~next.writes
      /\ (next.healed <=> me.healed) /\ next.attempt = me.attempt
      /\ (next.disturbed <=> me.disturbed) /\ next.blame = me.blame
  BY <1>0 DEF Local
<1>3. req' = [req EXCEPT ![r] = next]
  BY <1>1, Facts DEF TypeOK
<1>4. req'[r] = next /\ \A q \in Request \ {r} : req'[q] = req[q]
  BY <1>3, Facts DEF TypeOK
<1>5. chains'[n].account = me.item /\ \A c \in Cal : chains'[n].access[c] = NoItem
  BY <1>1, Facts DEF TypeOK, Empty
<1> HIDE DEF next
<1>6. /\ Undisturbed(next) => Undisturbed(me)
      /\ Healed(next) <=> Healed(me)
      /\ Dropped(next) <=> Dropped(me)
      /\ \A k : Renewed(next, k) => Renewed(me, k)
  BY <1>0, <1>2 DEF Undisturbed, Healed, Dropped, Renewed, Again
<1>7. MeOK(next, keysOf, cache, served, n, chains', raced)
  <2>1. Undisturbed(next) /\ Dropped(next) => me.item.v >= keysOf[Account]
    BY <1>0, <1>6, Own DEF MeOK, Renewed, Dropped, Reading
  <2>2. Undisturbed(next) /\ Dropped(next) => CurrentChain(n, next.cal, chains', keysOf)
    BY <1>2, <1>5, <2>1, Facts DEF CurrentChain
  <2> QED
    BY <1>2, <1>6, <2>2, Own DEF MeOK, Reading
<1>8. ASSUME NEW q \in Request \ {r} PROVE MeOK(req[q], keysOf, cache, served, n, chains', raced)
  <2>1. ASSUME Undisturbed(req[q]), Opens(req[q]) PROVE FALSE
    <3>1. req[q].chain = keychain
      BY <2>1, Own DEF MeOK
    <3>2. req[q].chain \in Chain
      BY <2>1, Facts DEF Opens, Reading, LocalOK
    <3> QED
      BY <1>0, <3>1, <3>2
  <2>2. ASSUME Undisturbed(req[q]), Dropped(req[q])
        PROVE  CurrentChain(n, req[q].cal, chains', keysOf)
    <3>1. me.item.v >= keysOf[Account]
      BY <1>0, <2>2, Own DEF PairOK, Reading
    <3> QED
      BY <1>5, <3>1, Facts DEF CurrentChain
  <2> QED
    BY <2>1, <2>2, Own DEF MeOK
<1>9. \A q \in Request : req[q].chain # n
  BY <1>1 DEF InUse
<1>10. \A q \in Request \ {r} : PairOK(next, req[q], keysOf, n) /\ PairOK(req[q], next, keysOf, n)
  <2>1. \A q \in Request \ {r} : PairOK(next, req[q], keysOf, n)
    BY <1>2, <1>6, <1>9, Own DEF PairOK
  <2>2. \A q \in Request \ {r} : PairOK(req[q], next, keysOf, n)
    BY <1>2, Harmless DEF Reading
  <2> QED
    BY <2>1, <2>2
<1>11. \A p \in Request \ {r} : \A q \in Request \ {r, p} : PairOK(req[p], req[q], keysOf, n)
  BY <1>9, Own DEF PairOK
<1>12. Mine'
  BY <1>0, <1>1, <1>4, <1>7, <1>8 DEF Mine
<1>13. Pairs'
  BY <1>0, <1>1, <1>4, <1>10, <1>11 DEF Pairs
<1>14. Issued'
  BY <1>0, Own DEF Issued
<1> QED
  BY <1>12, <1>13, <1>14 DEF RetryInv

-----------------------------------------------------------------------------
(* Requests end, or retry.                                                 *)

\* The end of a request that was disturbed, or does not blame the cache.
LEMMA EndedHolds ==
    ASSUME IInv, Assumptions, RetryInv, NEW r \in Request, NEW items, req' = Ended(r, items),
           (\E i \in items : i.cached) => req[r].disturbed \/ req[r].cal \in raced,
           UNCHANGED <<keysOf, cache, served, raced>>, KeepsKeychain, Issued'
    PROVE  RetryInv'
<1> DEFINE idle == Idle(req[r].cal)
           told == [idle EXCEPT !.blame = IF \E i \in items : i.cached THEN "cache" ELSE "network",
                                !.disturbed = req[r].disturbed]
<1>1. PICK next \in {idle, told} : req' = [req EXCEPT ![r] = next]
  BY DEF Ended
<1>2. /\ next.pc = "idle" /\ next.cal = req[r].cal /\ ~next.again
      /\ next.blame = "cache" => next.disturbed \/ next.cal \in raced
  <2>1. idle.pc = "idle" /\ idle.cal = req[r].cal /\ ~idle.again /\ idle.blame = "none"
    BY DEF Idle
  <2>2. /\ told.pc = "idle" /\ told.cal = req[r].cal /\ ~told.again
        /\ (told.disturbed <=> req[r].disturbed)
        /\ told.blame = "cache" => \E i \in items : i.cached
    BY DEF Idle
  <2> QED
    BY <1>1, <2>1, <2>2
<1> HIDE DEF idle, told
<1>3. ~Undisturbed(next)
  BY <1>2 DEF Undisturbed
<1>4. MeOK(next, keysOf, cache, served, keychain, chains', raced)
  BY <1>2, <1>3 DEF MeOK
<1>5. \A q \in Request : PairOK(req[q], next, keysOf, keychain) /\ PairOK(next, req[q], keysOf, keychain)
  BY <1>2, <1>3, Harmless DEF PairOK, Reading
<1>6. req'[r] = next /\ Others(r)
  BY <1>1, Alone
<1>7. \A q \in Request : Kept(req[q])
  BY DEF Kept, Current, CurrentChain, KeepsKeychain
<1> QED
  BY <1>4, <1>5, <1>6, <1>7, Step DEF KeepsKeychain

LEMMA GivesHolds ==
    ASSUME IInv, Assumptions, RetryInv, NEW r \in Request, NEW items, Gives(r, items),
           (\E i \in items : i.cached) => req[r].disturbed \/ req[r].cal \in raced
    PROVE  RetryInv'
<1>1. KeepsKeychain
  BY Facts, ReferredOK DEF Gives, KeepsKeychain, TypeOK
<1>2. Issued' /\ UNCHANGED <<keysOf, cache, served, raced>> /\ req' = Ended(r, items)
  BY Own DEF Issued, Gives
<1> QED
  BY <1>1, <1>2, EndedHolds

LEMMA RetryHolds ==
    ASSUME IInv, Assumptions, RetryInv, NEW r \in Request, req[r].pc \in {"get", "unlock"},
           ~req[r].writes, RetryFetch(r)
    PROVE  RetryInv'
<1> DEFINE me == req[r]
           retry == IF me.key = Account THEN [me EXCEPT !.again = TRUE]
                    ELSE [me EXCEPT !.healed = TRUE, !.chain = NoChain]
           next == [retry EXCEPT !.pc = "delete", !.item = NoItem]
<1>0. me \in Local /\ UNCHANGED <<version, keysOf, cache, served, keychain, raced>>
  BY Facts DEF RetryFetch
<1>1. req' = [req EXCEPT ![r] = next] /\ chains' = Referred(chains, keychain, req')
  BY DEF RetryFetch
<1>2. /\ next.pc = "delete" /\ next.key = me.key /\ next.cal = me.cal /\ ~next.writes
      /\ (me.key # Account => (next.again <=> me.again))
      /\ (me.key = Account => (next.healed <=> me.healed)) /\ next.attempt = me.attempt
      /\ (next.disturbed <=> me.disturbed) /\ next.blame = me.blame
  BY <1>0 DEF Local
<1> HIDE DEF next
<1>3. KeepsKeychain
  BY <1>0, <1>1, Facts, ReferredOK DEF KeepsKeychain, TypeOK
<1>4. /\ Undisturbed(next) => Undisturbed(me)
      /\ Dropped(next) => Dropped(me)
      /\ \A k : Renewed(next, k) => Renewed(me, k)
  BY <1>0, <1>2 DEF Undisturbed, Healed, Dropped, Renewed, Again
<1>5. next.again => Building(next)
  BY <1>2, Own DEF MeOK, Building
<1>6. ASSUME Undisturbed(next), Dropped(next), keychain \in Chain
      PROVE  CurrentChain(keychain, next.cal, chains', keysOf)
  BY <1>2, <1>3, <1>4, <1>6, Own DEF MeOK, CurrentChain, KeepsKeychain
<1>7. MeOK(next, keysOf, cache, served, keychain, chains', raced)
  BY <1>0, <1>2, <1>4, <1>5, <1>6, Own DEF MeOK, Opens, Reading
<1>8. \A q \in Request : PairOK(req[q], next, keysOf, keychain)
  BY <1>2, Harmless DEF Reading
<1> QED
  BY <1>0, <1>1, <1>2, <1>3, <1>4, <1>7, <1>8, Own, Passes DEF Issued

\* What a request fails with for good, if it fails with cached responses.
LEMMA FailsForCause ==
    ASSUME IInv, Assumptions, RetryInv, NEW r \in Request, Undisturbed(req[r]),
           req[r].cal \notin raced, NEW item \in StaleBehind(r), item.cached,
           \/ req[r].pc = "unlock" /\ ~Retries(r)
           \/ req[r].pc = "use" /\ ~(req[r].attempt = 0 /\ ServedAny(HealKeys(req[r].cal)))
    PROVE  FALSE
<1> DEFINE me == req[r]
           c == me.cal
<1>0. /\ ~me.writes /\ me.key \in {Account, c} /\ me \in Local
      /\ Account \in Key /\ c \in Key /\ c \in Cal /\ c # Account
      /\ (me.pc = "use" => me.key = c)
      /\ ~Healing /\ (Covered(c) => served[c])
  BY Facts, Marked DEF LocalOK, Key
<1>1. PICK k : <<k, item>> \in Behind(r) /\ Stale(k, item)
  BY DEF StaleBehind, Behind
<1>2. /\ keysOf[Account] \in Nat /\ keysOf[c] \in Nat
      /\ me.item.v \in Nat
      /\ \A n \in Chain : chains[n].account.v \in Nat
  BY <1>0, Facts DEF TypeOK, Local, Item, Keychain, Version, Assumptions, MaxVersionAssumption
<1>3. CASE me.pc = "unlock" /\ me.key = Account
  <2>1. k = Account /\ item = me.item
    BY <1>1, <1>3 DEF Behind
  <2>2. me.again \/ ~served[Account]
    BY <1>0, <1>3 DEF Retries, RetriesAccount, ServedAny
  <2>3. me.again => me.item.v >= keysOf[Account]
    BY <1>3, Own DEF MeOK, Renewed, Again, Reading
  <2>4. served[Account]
    BY <1>0, <1>3, <2>1 DEF IInv, HeldCovered
  <2> QED
    BY <1>1, <1>2, <2>1, <2>2, <2>3, <2>4 DEF Stale
<1>4. CASE me.pc = "unlock" /\ me.key = c
  <2>0. me.chain = keychain /\ me.chain \in Chain /\ keychain # NoChain
    BY <1>0, <1>4, Own, Facts DEF MeOK, Opens, Reading, LocalOK
  <2>1. (k = c /\ item = me.item) \/ (k = Account /\ item = chains[keychain].account)
    BY <1>1, <1>4, <2>0 DEF Behind
  <2>2. me.healed \/ (~served[Account] /\ ~served[c])
    BY <1>0, <1>4 DEF Retries, RetriesCalendar, ServedAny, HealKeys
  <2>3. me.healed => /\ me.item.v >= keysOf[c]
                     /\ chains[keychain].account.v >= keysOf[Account]
    BY <1>0, <1>4, <2>0, Own DEF MeOK, Renewed, Healed, Dropped, CurrentChain, Reading
  <2>4. item = me.item => served[c]
    BY <1>0, <1>4, <2>0 DEF IInv, HeldCovered
  <2>5. item = chains[keychain].account => served[Account]
    BY <1>0, <2>0 DEF IInv, KeychainCovered
  <2> QED
    BY <1>1, <1>2, <2>0, <2>1, <2>2, <2>3, <2>4, <2>5 DEF Stale
<1>5. CASE me.pc = "use"
  <2>1. k = c /\ item = me.item
    BY <1>0, <1>1, <1>5 DEF Behind
  <2>2. me.attempt = 1 \/ ~served[c]
    BY <1>0, <1>5 DEF ServedAny, HealKeys, Local
  <2>3. me.attempt = 1 => me.item.v >= keysOf[c]
    BY <1>0, <1>5, Own DEF MeOK, Renewed, Healed, Reading
  <2>4. served[c]
    BY <1>5, <2>1, Own DEF MeOK
  <2> QED
    BY <1>1, <1>2, <2>1, <2>2, <2>3, <2>4 DEF Stale
<1> QED
  BY <1>0, <1>3, <1>4, <1>5

LEMMA FailuresHold ==
    ASSUME IInv, Assumptions, RetryInv, NEW r \in Request,
           UnlockFails(r) \/ FetchFails(r) \/ GiveUp(r) \/ UsedWell(r) \/ WriteFails(r) \/ Show(r)
    PROVE  RetryInv'
<1>1. CASE UnlockFails(r) /\ Retries(r)
  BY <1>1, RetryHolds DEF UnlockFails, Retries
<1>2. CASE FetchFails(r) /\ Retries(r)
  BY <1>2, RetryHolds DEF FetchFails, Retries
<1>3. CASE UnlockFails(r) /\ ~Retries(r)
  <2>1. req[r].pc = "unlock" /\ Gives(r, StaleBehind(r))
    BY <1>3 DEF UnlockFails
  <2>2. (\E i \in StaleBehind(r) : i.cached) => req[r].disturbed \/ req[r].cal \in raced
    BY <1>3, <2>1, FailsForCause DEF Undisturbed
  <2> QED
    BY <2>1, <2>2, GivesHolds
<1>4. CASE \/ FetchFails(r) /\ ~Retries(r)
           \/ GiveUp(r) \/ UsedWell(r) \/ WriteFails(r) \/ Show(r)
  <2>1. Gives(r, {})
    BY <1>4 DEF FetchFails, GiveUp, UsedWell, WriteFails, Show
  <2> QED
    BY <2>1, GivesHolds
<1> QED
  BY <1>1, <1>2, <1>3, <1>4

LEMMA DegradedHolds ==
    ASSUME IInv, Assumptions, RetryInv, NEW r \in Request, Degraded(r) PROVE RetryInv'
<1> DEFINE me == req[r]
           next == [me EXCEPT !.pc = "delete", !.item = NoItem, !.attempt = 1]
<1>0. me.pc = "use" /\ me \in Local /\ ~me.writes /\ me.key # Account
  BY Facts DEF Degraded, LocalOK
<1>1. CASE me.attempt = 0 /\ ServedAny(HealKeys(me.cal))
  <2>1. /\ req' = [req EXCEPT ![r] = next]
        /\ UNCHANGED <<version, keysOf, cache, served, keychain, chains, raced>>
    BY <1>1, Facts DEF Degraded, TypeOK
  <2>2. /\ next.pc = "delete" /\ next.key = me.key /\ next.cal = me.cal /\ ~next.writes
        /\ (next.again <=> me.again) /\ (next.disturbed <=> me.disturbed) /\ next.blame = me.blame
    BY <1>0 DEF Local
  <2> HIDE DEF next
  <2>3. /\ Undisturbed(next) => Undisturbed(me)
        /\ ~Dropped(next) /\ ~Opens(next) /\ ~next.again /\ \A k : ~Renewed(next, k)
    BY <1>0, <2>2, Own DEF MeOK, Undisturbed, Dropped, Healed, Opens, Reading, Renewed, Again, Building
  <2>4. MeOK(next, keysOf, cache, served, keychain, chains, raced)
    BY <2>2, <2>3, Own DEF MeOK, Reading
  <2>5. \A q \in Request : PairOK(req[q], next, keysOf, keychain)
    BY <2>2, Harmless DEF Reading
  <2> QED
    BY <2>1, <2>2, <2>3, <2>4, <2>5, Own, Passes DEF KeepsKeychain, Issued
<1>2. CASE ~(me.attempt = 0 /\ ServedAny(HealKeys(me.cal)))
  <2>1. Gives(r, StaleBehind(r))
    BY <1>2 DEF Degraded
  <2>2. (\E i \in StaleBehind(r) : i.cached) => me.disturbed \/ me.cal \in raced
    BY <1>0, <1>2, FailsForCause DEF Undisturbed
  <2> QED
    BY <2>1, <2>2, GivesHolds
<1> QED
  BY <1>1, <1>2

-----------------------------------------------------------------------------
(* Requests invalidate.                                                    *)

LEMMA DeleteHolds ==
    ASSUME IInv, Assumptions, RetryInv, NEW r \in Request, Delete(r) PROVE RetryInv'
<1> DEFINE me == req[r]
           next == [me EXCEPT !.pc = "unmark"]
           moved == [req EXCEPT ![r] = next]
<1>0. /\ me.pc = "delete" /\ me \in Local /\ raced' = RacedBy(r)
      /\ (me.writes => me.key # Account) /\ me.key \in {Account, me.cal}
      /\ UNCHANGED <<version, keysOf, served, keychain, chains>>
  BY Facts DEF Delete, LocalOK
<1>1. Update(DropKeys(r), 0, moved)
  BY Facts DEF Delete, Move, TypeOK
<1>2. /\ next.pc = "unmark" /\ next.key = me.key /\ next.chain = me.chain /\ Keeps(next, me)
      /\ next \in Local
  BY <1>0 DEF Local, Keeps, Pc
<1> HIDE DEF next
<1>3. raced \subseteq raced'
  BY <1>0 DEF RacedBy
<1>a. moved[r] = next /\ (\A q \in Request \ {r} : moved[q] = req[q]) /\ moved \in [Request -> Local]
  BY <1>2, Facts DEF TypeOK
<1>b. \A q \in Request : moved[q].pc # "idle" => Active(q)
  BY <1>0, <1>a DEF Active
<1> HIDE DEF moved
<1>4. \A q \in Request :
        /\ Stays(req'[q], moved[q])
        /\ \A k \in Key \cap DropKeys(r) : cache'[k] = 0
        /\ Undisturbed(req'[q]) => \A k \in {Account, req[q].cal} : k \notin DropKeys(r) =>
              (Current(k, cache, keysOf) => Current(k, cache', keysOf))
  BY <1>1, <1>a, <1>b, UpdateKeeps
<1>c. Stays(req'[r], next) /\ Others(r)
  BY <1>4, <1>a DEF Others
<1>5. /\ Undisturbed(next) => Undisturbed(me)
      /\ Dropped(next) => Dropped(me)
      /\ next.again => Building(next)
      /\ ~Opens(next)
  BY <1>0, <1>2, Own DEF MeOK, Keeps, Undisturbed, Dropped, Healed, Building, Opens, Reading
<1>6. ASSUME NEW k \in Key, Undisturbed(req'[r]), Renewed(next, k) PROVE Current(k, cache', keysOf)
  <2>0. Undisturbed(next) /\ k \in {Account, me.cal}
    BY <1>2, <1>6, <1>c, StaysUndisturbed DEF Renewed, Keeps
  <2>1. k \in DropKeys(r) \/ Renewed(me, k)
    BY <1>0, <1>2, <1>5, <1>6 DEF Keeps, Renewed, Again, Healed, Building, DropKeys, HealKeys
  <2>2. Renewed(me, k) => Current(k, cache, keysOf)
    BY <1>5, <2>0, Own DEF MeOK
  <2> QED
    BY <1>4, <1>6, <2>0, <2>1, <2>2 DEF Current
<1>7. MeOK(req'[r], keysOf, cache', served, keychain, chains, raced')
  <2>1. \A k : Renewed(req'[r], k) <=> Renewed(next, k)
    BY <1>c, StaysUndisturbed
  <2> QED
    BY <1>2, <1>3, <1>5, <1>6, <1>c, <2>1, StaysUndisturbed, Own DEF MeOK, Keeps, Reading, Stays
<1>8. \A q \in Request : PairOK(req[q], req'[r], keysOf, keychain)
  BY <1>2, <1>c, Harmless, StaysMind DEF Reading
<1>9. \A q \in Request \ {r} : PairOK(req'[r], req[q], keysOf, keychain)
  <2>1. \A q \in Request \ {r} : PairOK(next, req[q], keysOf, keychain)
    BY <1>2, <1>5, Own DEF PairOK, Keeps
  <2> QED
    BY <1>c, <2>1, StaysMind
<1>10. ASSUME NEW q \in Request \ {r}, Undisturbed(req'[q]) PROVE Kept(req[q])
  <2>1. {Account, req[q].cal} \subseteq Key
    BY Facts DEF Key
  <2>2. \A k \in {Account, req[q].cal} : Current(k, cache, keysOf) => Current(k, cache', keysOf)
    BY <1>4, <1>10, <2>1 DEF Current
  <2> QED
    BY <1>0, <2>2 DEF Kept, CurrentChain
<1>11. Issued'
  BY <1>0, Own DEF Issued
<1> QED
  BY <1>0, <1>3, <1>7, <1>8, <1>9, <1>10, <1>11, <1>c, Step

\* Requests that are told of an event are no longer undisturbed.
LEMMA Telling ==
    ASSUME IInv, NEW r \in Request, NEW next, NEW keys,
           req' = Disturb([req EXCEPT ![r] = next], r, keys)
    PROVE  /\ req'[r] = next /\ Others(r)
           /\ \A q \in Request \ {r} : Undisturbed(req'[q]) =>
                 req'[q] = req[q] /\ keys \cap {Account, req[q].cal} = {}
<1> DEFINE moved == [req EXCEPT ![r] = next]
<1>1. moved[r] = next /\ \A q \in Request \ {r} : moved[q] = req[q]
  BY DEF IInv, TypeOK
<1>2. req'[r] = next
  BY <1>1 DEF Disturb
<1>3. \A q \in Request \ {r} :
          req'[q] = IF Active(q) /\ keys \cap {Account, req[q].cal} # {}
                    THEN [req[q] EXCEPT !.disturbed = TRUE] ELSE req[q]
  <2> HIDE DEF moved
  <2>1. \A q \in Request \ {r} : req'[q] =
            IF Active(q) /\ keys \cap {Account, moved[q].cal} # {}
            THEN [moved[q] EXCEPT !.disturbed = TRUE] ELSE moved[q]
    BY DEF Disturb, Active, moved
  <2> QED
    BY <1>1, <2>1
<1>4. \A q \in Request : req[q] \in Local
  BY DEF IInv, TypeOK
<1>5. \A q \in Request : /\ Stays(req[q], req[q]) /\ Stays([req[q] EXCEPT !.disturbed = TRUE], req[q])
                         /\ [req[q] EXCEPT !.disturbed = TRUE].disturbed
  BY <1>4 DEF Stays, Local
<1>6. Others(r)
  BY <1>3, <1>5 DEF Others
<1>7. \A q \in Request \ {r} : Undisturbed(req'[q]) =>
          req'[q] = req[q] /\ keys \cap {Account, req[q].cal} = {}
  BY <1>3, <1>5 DEF Undisturbed, Active
<1> QED
  BY <1>2, <1>6, <1>7

LEMMA UnmarkHolds ==
    ASSUME IInv, Assumptions, RetryInv, NEW r \in Request, Unmark(r) PROVE RetryInv'
<1> DEFINE me == req[r]
           next == [me EXCEPT !.pc = AfterUnmark(r)]
<1>0. /\ me.pc = "unmark" /\ me \in Local /\ me.key \in {Account, me.cal}
      /\ (me.writes => me.key # Account)
      /\ UNCHANGED <<version, keysOf, cache, keychain, chains, raced>>
  BY Facts DEF Unmark, LocalOK
<1>1. req' = Disturb([req EXCEPT ![r] = next], r, DropKeys(r))
  BY Facts DEF Unmark, Move, TypeOK
<1>2. /\ next.pc = AfterUnmark(r) /\ next.key = me.key /\ next.item = me.item /\ Keeps(next, me)
  BY <1>0 DEF Local, Keeps
<1>3. \/ me.writes /\ next.pc = "find" /\ DropKeys(r) = {me.cal}
      \/ ~me.writes /\ me.key = Account /\ next.pc = "get" /\ DropKeys(r) = {Account}
      \/ ~me.writes /\ me.key # Account /\ next.pc = "drop" /\ DropKeys(r) = {Account, me.cal}
  BY <1>2 DEF AfterUnmark, DropKeys, HealKeys
<1> HIDE DEF next
<1>4. /\ req'[r] = next /\ Others(r)
      /\ \A q \in Request \ {r} : Undisturbed(req'[q]) =>
            req'[q] = req[q] /\ DropKeys(r) \cap {Account, req[q].cal} = {}
  BY <1>1, Telling
<1>5. /\ Undisturbed(next) => Undisturbed(me)
      /\ Dropped(next) => Dropped(me)
      /\ \A k : Renewed(next, k) => Renewed(me, k)
  BY <1>0, <1>2, <1>3 DEF Keeps, Undisturbed, Dropped, Healed, Renewed, Again
<1>6. /\ next.again => Building(next)
      /\ ~Opens(next)
  BY <1>0, <1>2, <1>3, Own DEF MeOK, Keeps, Building, Opens, Reading
<1>7. MeOK(next, keysOf, cache, served', keychain, chains, raced)
  BY <1>2, <1>3, <1>5, <1>6, Own DEF MeOK, Keeps, Reading
<1>8. ASSUME NEW q \in Request \ {r}, Undisturbed(req'[q])
      PROVE  Kept(req[q]) /\ PairOK(req[q], next, keysOf, keychain)
  <2>1. me.writes /\ next.pc = "find" /\ DropKeys(r) = {me.cal} /\ req[q].cal # me.cal
    BY <1>3, <1>4, <1>8
  <2>2. served' = [k \in Key |-> k \notin DropKeys(r) /\ served[k]] /\ req[q].cal \in Key
    BY Facts DEF Unmark, Key
  <2>3. served[req[q].cal] => served'[req[q].cal]
    BY <2>1, <2>2
  <2> QED
    BY <1>0, <1>2, <2>1, <2>3 DEF Kept, Current, CurrentChain, PairOK, Keeps, Reading
<1>9. \A q \in Request \ {r} : PairOK(next, req[q], keysOf, keychain)
  BY <1>2, <1>5, Own DEF PairOK, Keeps
<1>10. Issued'
  BY <1>0, Own DEF Issued
<1> QED
  BY <1>0, <1>4, <1>7, <1>8, <1>9, <1>10, Step

\* Nobody is building a keychain then, and everybody else is told.
LEMMA DropKeychainHolds ==
    ASSUME IInv, Assumptions, RetryInv, NEW r \in Request, DropKeychain(r) PROVE RetryInv'
<1> DEFINE me == req[r]
           next == [me EXCEPT !.pc = "lazy", !.key = Account]
<1>0. /\ me.pc = "drop" /\ me \in Local /\ ~me.writes /\ me.key # Account
      /\ keychain' = NoChain /\ NoChain \notin Chain /\ kcMu = NoRequest
      /\ UNCHANGED <<version, keysOf, cache, served, raced>>
  BY Facts DEF DropKeychain, LocalOK
<1>1. req' = Disturb([req EXCEPT ![r] = next], r, {Account})
  BY Facts DEF DropKeychain, TypeOK
<1>2. next.pc = "lazy" /\ next.key = Account /\ Keeps(next, me)
  BY <1>0 DEF Local, Keeps
<1> HIDE DEF next
<1>3. req'[r] = next /\ Others(r) /\ \A q \in Request \ {r} : ~Undisturbed(req'[q])
  BY <1>1, Telling
<1>4. /\ Undisturbed(next) => Undisturbed(me)
      /\ ~next.again /\ ~Opens(next)
      /\ \A k : Renewed(next, k) => Renewed(me, k)
  BY <1>0, <1>2, Own DEF MeOK, Keeps, Undisturbed, Healed, Renewed, Again, Building, Opens, Reading
<1>5. MeOK(next, keysOf, cache, served, NoChain, chains', raced)
  BY <1>0, <1>2, <1>4, Own DEF MeOK, Keeps, Reading
<1>6. ASSUME NEW q \in Request \ {r} PROVE MeOK(req'[q], keysOf, cache, served, NoChain, chains', raced)
  <2>1. Stays(req'[q], req[q])
    BY <1>3 DEF Others
  <2>2. /\ req'[q].again => Building(req'[q])
        /\ req'[q].blame = "cache" => req'[q].disturbed \/ req'[q].cal \in raced
    BY <2>1, StaysUndisturbed, Own DEF MeOK, Stays
  <2> QED
    BY <1>3, <2>2 DEF MeOK
<1>7. ASSUME NEW q \in Request \ {r} PROVE PairOK(next, req'[q], keysOf, NoChain)
  <2>1. Stays(req'[q], req[q])
    BY <1>3 DEF Others
  <2>2. ~Building(req[q])
    BY <1>0, Facts
  <2>3. req[q].pc \in Reading => req[q].key # Account
    BY <2>2 DEF Building, Reading
  <2>4. req[q].pc \in Reading /\ ~req[q].writes => req[q].chain # NoChain
    BY <1>0, <2>3, Facts DEF LocalOK, Reading
  <2> QED
    BY <1>2, <1>4, <2>1, <2>3, <2>4, Own DEF PairOK, Stays, Keeps
<1>8. Mine'
  BY <1>0, <1>3, <1>5, <1>6 DEF Mine
<1>9. Pairs'
  <2> SUFFICES ASSUME NEW p \in Request, NEW q \in Request \ {p}
               PROVE  PairOK(req'[p], req'[q], keysOf, NoChain)
    BY <1>0 DEF Pairs
  <2>1. CASE p = r
    BY <1>3, <1>7, <2>1
  <2>2. CASE p # r
    BY <1>3, <2>2 DEF PairOK
  <2> QED
    BY <2>1, <2>2
<1>10. Issued'
  BY <1>0, Own DEF Issued
<1> QED
  BY <1>8, <1>9, <1>10 DEF RetryInv

-----------------------------------------------------------------------------
(* Requests write.                                                         *)

\* A writer relies on nothing here, nor does it read for the keychain.
LEMMA WriterHolds ==
    ASSUME IInv, Assumptions, RetryInv, NEW r \in Request, NEW next,
           req' = [req EXCEPT ![r] = next], next.writes, ~next.again, next.cal = req[r].cal,
           next.disturbed <=> req[r].disturbed, next.blame = req[r].blame,
           next.pc \in {"delete", "forget", "get"}, req[r].pc # "idle",
           next.pc = "forget" => req[r].pc = "find",
           UNCHANGED <<keysOf, cache, served, keychain>>, Issued', raced \subseteq raced',
           keychain \in Chain => \A c \in Cal :
              CurrentChain(keychain, c, chains, keysOf) => CurrentChain(keychain, c, chains', keysOf)
    PROVE  RetryInv'
<1>1. ~Healed(next) /\ ~Dropped(next) /\ ~Opens(next) /\ \A k : ~Renewed(next, k)
  BY DEF Healed, Dropped, Opens, Renewed, Again, Reading
<1>2. MeOK(next, keysOf, cache, served, keychain, chains', raced')
  BY <1>1, Own DEF MeOK, Reading
<1>3. \A q \in Request \ {r} : PairOK(req[q], next, keysOf, keychain)
  BY Own DEF PairOK, Reading
<1>4. \A q \in Request \ {r} : PairOK(next, req[q], keysOf, keychain)
  BY <1>1, Own DEF PairOK, Undisturbed
<1>5. \A q \in Request : Kept(req[q])
  BY Facts DEF Kept, Current
<1>6. req'[r] = next /\ Others(r)
  BY Alone
<1> QED
  BY <1>2, <1>3, <1>4, <1>5, <1>6, Step

LEMMA WritingHolds ==
    ASSUME IInv, Assumptions, RetryInv, NEW r \in Request, Write(r) \/ Find(r) \/ Forget(r)
    PROVE  RetryInv'
<1> DEFINE me == req[r]
<1>0. /\ me \in Local /\ me.writes /\ me.key = me.cal /\ me.cal \in Cal /\ ~me.again
      /\ UNCHANGED <<keysOf, cache, served, keychain>> /\ me.pc # "idle"
  BY Facts, Own DEF Write, Find, Forget, LocalOK, MeOK, Building
<1>1. CASE Write(r)
  <2>1. me.pc = "write" /\ version' = [version EXCEPT ![me.cal] = @ + 1] /\ chains' = chains
        /\ raced' = raced
    BY <1>1 DEF Write
  <2>2. Issued'
    BY <1>0, <2>1, Own, Facts DEF Issued, TypeOK, Version, Assumptions, MaxVersionAssumption
  <2>3. CASE req' = Ended(r, {})
    BY <1>0, <2>1, <2>2, <2>3, EndedHolds DEF KeepsKeychain
  <2>4. CASE req' # Ended(r, {})
    <3> DEFINE next == [me EXCEPT !.pc = "delete", !.floor = version[me.cal] + 1]
    <3>1. req' = [req EXCEPT ![r] = next]
      BY <1>1, <2>4, Facts DEF Write, TypeOK
    <3>2. /\ next.pc = "delete" /\ next.writes /\ ~next.again /\ next.cal = me.cal
          /\ (next.disturbed <=> me.disturbed) /\ next.blame = me.blame
      BY <1>0 DEF Local
    <3> HIDE DEF next
    <3> QED
      BY <1>0, <2>1, <2>2, <3>1, <3>2, WriterHolds
  <2> QED
    BY <2>3, <2>4
<1>2. CASE Find(r)
  <2> DEFINE next == [me EXCEPT !.pc = "forget", !.chain = keychain]
  <2>1. /\ req' = [req EXCEPT ![r] = next] /\ me.pc = "find" /\ Issued'
        /\ chains' = chains /\ raced' = raced
    BY <1>2, Facts, Own DEF Find, TypeOK, Issued
  <2>2. /\ next.pc = "forget" /\ next.writes /\ ~next.again /\ next.cal = me.cal
        /\ (next.disturbed <=> me.disturbed) /\ next.blame = me.blame
    BY <1>0 DEF Local
  <2> HIDE DEF next
  <2> QED
    BY <1>0, <2>1, <2>2, WriterHolds
<1>3. CASE Forget(r)
  <2> DEFINE next == [me EXCEPT !.pc = "get", !.chain = NoChain]
             forgotten == [n \in Chain |->
                 IF n = me.chain THEN [chains[n] EXCEPT !.access[me.cal] = NoItem]
                 ELSE chains[n]]
  <2>1. /\ req' = [req EXCEPT ![r] = next] /\ Issued' /\ raced \subseteq raced'
        /\ chains' = Referred(forgotten, keychain, req') /\ chains \in [Chain -> Keychain]
    BY <1>3, Facts, Own DEF Forget, TypeOK, Issued, RacedBy
  <2>2. /\ next.pc = "get" /\ next.writes /\ ~next.again /\ next.cal = me.cal
        /\ (next.disturbed <=> me.disturbed) /\ next.blame = me.blame
    BY <1>0 DEF Local
  <2>3. \A n \in Chain : /\ forgotten[n].account = chains[n].account
                         /\ \A c \in Cal : forgotten[n].access[c] \in {NoItem, chains[n].access[c]}
    BY <1>0, <2>1 DEF Keychain
  <2>4. keychain \in Chain => chains'[keychain] = forgotten[keychain]
    BY <2>1 DEF Referred, InUse
  <2> HIDE DEF next, forgotten
  <2>5. keychain \in Chain => \A c \in Cal :
            CurrentChain(keychain, c, chains, keysOf) => CurrentChain(keychain, c, chains', keysOf)
    BY <2>3, <2>4 DEF CurrentChain
  <2> QED
    BY <1>0, <2>1, <2>2, <2>5, WriterHolds
<1> QED
  BY <1>1, <1>2, <1>3

-----------------------------------------------------------------------------
(* The server, a restart, and the theorem.                                 *)

LEMMA RotateHolds ==
    ASSUME IInv, Assumptions, RetryInv, NEW k \in Key, Rotate(k) PROVE RetryInv'
<1>0. /\ version' = [version EXCEPT ![k] = @ + 1] /\ keysOf' = [keysOf EXCEPT ![k] = version[k] + 1]
      /\ UNCHANGED <<cache, served, keychain, chains, raced>>
      /\ version \in [Key -> Version \ {0}] /\ keysOf \in [Key -> Version \ {0}]
  BY DEF Rotate, IInv, TypeOK
<1>1. Issued'
  BY <1>0 DEF RetryInv, Issued, Version, Assumptions, MaxVersionAssumption
<1>2. \A q \in Request : req'[q] = IF Active(q) /\ {k} \cap {Account, req[q].cal} # {}
                                   THEN [req[q] EXCEPT !.disturbed = TRUE] ELSE req[q]
  BY DEF Rotate, Disturb, Active, Assumptions, NoRequestAssumption
<1>3. ASSUME NEW q \in Request
      PROVE  /\ Stays(req'[q], req[q])
             /\ Undisturbed(req'[q]) => req'[q] = req[q] /\ k \notin {Account, req[q].cal}
  <2>1. req[q] \in Local
    BY Facts
  <2>2. /\ Stays(req[q], req[q]) /\ Stays([req[q] EXCEPT !.disturbed = TRUE], req[q])
        /\ [req[q] EXCEPT !.disturbed = TRUE].disturbed
    BY <2>1 DEF Stays, Local
  <2> QED
    BY <1>2, <2>2 DEF Undisturbed, Active
<1>4. \A x \in Key : x # k => keysOf'[x] = keysOf[x]
  BY <1>0
<1>5. ASSUME NEW q \in Request PROVE MeOK(req'[q], keysOf', cache, served, keychain, chains, raced)
  <2>1. /\ req'[q].again => Building(req'[q])
        /\ req'[q].blame = "cache" => req'[q].disturbed \/ req'[q].cal \in raced
    BY <1>3, StaysUndisturbed, Own DEF MeOK, Stays
  <2>2. ASSUME Undisturbed(req'[q])
        PROVE  /\ req'[q] = req[q]
               /\ keysOf'[Account] = keysOf[Account] /\ keysOf'[req[q].cal] = keysOf[req[q].cal]
               /\ \A x : Renewed(req[q], x) => x \in {Account, req[q].cal}
    BY <1>3, <1>4, <2>2, Facts DEF Renewed, Key
  <2>3. Undisturbed(req'[q]) => MeOK(req'[q], keysOf', cache, served, keychain, chains, raced)
    <3> SUFFICES ASSUME Undisturbed(req'[q])
                 PROVE  MeOK(req'[q], keysOf', cache, served, keychain, chains, raced)
      OBVIOUS
    <3>1. \A x \in Key : Renewed(req[q], x) /\ Current(x, cache, keysOf) => Current(x, cache, keysOf')
      BY <2>2 DEF Current
    <3>2. \A n : CurrentChain(n, req[q].cal, chains, keysOf) => CurrentChain(n, req[q].cal, chains, keysOf')
      BY <2>2 DEF CurrentChain
    <3>3. Renewed(req[q], req[q].key) => keysOf'[req[q].key] = keysOf[req[q].key]
      BY <2>2
    <3> QED
      BY <2>2, <3>1, <3>2, <3>3, Own DEF MeOK
  <2> QED
    BY <2>1, <2>3 DEF MeOK
<1>6. ASSUME NEW p \in Request, NEW q \in Request \ {p}
      PROVE  PairOK(req'[p], req'[q], keysOf', keychain)
  <2> SUFFICES ASSUME Undisturbed(req'[p]) PROVE PairOK(req'[p], req'[q], keysOf', keychain)
    BY DEF PairOK
  <2>1. /\ req'[p] = req[p] /\ Stays(req'[q], req[q])
        /\ keysOf'[Account] = keysOf[Account] /\ keysOf'[req[p].cal] = keysOf[req[p].cal]
    BY <1>3, <1>4, Facts DEF Key
  <2> QED
    BY <2>1, Own DEF PairOK, Stays
<1> QED
  BY <1>0, <1>1, <1>5, <1>6 DEF RetryInv, Mine, Pairs

LEMMA PutElsewhereHolds ==
    ASSUME IInv, Assumptions, RetryInv, PutElsewhere PROVE RetryInv'
<1>0. /\ UNCHANGED <<version, keysOf, served, keychain, chains, raced>> /\ cache' = file
      /\ req' = Disturb(req, NoRequest, Back({}))
  BY DEF PutElsewhere
<1>1. \A q \in Request : req'[q] = IF Active(q) /\ Back({}) \cap {Account, req[q].cal} # {}
                                   THEN [req[q] EXCEPT !.disturbed = TRUE] ELSE req[q]
  BY <1>0 DEF Disturb, Active, Assumptions, NoRequestAssumption
<1>2. ASSUME NEW q \in Request
      PROVE  /\ Stays(req'[q], req[q])
             /\ Undisturbed(req'[q]) => Back({}) \cap {Account, req[q].cal} = {}
  <2>1. req[q] \in Local
    BY Facts
  <2>2. /\ Stays(req[q], req[q]) /\ Stays([req[q] EXCEPT !.disturbed = TRUE], req[q])
        /\ [req[q] EXCEPT !.disturbed = TRUE].disturbed
    BY <2>1 DEF Stays, Local
  <2> QED
    BY <1>1, <2>2 DEF Undisturbed, Active
<1>3. ASSUME NEW q \in Request PROVE MeOK(req'[q], keysOf, file, served, keychain, chains, raced)
  <2>1. ASSUME Undisturbed(req'[q]), NEW k \in Key, Renewed(req[q], k) PROVE Current(k, file, keysOf)
    <3>1. k \in {Account, req[q].cal} /\ Undisturbed(req[q])
      BY <1>2, <2>1, StaysUndisturbed DEF Renewed
    <3>2. k \notin {} \cup Back({}) /\ Current(k, cache, keysOf)
      BY <1>2, <2>1, <3>1, Own DEF MeOK
    <3> QED
      BY <3>2, ReloadKeeps
  <2> QED
    BY <1>2, <2>1, Own, StaysMeOK
<1>4. ASSUME NEW p \in Request, NEW q \in Request \ {p} PROVE PairOK(req'[p], req'[q], keysOf, keychain)
  <2>1. PairOK(req'[p], req[q], keysOf, keychain)
    BY <1>2, Own, StaysMind
  <2> QED
    BY <1>2, <2>1, StaysMind
<1>5. Issued'
  BY <1>0, Own DEF Issued, RetryInv
<1> QED
  BY <1>0, <1>3, <1>4, <1>5 DEF RetryInv, Mine, Pairs

\* Nobody has anything to lose when all requests are idle.
LEMMA NothingToLose ==
    ASSUME NEW c, NEW d, NEW ke, NEW ca, NEW se, NEW kc, NEW objects, NEW ra
    PROVE  MeOK(Idle(c), ke, ca, se, kc, objects, ra) /\ PairOK(Idle(c), Idle(d), ke, kc)
<1>1. Idle(c).pc = "idle" /\ ~Idle(c).again /\ Idle(c).blame = "none"
  BY DEF Idle
<1> QED
  BY <1>1 DEF MeOK, PairOK, Undisturbed

LEMMA RestartHolds ==
    ASSUME RetryInv, Restart PROVE RetryInv'
<1>1. \A q \in Request : req'[q] = Idle(req[q].cal)
  BY DEF Restart
<1>2. Issued'
  BY DEF Restart, RetryInv, Issued
<1>3. Mine'
  BY <1>1, NothingToLose DEF Mine
<1>4. Pairs'
  BY <1>1, NothingToLose DEF Pairs
<1> QED
  BY <1>2, <1>3, <1>4 DEF RetryInv

LEMMA RetryInit == Init => RetryInv
<1> SUFFICES ASSUME Init PROVE RetryInv
  OBVIOUS
<1>1. PICK c \in Cal : req = [r \in Request |-> Idle(c)]
  BY DEF Init
<1>2. \A q \in Request : req[q] = Idle(c)
  BY <1>1
<1>3. Issued
  BY DEF Init, Issued
<1>4. Mine
  BY <1>2, NothingToLose DEF Mine
<1>5. Pairs
  BY <1>2, NothingToLose DEF Pairs
<1> QED
  BY <1>3, <1>4, <1>5 DEF RetryInv

LEMMA ServeHolds ==
    ASSUME IInv, Assumptions, RetryInv, NEW r \in Request, Serve(r) PROVE RetryInv'
<1>1. CASE KeychainHave(r) \/ KeychainBuild(r) \/ GetHit(r) \/ Fetched(r) \/ Mark(r) \/ Put(r)
  BY <1>1, KeychainHaveHolds, KeychainBuildHolds, GetHolds, MarkHolds, PutHolds
<1>2. CASE OpenMiss(r) \/ OpenHave(r) \/ UnlockedAccount(r) \/ UnlockedCalendar(r)
  BY <1>2, OpenMissHolds, OpenHaveHolds, UnlockedAccountHolds, UnlockedCalendarHolds
<1>3. CASE UnlockFails(r) \/ FetchFails(r) \/ GiveUp(r) \/ UsedWell(r) \/ WriteFails(r) \/ Show(r)
  BY <1>3, FailuresHold
<1>4. CASE Degraded(r) \/ Delete(r) \/ Unmark(r) \/ DropKeychain(r)
  BY <1>4, DegradedHolds, DeleteHolds, UnmarkHolds, DropKeychainHolds
<1>5. CASE Write(r) \/ Find(r) \/ Forget(r)
  BY <1>5, WritingHolds
<1> QED
  BY <1>1, <1>2, <1>3, <1>4, <1>5 DEF Serve

LEMMA RetryInvStep ==
    ASSUME IInv, Assumptions, RetryInv, [Next]_vars PROVE RetryInv'
<1>1. CASE \E k \in Key : Rotate(k)
  BY <1>1, RotateHolds
<1>2. CASE \E r \in Request, c \in Cal : Start(r, c)
  BY <1>2, StartHolds
<1>3. CASE \E r \in Request : Serve(r)
  BY <1>3, ServeHolds
<1>4. CASE PutElsewhere
  BY <1>4, PutElsewhereHolds
<1>5. CASE Restart
  BY <1>5, RestartHolds
<1>6. CASE UNCHANGED vars
  BY <1>6 DEF vars, RetryInv, Issued, Mine, Pairs
<1> QED
  BY <1>1, <1>2, <1>3, <1>4, <1>5, <1>6 DEF Next

\* No request ends because of stale responses from the cache, unless keys are
\* replaced, another request invalidates, a late answer is cached, or an old
\* response comes back from the file meanwhile, or a write to its calendar has
\* met a read that was under way.
THEOREM Retried == Spec => []StaleCacheIsRetried
<1>1. Init => RetryInv
  BY RetryInit
<1>2. IInv /\ RetryInv /\ [Next]_vars => RetryInv'
  BY Constants, RetryInvStep
<1>3. RetryInv => StaleCacheIsRetried
  BY DEF RetryInv, Mine, MeOK, StaleCacheIsRetried
<1> QED
  BY <1>1, <1>2, <1>3, Invariance, PTL DEF Spec
=============================================================================
