------------------------- MODULE CalendarResolution -------------------------
(***************************************************************************)
(* From a selector to a calendar, and what is then done with it.           *)
(*                                                                         *)
(* One service answers concurrent requests.  It keeps the calendar list in *)
(* memory and, with the account's default, on disk, and it remembers which *)
(* of the two it was served from the disk (the marks of cachedAPI).  The   *)
(* Proton app and other processes change the calendars meanwhile.          *)
(*                                                                         *)
(* The cache on disk is read from a snapshot; each update of it takes what *)
(* the file has, changes that and writes it back, if it can: a deletion    *)
(* that was not written is undone by the next update.                      *)
(*                                                                         *)
(* A fetch is two steps: the server answers, and the answer is stored.     *)
(* Storing a list on disk and in memory is one step, and so is dropping    *)
(* both: a request reads the memory first and the disk only without it.    *)
(* A calendar is its ID and its name; event operations are reduced to      *)
(* whether the server finds what they ask for in the calendar.             *)
(***************************************************************************)
EXTENDS FiniteSets, FiniteSetsExt, Naturals

CONSTANTS Cal,         \* calendar IDs, in the order of the server's list
          Name,        \* names, up to case
          Gone,        \* the name of an ID no calendar has
          NoCal,       \* no calendar; as a default: none is set
          None,        \* nothing in the cache
          All,         \* the selection of every calendar
          Kind,        \* Kind[c]: "owned", "subscribed" or "managed"
          Request,
          AppName,     \* names the app gives
          Menu,        \* what the requests may ask for, together
          MaxEnv       \* bound on the steps of the app and other processes, and
                       \* on the failed updates of the cache, together

ASSUME CalAssumption == Cal \subseteq Nat /\ NoCal \notin Cal
ASSUME NameAssumption ==
    Gone \notin Name /\ Name \cap Cal = {} /\ AppName \subseteq Name
ASSUME KindAssumption == Kind \in [Cal -> {"owned", "subscribed", "managed"}]
ASSUME BoundAssumption == MaxEnv \in Nat

VARIABLES names,     \* the server's calendars
          default,   \* the account's default at the server
          unborn,    \* IDs not used yet
          keyed,     \* calendars with key material
          scope,     \* the session has the locked scope
          mem,       \* Service.cals
          disk,      \* the cached list and default in the process's snapshot
          file,      \* the same in cache.json
          served,    \* what this process was served from the disk
          req,       \* local state of the requests
          since,     \* the server's lists and defaults since a request's last turn
          overtaken, \* old metadata came into this request's way
          env        \* steps of the environment so far

server == <<names, default, unborn, keyed, scope>>
cache == <<mem, disk, file, served>>
vars == <<server, cache, req, since, overtaken, env>>

Lists == [Cal -> Name \cup {Gone}]
Defaults == Cal \cup {NoCal}
Cached == [list : Lists \cup {None}, default : Defaults \cup {None}]
Seen == [names : SUBSET Lists, default : SUBSET Defaults]
Selection == {All} \cup SUBSET (Cal \cup Name)
Shape == [op : {"access", "window", "update", "create", "delete", "calendars"},
          sel : Selection,                    \* the calendars asked for
          what : SUBSET {"meta", "default"},  \* what is to be written
          name : Name]                        \* the name it sets

ASSUME MenuAssumption == Menu \subseteq [Request -> Shape]

\* The marks for "nothing" and "everything" are none of the values.
ASSUME MarkAssumption ==
    /\ Gone \notin Cal /\ None \notin Lists /\ None \notin Defaults
    /\ \A sel \in SUBSET (Cal \cup Name) : sel # All

Listed(list) == {c \in Cal : list[c] # Gone}

-----------------------------------------------------------------------------
(* Resolution of a selection against a list; {} when it fails.             *)

\* An exact ID, else a unique name.
ResolveOne(list, s) ==
    IF s \in Listed(list) THEN {s}
    ELSE LET matches == {c \in Cal : list[c] = s}
         IN IF Cardinality(matches) = 1 THEN matches ELSE {}

\* A selection with nothing in it is the default, if listed, else the first.
ResolveMany(list, sel, d) ==
    IF Listed(list) = {} THEN {}
    ELSE IF sel = All THEN Listed(list)
    ELSE IF sel = {} THEN {IF d \in Listed(list) THEN d ELSE Min(Listed(list))}
    ELSE IF \E s \in sel : ResolveOne(list, s) = {} THEN {}
    ELSE UNION {ResolveOne(list, s) : s \in sel}

Missing(list, d) == d # NoCal /\ d \notin Listed(list)

-----------------------------------------------------------------------------
(* Requests.                                                               *)

Pc == {"idle", "list", "getList", "storeList", "keepList", "dflt", "getDflt",
       "storeDflt", "check", "act", "meta", "metaDone", "mkdef",
       "defDone", "post", "keys", "unlock", "delete", "relock", "deleted", "done"}
Op == {"access", "window", "update", "create", "delete", "calendars", "detail"}
End == {"none", "ok", "unknown", "notfound", "refused", "error", "keyless"}

ReqState ==
    [pc : Pc, op : Op, sel : Selection,
     what : SUBSET {"meta", "default"}, name : Name,
     list : Lists \cup {None}, dflt : Defaults,
     fresh : BOOLEAN,                     \* the list is known to be fresh
     round : {"first", "default", "list"},
     lost : BOOLEAN,                      \* a metadata fetch failed
     again : BOOLEAN, failed : Defaults,  \* withAccess's second attempt
     cals : SUBSET Cal, end : End]

\* Types, and an ID the server has not used yet names no calendar.
TypeOK ==
    /\ names \in Lists /\ default \in Defaults
    /\ unborn \subseteq Cal /\ keyed \subseteq Cal /\ scope \in BOOLEAN
    /\ mem \in Lists \cup {None}
    /\ disk \in Cached /\ file \in Cached
    /\ served \subseteq {"list", "default"}
    /\ req \in [Request -> ReqState]
    /\ since \in [Request -> Seen]
    /\ overtaken \in [Request -> BOOLEAN]
    /\ env \in 0..MaxEnv
    /\ \A c \in unborn : names[c] = Gone

NewName == CHOOSE n \in Name : TRUE
Blank == [pc |-> "idle", op |-> "access", sel |-> {}, what |-> {}, name |-> NewName,
         list |-> None, dflt |-> NoCal, fresh |-> FALSE, round |-> "first",
         lost |-> FALSE, again |-> FALSE, failed |-> NoCal, cals |-> {}, end |-> "none"]

Running(r) == req[r].pc \notin {"idle", "done"}
Nothing == [names |-> {}, default |-> {}]
The(S) == CHOOSE c \in S : TRUE

Set(r, state) == req' = [req EXCEPT ![r] = state]

\* What a request read is of no use once it has chosen; what it was asked,
\* once it has ended, unless a property looks at it.
Forget(q) == [q EXCEPT !.list = None, !.fresh = FALSE, !.round = "first"]
Ended(q, end) ==
    [Blank EXCEPT !.pc = "done", !.op = q.op, !.end = end, !.lost = q.lost,
                 !.sel = IF end = "unknown" THEN q.sel ELSE {},
                 !.cals = IF end = "keyless" THEN q.cals ELSE {}]

\* Without a calendar the request fails, except on the second try of a read
\* that came back degraded: then the degraded result is returned.
Unresolved(q, end) ==
    Ended(q, IF q.op = "access" /\ q.again /\ q.failed = NoCal THEN "ok" ELSE end)

NeedsDefault(q) == q.sel = {} \/ q.op = "calendars"

\* A resolution starts over: what the last one read is forgotten.
Anew(q) == [q EXCEPT !.pc = "list", !.round = "first", !.list = None, !.dflt = NoCal,
                     !.fresh = FALSE, !.cals = {}]

\* The server's metadata changes.
Becomes(ns, d) == names' = ns /\ default' = d

\* Seeded fault: the same calendar again is as good as another.
NeverTheSame(q, out) == FALSE

\* A replay that comes out at the calendar that was not found is none.
TheSameAgain(q, out) == q.op = "access" /\ q.failed \in out

\* What the operation does with the calendars it asked for.
Chosen(q, out) ==
    LET kind == Kind[The(out)]
        At(pc) == [Forget(q) EXCEPT !.pc = pc, !.cals = out]
    IN  IF TheSameAgain(q, out) THEN Ended(q, "notfound")
        ELSE IF q.op \in {"access", "window"} THEN At("act")
        ELSE IF q.op = "detail" THEN [q EXCEPT !.pc = "dflt", !.cals = out]
        ELSE IF q.op = "update" /\ kind = "owned"
             THEN At(IF "meta" \in q.what THEN "meta" ELSE "mkdef")
        ELSE IF q.op = "delete" /\ kind # "subscribed"
             THEN At(IF kind = "owned" THEN "unlock" ELSE "delete")
        ELSE Ended(q, "refused")

Changed(entries, keys, new) ==
    [list |-> IF "list" \in keys THEN new.list ELSE entries.list,
     default |-> IF "default" \in keys THEN new.default ELSE entries.default]

\* Cache.update: what may come of it.  Without the lock only the snapshot
\* changes.  With it, the snapshot is what the file has, changed; and the write
\* of the file may fail.
Updates(d, f, keys, new) ==
    {[disk |-> Changed(f, keys, new), file |-> Changed(f, keys, new), fails |-> 0],
     [disk |-> Changed(d, keys, new), file |-> f, fails |-> 1],
     [disk |-> Changed(f, keys, new), file |-> f, fails |-> 1]}

\* ... and what came of it, within the bound.
Becoming(u, fails) ==
    /\ env + fails <= MaxEnv /\ env' = env + fails
    /\ disk' = u.disk /\ file' = u.file

UpdateCache(keys, new) == \E u \in Updates(disk, file, keys, new) : Becoming(u, u.fails)

\* cachedAPI.invalidate.
Dropped == [list |-> None, default |-> None]
Invalidate(keys) == UpdateCache(keys, Dropped) /\ served' = served \ keys

InvalidateCalendarList == Invalidate({"list", "default"}) /\ mem' = None

Init ==
    /\ names \in [Cal -> Name \cup {Gone}] /\ Listed(names) # {}
    /\ \E c \in Listed(names) : default = c
    /\ unborn = Cal \ Listed(names)
    /\ keyed = Listed(names) /\ scope = FALSE
    /\ mem = None
    /\ disk \in Cached /\ file = disk
    /\ served = {}
    /\ \E m \in Menu :
          req = [r \in Request |-> [Blank EXCEPT !.op = m[r].op, !.sel = m[r].sel,
                                                !.what = m[r].what, !.name = m[r].name]]
    /\ since = [r \in Request |-> Nothing]
    /\ overtaken = [r \in Request |-> FALSE]
    /\ env = 0

Begin(r) ==
    /\ req[r].pc = "idle"
    /\ Set(r, [req[r] EXCEPT
                 !.pc = CASE req[r].op = "create" -> "post"
                          [] req[r].op = "calendars" -> "getList"
                          [] OTHER -> "list",
                 !.round = IF req[r].op = "calendars" THEN "list" ELSE "first"])
    /\ UNCHANGED <<server, cache, env>>

-----------------------------------------------------------------------------
(* Service.resolveWith.                                                    *)

\* The resolution, once list and default are known.  A failure, or a default
\* still unlisted, with a list that may be old: both are fetched again.
MayRefresh(q) == q.round # "list" /\ ~q.fresh
Refresh(q, out) == [q EXCEPT !.pc = "getList", !.round = "list", !.cals = out]

\* Seeded fault: only a failure refreshes the list, not a missing default.
ResolvedKeepingDefault(q) ==
    LET out == ResolveMany(q.list, q.sel, q.dflt)
    IN  IF MayRefresh(q) /\ out = {} THEN Refresh(q, out)
        ELSE IF out = {} THEN Unresolved(q, "unknown") ELSE Chosen(q, out)

\* Seeded fault: a list from memory counts as fresh.
ResolvedTrustingList(q) ==
    LET out == ResolveMany(q.list, q.sel, q.dflt)
    IN  IF out = {} THEN Unresolved(q, "unknown") ELSE Chosen(q, out)

Resolved(q) ==
    LET out == ResolveMany(q.list, q.sel, q.dflt)
    IN  IF MayRefresh(q) /\ (out = {} \/ Missing(q.list, q.dflt)) THEN Refresh(q, out)
        ELSE IF out = {} THEN Unresolved(q, "unknown") ELSE Chosen(q, out)

\* The list is known; the default is read when it is needed.
WithList(q, list, fresh) ==
    LET known == [q EXCEPT !.list = list, !.fresh = fresh]
    IN  IF NeedsDefault(q) THEN [known EXCEPT !.pc = "dflt"] ELSE Resolved(known)

\* The default is known.
WithDefault(q, d) ==
    LET known == [q EXCEPT !.dflt = d]
    IN  IF q.op \in {"detail", "calendars"} THEN [known EXCEPT !.pc = "done", !.end = "ok"]
        ELSE IF q.round = "first" THEN [known EXCEPT !.pc = "check"]
        ELSE Resolved(known)

ListFromMemory(r) ==
    /\ req[r].pc = "list" /\ mem # None
    /\ Set(r, WithList(req[r], mem, FALSE))
    /\ UNCHANGED <<server, cache, env>>

ListHit(r) ==
    /\ req[r].pc = "list" /\ mem = None /\ disk.list # None
    /\ served' = served \cup {"list"}
    /\ Set(r, [req[r] EXCEPT !.pc = "keepList", !.list = disk.list])
    /\ UNCHANGED <<server, mem, disk, file, env>>

\* fetchCalendars keeps the list; only then is the mark looked at.
KeepList(r) ==
    /\ req[r].pc = "keepList"
    /\ mem' = req[r].list
    /\ Set(r, WithList(req[r], req[r].list, "list" \notin served))
    /\ UNCHANGED <<server, disk, file, served, env>>

ListMiss(r) ==
    /\ req[r].pc = "list" /\ mem = None /\ disk.list = None
    /\ Set(r, [req[r] EXCEPT !.pc = "getList"])
    /\ UNCHANGED <<server, cache, env>>

ListAnswered(r) ==
    /\ req[r].pc = "getList"
    /\ Set(r, [req[r] EXCEPT !.pc = "storeList", !.list = names])
    /\ UNCHANGED <<server, cache, env>>

\* Service.Calendars also drops the cached default; a first fetch does not.
StoreList(r) ==
    LET q == req[r]
        refresh == q.round # "first"
    IN  /\ q.pc = "storeList"
        /\ mem' = q.list
        /\ \E u \in Updates(disk, file, {"list"}, [Dropped EXCEPT !.list = q.list]) :
              IF refresh
              THEN \E v \in Updates(u.disk, u.file, {"default"}, Dropped) :
                      Becoming(v, u.fails + v.fails)
              ELSE Becoming(u, u.fails)
        /\ served' = IF refresh THEN served \ {"default"} ELSE served
        /\ Set(r, IF refresh
                  THEN IF NeedsDefault(q) THEN [q EXCEPT !.pc = "getDflt"] ELSE Resolved(q)
                  ELSE WithList(q, q.list, "list" \notin served))
        /\ UNCHANGED server

\* Without a list there is no resolution, but a refresh made only to check
\* the default leaves the calendar already chosen.
ListFails(r) ==
    LET q == req[r]
    IN  /\ q.pc = "getList"
        /\ Set(r, IF q.cals # {} THEN Chosen([q EXCEPT !.lost = TRUE], q.cals)
                  ELSE Unresolved([q EXCEPT !.lost = TRUE], "error"))
        /\ UNCHANGED <<server, cache, env>>

DefaultHit(r) ==
    /\ req[r].pc = "dflt" /\ disk.default # None
    /\ served' = served \cup {"default"}
    /\ Set(r, WithDefault(req[r], disk.default))
    /\ UNCHANGED <<server, mem, disk, file, env>>

DefaultMiss(r) ==
    /\ req[r].pc = "dflt" /\ disk.default = None
    /\ Set(r, [req[r] EXCEPT !.pc = "getDflt"])
    /\ UNCHANGED <<server, cache, env>>

DefaultAnswered(r) ==
    /\ req[r].pc = "getDflt"
    /\ Set(r, [req[r] EXCEPT !.pc = "storeDflt", !.dflt = default])
    /\ UNCHANGED <<server, cache, env>>

StoreDefault(r) ==
    /\ req[r].pc = "storeDflt"
    /\ UpdateCache({"default"}, [Dropped EXCEPT !.default = req[r].dflt])
    /\ Set(r, WithDefault(req[r], req[r].dflt))
    /\ UNCHANGED <<server, mem, served>>

\* Seeded fault: a default that cannot be read is neither one nor none.
DefaultFailsUndecided(r) ==
    /\ req[r].pc = "getDflt"
    /\ Set(r, WithDefault([req[r] EXCEPT !.lost = TRUE], None))
    /\ UNCHANGED <<server, cache, env>>

\* A default that cannot be read counts as none.
DefaultFails(r) ==
    /\ req[r].pc = "getDflt"
    /\ Set(r, WithDefault([req[r] EXCEPT !.lost = TRUE], NoCal))
    /\ UNCHANGED <<server, cache, env>>

\* An unlisted default that came from the cache is read again.
CheckDefault(r) ==
    LET q == req[r]
    IN  /\ q.pc = "check"
        /\ IF Missing(q.list, q.dflt) /\ "default" \in served
           THEN /\ Set(r, [q EXCEPT !.pc = "getDflt", !.round = "default"])
                /\ Invalidate({"default"}) /\ UNCHANGED mem
           ELSE /\ Set(r, Resolved(q))
                /\ UNCHANGED <<cache, env>>
        /\ UNCHANGED server

-----------------------------------------------------------------------------
(* Events: withAccess for one calendar, ListEvents for several.  A calendar *)
(* that is gone, or an event that is not in it, is "not found".             *)

\* The first "not found" refreshes the metadata and resolves again.
NotFound(r) ==
    LET q == req[r]
    IN  /\ q.pc = "act"
        /\ q.op = "window" => q.cals \ Listed(names) # {}
        /\ IF q.again
           THEN Set(r, Ended(q, "notfound")) /\ UNCHANGED <<cache, env>>
           ELSE /\ Set(r, [Anew(q) EXCEPT !.again = TRUE,
                               !.failed = IF q.op = "access" THEN The(q.cals) ELSE NoCal])
                /\ InvalidateCalendarList
        /\ UNCHANGED server

\* A read came back degraded: with fresh keys, once more.
Degraded(r) ==
    LET q == req[r]
    IN  /\ q.pc = "act" /\ q.op = "access" /\ ~q.again
        /\ q.cals \subseteq Listed(names) \cap keyed
        /\ Set(r, [Anew(q) EXCEPT !.again = TRUE])
        /\ UNCHANGED <<server, cache, env>>

ActDone(r) ==
    /\ req[r].pc = "act" /\ req[r].cals \subseteq Listed(names) \cap keyed
    /\ Set(r, Ended(req[r], "ok"))
    /\ UNCHANGED <<server, cache, env>>

\* Any other error, a calendar without keys among them.
ActFails(r) ==
    /\ req[r].pc = "act"
    /\ Set(r, Ended(req[r], "error"))
    /\ UNCHANGED <<server, cache, env>>

-----------------------------------------------------------------------------
(* UpdateCalendar, CreateCalendar, DeleteCalendar.  A request that fails    *)
(* may have been carried out all the same: its reply is lost.               *)

\* The refreshed detail of the calendar, by its ID.
Detail(q, c) == [Anew(q) EXCEPT !.op = "detail", !.sel = {c}]

\* Where an update or create goes once its metadata is written.
AfterMetadata(q) ==
    IF "default" \in q.what THEN [q EXCEPT !.pc = "mkdef"] ELSE Detail(q, The(q.cals))

PutMember(r) ==
    LET q == req[r] c == The(q.cals)
    IN  /\ q.pc = "meta" /\ names[c] # Gone
        /\ Becomes([names EXCEPT ![c] = q.name], default)
        /\ \E end \in {"none", "error"} :
              Set(r, IF end = "none" THEN [q EXCEPT !.pc = "metaDone"] ELSE Ended(q, end))
        /\ UNCHANGED <<unborn, keyed, scope, cache, env>>

\* Seeded fault: the cached list stays.
MemberPutKeepsList(r) ==
    /\ req[r].pc = "metaDone"
    /\ Set(r, AfterMetadata(req[r]))
    /\ UNCHANGED <<server, cache, env>>

MemberPut(r) ==
    /\ req[r].pc = "metaDone"
    /\ InvalidateCalendarList
    /\ Set(r, AfterMetadata(req[r]))
    /\ UNCHANGED server

PutDefault(r) ==
    LET q == req[r] c == The(q.cals)
    IN  /\ q.pc = "mkdef" /\ names[c] # Gone
        /\ Becomes(names, c)
        /\ \E end \in {"none", "error"} :
              Set(r, IF end = "none" THEN [q EXCEPT !.pc = "defDone"] ELSE Ended(q, end))
        /\ UNCHANGED <<unborn, keyed, scope, cache, env>>

DefaultPut(r) ==
    /\ req[r].pc = "defDone"
    /\ Invalidate({"default"})
    /\ Set(r, Detail(req[r], The(req[r].cals)))
    /\ UNCHANGED <<server, mem>>

PutFails(r) ==
    /\ req[r].pc \in {"meta", "mkdef", "post", "unlock"}
    /\ Set(r, Ended(req[r], "error"))
    /\ UNCHANGED <<server, cache, env>>

\* calendar.Create: the calendar, then its keys.
PostCalendar(r) ==
    LET q == req[r] c == Min(unborn)
    IN  /\ q.pc = "post" /\ unborn # {}
        /\ unborn' = unborn \ {c}
        /\ Becomes([names EXCEPT ![c] = q.name], default)
        /\ \E end \in {"none", "error"} :
              Set(r, IF end = "none" THEN [q EXCEPT !.pc = "keys", !.cals = {c}]
                     ELSE Ended(q, end))
        /\ UNCHANGED <<keyed, scope, cache, env>>

PostKeys(r) ==
    LET q == req[r]
    IN  /\ q.pc = "keys" /\ q.cals \subseteq Listed(names)
        /\ keyed' = keyed \cup q.cals
        /\ \E end \in {"none", "keyless"} :
              Set(r, IF end = "none" THEN [q EXCEPT !.pc = "metaDone"] ELSE Ended(q, end))
        /\ UNCHANGED <<names, default, unborn, scope, cache, env>>

\* ErrKeylessCalendar: the calendar stays, and the error names it.
PostKeysFails(r) ==
    /\ req[r].pc = "keys"
    /\ Set(r, Ended(req[r], "keyless"))
    /\ UNCHANGED <<server, cache, env>>

\* auth.WithLockedScope around the DELETE of an owned calendar.
UnlockScope(r) ==
    /\ req[r].pc = "unlock"
    /\ scope' = TRUE
    /\ \/ Set(r, [req[r] EXCEPT !.pc = "delete"])
       \/ Set(r, Ended([req[r] EXCEPT !.lost = TRUE], "error"))
    /\ UNCHANGED <<names, default, unborn, keyed, cache, env>>

\* After the DELETE: the scope is given up again, whatever came of it.
AfterScope(q) == IF q.end = "ok" THEN [q EXCEPT !.pc = "deleted"] ELSE Ended(q, q.end)
AfterDelete(q, end) ==
    LET tried == [q EXCEPT !.end = end]
    IN  IF Kind[The(q.cals)] = "owned" THEN [tried EXCEPT !.pc = "relock"]
        ELSE AfterScope(tried)

\* The server may unset a default that is deleted, or leave it dangling.
DeleteCalendar(r) ==
    LET q == req[r] c == The(q.cals)
    IN  /\ q.pc = "delete" /\ names[c] # Gone
        /\ Kind[c] = "owned" => scope
        /\ \E d \in {default, IF default = c THEN NoCal ELSE default} :
              Becomes([names EXCEPT ![c] = Gone], d)
        /\ keyed' = keyed \ {c}
        /\ \E end \in {"ok", "error"} : Set(r, AfterDelete(q, end))
        /\ UNCHANGED <<unborn, scope, cache, env>>

\* Without the scope, or without the calendar, the server refuses.
DeleteRefused(r) ==
    LET q == req[r] c == The(q.cals)
    IN  /\ q.pc = "delete"
        /\ names[c] = Gone \/ (Kind[c] = "owned" /\ ~scope)
        /\ Set(r, AfterDelete(q, IF names[c] = Gone THEN "notfound" ELSE "refused"))
        /\ UNCHANGED <<server, cache, env>>

\* Seeded fault: after a failed DELETE the scope is kept.
RelockOnlyAfterSuccess(r) ==
    /\ req[r].pc = "relock"
    /\ scope' = (scope /\ req[r].end # "ok")
    /\ Set(r, AfterScope(req[r]))
    /\ UNCHANGED <<names, default, unborn, keyed, cache, env>>

\* A failure to give up the scope is ignored, unless the session is lost.
Relock(r) ==
    /\ req[r].pc = "relock"
    /\ \/ scope' = FALSE /\ Set(r, AfterScope(req[r]))
       \/ /\ UNCHANGED scope
          /\ \E end \in {req[r].end, "error"} :
                Set(r, AfterScope([req[r] EXCEPT !.lost = TRUE, !.end = end]))
    /\ UNCHANGED <<names, default, unborn, keyed, cache, env>>

Deleted(r) ==
    /\ req[r].pc = "deleted"
    /\ InvalidateCalendarList
    /\ Set(r, Ended(req[r], "ok"))
    /\ UNCHANGED server

-----------------------------------------------------------------------------
(* The Proton app changes calendars, other processes store, while requests  *)
(* run; what happened before them is in the initial states.                 *)

AppCreates(n) ==
    /\ unborn # {}
    /\ unborn' = unborn \ {Min(unborn)} /\ keyed' = keyed \cup {Min(unborn)}
    /\ Becomes([names EXCEPT ![Min(unborn)] = n], default)

AppRenames(c, n) ==
    /\ names[c] \notin {Gone, n}
    /\ Becomes([names EXCEPT ![c] = n], default)
    /\ UNCHANGED <<unborn, keyed>>

AppDeletes(c) ==
    /\ names[c] # Gone
    /\ \E d \in {default, IF default = c THEN NoCal ELSE default} :
          Becomes([names EXCEPT ![c] = Gone], d)
    /\ keyed' = keyed \ {c} /\ UNCHANGED unborn

AppMakesDefault(c) ==
    /\ names[c] # Gone /\ default # c
    /\ Becomes(names, c)
    /\ UNCHANGED <<unborn, keyed>>

Environment == env < MaxEnv /\ env' = env + 1 /\ \E r \in Request : Running(r)

App ==
    /\ Environment
    /\ \/ \E n \in AppName : AppCreates(n)
       \/ \E c \in Cal : AppDeletes(c) \/ AppMakesDefault(c)
       \/ \E c \in Cal, n \in AppName : AppRenames(c, n)
    /\ UNCHANGED <<scope, cache, req>>

\* Another process stores what it has just fetched.
OtherStores ==
    /\ Environment
    /\ file' = [list |-> names, default |-> default]
    /\ UNCHANGED <<server, mem, disk, served, req>>

\* This process updates another entry of the cache.
PutElsewhere ==
    /\ \E r \in Request : Running(r)
    /\ disk # file /\ disk' = file
    /\ UNCHANGED <<server, mem, file, served, req, env>>

-----------------------------------------------------------------------------

ResolutionNext(r) ==
    \/ ListFromMemory(r) \/ ListHit(r) \/ KeepList(r) \/ ListMiss(r)
    \/ ListAnswered(r) \/ StoreList(r) \/ ListFails(r)
    \/ DefaultHit(r) \/ DefaultMiss(r) \/ DefaultAnswered(r)
    \/ StoreDefault(r) \/ DefaultFails(r) \/ CheckDefault(r)

EventNext(r) == NotFound(r) \/ Degraded(r) \/ ActDone(r) \/ ActFails(r)

WriteNext(r) ==
    \/ PutMember(r) \/ MemberPut(r) \/ PutDefault(r) \/ DefaultPut(r) \/ PutFails(r)
    \/ PostCalendar(r) \/ PostKeys(r) \/ PostKeysFails(r)
    \/ UnlockScope(r) \/ DeleteCalendar(r) \/ DeleteRefused(r) \/ Relock(r) \/ Deleted(r)

Terminating == (\A r \in Request : req[r].pc = "done") /\ UNCHANGED vars

\* A turn of request r: it begins, is told "not found", or has written.
Stepping(r) == req'[r] # req[r]
Turn(r) ==
    /\ Stepping(r)
    /\ \/ req[r].pc = "idle"
       \/ req[r].pc = "act" /\ req'[r].again /\ ~req[r].again
       \/ req'[r].pc = "metaDone"

\* History: the lists and the defaults of the server since r's last turn (the
\* defaults only since r wrote the default), and whether something out of date
\* has since been stored by another request or come back from the file, or the
\* mark of what r was served was taken away before r looked at it.
Records(r) == Running(r)' \/ req'[r].end = "unknown" \/ req'[r].op = "detail"
Stored(r, pc, entry) == IF Stepping(r) /\ req[r].pc = pc THEN entry ELSE None
StaleStored(r) ==
    \/ ~Stepping(r) /\ mem' \notin {mem, None, names'}
    \/ disk'.list \notin {disk.list, None, names', Stored(r, "storeList", req[r].list)}
    \/ disk'.default \notin {disk.default, None, default',
                              Stored(r, "storeDflt", req[r].dflt)}

Watched(r, seen, now, anew) ==
    CASE anew -> {now}
      [] ~anew /\ Running(r)' -> seen \cup {now}
      [] OTHER -> seen

Observed(r) ==
    [names |-> Watched(r, since[r].names, names', Turn(r)),
     default |-> Watched(r, since[r].default, default',
                         Turn(r) \/ (Stepping(r) /\ req'[r].pc = "defDone"))]

Overtakes(r) ==
    /\ Running(r)
    /\ \/ StaleStored(r)
       \/ /\ ~Stepping(r) /\ req[r].pc \in {"keepList", "check"}
          /\ ~(served \subseteq served')

History ==
    /\ since' = [r \in Request |-> IF Records(r) THEN Observed(r) ELSE Nothing]
    /\ overtaken' = [r \in Request |-> Records(r) /\ (Overtakes(r) \/ (overtaken[r] /\ ~Turn(r)))]

Next ==
    \/ /\ \/ \E r \in Request :
                Begin(r) \/ ResolutionNext(r) \/ EventNext(r) \/ WriteNext(r)
          \/ App \/ OtherStores \/ PutElsewhere
       /\ History
    \/ Terminating

Spec == Init /\ [][Next]_vars

-----------------------------------------------------------------------------
(* Properties.  A request that was not overtaken by what another one stored *)
(* answers for the calendars as they were while it ran.                     *)

\* A selector reported as unknown named no calendar, or no single one, at some
\* moment since the request began: the list it failed against was not an old
\* one (service.go:189-206).
UnknownIsReal ==
    \A r \in Request :
        req[r].end = "unknown" /\ ~overtaken[r] =>
            \E list \in since[r].names, d \in since[r].default :
               ResolveMany(list, req[r].sel, d) = {}

\* A request for the default goes to another calendar only when the account's
\* default really was unlisted while it ran, or could not be checked
\* (service.go:180-206): a default the app has just made is not passed over.
DefaultIsPassedOverForCause ==
    \A r \in Request :
        LET q == req[r]
        IN  q.pc = "act" /\ q.sel = {} /\ q.dflt \notin q.cals \cup {NoCal}
            /\ ~overtaken[r] /\ ~q.lost =>
            /\ q.dflt \in since[r].default
            /\ \E list \in since[r].names : q.dflt \notin Listed(list)

\* What a resolution fails with or falls back to is not an artefact of old
\* metadata: it was so at the server while the request ran.
ResolutionIsCurrent == UnknownIsReal /\ DefaultIsPassedOverForCause

\* After "not found" an operation is replayed only on another calendar, and on
\* one its selector stood for since (service.go:420-450): never again on the
\* calendar that refused it, nor on one named by the metadata that misled it.
ReplayIsElsewhere ==
    \A r \in Request :
        LET q == req[r]
        IN  q.pc = "act" /\ q.failed # NoCal /\ ~overtaken[r] /\ ~q.lost =>
            /\ q.failed \notin q.cals
            /\ \E list \in since[r].names, d \in since[r].default :
                  ResolveMany(list, q.sel, d) = q.cals

\* What an update or a create returns is as it was at some moment after it was
\* written: the name, if the request wrote the metadata, after that write, and
\* whether the calendar is the default after the request's last write
\* (calendar_ops.go:104-128).  A name is not read again after the default was
\* set: the app may have changed it between the two writes.
DetailIsFresh ==
    \A r \in Request :
        LET q == req[r] c == The(q.cals)
        IN  q.op = "detail" /\ q.end = "ok" /\ ~overtaken[r] /\ ~q.lost =>
            /\ \E d \in since[r].default : (d = c) = (q.dflt = c)
            /\ "meta" \in q.what => \E list \in since[r].names : list[c] = q.list[c]

\* Between deletions the session does not hold the locked scope, unless giving
\* it up failed (auth.go:206-216).
ScopeIsLeft ==
    scope => \E r \in Request : req[r].pc \in {"delete", "relock"} \/ req[r].lost

\* A create run after one that left a calendar of the same name without keys
\* makes no further calendar: it completes the one there is, as the error
\* says (create.go:57-58, 82).
RerunCompletes ==
    [][\A r, k \in Request :
          req[r].pc = "post" /\ unborn' # unborn /\ req[k].end = "keyless"
          => \A c \in req[k].cals : names[c] # req[r].name]_vars
=============================================================================
