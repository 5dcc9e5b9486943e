------------------------------- MODULE Caches -------------------------------
(***************************************************************************)
(* One TTL cache of a replica, internal/cache/cache.go, and the code that  *)
(* loads through it: loadConfig (approver.go) and, with memberships for    *)
(* config files, the loop of resolveAuthorTeams.  Approver lets an entry   *)
(* vanish at any moment; here time passes, and it is asked how old an      *)
(* answer may be.                                                          *)
(*                                                                         *)
(* Each loader is the goroutine of a delivery.  The source of a key is a   *)
(* sequence of versions, the last one current; a version that does not     *)
(* load (a prove.yml that does not parse) is not ok.                       *)
(***************************************************************************)
EXTENDS Integers, Sequences

CONSTANTS
  Keys,        \* owner/name@branch, or org/team#user
  Loaders,     \* goroutines that ask
  TTL,         \* 60 s for configs, 10 min for teams
  Capacity,    \* 1024 configs, 4096 memberships
  CallTime,    \* from a miss to the Set: at most the delivery's 30 s
  MaxTime,     \* bound on the clock
  MaxVersions  \* bound on the changes of a source

ASSUME CachesType ==
  /\ {TTL, Capacity, CallTime, MaxTime, MaxVersions} \subseteq Nat
  /\ Capacity > 0

VARIABLES
  now,    \* the clock
  source, \* source[k]: the versions of k so far: since when, and loads?
  entry,  \* entry[k]: {} or {the cached item of k}, expired or not
  lru,    \* the keys of the items, the one used last first
  req     \* req[l]: what loader l does, or its last answer

vars == <<now, source, entry, lru, req>>

Version == [at : Nat, ok : BOOLEAN]
Item    == [ver : Nat, exp : Nat]

(* An answer is of version ver, given at time at, to a question asked at   *)
(* time since: a value, or the error of a version that does not load.      *)
Status  == {"idle", "load", "reply", "value", "error", "failed"}
Request == [st : Status, key : Keys, since : Nat, ver : Nat, at : Nat]
Waiting == {"load", "reply"}

Init ==
  /\ now = 0
  /\ source \in [Keys -> {<<[at |-> 0, ok |-> b]>> : b \in BOOLEAN}]
  /\ entry = [k \in Keys |-> {}]
  /\ lru = << >>
  /\ \E k \in Keys : req = [l \in Loaders |->
       [st |-> "idle", key |-> k, since |-> 0, ver |-> 0, at |-> 0]]

-----------------------------------------------------------------------------
(* jellydator/ttlcache, as NewTTL sets it up: a hit moves the item to the  *)
(* front and leaves its expiry alone; a Set at capacity evicts the item at *)
(* the back; an expired item stays until it is replaced or evicted.        *)
Front(k, keys) ==
  IF \E i \in DOMAIN keys : keys[i] = k
  THEN [i \in DOMAIN keys |-> IF i = 1 THEN k
                             ELSE IF \E j \in 1..i - 1 : keys[j] = k
                             THEN keys[i] ELSE keys[i - 1]]
  ELSE <<k>> \o keys

SlidingTTL(k) == \* Mutant: without WithDisableTouchOnHit
  /\ lru' = Front(k, lru)
  /\ entry' = [entry EXCEPT ![k] = {[e EXCEPT !.exp = now + TTL] : e \in @}]
Hit(k) == lru' = Front(k, lru) /\ UNCHANGED entry

Get(k) == {e \in entry[k] : now <= e.exp}

Answer(k, v) == IF source[k][v].ok THEN "value" ELSE "error"

OverFull == Len(lru) > Capacity \* Mutant: evict one item late
Full     == Len(lru) >= Capacity

Set(k, v) ==
  LET evict == entry[k] = {} /\ Full
      kept  == IF evict THEN SubSeq(lru, 1, Len(lru) - 1) ELSE lru
  IN /\ lru' = Front(k, kept)
     /\ entry' = [x \in Keys |->
          IF x = k THEN {[ver |-> v, exp |-> now + TTL]}
          ELSE IF evict /\ x = lru[Len(lru)] THEN {} ELSE entry[x]]

-----------------------------------------------------------------------------
(* Somebody changes a source.                                              *)
Change(k) ==
  /\ Len(source[k]) < MaxVersions
  /\ \E ok \in BOOLEAN :
       source' = [source EXCEPT ![k] = Append(@, [at |-> now, ok |-> ok])]
  /\ UNCHANGED <<now, entry, lru, req>>

(* loadConfig's Get.  Without an item the load begins.                     *)
Ask(l, k) ==
  /\ req[l].st \notin Waiting
  /\ \/ \E e \in Get(k) :
          /\ req' = [req EXCEPT ![l] = [st |-> Answer(k, e.ver),
                       key |-> k, since |-> now, ver |-> e.ver, at |-> now]]
          /\ Hit(k)
     \/ /\ Get(k) = {}
        /\ req' = [req EXCEPT ![l] = [st |-> "load", key |-> k,
                     since |-> now, ver |-> 0, at |-> now]]
        /\ UNCHANGED <<entry, lru>>
  /\ UNCHANGED <<now, source>>

(* GitHub reads the file for the request of l.                             *)
Fetch(l) ==
  /\ req[l].st = "load"
  /\ req' = [req EXCEPT ![l].st = "reply", ![l].ver = Len(source[req[l].key])]
  /\ UNCHANGED <<now, source, entry, lru>>

(* The reply arrives and is parsed.  Only what loads is Set.               *)
StoreErrors(l) == \* Mutant: an error is cached like a value
  LET r == req[l] IN
    /\ r.st = "reply"
    /\ req' = [req EXCEPT ![l].st = Answer(r.key, r.ver), ![l].at = now]
    /\ Set(r.key, r.ver)
    /\ UNCHANGED <<now, source>>

Store(l) ==
  LET r == req[l] IN
    /\ r.st = "reply"
    /\ req' = [req EXCEPT ![l].st = Answer(r.key, r.ver), ![l].at = now]
    /\ \/ Answer(r.key, r.ver) = "value" /\ Set(r.key, r.ver)
       \/ Answer(r.key, r.ver) = "error" /\ UNCHANGED <<entry, lru>>
    /\ UNCHANGED <<now, source>>

(* The call fails, or its context is done.                                 *)
Fail(l) ==
  /\ req[l].st \in Waiting
  /\ req' = [req EXCEPT ![l].st = "failed"]
  /\ UNCHANGED <<now, source, entry, lru>>

(* No call outlives its context, and a goroutine stores what it was sent   *)
(* without delay.                                                          *)
Tick ==
  /\ now < MaxTime
  /\ \A l \in Loaders : req[l].st \in Waiting => now < req[l].since + CallTime
  /\ now' = now + 1
  /\ UNCHANGED <<source, entry, lru, req>>

Next ==
  \/ Tick
  \/ \E k \in Keys : Change(k)
  \/ \E l \in Loaders : \/ \E k \in Keys : Ask(l, k)
                        \/ Fetch(l) \/ Store(l) \/ Fail(l)

Spec == Init /\ [][Next]_vars

-----------------------------------------------------------------------------
(* Of the versions vs, number v was current at some time from t on.        *)
CurrentSince(vs, v, t) == v < Len(vs) => vs[v + 1].at >= t

TypeOK ==
  /\ now \in Nat
  /\ source \in [Keys -> Seq(Version)]
  /\ entry \in [Keys -> SUBSET Item]
  /\ req \in [Loaders -> Request]

(* The cache holds at most Capacity items, one for each key of its list,   *)
(* however its users interleave.                                           *)
Bounded ==
  /\ lru \in Seq(Keys) /\ Len(lru) <= Capacity
  /\ \A i, j \in DOMAIN lru : lru[i] = lru[j] => i = j
  /\ \A k \in Keys : entry[k] # {} <=> \E i \in DOMAIN lru : lru[i] = k

(* A config (or membership) prove decides with was the current one no      *)
(* longer ago than the TTL and one call, also when a slow load stores an   *)
(* old version over a newer one, and however often the entry is hit        *)
(* (approver.go:277-292; cache.go:22-31).                                  *)
FreshEnough ==
  \A l \in Loaders : LET r == req[l] IN
    r.st = "value" =>
      /\ r.ver \in DOMAIN source[r.key] /\ source[r.key][r.ver].ok
      /\ CurrentSince(source[r.key], r.ver, r.at - (TTL + CallTime))

(* An error is never remembered: a config that does not load is reported   *)
(* only when it was in place while prove asked, so that a fixed file works *)
(* at once (approver.go:277-278).                                          *)
ErrorsAreNotSticky ==
  \A l \in Loaders : LET r == req[l] IN
    r.st = "error" =>
      /\ ~source[r.key][r.ver].ok
      /\ CurrentSince(source[r.key], r.ver, r.since)

-----------------------------------------------------------------------------
(* Why FreshEnough and ErrorsAreNotSticky hold, as an inductive invariant. *)

(* Versions are there from the start and begin in the past.                *)
Sources ==
  \A k \in Keys :
    /\ Len(source[k]) > 0
    /\ \A v \in DOMAIN source[k] : source[k][v].at <= now

(* An item was read at most one call before it was set.                    *)
Items ==
  \A k \in Keys : \A e \in entry[k] :
    /\ e.exp <= now + TTL
    /\ e.ver \in DOMAIN source[k] /\ source[k][e.ver].ok
    /\ CurrentSince(source[k], e.ver, e.exp - (TTL + CallTime))

(* What a loader was sent was current while it waited.                     *)
Requests ==
  \A l \in Loaders : LET r == req[l] IN
    /\ r.since <= now /\ r.at <= now
    /\ r.st \in Waiting => now <= r.since + CallTime
    /\ r.st \in {"reply", "error"} =>
         /\ r.ver \in DOMAIN source[r.key]
         /\ CurrentSince(source[r.key], r.ver, r.since)

CachesInv ==
  TypeOK /\ Sources /\ Items /\ Requests /\ FreshEnough /\ ErrorsAreNotSticky
=============================================================================
