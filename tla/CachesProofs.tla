---------------------------- MODULE CachesProofs ----------------------------
(***************************************************************************)
(* How old a cached answer may be, for any TTL, capacity, call time and    *)
(* number of goroutines and keys: CachesInv is inductive and holds the two *)
(* promises of Caches.                                                     *)
(***************************************************************************)
EXTENDS Caches, TLAPS

(* A Set adds one item, of its key, and may take another away.             *)
LEMMA SetAdds ==
  ASSUME TypeOK, NEW k \in Keys, NEW v \in Nat, Set(k, v)
  PROVE  /\ entry' \in [Keys -> SUBSET Item]
         /\ \A x \in Keys : \A e \in entry'[x] :
              e \in entry[x] \/ (x = k /\ e = [ver |-> v, exp |-> now + TTL])
<1>1. [ver |-> v, exp |-> now + TTL] \in Item
  BY CachesType DEF TypeOK, Item
<1>2. \A x \in Keys : entry'[x] =
        IF x = k THEN {[ver |-> v, exp |-> now + TTL]}
        ELSE IF (entry[k] = {} /\ Full) /\ x = lru[Len(lru)] THEN {}
        ELSE entry[x]
  BY Zenon DEF Set
<1>3. entry' = [x \in Keys |-> entry'[x]]
  BY Zenon DEF Set
<1>4. \A x \in Keys : entry'[x] \in SUBSET Item
  BY <1>1, <1>2 DEF TypeOK
<1>5. entry' \in [Keys -> SUBSET Item]
  BY <1>3, <1>4, Zenon
<1>6. QED
  BY <1>2, <1>5

(* A new version, last of all, leaves the others as current as they were.  *)
LEMMA AppendKeeps ==
  ASSUME NEW vs \in Seq(Version), NEW ok \in BOOLEAN, NEW now0 \in Nat,
         NEW v \in DOMAIN vs, NEW t \in Int, t <= now0,
         CurrentSince(vs, v, t),
         NEW ws, ws = Append(vs, [at |-> now0, ok |-> ok])
  PROVE  v \in DOMAIN ws /\ ws[v] = vs[v] /\ CurrentSince(ws, v, t)
<1>1. [at |-> now0, ok |-> ok] \in Version
  BY DEF Version
<1>2. Len(vs) \in Nat /\ v \in 1..Len(vs)
  OBVIOUS
<1>3. /\ Len(ws) = Len(vs) + 1 /\ DOMAIN ws = 1..Len(vs) + 1
      /\ \A i \in 1..Len(vs) : ws[i] = vs[i]
      /\ ws[Len(vs) + 1] = [at |-> now0, ok |-> ok]
  BY <1>1
<1>4. CASE v = Len(vs)
  BY <1>2, <1>3, <1>4 DEF CurrentSince
<1>5. CASE v < Len(vs)
  BY <1>2, <1>3, <1>5 DEF CurrentSince
<1>6. QED
  BY <1>2, <1>4, <1>5

(* The same, said of the step: every version stays in its place.           *)
LEMMA ChangeStays ==
  ASSUME TypeOK, NEW k \in Keys, Change(k)
  PROVE  /\ source' \in [Keys -> Seq(Version)]
         /\ now' = now /\ entry' = entry /\ req' = req
         /\ \A x \in Keys, v \in Nat, t \in Int :
              /\ v \in DOMAIN source[x] /\ t <= now
              /\ CurrentSince(source[x], v, t)
              => /\ v \in DOMAIN source'[x] /\ source'[x][v] = source[x][v]
                 /\ CurrentSince(source'[x], v, t)
<1>1. PICK ok \in BOOLEAN :
        source' = [source EXCEPT ![k] = Append(@, [at |-> now, ok |-> ok])]
  BY DEF Change
<1>2. [at |-> now, ok |-> ok] \in Version
  BY DEF TypeOK, Version
<1>3. source' \in [Keys -> Seq(Version)]
  BY <1>1, <1>2 DEF TypeOK
<1>4. /\ source'[k] = Append(source[k], [at |-> now, ok |-> ok])
      /\ \A x \in Keys : x # k => source'[x] = source[x]
  BY <1>1 DEF TypeOK
<1>5. source[k] \in Seq(Version) /\ now \in Nat
  BY DEF TypeOK
<1>6. ASSUME NEW v \in Nat, NEW t \in Int, v \in DOMAIN source[k], t <= now,
             CurrentSince(source[k], v, t)
      PROVE  /\ v \in DOMAIN source'[k] /\ source'[k][v] = source[k][v]
             /\ CurrentSince(source'[k], v, t)
  BY <1>4, <1>5, <1>6, AppendKeeps
<1>7. QED
  BY <1>3, <1>4, <1>6 DEF Change

-----------------------------------------------------------------------------
LEMMA InvInit == Init => CachesInv
<1>1. SUFFICES ASSUME Init PROVE CachesInv
  OBVIOUS
<1>2. PICK k0 \in Keys : req = [l \in Loaders |->
        [st |-> "idle", key |-> k0, since |-> 0, ver |-> 0, at |-> 0]]
  BY <1>1 DEF Init
<1>3. ASSUME NEW k \in Keys
      PROVE  /\ source[k] \in Seq(Version) /\ Len(source[k]) = 1
             /\ source[k][1].at = 0
  <2>1. PICK b \in BOOLEAN : source[k] = <<[at |-> 0, ok |-> b]>>
    BY <1>1 DEF Init
  <2>2. [at |-> 0, ok |-> b] \in Version
    BY DEF Version
  <2>3. QED
    BY <2>1, <2>2
<1>4. TypeOK
  <2>1. source \in [Keys -> Seq(Version)]
    <3>1. source = [k \in Keys |-> source[k]]
      BY <1>1 DEF Init
    <3>2. QED
      BY <3>1, <1>3
  <2>2. req \in [Loaders -> Request]
    BY <1>2 DEF Request, Status
  <2>3. QED
    BY <1>1, <2>1, <2>2 DEF Init, TypeOK
<1>5. Sources
  <2>1. ASSUME NEW k \in Keys, NEW v \in DOMAIN source[k]
        PROVE  Len(source[k]) > 0 /\ source[k][v].at <= now
    <3>1. v = 1 /\ Len(source[k]) > 0
      BY <1>3
    <3>2. source[k][v].at = 0 /\ now = 0
      BY <1>1, <1>3, <3>1 DEF Init
    <3>3. QED
      BY <3>1, <3>2
  <2>2. ASSUME NEW k \in Keys PROVE Len(source[k]) > 0
    <3>1. Len(source[k]) = 1
      BY <1>3
    <3>2. QED
      BY <3>1
  <2>3. QED
    BY <2>1, <2>2 DEF Sources
<1>6. Items
  BY <1>1 DEF Init, Items
<1>7. Requests /\ FreshEnough /\ ErrorsAreNotSticky
  <2>1. \A l \in Loaders : /\ req[l].st = "idle"
                           /\ req[l].since = 0 /\ req[l].at = 0
    BY <1>2
  <2>2. now = 0
    BY <1>1 DEF Init
  <2>3. QED
    BY <2>1, <2>2 DEF Requests, Waiting, FreshEnough, ErrorsAreNotSticky
<1>8. QED
  BY <1>4, <1>5, <1>6, <1>7 DEF CachesInv

(* What the invariant says of one loader.                                  *)
LEMMA OneRequest ==
  ASSUME CachesInv, NEW l \in Loaders
  PROVE  /\ req[l] \in Request
         /\ now \in Nat /\ TTL \in Nat /\ CallTime \in Nat
         /\ req[l].since <= now /\ req[l].at <= now
  BY CachesType DEF CachesInv, TypeOK, Requests

LEMMA ChangeKeeps ==
  ASSUME CachesInv, NEW k \in Keys, Change(k)
  PROVE  CachesInv'
<1>0. TypeOK /\ Sources /\ Items /\ Requests /\ FreshEnough /\ ErrorsAreNotSticky
  BY DEF CachesInv
<1>1. /\ source' \in [Keys -> Seq(Version)]
      /\ now' = now /\ entry' = entry /\ req' = req
      /\ \A x \in Keys, v \in Nat, t \in Int :
           /\ v \in DOMAIN source[x] /\ t <= now
           /\ CurrentSince(source[x], v, t)
           => /\ v \in DOMAIN source'[x] /\ source'[x][v] = source[x][v]
              /\ CurrentSince(source'[x], v, t)
  BY <1>0, ChangeStays
<1>2. TypeOK'
  BY <1>0, <1>1 DEF TypeOK
<1>3. Sources'
  <2>1. PICK ok \in BOOLEAN :
          source' = [source EXCEPT ![k] = Append(@, [at |-> now, ok |-> ok])]
    BY DEF Change
  <2>2. source[k] \in Seq(Version) /\ now \in Nat /\ source'[k] \in Seq(Version)
    BY <1>0, <1>1 DEF TypeOK
  <2>3. source'[k] = Append(source[k], [at |-> now, ok |-> ok])
    BY <1>0, <2>1 DEF TypeOK
  <2>4. [at |-> now, ok |-> ok] \in Version
    BY <2>2 DEF Version
  <2>5. \A v \in DOMAIN source[k] : source[k][v].at <= now
    BY <1>0 DEF Sources
  <2>6. Len(source'[k]) > 0 /\ \A v \in DOMAIN source'[k] : source'[k][v].at <= now
    BY <2>2, <2>3, <2>4, <2>5
  <2>7. \A x \in Keys : x # k => source'[x] = source[x]
    BY <1>0, <2>1 DEF TypeOK
  <2>8. QED
    BY <1>0, <1>1, <2>6, <2>7 DEF Sources
<1>4. Items'
  <2>1. ASSUME NEW x \in Keys, NEW e \in entry[x]
        PROVE  /\ e.exp <= now + TTL
               /\ e.ver \in DOMAIN source'[x] /\ source'[x][e.ver].ok
               /\ CurrentSince(source'[x], e.ver, e.exp - (TTL + CallTime))
    <3>1. e.ver \in Nat /\ e.exp \in Nat /\ now \in Nat
      BY <1>0 DEF TypeOK, Item
    <3>2. /\ e.exp <= now + TTL
          /\ e.ver \in DOMAIN source[x] /\ source[x][e.ver].ok
          /\ CurrentSince(source[x], e.ver, e.exp - (TTL + CallTime))
      BY <1>0 DEF Items
    <3>3. e.exp - (TTL + CallTime) \in Int /\ e.exp - (TTL + CallTime) <= now
      BY <3>1, <3>2, CachesType
    <3>4. QED
      BY <1>1, <3>1, <3>2, <3>3
  <2>2. QED
    BY <1>1, <2>1 DEF Items
<1>5. ASSUME NEW l \in Loaders, NEW t \in Int, t <= now,
             req[l].ver \in DOMAIN source[req[l].key],
             CurrentSince(source[req[l].key], req[l].ver, t)
      PROVE  /\ req[l].ver \in DOMAIN source'[req[l].key]
             /\ source'[req[l].key][req[l].ver] = source[req[l].key][req[l].ver]
             /\ CurrentSince(source'[req[l].key], req[l].ver, t)
  BY <1>1, <1>5, OneRequest DEF Request
<1>6. Requests'
  <2>1. ASSUME NEW l \in Loaders, req[l].st \in {"reply", "error"}
        PROVE  /\ req[l].ver \in DOMAIN source'[req[l].key]
               /\ CurrentSince(source'[req[l].key], req[l].ver, req[l].since)
    <3>1. /\ req[l].ver \in DOMAIN source[req[l].key]
          /\ CurrentSince(source[req[l].key], req[l].ver, req[l].since)
      BY <1>0, <2>1 DEF Requests
    <3>2. QED
      BY <1>5, <3>1, OneRequest DEF Request
  <2>2. QED
    BY <1>0, <1>1, <2>1 DEF Requests
<1>7. FreshEnough'
  <2>1. ASSUME NEW l \in Loaders, req[l].st = "value"
        PROVE  /\ req[l].ver \in DOMAIN source'[req[l].key]
               /\ source'[req[l].key][req[l].ver].ok
               /\ CurrentSince(source'[req[l].key], req[l].ver,
                               req[l].at - (TTL + CallTime))
    <3>1. /\ req[l].ver \in DOMAIN source[req[l].key]
          /\ source[req[l].key][req[l].ver].ok
          /\ CurrentSince(source[req[l].key], req[l].ver,
                          req[l].at - (TTL + CallTime))
      BY <1>0, <2>1 DEF FreshEnough
    <3>2. /\ req[l].at - (TTL + CallTime) \in Int
          /\ req[l].at - (TTL + CallTime) <= now
      BY OneRequest DEF Request
    <3>3. QED
      BY <1>5, <3>1, <3>2
  <2>2. QED
    BY <1>1, <2>1 DEF FreshEnough
<1>8. ErrorsAreNotSticky'
  <2>1. ASSUME NEW l \in Loaders, req[l].st = "error"
        PROVE  /\ ~source'[req[l].key][req[l].ver].ok
               /\ CurrentSince(source'[req[l].key], req[l].ver, req[l].since)
    <3>1. /\ req[l].ver \in DOMAIN source[req[l].key]
          /\ ~source[req[l].key][req[l].ver].ok
          /\ CurrentSince(source[req[l].key], req[l].ver, req[l].since)
      BY <1>0, <2>1 DEF ErrorsAreNotSticky, Requests
    <3>2. QED
      BY <1>5, <3>1, OneRequest DEF Request
  <2>2. QED
    BY <1>1, <2>1 DEF ErrorsAreNotSticky
<1>9. QED
  BY <1>2, <1>3, <1>4, <1>6, <1>7, <1>8 DEF CachesInv

(* Every other step leaves the sources alone.  What it does to loader l is *)
(* right when the new request is; the items are right when each of them    *)
(* was there or was just read.                                             *)
LEMMA AskKeeps ==
  ASSUME CachesInv, NEW l \in Loaders, NEW k \in Keys, Ask(l, k)
  PROVE  CachesInv'
<1>0. TypeOK /\ Sources /\ Items /\ Requests /\ FreshEnough /\ ErrorsAreNotSticky
  BY DEF CachesInv
<1>1. now' = now /\ source' = source /\ entry' = entry
  BY DEF Ask, Hit
<1>2. now \in Nat /\ TTL \in Nat /\ CallTime \in Nat
  BY <1>0, CachesType DEF TypeOK
<1>3. CASE \E e \in Get(k) :
             req' = [req EXCEPT ![l] = [st |-> Answer(k, e.ver),
                       key |-> k, since |-> now, ver |-> e.ver, at |-> now]]
  <2>1. PICK e \in Get(k) :
             req' = [req EXCEPT ![l] = [st |-> Answer(k, e.ver),
                       key |-> k, since |-> now, ver |-> e.ver, at |-> now]]
    BY <1>3
  <2>2. e \in entry[k] /\ now <= e.exp /\ e.ver \in Nat /\ e.exp \in Nat
    BY <1>0 DEF Get, TypeOK, Item
  <2>3. /\ e.ver \in DOMAIN source[k] /\ source[k][e.ver].ok
        /\ CurrentSince(source[k], e.ver, e.exp - (TTL + CallTime))
    BY <1>0, <2>2 DEF Items
  <2>4. Answer(k, e.ver) = "value"
    BY <2>3 DEF Answer
  <2>5. CurrentSince(source[k], e.ver, now - (TTL + CallTime))
    <3>1. CASE e.ver < Len(source[k])
      <4>1. source[k] \in Seq(Version) /\ e.ver + 1 \in 1..Len(source[k])
        BY <1>0, <2>2, <3>1 DEF TypeOK
      <4>2. source[k][e.ver + 1].at \in Nat
        <5>1. source[k][e.ver + 1] \in Version
          BY <4>1
        <5>2. QED
          BY <5>1 DEF Version
      <4>3. source[k][e.ver + 1].at >= e.exp - (TTL + CallTime)
        BY <2>3, <3>1 DEF CurrentSince
      <4>4. QED
        BY <1>2, <2>2, <4>2, <4>3 DEF CurrentSince
    <3>2. CASE ~(e.ver < Len(source[k]))
      BY <3>2 DEF CurrentSince
    <3>3. QED
      BY <3>1, <3>2
  <2>6. req' = [req EXCEPT ![l] = [st |-> "value", key |-> k,
                  since |-> now, ver |-> e.ver, at |-> now]]
    BY <2>1, <2>4
  <2>7. TypeOK'
    BY <1>0, <1>1, <1>2, <2>2, <2>6 DEF TypeOK, Request, Status
  <2>8. /\ req'[l] = [st |-> "value", key |-> k,
                      since |-> now, ver |-> e.ver, at |-> now]
        /\ \A x \in Loaders : x # l => req'[x] = req[x]
    BY <1>0, <2>6 DEF TypeOK
  <2>9. Requests'
    BY <1>0, <1>1, <1>2, <2>8 DEF Requests, Waiting
  <2>12. FreshEnough'
    BY <1>0, <1>1, <2>3, <2>5, <2>8 DEF FreshEnough
  <2>13. ErrorsAreNotSticky'
    BY <1>0, <1>1, <2>8 DEF ErrorsAreNotSticky
  <2>10. Sources' /\ Items'
    BY <1>0, <1>1 DEF Sources, Items
  <2>11. QED
    BY <2>7, <2>9, <2>10, <2>12, <2>13 DEF CachesInv
<1>4. CASE req' = [req EXCEPT ![l] = [st |-> "load", key |-> k,
                     since |-> now, ver |-> 0, at |-> now]]
  <2>1. TypeOK'
    BY <1>0, <1>1, <1>2, <1>4 DEF TypeOK, Request, Status
  <2>2. /\ req'[l] = [st |-> "load", key |-> k,
                      since |-> now, ver |-> 0, at |-> now]
        /\ \A x \in Loaders : x # l => req'[x] = req[x]
    BY <1>0, <1>4 DEF TypeOK
  <2>3. Requests' /\ FreshEnough' /\ ErrorsAreNotSticky'
    BY <1>0, <1>1, <1>2, <2>2
       DEF Requests, FreshEnough, ErrorsAreNotSticky, Waiting
  <2>4. Sources' /\ Items'
    BY <1>0, <1>1 DEF Sources, Items
  <2>5. QED
    BY <2>1, <2>3, <2>4 DEF CachesInv
<1>5. QED
  BY <1>3, <1>4 DEF Ask

(* What GitHub reads now is current now.                                   *)
LEMMA FetchKeeps ==
  ASSUME CachesInv, NEW l \in Loaders, Fetch(l)
  PROVE  CachesInv'
<1>0. TypeOK /\ Sources /\ Items /\ Requests /\ FreshEnough /\ ErrorsAreNotSticky
  BY DEF CachesInv
<1>1. now' = now /\ source' = source /\ entry' = entry
  BY DEF Fetch
<1>2. req[l] \in Request /\ req[l].st = "load"
  BY OneRequest DEF Fetch
<1>3. PICK k \in Keys : k = req[l].key
  BY <1>2 DEF Request
<1>4. /\ source[k] \in Seq(Version) /\ Len(source[k]) \in DOMAIN source[k]
      /\ Len(source[k]) \in Nat
  BY <1>0 DEF TypeOK, Sources
<1>5. /\ req' = [req EXCEPT ![l].st = "reply", ![l].ver = Len(source[k])]
      /\ \A x \in Loaders : x # l => req'[x] = req[x]
  BY <1>0, <1>3 DEF Fetch, TypeOK
<1>6. TypeOK'
  BY <1>0, <1>1, <1>2, <1>4, <1>5 DEF TypeOK, Request, Status
<1>7. /\ req'[l].st = "reply" /\ req'[l].ver = Len(source[k])
      /\ req'[l].key = k /\ req'[l].since = req[l].since /\ req'[l].at = req[l].at
  BY <1>0, <1>2, <1>3, <1>5 DEF Request, TypeOK
<1>8. Requests'
  <2>1. CurrentSince(source[k], Len(source[k]), req[l].since)
    BY <1>4 DEF CurrentSince
  <2>2. QED
    BY <1>0, <1>1, <1>2, <1>3, <1>4, <1>5, <1>7, <2>1 DEF Requests, Waiting
<1>9. FreshEnough' /\ ErrorsAreNotSticky'
  BY <1>0, <1>1, <1>5, <1>7 DEF FreshEnough, ErrorsAreNotSticky
<1>10. Sources' /\ Items'
  BY <1>0, <1>1 DEF Sources, Items
<1>11. QED
  BY <1>6, <1>8, <1>9, <1>10 DEF CachesInv

LEMMA FailKeeps ==
  ASSUME CachesInv, NEW l \in Loaders, Fail(l)
  PROVE  CachesInv'
<1>0. TypeOK /\ Sources /\ Items /\ Requests /\ FreshEnough /\ ErrorsAreNotSticky
  BY DEF CachesInv
<1>1. now' = now /\ source' = source /\ entry' = entry
  BY DEF Fail
<1>2. /\ req'[l] = [req[l] EXCEPT !.st = "failed"]
      /\ \A x \in Loaders : x # l => req'[x] = req[x]
  BY <1>0 DEF Fail, TypeOK
<1>3. TypeOK'
  BY <1>0, <1>1, OneRequest DEF Fail, TypeOK, Request, Status
<1>4. req'[l].st = "failed" /\ req'[l].since = req[l].since /\ req'[l].at = req[l].at
  BY <1>2, OneRequest DEF Request
<1>5. Requests' /\ FreshEnough' /\ ErrorsAreNotSticky'
  BY <1>0, <1>1, <1>2, <1>4
     DEF Requests, FreshEnough, ErrorsAreNotSticky, Waiting
<1>6. Sources' /\ Items'
  BY <1>0, <1>1 DEF Sources, Items
<1>7. QED
  BY <1>3, <1>5, <1>6 DEF CachesInv

LEMMA TickKeeps ==
  ASSUME CachesInv, Tick
  PROVE  CachesInv'
<1>0. TypeOK /\ Sources /\ Items /\ Requests /\ FreshEnough /\ ErrorsAreNotSticky
  BY DEF CachesInv
<1>1. now' = now + 1 /\ source' = source /\ entry' = entry /\ req' = req
  BY DEF Tick
<1>2. now \in Nat /\ TTL \in Nat /\ CallTime \in Nat
  BY <1>0, CachesType DEF TypeOK
<1>3. TypeOK'
  BY <1>0, <1>1, <1>2 DEF TypeOK
<1>4. Sources'
  <2>1. ASSUME NEW k \in Keys, NEW v \in DOMAIN source[k]
        PROVE  source[k][v].at <= now + 1
    <3>1. source[k][v] \in Version
      BY <1>0 DEF TypeOK
    <3>2. source[k][v].at <= now /\ source[k][v].at \in Nat
      BY <1>0, <3>1 DEF Sources, Version
    <3>3. QED
      BY <1>2, <3>2
  <2>2. QED
    BY <1>0, <1>1, <2>1 DEF Sources
<1>5. Items'
  <2>1. ASSUME NEW k \in Keys, NEW e \in entry[k] PROVE e.exp <= now + 1 + TTL
    BY <1>0, <1>2 DEF Items, TypeOK, Item
  <2>2. QED
    BY <1>0, <1>1, <2>1 DEF Items
<1>6. Requests'
  <2>1. ASSUME NEW l \in Loaders
        PROVE  /\ req[l].since <= now + 1 /\ req[l].at <= now + 1
               /\ req[l].st \in Waiting => now + 1 <= req[l].since + CallTime
    BY <1>2, OneRequest DEF Request, Tick
  <2>2. QED
    BY <1>0, <1>1, <2>1 DEF Requests
<1>7. FreshEnough' /\ ErrorsAreNotSticky'
  BY <1>0, <1>1 DEF FreshEnough, ErrorsAreNotSticky
<1>8. QED
  BY <1>3, <1>4, <1>5, <1>6, <1>7 DEF CachesInv

(* A reply is stored within a call of the moment it was current, for TTL.  *)
LEMMA StoreKeeps ==
  ASSUME CachesInv, NEW l \in Loaders, Store(l)
  PROVE  CachesInv'
<1>0. TypeOK /\ Sources /\ Items /\ Requests /\ FreshEnough /\ ErrorsAreNotSticky
  BY DEF CachesInv
<1>1. now' = now /\ source' = source
  BY DEF Store
<1>2. /\ now \in Nat /\ TTL \in Nat /\ CallTime \in Nat
      /\ req[l] \in Request /\ req[l].st = "reply"
  BY OneRequest DEF Store
<1>3. PICK k \in Keys, v \in Nat, t \in Nat, st \in Status :
        /\ k = req[l].key /\ v = req[l].ver /\ t = req[l].since
        /\ st = Answer(k, v)
  BY <1>2 DEF Request, Answer, Status
<1>4. /\ req' = [req EXCEPT ![l].st = st, ![l].at = now]
      /\ \A x \in Loaders : x # l => req'[x] = req[x]
  BY <1>0, <1>3 DEF Store, TypeOK
<1>5. /\ req'[l].st = st /\ req'[l].at = now /\ req'[l].key = k
      /\ req'[l].ver = v /\ req'[l].since = t
  BY <1>0, <1>2, <1>3, <1>4 DEF TypeOK, Request
<1>6. /\ v \in DOMAIN source[k] /\ CurrentSince(source[k], v, t)
      /\ t <= now /\ now <= t + CallTime
  BY <1>0, <1>2, <1>3 DEF Requests, Waiting
<1>7. /\ st = "value" => source[k][v].ok /\ Set(k, v)
      /\ st # "value" => st = "error" /\ ~source[k][v].ok /\ entry' = entry
  BY <1>3 DEF Store, Answer
<1>8. CurrentSince(source[k], v, now - (TTL + CallTime))
  <2>1. CASE v < Len(source[k])
    <3>1. source[k] \in Seq(Version) /\ v + 1 \in 1..Len(source[k])
      BY <1>0, <2>1 DEF TypeOK
    <3>2. source[k][v + 1] \in Version
      BY <3>1
    <3>3. source[k][v + 1].at \in Nat /\ source[k][v + 1].at >= t
      BY <1>6, <2>1, <3>2 DEF Version, CurrentSince
    <3>4. QED
      BY <1>2, <1>6, <3>3 DEF CurrentSince
  <2>2. CASE ~(v < Len(source[k]))
    BY <2>2 DEF CurrentSince
  <2>3. QED
    BY <2>1, <2>2
<1>9. req' \in [Loaders -> Request]
  BY <1>0, <1>2, <1>4 DEF TypeOK, Request
<1>10. Requests'
  <2>1. /\ req'[l].since <= now /\ req'[l].at <= now /\ req'[l].st \notin Waiting
        /\ req'[l].ver \in DOMAIN source[req'[l].key]
        /\ CurrentSince(source[req'[l].key], req'[l].ver, req'[l].since)
    BY <1>2, <1>5, <1>6, <1>7 DEF Waiting
  <2>2. ASSUME NEW x \in Loaders, x # l
        PROVE  /\ req'[x] = req[x]
               /\ req[x].since <= now /\ req[x].at <= now
               /\ req[x].st \in Waiting => now <= req[x].since + CallTime
               /\ req[x].st \in {"reply", "error"} =>
                    /\ req[x].ver \in DOMAIN source[req[x].key]
                    /\ CurrentSince(source[req[x].key], req[x].ver, req[x].since)
    BY <1>0, <1>4, <2>2 DEF Requests
  <2>3. QED
    BY <1>1, <2>1, <2>2 DEF Requests
<1>11. FreshEnough'
  BY <1>0, <1>1, <1>4, <1>5, <1>6, <1>7, <1>8 DEF FreshEnough
<1>12. ErrorsAreNotSticky'
  BY <1>0, <1>1, <1>4, <1>5, <1>6, <1>7 DEF ErrorsAreNotSticky
<1>13. Sources'
  BY <1>0, <1>1 DEF Sources
<1>14. CASE st = "value"
  <2>1. /\ entry' \in [Keys -> SUBSET Item]
        /\ \A x \in Keys : \A e \in entry'[x] :
             e \in entry[x] \/ (x = k /\ e = [ver |-> v, exp |-> now + TTL])
    BY <1>0, <1>7, <1>14, SetAdds
  <2>2. TypeOK'
    BY <1>0, <1>1, <1>9, <2>1 DEF TypeOK
  <2>3. CurrentSince(source[k], v, (now + TTL) - (TTL + CallTime))
    <3>1. CASE v < Len(source[k])
      <4>1. source[k] \in Seq(Version) /\ v + 1 \in 1..Len(source[k])
        BY <1>0, <3>1 DEF TypeOK
      <4>2. source[k][v + 1] \in Version
        BY <4>1
      <4>3. source[k][v + 1].at \in Nat /\ source[k][v + 1].at >= t
        BY <1>6, <3>1, <4>2 DEF Version, CurrentSince
      <4>4. QED
        BY <1>2, <1>6, <4>3 DEF CurrentSince
    <3>2. CASE ~(v < Len(source[k]))
      BY <3>2 DEF CurrentSince
    <3>3. QED
      BY <3>1, <3>2
  <2>4. ASSUME NEW x \in Keys, NEW e \in entry'[x]
        PROVE  /\ e.exp <= now + TTL
               /\ e.ver \in DOMAIN source[x] /\ source[x][e.ver].ok
               /\ CurrentSince(source[x], e.ver, e.exp - (TTL + CallTime))
    <3>1. CASE e \in entry[x]
      BY <1>0, <3>1 DEF Items
    <3>2. CASE x = k /\ e = [ver |-> v, exp |-> now + TTL]
      BY <1>2, <1>6, <1>7, <1>14, <2>3, <3>2
    <3>3. QED
      BY <2>1, <3>1, <3>2
  <2>5. Items'
    BY <1>1, <2>4 DEF Items
  <2>6. QED
    BY <1>10, <1>11, <1>12, <1>13, <2>2, <2>5 DEF CachesInv
<1>15. CASE st # "value"
  <2>1. TypeOK' /\ Items'
    BY <1>0, <1>1, <1>7, <1>9, <1>15 DEF TypeOK, Items
  <2>2. QED
    BY <1>10, <1>11, <1>12, <1>13, <2>1 DEF CachesInv
<1>16. QED
  BY <1>14, <1>15

-----------------------------------------------------------------------------
LEMMA InvNext == CachesInv /\ [Next]_vars => CachesInv'
<1>1. SUFFICES ASSUME CachesInv, [Next]_vars PROVE CachesInv'
  OBVIOUS
<1>2. CASE Tick
  BY <1>1, <1>2, TickKeeps
<1>3. CASE \E k \in Keys : Change(k)
  BY <1>1, <1>3, ChangeKeeps
<1>4. CASE \E l \in Loaders, k \in Keys : Ask(l, k)
  BY <1>1, <1>4, AskKeeps
<1>5. CASE \E l \in Loaders : Fetch(l)
  BY <1>1, <1>5, FetchKeeps
<1>6. CASE \E l \in Loaders : Store(l)
  BY <1>1, <1>6, StoreKeeps
<1>7. CASE \E l \in Loaders : Fail(l)
  BY <1>1, <1>7, FailKeeps
<1>8. CASE UNCHANGED vars
  BY <1>1, <1>8 DEF vars, CachesInv, TypeOK, Sources, Items, Requests,
     FreshEnough, ErrorsAreNotSticky
<1>9. QED
  BY <1>1, <1>2, <1>3, <1>4, <1>5, <1>6, <1>7, <1>8 DEF Next

(* CachesInv is inductive: whoever stores and in which order, an item was  *)
(* current no earlier than its expiry less the TTL and one call, and what  *)
(* a loader was sent was current while it waited (approver.go:277-292).    *)
THEOREM CachesInvariant == Spec => []CachesInv
<1>1. QED
  BY InvInit, InvNext, PTL DEF Spec

(* Whatever prove takes from a cache was true no longer ago than the TTL   *)
(* and one call, for every TTL and every number of goroutines and keys,    *)
(* and however the evictions fall (approver.go:277-292; cache.go:22-31).   *)
THEOREM CachesAreFresh == Spec => []FreshEnough
<1>1. CachesInv => FreshEnough
  BY DEF CachesInv
<1>2. QED
  BY <1>1, CachesInvariant, PTL

(* A config that does not load is reported only if it was in place while   *)
(* prove asked for it: errors are not cached (approver.go:277-278).        *)
THEOREM ErrorsAreCurrent == Spec => []ErrorsAreNotSticky
<1>1. CachesInv => ErrorsAreNotSticky
  BY DEF CachesInv
<1>2. QED
  BY <1>1, CachesInvariant, PTL

-----------------------------------------------------------------------------
(* No key is in the list twice.                                            *)
Distinct(keys) == \A i, j \in DOMAIN keys : keys[i] = keys[j] => i = j

(* Front puts k first and loses, repeats or invents no other key.          *)
LEMMA FrontIs ==
  ASSUME NEW k \in Keys, NEW keys \in Seq(Keys), Distinct(keys)
  PROVE  LET f == Front(k, keys) IN
    /\ f \in Seq(Keys) /\ Distinct(f)
    /\ Len(f) = IF \E i \in DOMAIN keys : keys[i] = k
                THEN Len(keys) ELSE Len(keys) + 1
    /\ \A x : (\E i \in DOMAIN f : f[i] = x) <=>
              x = k \/ \E i \in DOMAIN keys : keys[i] = x
<1> DEFINE f == Front(k, keys)
           n == Len(keys)
<1>1. n \in Nat /\ DOMAIN keys = 1..n /\ \A i \in 1..n : keys[i] \in Keys
  OBVIOUS
<1>2. CASE \E i \in DOMAIN keys : keys[i] = k
  <2>1. PICK m \in 1..n : keys[m] = k
    BY <1>1, <1>2
  <2>2. \A i \in 1..n : (\E j \in 1..i - 1 : keys[j] = k) <=> m < i
    BY <1>1, <2>1 DEF Distinct
  <2>3. f = [i \in 1..n |-> IF i = 1 THEN k
               ELSE IF \E j \in 1..i - 1 : keys[j] = k
               THEN keys[i] ELSE keys[i - 1]]
    BY <1>1, <1>2 DEF Front
  <2>4. \A i \in 1..n : f[i] = IF i = 1 THEN k
                               ELSE IF m < i THEN keys[i] ELSE keys[i - 1]
    BY <2>2, <2>3
  <2> HIDE DEF f, n
  <2>5. \A i \in 1..n : f[i] \in Keys
    BY <1>1, <2>4
  <2>6. f \in Seq(Keys) /\ Len(f) = n /\ DOMAIN f = 1..n
    <3>1. f \in [1..n -> Keys]
      BY <2>3, <2>5, Zenon
    <3> QED
      BY <1>1, <3>1
  <2>7. \A i, j \in 1..n : keys[i] = keys[j] => i = j
    BY <1>1 DEF Distinct
  <2>8. Distinct(f)
    <3> SUFFICES ASSUME NEW i \in 1..n, NEW j \in 1..n, i < j, f[i] = f[j]
                 PROVE  FALSE
      BY <1>1, <2>6 DEF Distinct
    <3>1. f[j] = IF m < j THEN keys[j] ELSE keys[j - 1]
      BY <1>1, <2>4
    <3>2. CASE i = 1
      <4>1. f[i] = keys[m] /\ (m < j \/ j - 1 < m)
        BY <1>1, <2>1, <2>4, <3>2
      <4> QED
        BY <1>1, <2>1, <2>7, <3>1, <4>1
    <3>3. CASE i # 1
      <4>1. f[i] = IF m < i THEN keys[i] ELSE keys[i - 1]
        BY <2>4, <3>3
      <4>2. i - 1 \in 1..n /\ j - 1 \in 1..n /\ i \in Int /\ j \in Int
        BY <1>1, <3>3
      <4>3. CASE m < i
        BY <2>7, <3>1, <4>1, <4>2, <4>3
      <4>4. CASE ~(m < i) /\ m < j
        BY <2>7, <3>1, <4>1, <4>2, <4>4
      <4>5. CASE ~(m < j)
        BY <2>7, <3>1, <4>1, <4>2, <4>5
      <4> QED
        BY <4>3, <4>4, <4>5
    <3> QED
      BY <3>2, <3>3
  <2>9. ASSUME NEW i \in 1..n PROVE \E j \in DOMAIN keys : keys[j] = f[i]
    BY <1>1, <2>1, <2>4
  <2>10. ASSUME NEW i \in 1..n PROVE \E j \in DOMAIN f : f[j] = keys[i]
    <3>1. CASE i < m
      <4>1. /\ i + 1 \in 1..n /\ i + 1 # 1 /\ ~(m < i + 1)
            /\ (i + 1) - 1 = i
        BY <1>1, <2>1, <3>1
      <4>2. f[i + 1] = keys[i]
        BY <2>4, <4>1
      <4> QED
        BY <2>6, <4>1, <4>2
    <3>2. CASE i = m
      BY <1>1, <2>1, <2>4, <2>6, <3>2
    <3>3. CASE m < i
      <4>1. i # 1
        BY <1>1, <2>1, <3>3
      <4> QED
        BY <2>4, <2>6, <3>3, <4>1
    <3> QED
      BY <1>1, <2>1, <3>1, <3>2, <3>3
  <2>11. \A x : (\E i \in DOMAIN f : f[i] = x) <=>
              x = k \/ \E i \in DOMAIN keys : keys[i] = x
    BY <1>1, <2>1, <2>6, <2>9, <2>10
  <2> QED
    BY <1>2, <2>6, <2>8, <2>11 DEF f, n
<1>3. CASE ~\E i \in DOMAIN keys : keys[i] = k
  <2>1. f = <<k>> \o keys
    BY <1>3 DEF Front
  <2>2. /\ f \in Seq(Keys) /\ Len(f) = n + 1 /\ DOMAIN f = 1..n + 1
        /\ f[1] = k /\ \A i \in 1..n : f[i + 1] = keys[i]
    BY <1>1, <2>1
  <2> HIDE DEF f, n
  <2>3. \A i \in 2..n + 1 : i - 1 \in 1..n /\ f[i] = keys[i - 1]
    BY <1>1, <2>2
  <2>4. Distinct(f)
    <3> SUFFICES ASSUME NEW i \in 1..n + 1, NEW j \in 1..n + 1, i < j,
                        f[i] = f[j]
                 PROVE  FALSE
      BY <1>1, <2>2 DEF Distinct
    <3>1. j - 1 \in 1..n /\ f[j] = keys[j - 1]
      BY <1>1, <2>3
    <3>2. CASE i = 1
      BY <1>1, <1>3, <2>2, <3>1, <3>2
    <3>3. CASE i # 1
      BY <1>1, <2>3, <3>1, <3>3 DEF Distinct
    <3> QED
      BY <3>2, <3>3
  <2>5. ASSUME NEW i \in 1..n PROVE \E j \in DOMAIN f : f[j] = keys[i]
    BY <1>1, <2>2
  <2>6. \A x : (\E i \in DOMAIN f : f[i] = x) <=>
              x = k \/ \E i \in DOMAIN keys : keys[i] = x
    <3>1. ASSUME NEW i \in 1..n + 1
          PROVE  f[i] = k \/ \E j \in DOMAIN keys : keys[j] = f[i]
      <4>1. i = 1 \/ i \in 2..n + 1
        BY <1>1
      <4> QED
        BY <1>1, <2>2, <2>3, <4>1
    <3>2. \E i \in DOMAIN f : f[i] = k
      BY <1>1, <2>2
    <3> QED
      BY <1>1, <2>2, <2>5, <3>1, <3>2
  <2> QED
    BY <1>3, <2>2, <2>4, <2>6 DEF f, n
<1> QED
  BY <1>2, <1>3

(* A Set makes room first and puts its key in front.                       *)
LEMMA SetBounded ==
  ASSUME Bounded, entry \in [Keys -> SUBSET Item],
         NEW k \in Keys, NEW v \in Nat, Set(k, v)
  PROVE  Bounded'
<1> DEFINE evict == entry[k] = {} /\ Full
           n     == Len(lru)
           kept  == IF evict THEN SubSeq(lru, 1, n - 1) ELSE lru
           Has(keys, x) == \E i \in DOMAIN keys : keys[i] = x
<1>1. /\ lru \in Seq(Keys) /\ n <= Capacity /\ Distinct(lru)
      /\ \A x \in Keys : entry[x] # {} <=> Has(lru, x)
      /\ n \in Nat /\ DOMAIN lru = 1..n /\ Capacity \in Nat /\ Capacity > 0
  BY CachesType DEF Bounded, Distinct
<1>2. /\ lru' = Front(k, kept)
      /\ \A x \in Keys : entry'[x] =
           IF x = k THEN {[ver |-> v, exp |-> now + TTL]}
           ELSE IF evict /\ x = lru[n] THEN {} ELSE entry[x]
  BY Zenon DEF Set
<1>3. /\ kept \in Seq(Keys) /\ Distinct(kept)
      /\ Len(kept) = IF evict THEN n - 1 ELSE n
      /\ \A x \in Keys : Has(kept, x) <=> Has(lru, x) /\ ~(evict /\ x = lru[n])
  <2>1. CASE evict
    <3>1. n = Capacity /\ n > 0
      <4>1. n >= Capacity
        BY <2>1 DEF Full
      <4> HIDE DEF kept, Has, evict, n
      <4> QED
        BY <1>1, <4>1
    <3>2. /\ kept \in Seq(Keys) /\ Len(kept) = n - 1 /\ DOMAIN kept = 1..n - 1
          /\ \A i \in 1..n - 1 : kept[i] = lru[i]
      BY <1>1, <2>1, <3>1
    <3> HIDE DEF kept, n
    <3>3. \A i, j \in 1..n : lru[i] = lru[j] => i = j
      BY <1>1 DEF Distinct
    <3>4. Distinct(kept)
      BY <1>1, <3>1, <3>2, <3>3 DEF Distinct
    <3>5. ASSUME NEW x \in Keys
          PROVE  Has(kept, x) <=> Has(lru, x) /\ x # lru[n]
      <4>1. ASSUME NEW i \in 1..n - 1 PROVE lru[i] # lru[n]
        BY <1>1, <3>1, <3>3
      <4>2. \A i \in 1..n : i \in 1..n - 1 \/ i = n
        BY <1>1
      <4>3. \A i \in 1..n - 1 : i \in 1..n
        BY <1>1
      <4> QED
        BY <1>1, <3>2, <4>1, <4>2, <4>3
    <3> HIDE DEF Has
    <3> QED
      BY <2>1, <3>2, <3>4, <3>5
  <2>2. CASE ~evict
    <3>1. kept = lru
      BY <2>2
    <3> HIDE DEF kept, Has, evict
    <3> QED
      BY <1>1, <2>2, <3>1
  <2> QED
    BY <2>1, <2>2
<1>4. /\ lru' \in Seq(Keys) /\ Distinct(lru')
      /\ Len(lru') = IF Has(kept, k) THEN Len(kept) ELSE Len(kept) + 1
      /\ \A x : Has(lru', x) <=> x = k \/ Has(kept, x)
  <2> HIDE DEF kept
  <2>1. /\ Front(k, kept) \in Seq(Keys) /\ Distinct(Front(k, kept))
        /\ Len(Front(k, kept)) = IF \E i \in DOMAIN kept : kept[i] = k
                                 THEN Len(kept) ELSE Len(kept) + 1
        /\ \A x : (\E i \in DOMAIN Front(k, kept) : Front(k, kept)[i] = x)
                  <=> x = k \/ \E i \in DOMAIN kept : kept[i] = x
    <3>1. kept \in Seq(Keys) /\ Distinct(kept)
      BY <1>3
    <3> QED
      BY <3>1, FrontIs, Zenon
  <2> QED
    BY <1>2, <2>1, Zenon
<1>5. Len(lru') <= Capacity
  <2>1. CASE evict
    <3>1. Len(kept) = n - 1 /\ n \in Nat /\ Capacity \in Nat /\ n <= Capacity
      BY <1>1, <1>3, <2>1
    <3>2. Len(lru') = Len(kept) \/ Len(lru') = Len(kept) + 1
      BY <1>4, Zenon
    <3> HIDE DEF kept, n
    <3> QED
      BY <3>1, <3>2
  <2>2. CASE entry[k] # {}
    <3>1. ~evict /\ Has(kept, k)
      BY <1>1, <1>3, <2>2
    <3> HIDE DEF kept, Has, evict
    <3> QED
      BY <1>1, <1>3, <1>4, <3>1
  <2>3. CASE ~Full
    <3>1. ~evict /\ n < Capacity
      BY <1>1, <2>3 DEF Full
    <3> HIDE DEF kept, Has, evict
    <3> QED
      BY <1>1, <1>3, <1>4, <3>1
  <2> QED
    BY <2>1, <2>2, <2>3
<1>6. ASSUME NEW x \in Keys PROVE entry'[x] # {} <=> Has(lru', x)
  <2> HIDE DEF kept, Has, evict
  <2> QED
    BY <1>1, <1>2, <1>3, <1>4
<1> QED
  BY <1>4, <1>5, <1>6 DEF Bounded, Distinct

(* A hit, of an item that is there, reorders the list.                     *)
LEMMA HitBounded ==
  ASSUME Bounded, NEW k \in Keys, Get(k) # {}, Hit(k)
  PROVE  Bounded'
<1>1. \E i \in DOMAIN lru : lru[i] = k
  BY DEF Bounded, Get
<1>2. lru \in Seq(Keys) /\ Distinct(lru)
  BY DEF Bounded, Distinct
<1>3. /\ lru' \in Seq(Keys) /\ Distinct(lru') /\ Len(lru') = Len(lru)
      /\ \A x : (\E i \in DOMAIN lru' : lru'[i] = x) <=>
                x = k \/ \E i \in DOMAIN lru : lru[i] = x
  <2>1. /\ Front(k, lru) \in Seq(Keys) /\ Distinct(Front(k, lru))
        /\ Len(Front(k, lru)) = IF \E i \in DOMAIN lru : lru[i] = k
                                THEN Len(lru) ELSE Len(lru) + 1
        /\ \A x : (\E i \in DOMAIN Front(k, lru) : Front(k, lru)[i] = x)
                  <=> x = k \/ \E i \in DOMAIN lru : lru[i] = x
    BY <1>2, FrontIs, Zenon
  <2> QED
    BY <1>1, <2>1, Zenon DEF Hit
<1> QED
  BY <1>1, <1>3 DEF Bounded, Distinct, Hit

LEMMA BoundedStep == TypeOK /\ Bounded /\ [Next]_vars => Bounded'
<1> SUFFICES ASSUME TypeOK, Bounded, [Next]_vars PROVE Bounded'
  OBVIOUS
<1>1. CASE UNCHANGED <<entry, lru>>
  BY <1>1 DEF Bounded
<1>2. ASSUME NEW l \in Loaders, NEW k \in Keys, Ask(l, k) PROVE Bounded'
  BY <1>1, <1>2, HitBounded DEF Ask
<1>3. ASSUME NEW l \in Loaders, Store(l) PROVE Bounded'
  <2>1. req[l].key \in Keys /\ req[l].ver \in Nat
    BY DEF TypeOK, Request
  <2> QED
    BY <1>1, <1>3, <2>1, SetBounded DEF Store, TypeOK
<1> QED
  BY <1>1, <1>2, <1>3 DEF Next, vars, Tick, Change, Fetch, Fail

(* For every capacity but zero, whoever loads, hits and stores in whatever *)
(* order, the cache never holds more items than its capacity, and its list *)
(* names each item once and nothing else (cache.go:22-31).                 *)
THEOREM CacheIsBounded == Spec => []Bounded
<1>1. Init => Bounded
  <2> SUFFICES ASSUME Init PROVE Bounded
    OBVIOUS
  <2>1. lru = << >> /\ entry = [k \in Keys |-> {}]
    BY DEF Init
  <2>2. lru \in Seq(Keys) /\ Len(lru) = 0 /\ DOMAIN lru = {}
    BY <2>1
  <2> QED
    BY <2>1, <2>2, CachesType DEF Bounded
<1>2. CachesInv => TypeOK
  BY DEF CachesInv
<1> QED
  BY <1>1, <1>2, BoundedStep, CachesInvariant, PTL DEF Spec
=============================================================================
