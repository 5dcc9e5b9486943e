---------------------------- MODULE PolicyProofs ----------------------------
(***************************************************************************)
(* The decision of the engine is the policy, for every config and every    *)
(* pull request: the matching of a glob is the existence of a cut, a loop  *)
(* that returns early is a quantifier, and a listing that stops at the cap *)
(* hides nothing.                                                          *)
(***************************************************************************)
EXTENDS PolicyCheck, TLAPS, WellFoundedInduction, NaturalsInduction,
        SequenceTheorems

Protections == [dot_github : SUBSET BOOLEAN, config_file : SUBSET BOOLEAN,
                paths : Seq(GlobType)]

Configs ==
  [rules : Seq(RuleType), enabled : SUBSET BOOLEAN, dry_run : BOOLEAN,
   comment : BOOLEAN,
   protect : Protections,
   blocked_users : SUBSET {Me}, max_changed_files : Int,
   auto_merge : [enabled : BOOLEAN, method : Methods]]

FileType == [path : Seq(STRING), previous : SUBSET Seq(STRING),
             kinds : SUBSET ChangeKinds]

TypeOK ==
  /\ files \in Seq(FileType)
  /\ yml = {} \/ \E c \in Configs : yml = {c}

-----------------------------------------------------------------------------
LEMMA BlankType == Default \in Configs /\ Blank \in Configs
<1>1. /\ << >> \in Seq(RuleType) /\ << >> \in Seq(GlobType)
      /\ DefaultMaxChangedFiles \in Int /\ "" \in Methods
  BY MaxFilesType DEF Methods
<1>2. [dot_github |-> {}, config_file |-> {}, paths |-> << >>] \in Protections
  BY <1>1 DEF Protections
<1>3. [enabled |-> FALSE, method |-> ""] \in [enabled : BOOLEAN, method : Methods]
  BY <1>1
<1>4. Default \in Configs
  BY <1>1, <1>2, <1>3 DEF Default, Configs, Protections
<1>5. QED
  BY <1>4 DEF Blank, Configs

(* What an edit makes of the config that is written.                       *)
LEMMA EditTypes ==
  ASSUME NEW c \in Configs
  PROVE  /\ \A r \in RuleType : [c EXCEPT !.rules = Append(@, r)] \in Configs
         /\ \A g \in GlobType :
              [c EXCEPT !.protect.paths = Append(@, g)] \in Configs
         /\ [c EXCEPT !.blocked_users = {Me}] \in Configs
         /\ [c EXCEPT !.protect.dot_github = {FALSE}] \in Configs
         /\ \A n \in Int : [c EXCEPT !.max_changed_files = n] \in Configs
<1>1. /\ c.rules \in Seq(RuleType) /\ c.protect \in Protections
      /\ c.protect.paths \in Seq(GlobType)
  BY DEF Configs, Protections
<1>2. ASSUME NEW r \in RuleType
      PROVE  [c EXCEPT !.rules = Append(@, r)] \in Configs
  <2>1. Append(c.rules, r) \in Seq(RuleType)
    BY <1>1
  <2>2. QED
    BY <2>1 DEF Configs
<1>3. ASSUME NEW p \in Protections
      PROVE  [c EXCEPT !.protect = p] \in Configs
  BY <1>3 DEF Configs, Protections
<1>4. ASSUME NEW g \in GlobType
      PROVE  [c EXCEPT !.protect.paths = Append(@, g)] \in Configs
  <2>1. [c.protect EXCEPT !.paths = Append(@, g)] \in Protections
    <3>1. Append(c.protect.paths, g) \in Seq(GlobType)
      BY <1>1
    <3>2. QED
      BY <1>1, <3>1 DEF Protections
  <2>2. [c EXCEPT !.protect.paths = Append(@, g)]
          = [c EXCEPT !.protect = [c.protect EXCEPT !.paths = Append(@, g)]]
    OBVIOUS
  <2>3. QED
    BY <1>3, <2>1, <2>2
<1>5. [c EXCEPT !.protect.dot_github = {FALSE}] \in Configs
  <2>1. [c.protect EXCEPT !.dot_github = {FALSE}] \in Protections
    BY <1>1 DEF Protections
  <2>2. [c EXCEPT !.protect.dot_github = {FALSE}]
          = [c EXCEPT !.protect = [c.protect EXCEPT !.dot_github = {FALSE}]]
    OBVIOUS
  <2>3. QED
    BY <1>3, <2>1, <2>2
<1>6. [c EXCEPT !.blocked_users = {Me}] \in Configs
  BY DEF Configs
<1>7. \A n \in Int : [c EXCEPT !.max_changed_files = n] \in Configs
  BY DEF Configs
<1>8. QED
  BY <1>2, <1>4, <1>5, <1>6, <1>7

(* The config an edit starts from.                                         *)
Start == IF yml = {} THEN Blank ELSE CHOOSE c \in yml : TRUE

LEMMA Starts ==
  ASSUME TypeOK
  PROVE  /\ Start \in Configs
         /\ (IF yml = {} THEN {Blank} ELSE yml) = {Start}
         /\ yml # {} => yml = {Start}
<1>1. CASE yml = {}
  BY <1>1, BlankType DEF Start
<1>2. CASE yml # {}
  <2>1. PICK c \in Configs : yml = {c}
    BY <1>2 DEF TypeOK
  <2>2. (CHOOSE d \in {c} : TRUE) = c
    OBVIOUS
  <2>3. QED
    BY <1>2, <2>1, <2>2 DEF Start
<1>3. QED
  BY <1>1, <1>2

(* What each edit writes.                                                  *)
LEMMA Edits ==
  ASSUME TypeOK
  PROVE  /\ AddRule => \E r \in RuleType :
              yml' = {[Start EXCEPT !.rules = Append(@, r)]}
         /\ Protect => \E g \in GlobType :
              yml' = {[Start EXCEPT !.protect.paths = Append(@, g)]}
         /\ Block => yml' = {[Start EXCEPT !.blocked_users = {Me}]}
         /\ LiftDefaults => yml' = {[Start EXCEPT !.protect.dot_github = {FALSE}]}
         /\ Cap => \E n \in Int : yml' = {[Start EXCEPT !.max_changed_files = n]}
         /\ Maintain => files' = files
<1>1. /\ (IF yml = {} THEN {Blank} ELSE yml) = {Start}
      /\ Rules \subseteq RuleType
  <2>1. \A g \in Globs : <<g>> \in Seq(GlobType)
    BY PolicyType
  <2>2. \A h \in Principals : <<h>> \in Seq(PrincipalType)
    BY PolicyType
  <2>3. QED
    BY <2>1, <2>2, Starts, PolicyType DEF Rules, RuleType
<1>2. AddRule => \E r \in RuleType :
        yml' = {[Start EXCEPT !.rules = Append(@, r)]}
  BY <1>1, PolicyType DEF AddRule, Edit
<1>3. Protect => \E g \in GlobType :
        yml' = {[Start EXCEPT !.protect.paths = Append(@, g)]}
  BY <1>1, PolicyType DEF Protect, Edit
<1>4. Block => yml' = {[Start EXCEPT !.blocked_users = {Me}]}
  BY <1>1 DEF Block, Edit
<1>5. LiftDefaults => yml' = {[Start EXCEPT !.protect.dot_github = {FALSE}]}
  BY <1>1 DEF LiftDefaults, Edit
<1>6. Cap => \E n \in Int : yml' = {[Start EXCEPT !.max_changed_files = n]}
  BY <1>1 DEF Cap, Edit
<1>7. Maintain => files' = files
  BY DEF Maintain, AddRule, Protect, Block, LiftDefaults, Cap, Edit
<1>8. QED
  BY <1>2, <1>3, <1>4, <1>5, <1>6, <1>7

(* What people write is a config and a list of files.                      *)
THEOREM TypeCorrect == Spec => []TypeOK
<1>1. Init => TypeOK
  BY DEF Init, TypeOK
<1>2. ASSUME TypeOK, [Next]_vars PROVE TypeOK'
  <2>1. CASE Maintain
    <3>1. \E c \in Configs : yml' = {c}
      BY <1>2, <2>1, Edits, EditTypes, Starts DEF Maintain
    <3>2. QED
      BY <1>2, <2>1, <3>1, Edits DEF TypeOK
  <2>2. CASE ChangeFile
    BY <1>2, <2>2, PolicyType DEF ChangeFile, TypeOK, FileType
  <2>3. CASE UNCHANGED vars
    BY <1>2, <2>3 DEF TypeOK, vars
  <2>4. QED
    BY <1>2, <2>1, <2>2, <2>3 DEF Next
<1>3. QED
  BY <1>1, <1>2, PTL DEF Spec

-----------------------------------------------------------------------------
(* A set of naturals that is not empty has a least element.                *)
LEMMA Least ==
  ASSUME NEW S, S \subseteq Nat, S # {}
  PROVE  \E x \in S : \A y \in S : x <= y
<1>1. IsWellFoundedOn(OpToRel(<, Nat), Nat)
  BY NatLessThanWellFounded
<1>2. PICK x \in S : \A y \in S : ~(<<y, x>> \in OpToRel(<, Nat))
  BY <1>1, WFMin
<1>3. ASSUME NEW y \in S PROVE ~(y < x)
  <2>1. SUFFICES ASSUME y < x PROVE <<y, x>> \in OpToRel(<, Nat)
    BY <1>2
  <2>2. <<y, x>> \in Nat \X Nat
    OBVIOUS
  <2>3. QED
    BY <2>1, <2>2 DEF OpToRel
<1>4. QED
  BY <1>3

LEMMA MinIsLeast ==
  ASSUME NEW S, S \subseteq Nat, S # {}
  PROVE  Min(S) \in S /\ \A y \in S : Min(S) <= y
BY Least DEF Min

-----------------------------------------------------------------------------
Elements == [stars : BOOLEAN, of : SUBSET STRING]

(* One turn of the matching: what element i makes of the lengths that the  *)
(* elements before it reach.                                               *)
Extend(segs, path, i, from) ==
  IF segs[i].stars
  THEN {j \in 0..Len(path) : \E m \in from : m <= j}
  ELSE {j \in 1..Len(path) : j - 1 \in from /\ path[j] \in segs[i].of}

Turn(segs, path, g, n) ==
  [i \in 0..n |-> IF i = 0 THEN {0} ELSE Extend(segs, path, i, g[i - 1])]

LEMMA ReachedSolves ==
  ASSUME NEW segs, NEW path, NEW n \in Nat
  PROVE  \E g : g = Turn(segs, path, g, n)
<1> DEFINE Bad == {k \in Nat : ~ \E g : g = Turn(segs, path, g, k)}
<1>1. SUFFICES ASSUME Bad # {} PROVE FALSE
  OBVIOUS
<1>2. PICK m \in Bad : \A k \in Bad : m <= k
  BY <1>1, Least
<1>3. CASE m = 0
  <2> DEFINE h == [i \in 0..0 |-> {0}]
  <2>1. h = Turn(segs, path, h, 0)
    BY DEF Turn
  <2>2. QED
    BY <1>3, <2>1
<1>4. CASE m # 0
  <2>1. m - 1 \in Nat /\ m - 1 \notin Bad
    BY <1>2, <1>4
  <2>2. PICK g : g = Turn(segs, path, g, m - 1)
    BY <2>1
  <2> DEFINE h == [i \in 0..m |-> IF i < m THEN g[i]
                                  ELSE Extend(segs, path, m, g[m - 1])]
  <2>3. ASSUME NEW i \in 0..m
        PROVE  h[i] = IF i = 0 THEN {0} ELSE Extend(segs, path, i, h[i - 1])
    <3>1. \A j \in 0..(m - 1) :
            g[j] = IF j = 0 THEN {0} ELSE Extend(segs, path, j, g[j - 1])
      BY <2>2 DEF Turn
    <3>2. CASE i = 0
      BY <1>4, <2>1, <3>1, <3>2
    <3>3. CASE i # 0 /\ i < m
      BY <2>1, <3>1, <3>3
    <3>4. CASE i = m
      BY <1>4, <2>1, <3>4
    <3>5. QED
      BY <3>2, <3>3, <3>4
  <2>4. h = Turn(segs, path, h, m)
    BY <2>3 DEF Turn
  <2>5. QED
    BY <2>4
<1>5. QED
  BY <1>3, <1>4

(* The recursion of the matching holds at each element.                    *)
LEMMA ReachedTurns ==
  ASSUME NEW segs, NEW path, Len(segs) \in Nat
  PROVE  /\ Reached(segs, path)[0] = {0}
         /\ \A i \in 1..Len(segs) :
              Reached(segs, path)[i]
                = Extend(segs, path, i, Reached(segs, path)[i - 1])
<1>1. \E g : g = Turn(segs, path, g, Len(segs))
  BY ReachedSolves
<1>2. Reached(segs, path) = CHOOSE g : g = Turn(segs, path, g, Len(segs))
  BY DEF Reached, Turn, Extend
<1>3. Reached(segs, path) = Turn(segs, path, Reached(segs, path), Len(segs))
  BY <1>1, <1>2
<1>4. \A i \in 0..Len(segs) :
        Reached(segs, path)[i] =
          IF i = 0 THEN {0} ELSE Extend(segs, path, i, Reached(segs, path)[i - 1])
  BY <1>3, Zenon DEF Turn
<1>5. QED
  BY <1>4

(* The first n elements cut the first j segments of a path into a piece    *)
(* each.                                                                   *)
Cuts(segs, path, n, j, cut) ==
  /\ cut \in [0..n -> 0..Len(path)]
  /\ cut[0] = 0 /\ cut[n] = j
  /\ \A i \in 1..n :
       IF segs[i].stars THEN cut[i - 1] <= cut[i]
       ELSE cut[i] = cut[i - 1] + 1 /\ path[cut[i]] \in segs[i].of

LEMMA CutStep ==
  ASSUME NEW segs, NEW path, Len(path) \in Nat, NEW n \in Nat \ {0},
         NEW from, \A j : j \in from <=> \E cut : Cuts(segs, path, n - 1, j, cut),
         NEW j
  PROVE  j \in Extend(segs, path, n, from)
           <=> \E cut : Cuts(segs, path, n, j, cut)
<1>1. n - 1 \in Nat /\ n \in 1..n /\ n \in 0..n /\ 0..n = (0..(n - 1)) \union {n}
      /\ 1..n = (1..(n - 1)) \union {n} /\ n - 1 \in 0..n
  OBVIOUS
<1>2. ASSUME j \in Extend(segs, path, n, from)
      PROVE  \E cut : Cuts(segs, path, n, j, cut)
  <2>1. \E m \in from : IF segs[n].stars THEN m <= j
                        ELSE j = m + 1 /\ path[j] \in segs[n].of
    <3>1. CASE segs[n].stars
      BY <1>2, <3>1 DEF Extend
    <3>2. CASE ~segs[n].stars
      <4>1. j \in 1..Len(path) /\ j - 1 \in from /\ path[j] \in segs[n].of
        BY <1>2, <3>2 DEF Extend
      <4>2. j = (j - 1) + 1
        BY <4>1
      <4>3. QED
        BY <3>2, <4>1, <4>2
    <3>3. QED
      BY <3>1, <3>2
  <2>2. j \in 0..Len(path)
    BY <1>2 DEF Extend
  <2>3. PICK m \in from : IF segs[n].stars THEN m <= j
                          ELSE j = m + 1 /\ path[j] \in segs[n].of
    BY <2>1
  <2>4. PICK c : Cuts(segs, path, n - 1, m, c)
    OBVIOUS
  <2> DEFINE d == [i \in 0..n |-> IF i = n THEN j ELSE c[i]]
  <2>5. d \in [0..n -> 0..Len(path)]
    BY <1>1, <2>2, <2>4 DEF Cuts
  <2>6. d[n] = j /\ \A i \in 0..(n - 1) : d[i] = c[i]
    BY <1>1
  <2> HIDE DEF d
  <2>7. ASSUME NEW i \in 1..n
        PROVE  IF segs[i].stars THEN d[i - 1] <= d[i]
               ELSE d[i] = d[i - 1] + 1 /\ path[d[i]] \in segs[i].of
    <3>1. CASE i = n
      <4>1. d[i] = j /\ d[i - 1] = m
        BY <1>1, <2>4, <2>6, <3>1 DEF Cuts
      <4>2. QED
        BY <2>3, <3>1, <4>1
    <3>2. CASE i # n
      <4>1. i \in 1..(n - 1) /\ d[i] = c[i] /\ d[i - 1] = c[i - 1]
        BY <1>1, <2>6, <3>2
      <4>2. QED
        BY <2>4, <4>1 DEF Cuts
    <3>3. QED
      BY <3>1, <3>2
  <2>8. Cuts(segs, path, n, j, d)
    BY <1>1, <2>4, <2>5, <2>6, <2>7 DEF Cuts
  <2>9. QED
    BY <2>8
<1>3. ASSUME NEW cut, Cuts(segs, path, n, j, cut)
      PROVE  j \in Extend(segs, path, n, from)
  <2> DEFINE c == [i \in 0..(n - 1) |-> cut[i]]
             m == cut[n - 1]
  <2>1. m \in 0..Len(path) /\ j \in 0..Len(path)
    BY <1>1, <1>3 DEF Cuts
  <2>2. Cuts(segs, path, n - 1, m, c)
    <3>1. /\ cut \in [0..n -> 0..Len(path)] /\ cut[0] = 0
          /\ \A i \in 1..n :
               IF segs[i].stars THEN cut[i - 1] <= cut[i]
               ELSE cut[i] = cut[i - 1] + 1 /\ path[cut[i]] \in segs[i].of
      BY <1>3 DEF Cuts
    <3>2. c \in [0..(n - 1) -> 0..Len(path)]
      BY <1>1, <3>1
    <3>3. c[0] = 0 /\ c[n - 1] = m
      BY <1>1, <3>1
    <3>4. \A i \in 1..(n - 1) : c[i] = cut[i] /\ c[i - 1] = cut[i - 1]
      BY <1>1
    <3> HIDE DEF c, m
    <3>5. QED
      BY <1>1, <3>1, <3>2, <3>3, <3>4 DEF Cuts
  <2>3. m \in from
    BY <2>2
  <2>4. IF segs[n].stars THEN m <= j
        ELSE j = m + 1 /\ path[j] \in segs[n].of
    BY <1>1, <1>3 DEF Cuts
  <2>5. CASE segs[n].stars
    BY <2>1, <2>3, <2>4, <2>5 DEF Extend
  <2>6. CASE ~segs[n].stars
    <3>1. j \in 1..Len(path) /\ j - 1 = m /\ path[j] \in segs[n].of
      BY <2>1, <2>4, <2>6
    <3>2. QED
      BY <2>3, <2>6, <3>1 DEF Extend
  <2>7. QED
    BY <2>5, <2>6
<1>4. QED
  BY <1>2, <1>3

(* The lengths reached by the first n elements are those that can be cut.  *)
LEMMA ReachedCuts ==
  ASSUME NEW segs, NEW path, Len(segs) \in Nat, Len(path) \in Nat,
         NEW n \in 0..Len(segs)
  PROVE  \A j : j \in Reached(segs, path)[n]
                  <=> \E cut : Cuts(segs, path, n, j, cut)
<1> DEFINE R(k) == Reached(segs, path)[k]
           Good(k) == \A j : j \in R(k) <=> \E cut : Cuts(segs, path, k, j, cut)
           Bad == {k \in 0..Len(segs) : ~Good(k)}
<1>1. SUFFICES ASSUME Bad # {} PROVE FALSE
  OBVIOUS
<1>2. Bad \subseteq Nat
  OBVIOUS
<1>3. PICK m \in Bad : \A k \in Bad : m <= k
  BY <1>1, <1>2, Least
<1>4. CASE m = 0
  <2>1. R(0) = {0}
    BY ReachedTurns
  <2>2. ASSUME NEW j PROVE j = 0 <=> \E cut : Cuts(segs, path, 0, j, cut)
    <3>1. ASSUME j = 0 PROVE \E cut : Cuts(segs, path, 0, j, cut)
      <4>1. Cuts(segs, path, 0, 0, [i \in 0..0 |-> 0])
        BY DEF Cuts
      <4>2. QED
        BY <3>1, <4>1
    <3>2. QED
      BY <3>1 DEF Cuts
  <2>3. QED
    BY <1>3, <1>4, <2>1, <2>2
<1>5. CASE m # 0
  <2>1. m \in 1..Len(segs) /\ m \in Nat \ {0} /\ m - 1 \in 0..Len(segs)
        /\ m - 1 \notin Bad
    BY <1>2, <1>3, <1>5
  <2>2. Good(m - 1)
    BY <2>1
  <2>3. R(m) = Extend(segs, path, m, R(m - 1))
    BY <2>1, ReachedTurns
  <2> DEFINE from == R(m - 1)
  <2>4. \A j : j \in from <=> \E cut : Cuts(segs, path, m - 1, j, cut)
    BY <2>2
  <2> HIDE DEF from
  <2>5. ASSUME NEW j
        PROVE  j \in Extend(segs, path, m, from)
                 <=> \E cut : Cuts(segs, path, m, j, cut)
    BY <2>1, <2>4, CutStep
  <2>6. Good(m)
    BY <2>3, <2>5 DEF from
  <2>7. QED
    BY <1>3, <2>6
<1>6. QED
  BY <1>4, <1>5

(* A glob that is not refused matches what it covers.                      *)
LEMMA MatchIsCover ==
  ASSUME NEW g \in GlobType, NEW path \in Seq(STRING)
  PROVE  Glob(compilePattern(g), path) <=> Covers(g, path)
<1> DEFINE segs == compilePattern(g)
<1>1. g.segs \in Seq(Elements)
  BY DEF GlobType, Elements
<1>2. segs \in Seq(Elements)
  <2>1. Stars \in Elements
    BY DEF Stars, Elements
  <2>2. Append(g.segs, Stars) \in Seq(Elements)
    BY <1>1, <2>1
  <2>3. QED
    BY <1>1, <2>2 DEF compilePattern
<1>3. Len(segs) \in 0..Len(segs) /\ Len(segs) \in Nat /\ Len(path) \in Nat
  BY <1>2
<1>4. Covers(g, path) <=> \E cut : Cuts(segs, path, Len(segs), Len(path), cut)
  BY DEF Covers, Cuts, compilePattern
<1> HIDE DEF segs
<1>5. Glob(segs, path) <=> \E cut : Cuts(segs, path, Len(segs), Len(path), cut)
  BY <1>3, ReachedCuts DEF Glob
<1>6. QED
  BY <1>4, <1>5 DEF segs

-----------------------------------------------------------------------------
(* The listing is the whole pull request, or longer than the cap.          *)
LEMMA ListingEnough ==
  ASSUME NEW cfg, NEW S, NEW all \in Seq(S),
         EffectiveMaxChangedFiles(cfg) \in Nat
  PROVE  /\ Len(all) <= EffectiveMaxChangedFiles(cfg)
              => ListChangedFiles(cfg, all) = all
         /\ Len(all) > EffectiveMaxChangedFiles(cfg)
              => Len(ListChangedFiles(cfg, all)) > EffectiveMaxChangedFiles(cfg)
         /\ ListChangedFiles(cfg, all) \in Seq(S)
<1> DEFINE cap == EffectiveMaxChangedFiles(cfg)
           L == Len(all)
           E == {n \in 1..L + 1 : n * PageSize >= L \/ n * PageSize > cap}
           pages == Min(E)
           m == Min({pages * PageSize, L})
<1>1. L \in Nat /\ cap \in Nat /\ PageSize \in Nat \ {0}
  BY PolicyType
<1>2. \A n \in Nat : n * PageSize \in Nat /\ n * PageSize >= n
  BY <1>1
<1>3. L + 1 \in E
  <2>1. L + 1 \in 1..L + 1 /\ (L + 1) * PageSize >= L + 1
        /\ (L + 1) * PageSize \in Nat
    BY <1>1, <1>2
  <2> DEFINE x == (L + 1) * PageSize
  <2>2. x >= L
    <3> HIDE DEF x
    <3>1. x \in Nat /\ x >= L + 1
      BY <2>1 DEF x
    <3>2. QED
      BY <1>1, <3>1
  <2>3. QED
    BY <2>1, <2>2
<1>4. pages \in E
  <2>1. E \subseteq Nat /\ E # {}
    BY <1>1, <1>3
  <2> HIDE DEF E
  <2>2. QED
    BY <2>1, MinIsLeast
<1>5. /\ pages * PageSize \in Nat
      /\ pages * PageSize >= L \/ pages * PageSize > cap
  BY <1>1, <1>2, <1>4
<1>6. /\ m \in {pages * PageSize, L}
      /\ m <= pages * PageSize /\ m <= L
  <2> HIDE DEF pages
  <2>1. {pages * PageSize, L} \subseteq Nat /\ {pages * PageSize, L} # {}
    BY <1>1, <1>5
  <2>2. QED
    BY <2>1, MinIsLeast
<1>7. ListChangedFiles(cfg, all) = SubSeq(all, 1, m)
  BY DEF ListChangedFiles
<1> DEFINE size == pages * PageSize
<1>8. size \in Nat /\ (size >= L \/ size > cap) /\ m \in {size, L}
      /\ m <= size /\ m <= L
  BY <1>5, <1>6
<1> HIDE DEF m, size, cap, L
<1>9. (L <= cap => m = L) /\ (L > cap => m > cap) /\ m \in 0..L /\ m \in Nat
  BY <1>1, <1>8
<1>10. Len(SubSeq(all, 1, m)) = m /\ SubSeq(all, 1, m) \in Seq(S)
  BY <1>1, <1>9, SubSeqProperties DEF L
<1>11. SubSeq(all, 1, L) = all
  BY SubSeqFull DEF L
<1>12. QED
  BY <1>7, <1>9, <1>10, <1>11 DEF L, cap

-----------------------------------------------------------------------------
(* A loop that returns at the first answer that is not a "no".             *)
LEMMA FirstHitIs ==
  ASSUME NEW answers, DOMAIN answers \subseteq Nat
  PROVE  /\ FirstHit(answers) = "no"
              <=> \A i \in DOMAIN answers : answers[i] = "no"
         /\ FirstHit(answers) # "no" =>
              \E i \in DOMAIN answers : FirstHit(answers) = answers[i]
<1> DEFINE hits == {i \in DOMAIN answers : answers[i] # "no"}
<1>1. CASE hits = {}
  BY <1>1 DEF FirstHit
<1>2. CASE hits # {}
  <2>1. Min(hits) \in hits
    BY <1>2, MinIsLeast
  <2>2. FirstHit(answers) = answers[Min(hits)]
    BY <1>2 DEF FirstHit
  <2>3. QED
    BY <2>1, <2>2
<1>3. QED
  BY <1>1, <1>2

LEMMA MatchAnswers ==
  ASSUME NEW g \in GlobType, NEW p \in Seq(STRING)
  PROVE  /\ matchPattern(g, p) = "err" <=> g.bad
         /\ matchPattern(g, p) = "yes" <=> ~g.bad /\ Covers(g, p)
         /\ matchPattern(g, p) = "no" <=> ~g.bad /\ ~Covers(g, p)
BY MatchIsCover DEF matchPattern, Answer

(* A loop over patterns finds nothing, finds a cover, or meets a bad one.  *)
LEMMA AnyMatch ==
  ASSUME NEW globs \in Seq(GlobType), NEW p \in Seq(STRING)
  PROVE  LET a == FirstHit([i \in DOMAIN globs |-> matchPattern(globs[i], p)])
         IN /\ a \in {"yes", "no", "err"}
            /\ a = "no" <=> \A i \in DOMAIN globs :
                              ~globs[i].bad /\ ~Covers(globs[i], p)
            /\ a = "yes" => \E i \in DOMAIN globs : Covers(globs[i], p)
            /\ a = "err" => \E i \in DOMAIN globs : globs[i].bad
<1> DEFINE answers == [i \in DOMAIN globs |-> matchPattern(globs[i], p)]
<1>1. DOMAIN answers = DOMAIN globs /\ DOMAIN answers \subseteq Nat
  OBVIOUS
<1>2. ASSUME NEW i \in DOMAIN globs
      PROVE  /\ answers[i] \in {"yes", "no", "err"}
             /\ answers[i] = "err" <=> globs[i].bad
             /\ answers[i] = "yes" <=> ~globs[i].bad /\ Covers(globs[i], p)
             /\ answers[i] = "no" <=> ~globs[i].bad /\ ~Covers(globs[i], p)
  <2>1. globs[i] \in GlobType
    OBVIOUS
  <2>2. globs[i].bad \in BOOLEAN
    BY <2>1 DEF GlobType
  <2>3. QED
    BY <2>1, <2>2, MatchAnswers
<1> HIDE DEF answers
<1>3. QED
  BY <1>1, <1>2, FirstHitIs DEF answers

LEMMA GuardIs ==
  ASSUME NEW c \in Configs, NEW p \in Seq(STRING)
  PROVE  /\ GuardedPath(c, p) \in {"yes", "no", "err"}
         /\ GuardedPath(c, p) = "no" <=>
              /\ ~Guarded(c, p)
              /\ \A i \in DOMAIN c.protect.paths : ~c.protect.paths[i].bad
         /\ ~Guarded(c, p) /\ GuardedPath(c, p) # "no" =>
              \E i \in DOMAIN c.protect.paths : c.protect.paths[i].bad
<1>1. c.protect.paths \in Seq(GlobType)
  BY DEF Configs, Protections
<1> DEFINE std == \/ ConfigFileProtected(c) /\ IsConfigFile(p)
                  \/ DotGithubProtected(c) /\ underDotGithub(p)
           a == FirstHit([i \in DOMAIN c.protect.paths |->
                            matchPattern(c.protect.paths[i], p)])
<1>2. std <=> \/ FALSE \notin c.protect.config_file /\ p \in configFiles
              \/ FALSE \notin c.protect.dot_github /\ p[1] = ".github"
  BY DEF ConfigFileProtected, DotGithubProtected, TrueUnlessSet,
         IsConfigFile, underDotGithub
<1>3. GuardedPath(c, p) = IF std THEN "yes" ELSE a
  BY DEF GuardedPath
<1>4. /\ a \in {"yes", "no", "err"}
      /\ a = "no" <=> \A i \in DOMAIN c.protect.paths :
           ~c.protect.paths[i].bad /\ ~Covers(c.protect.paths[i], p)
      /\ a = "yes" => \E i \in DOMAIN c.protect.paths :
           Covers(c.protect.paths[i], p)
      /\ a = "err" => \E i \in DOMAIN c.protect.paths : c.protect.paths[i].bad
  BY <1>1, AnyMatch
<1>5. Guarded(c, p) <=> std \/ \E i \in DOMAIN c.protect.paths :
                                  Covers(c.protect.paths[i], p)
  BY <1>2 DEF Guarded
<1> HIDE DEF a, std
<1>6. QED
  BY <1>3, <1>4, <1>5

(* The author and the constraint of a rule, as the schema states them.     *)
RuleFor(r, kinds) ==
  /\ \E i \in DOMAIN r.allow :
       \/ ~r.allow[i].team /\ r.allow[i].name = Me
       \/ r.allow[i].team /\ <<r.allow[i].org, r.allow[i].name>> \in MyTeams
  /\ r.semver # {} \/ r.sha =>
       kinds # {} /\ \A k \in kinds : k \in r.semver \/ (k = "sha" /\ r.sha)

LEMMA RuleIs ==
  ASSUME NEW r \in RuleType, NEW kinds
  PROVE  authorAllowed(r, Me, MyTeams) /\ constraintSatisfied(r, kinds)
           <=> RuleFor(r, kinds)
<1>1. authorAllowed(r, Me, MyTeams) <=> \E i \in DOMAIN r.allow :
        \/ ~r.allow[i].team /\ r.allow[i].name = Me
        \/ r.allow[i].team /\ <<r.allow[i].org, r.allow[i].name>> \in MyTeams
  <2>1. ASSUME NEW i \in DOMAIN r.allow
        PROVE  principalMatches(r.allow[i], Me, MyTeams) <=>
                 \/ ~r.allow[i].team /\ r.allow[i].name = Me
                 \/ /\ r.allow[i].team
                    /\ <<r.allow[i].org, r.allow[i].name>> \in MyTeams
    <3>1. CASE r.allow[i].team
      BY <3>1 DEF principalMatches
    <3>2. CASE ~r.allow[i].team
      BY <3>2 DEF principalMatches
    <3>3. QED
      BY <3>1, <3>2
  <2>2. QED
    BY <2>1 DEF authorAllowed
<1>2. r.sha \in BOOLEAN
  BY DEF RuleType
<1>3. constraintSatisfied(r, kinds) <=>
        (r.semver # {} \/ r.sha =>
           kinds # {} /\ \A k \in kinds : k \in r.semver \/ (k = "sha" /\ r.sha))
  <2>1. CASE r.sha
    BY <2>1 DEF constraintSatisfied, allowedChanges
  <2>2. CASE ~r.sha
    BY <2>2 DEF constraintSatisfied, allowedChanges
  <2>3. QED
    BY <2>1, <2>2, <1>2
<1>4. QED
  BY <1>1, <1>3 DEF RuleFor

GoodRules(c) == \A i \in DOMAIN c.rules : \A j \in DOMAIN c.rules[i].paths :
                  ~c.rules[i].paths[j].bad

(* The loop over rules grants only what some rule permits, and all of that *)
(* when no pattern on the way is refused.                                  *)
LEMMA AllowsIs ==
  ASSUME NEW c \in Configs, NEW p \in Seq(STRING), NEW kinds
  PROVE  /\ ruleAllows(c, Me, p, MyTeams, kinds) \in {"yes", "no", "err"}
         /\ ruleAllows(c, Me, p, MyTeams, kinds) = "yes" =>
              \E i \in DOMAIN c.rules : MayApprove(c.rules[i], p, kinds)
         /\ GoodRules(c) /\ (\E i \in DOMAIN c.rules :
                               MayApprove(c.rules[i], p, kinds))
              => ruleAllows(c, Me, p, MyTeams, kinds) = "yes"
<1> DEFINE hit(i) == ruleMatchesPath(c.rules[i], p)
           fit(i) == authorAllowed(c.rules[i], Me, MyTeams)
                       /\ constraintSatisfied(c.rules[i], kinds)
           answers == [i \in DOMAIN c.rules |->
                         IF hit(i) = "yes" THEN Answer(fit(i)) ELSE hit(i)]
<1>1. c.rules \in Seq(RuleType)
  BY DEF Configs
<1>2. ruleAllows(c, Me, p, MyTeams, kinds) = FirstHit(answers)
  BY DEF ruleAllows
<1>3. DOMAIN answers = DOMAIN c.rules /\ DOMAIN answers \subseteq Nat
  BY <1>1
<1>4. ASSUME NEW i \in DOMAIN c.rules
      PROVE  /\ answers[i] \in {"yes", "no", "err"}
             /\ answers[i] = "yes" => MayApprove(c.rules[i], p, kinds)
             /\ GoodRules(c) => answers[i] # "err"
             /\ GoodRules(c) /\ MayApprove(c.rules[i], p, kinds)
                  => answers[i] = "yes"
  <2> DEFINE r == c.rules[i]
  <2>1. r \in RuleType /\ r.paths \in Seq(GlobType)
    <3>1. r \in RuleType
      BY <1>1
    <3>2. \A x \in RuleType : x.paths \in Seq(GlobType)
      BY DEF RuleType
    <3>3. QED
      BY <3>1, <3>2
  <2>2. /\ hit(i) \in {"yes", "no", "err"}
        /\ hit(i) = "no" <=> \A j \in DOMAIN r.paths :
                               ~r.paths[j].bad /\ ~Covers(r.paths[j], p)
        /\ hit(i) = "yes" => \E j \in DOMAIN r.paths : Covers(r.paths[j], p)
        /\ hit(i) = "err" => \E j \in DOMAIN r.paths : r.paths[j].bad
    BY <2>1, AnyMatch DEF ruleMatchesPath
  <2>3. fit(i) <=> RuleFor(r, kinds)
    BY <2>1, RuleIs
  <2>4. MayApprove(r, p, kinds) <=>
          (\E j \in DOMAIN r.paths : Covers(r.paths[j], p)) /\ RuleFor(r, kinds)
    BY DEF MayApprove, RuleFor
  <2>5. GoodRules(c) => \A j \in DOMAIN r.paths : ~r.paths[j].bad
    BY DEF GoodRules
  <2>6. answers[i] = IF hit(i) = "yes" THEN Answer(fit(i)) ELSE hit(i)
    OBVIOUS
  <2>7. Answer(fit(i)) = IF RuleFor(r, kinds) THEN "yes" ELSE "no"
    BY <2>3 DEF Answer
  <2> HIDE DEF hit, fit, r, answers
  <2>8. /\ answers[i] \in {"yes", "no", "err"}
        /\ answers[i] = "yes" => MayApprove(r, p, kinds)
        /\ GoodRules(c) => answers[i] # "err"
        /\ GoodRules(c) /\ MayApprove(r, p, kinds) => answers[i] = "yes"
    BY <2>2, <2>4, <2>5, <2>6, <2>7
  <2>9. QED
    BY <2>8 DEF r
<1> HIDE DEF answers
<1>5. FirstHit(answers) \in {"yes", "no", "err"}
      /\ (FirstHit(answers) = "yes" =>
            \E i \in DOMAIN c.rules : MayApprove(c.rules[i], p, kinds))
  BY <1>3, <1>4, FirstHitIs
<1>6. ASSUME GoodRules(c),
             \E i \in DOMAIN c.rules : MayApprove(c.rules[i], p, kinds)
      PROVE  FirstHit(answers) = "yes"
  <2>1. FirstHit(answers) # "no"
    BY <1>3, <1>4, <1>6, FirstHitIs
  <2>2. FirstHit(answers) # "err"
    BY <1>3, <1>4, <1>6, <2>1, FirstHitIs
  <2>3. QED
    BY <1>5, <2>1, <2>2
<1>7. QED
  BY <1>2, <1>5, <1>6

(* One path of one file.                                                   *)
LEMMA PathIs ==
  ASSUME NEW c \in Configs, NEW p \in Seq(STRING), NEW kinds
  PROVE  /\ evaluatePath(c, Me, p, MyTeams, kinds) \in {"yes", "no", "err"}
         /\ evaluatePath(c, Me, p, MyTeams, kinds) = "yes" <=>
              /\ GuardedPath(c, p) = "no"
              /\ ruleAllows(c, Me, p, MyTeams, kinds) = "yes"
         /\ evaluatePath(c, Me, p, MyTeams, kinds) = "yes" =>
              /\ Permitted(c, p, kinds)
              /\ \A i \in DOMAIN c.protect.paths : ~c.protect.paths[i].bad
         /\ WellFormed(c) /\ Permitted(c, p, kinds)
              => evaluatePath(c, Me, p, MyTeams, kinds) = "yes"
<1> DEFINE g == GuardedPath(c, p)
           a == ruleAllows(c, Me, p, MyTeams, kinds)
           e == evaluatePath(c, Me, p, MyTeams, kinds)
<1>1. e = CASE g = "err" -> "err" [] g = "yes" -> "no" [] OTHER -> a
  BY DEF evaluatePath
<1>2. /\ g \in {"yes", "no", "err"}
      /\ g = "no" <=> /\ ~Guarded(c, p)
                      /\ \A i \in DOMAIN c.protect.paths :
                           ~c.protect.paths[i].bad
  BY GuardIs
<1>3. /\ a \in {"yes", "no", "err"}
      /\ a = "yes" => \E i \in DOMAIN c.rules : MayApprove(c.rules[i], p, kinds)
      /\ GoodRules(c) /\ (\E i \in DOMAIN c.rules :
                            MayApprove(c.rules[i], p, kinds)) => a = "yes"
  BY AllowsIs
<1> HIDE DEF g, a, e
<1>4. e \in {"yes", "no", "err"} /\ (e = "yes" <=> g = "no" /\ a = "yes")
  BY <1>1, <1>2, <1>3
<1>5. WellFormed(c) <=>
        /\ \A i \in DOMAIN c.protect.paths : ~c.protect.paths[i].bad
        /\ GoodRules(c)
  BY DEF WellFormed, GoodRules
<1>6. Permitted(c, p, kinds) <=>
        ~Guarded(c, p) /\ \E i \in DOMAIN c.rules : MayApprove(c.rules[i], p, kinds)
  BY DEF Permitted
<1>7. QED
  BY <1>2, <1>3, <1>4, <1>5, <1>6 DEF g, a, e

(* A rule asks of a file's kinds what it would of no kinds, if no rule of  *)
(* the config has a constraint.                                            *)
LEMMA KindsLookedAt ==
  ASSUME NEW c \in Configs, NEW p, NEW fs, NEW i \in DOMAIN fs
  PROVE  Permitted(c, p, FileKinds(c, fs, i)) <=> Permitted(c, p, fs[i].kinds)
<1>1. CASE hasConstraint(c)
  BY <1>1 DEF FileKinds
<1>2. CASE ~hasConstraint(c)
  <2>1. \A j \in DOMAIN c.rules : c.rules[j].semver = {} /\ ~c.rules[j].sha
    BY <1>2 DEF hasConstraint
  <2>2. \A j \in DOMAIN c.rules : \A ks, ls :
          MayApprove(c.rules[j], p, ks) <=> MayApprove(c.rules[j], p, ls)
    BY <2>1 DEF MayApprove
  <2>3. QED
    BY <2>2 DEF Permitted
<1>3. QED
  BY <1>1, <1>2

(* When the engine approves, without its errors and its order of tests.    *)
Approves(c, fs) ==
  /\ Me \notin c.blocked_users
  /\ fs # << >> /\ Len(fs) <= EffectiveMaxChangedFiles(c)
  /\ \A i \in DOMAIN fs : \A p \in TouchedPaths(fs[i]) :
       evaluatePath(c, Me, p, MyTeams, FileKinds(c, fs, i)) = "yes"

LEMMA TouchedType ==
  ASSUME NEW f \in FileType
  PROVE  TouchedPaths(f) \subseteq Seq(STRING)
BY DEF TouchedPaths, FileType

LEMMA DecideIs ==
  ASSUME NEW c \in Configs, NEW fs \in Seq(FileType)
  PROVE  Decide(c, fs, Me, MyTeams) = "approve" <=> Approves(c, fs)
<1> DEFINE e(i, p) == evaluatePath(c, Me, p, MyTeams, FileKinds(c, fs, i))
           answers == UNION {{e(i, p) : p \in TouchedPaths(fs[i])} : i \in DOMAIN fs}
<1>1. ASSUME NEW i \in DOMAIN fs, NEW p \in TouchedPaths(fs[i])
      PROVE  e(i, p) \in {"yes", "no", "err"}
  <2>1. p \in Seq(STRING)
    BY TouchedType
  <2>2. QED
    BY <2>1, PathIs
<1> HIDE DEF e
<1>2. "err" \notin answers /\ "no" \notin answers <=>
        \A i \in DOMAIN fs : \A p \in TouchedPaths(fs[i]) : e(i, p) = "yes"
  BY <1>1
<1> DEFINE D == Decide(c, fs, Me, MyTeams)
<1>3. D = IF \/ Me \in c.blocked_users
             \/ fs = << >>
             \/ Len(fs) > EffectiveMaxChangedFiles(c)
          THEN "reject"
          ELSE IF "err" \in answers THEN "error"
          ELSE IF "no" \in answers THEN "reject" ELSE "approve"
  BY DEF Decide, e
<1> HIDE DEF answers, D
<1>4. D = "approve" <=>
        /\ Me \notin c.blocked_users /\ fs # << >>
        /\ ~(Len(fs) > EffectiveMaxChangedFiles(c))
        /\ "err" \notin answers /\ "no" \notin answers
  BY <1>3
<1>5. Len(fs) \in Nat /\ EffectiveMaxChangedFiles(c) \in Int
  BY MaxFilesType DEF EffectiveMaxChangedFiles, Configs
<1>6. QED
  BY <1>2, <1>4, <1>5 DEF Approves, e, D

(* What the loader makes of a file, and of none.                           *)
LEMMA LoadIs ==
  ASSUME TypeOK
  PROVE  /\ Loaded = {} \/ \E c \in Configs : Loaded = {c}
         /\ \A c \in Loaded :
              /\ c \in Configs /\ c.max_changed_files \in Nat \ {0}
              /\ EffectiveMaxChangedFiles(c) = c.max_changed_files
<1>1. ASSUME NEW c \in Configs
      PROVE  /\ applyDefaults(c) \in Configs
             /\ applyDefaults(c).max_changed_files # 0
  BY MaxFilesType DEF applyDefaults, Configs
<1>2. CASE yml = {}
  <2>1. Loaded = {Default}
    BY <1>2 DEF Loaded, Load
  <2>2. Default.max_changed_files = DefaultMaxChangedFiles
    BY DEF Default
  <2>3. QED
    BY <2>1, <2>2, BlankType, MaxFilesType DEF EffectiveMaxChangedFiles
<1>3. CASE yml # {}
  <2>1. PICK d \in Configs : yml = {d}
    BY <1>3 DEF TypeOK
  <2>2. Loaded = Parse(d)
    BY <2>1 DEF Loaded, Load
  <2>3. Loaded = {} \/ (Loaded = {applyDefaults(d)}
                          /\ applyDefaults(d).max_changed_files >= 0)
    BY <2>2 DEF Parse, Validate
  <2>4. applyDefaults(d) \in Configs /\ applyDefaults(d).max_changed_files \in Int
    BY <1>1 DEF Configs
  <2>5. QED
    BY <1>1, <2>3, <2>4 DEF EffectiveMaxChangedFiles
<1>4. QED
  BY <1>2, <1>3

(* The decision on the listing is the decision on the pull request.        *)
DecisionIs == /\ TypeOK
              /\ Decision = "approve" <=> \E c \in Loaded : Approves(c, files)

LEMMA Decided == TypeOK => DecisionIs
<1> SUFFICES ASSUME TypeOK
             PROVE  Decision = "approve" <=> \E c \in Loaded : Approves(c, files)
  BY DEF DecisionIs
<1>1. CASE Loaded = {}
  BY <1>1 DEF Decision
<1>2. ASSUME NEW c \in Configs, Loaded = {c}
      PROVE  Decision = "approve" <=> Approves(c, files)
  <2>1. Decision = Outcome(c)
    <3>1. {Outcome(d) : d \in Loaded} = {Outcome(c)}
      BY <1>2
    <3>2. Decision = CHOOSE o \in {Outcome(c)} : TRUE
      BY <1>2, <3>1 DEF Decision
    <3>3. QED
      BY <3>2
  <2> DEFINE listed == ListChangedFiles(c, files)
             cap == EffectiveMaxChangedFiles(c)
  <2>2. files \in Seq(FileType) /\ cap \in Nat
    BY <1>2, LoadIs DEF TypeOK
  <2>3. /\ Len(files) <= cap => listed = files
        /\ Len(files) > cap => Len(listed) > cap
        /\ listed \in Seq(FileType)
    BY <2>2, ListingEnough
  <2>4. Outcome(c) = "approve" <=> Approves(c, listed)
    BY <2>3, DecideIs DEF Outcome
  <2>5. CASE Len(files) <= cap
    BY <2>1, <2>3, <2>4, <2>5
  <2>6. CASE Len(files) > cap
    <3>1. ~Approves(c, files) /\ ~Approves(c, listed)
      <4>1. Len(listed) \in Nat /\ Len(files) \in Nat
        BY <2>2, <2>3
      <4> HIDE DEF listed
      <4>2. QED
        BY <2>2, <2>3, <2>6, <4>1 DEF Approves
    <3>2. QED
      BY <2>1, <2>4, <3>1
  <2>7. QED
    BY <2>2, <2>5, <2>6
<1>3. QED
  BY <1>1, <1>2, LoadIs

(* A bad pattern can withhold an approval and never grant one.             *)
LEMMA ApprovesIsPolicy ==
  ASSUME TypeOK, NEW c \in Loaded
  PROVE  /\ Approves(c, files) =>
              /\ Policy(c)
              /\ \A i \in DOMAIN c.protect.paths : ~c.protect.paths[i].bad
         /\ WellFormed(c) /\ Policy(c) => Approves(c, files)
<1>1. /\ c \in Configs /\ EffectiveMaxChangedFiles(c) = c.max_changed_files
      /\ files \in Seq(FileType)
  BY LoadIs DEF TypeOK
<1>2. ASSUME NEW i \in DOMAIN files
      PROVE  /\ TouchedPaths(files[i]) = {files[i].path} \union files[i].previous
             /\ TouchedPaths(files[i]) \subseteq Seq(STRING)
             /\ files[i].path \in TouchedPaths(files[i])
             /\ \A p : Permitted(c, p, FileKinds(c, files, i))
                         <=> Permitted(c, p, files[i].kinds)
  <2>1. files[i] \in FileType
    BY <1>1
  <2>2. QED
    BY <1>1, <2>1, TouchedType, KindsLookedAt DEF TouchedPaths
<1>3. ASSUME Approves(c, files)
      PROVE  /\ Policy(c)
             /\ \A i \in DOMAIN c.protect.paths : ~c.protect.paths[i].bad
  <2>1. ASSUME NEW i \in DOMAIN files, NEW p \in TouchedPaths(files[i])
        PROVE  /\ Permitted(c, p, files[i].kinds)
               /\ \A j \in DOMAIN c.protect.paths : ~c.protect.paths[j].bad
    <3>1. p \in Seq(STRING)
      BY <1>2
    <3>2. evaluatePath(c, Me, p, MyTeams, FileKinds(c, files, i)) = "yes"
      BY <1>3 DEF Approves
    <3>3. Permitted(c, p, FileKinds(c, files, i))
          /\ \A j \in DOMAIN c.protect.paths : ~c.protect.paths[j].bad
      BY <1>1, <3>1, <3>2, PathIs
    <3>4. QED
      BY <1>2, <3>3
  <2>2. 1 \in DOMAIN files
    BY <1>1, <1>3, EmptySeq DEF Approves
  <2>3. Policy(c)
    BY <1>1, <1>2, <1>3, <2>1 DEF Policy, Approves
  <2>4. QED
    BY <1>2, <2>1, <2>2, <2>3
<1>4. ASSUME WellFormed(c), Policy(c)
      PROVE  Approves(c, files)
  <2>1. ASSUME NEW i \in DOMAIN files, NEW p \in TouchedPaths(files[i])
        PROVE  evaluatePath(c, Me, p, MyTeams, FileKinds(c, files, i)) = "yes"
    <3>1. p \in Seq(STRING) /\ Permitted(c, p, files[i].kinds)
      BY <1>2, <1>4 DEF Policy
    <3>2. Permitted(c, p, FileKinds(c, files, i))
      BY <1>2, <3>1
    <3>3. QED
      BY <1>1, <1>4, <3>1, <3>2, PathIs
  <2>2. QED
    BY <1>1, <1>4, <2>1 DEF Policy, Approves
<1>5. QED
  BY <1>3, <1>4

(* For every config and every pull request, what the code approves is what *)
(* the schema's comments permit (schema.go:19-22, 47-56, 71-86;            *)
(* decide.go:29-43; client.go:41-64).                                      *)
THEOREM PolicyDecides == Spec => []ApproveIffPolicy
<1>1. TypeOK /\ DecisionIs => ApproveIffPolicy
  <2> SUFFICES ASSUME TypeOK, DecisionIs, NEW c \in Loaded, WellFormed(c)
               PROVE  (Decision = "approve") = Policy(c)
    BY DEF ApproveIffPolicy
  <2>1. Loaded = {c}
    BY LoadIs
  <2>2. Decision = "approve" <=> Approves(c, files)
    BY <2>1 DEF DecisionIs
  <2>3. Approves(c, files) <=> Policy(c)
    BY ApprovesIsPolicy
  <2>4. Policy(c) \in BOOLEAN
    BY DEF Policy
  <2>5. QED
    BY <2>2, <2>3, <2>4
<1>2. QED
  BY <1>1, Decided, TypeCorrect, PTL

(* A pattern that doublestar refuses never grants an approval              *)
(* (match.go:28-54, decide.go:60-73).                                      *)
THEOREM BadPatternWithholds == Spec => []BadPatternNeverGrants
<1>1. TypeOK /\ DecisionIs => BadPatternNeverGrants
  <2> SUFFICES ASSUME TypeOK, DecisionIs, NEW c \in Loaded, Decision = "approve"
               PROVE  /\ Policy(c)
                      /\ \A i \in DOMAIN c.protect.paths :
                           ~c.protect.paths[i].bad
    BY DEF BadPatternNeverGrants
  <2>1. Loaded = {c}
    BY LoadIs
  <2>2. Approves(c, files)
    BY <2>1 DEF DecisionIs
  <2>3. QED
    BY <2>2, ApprovesIsPolicy
<1>2. QED
  BY <1>1, Decided, TypeCorrect, PTL

-----------------------------------------------------------------------------
(* A file fewer leaves an approval.                                        *)
LEMMA FewerFiles ==
  ASSUME NEW c \in Configs, NEW fs \in Seq(FileType), NEW f \in FileType,
         fs # << >>, Approves(c, Append(fs, f))
  PROVE  Approves(c, fs)
<1> DEFINE more == Append(fs, f)
<1>1. /\ Len(fs) \in Nat /\ Len(more) = Len(fs) + 1
      /\ \A i \in DOMAIN fs : i \in DOMAIN more /\ more[i] = fs[i]
  OBVIOUS
<1> HIDE DEF more
<1>2. Approves(c, more)
  BY DEF more
<1>3. \A i \in DOMAIN fs : FileKinds(c, more, i) = FileKinds(c, fs, i)
  BY <1>1 DEF FileKinds
<1>4. EffectiveMaxChangedFiles(c) \in Int
  BY MaxFilesType DEF EffectiveMaxChangedFiles, Configs
<1>5. QED
  BY <1>1, <1>2, <1>3, <1>4 DEF Approves

(* A longer pull request is approved only if the shorter one was.          *)
THEOREM GrowthNeverHelps == Spec => GrowingThePRNeverHelps
<1>1. ASSUME TypeOK, TypeOK', DecisionIs, DecisionIs', [Next]_vars,
             files # << >>, files' # files, Decision' = "approve"
      PROVE  Decision = "approve"
  <2>1. ChangeFile
    BY <1>1, Edits DEF Next, vars
  <2>2. PICK f \in ChangedFiles : files' = Append(files, f) /\ yml' = yml
    BY <2>1 DEF ChangeFile
  <2>3. Loaded' = Loaded
    BY <2>2 DEF Loaded
  <2>4. PICK c \in Loaded : Approves(c, files')
    BY <1>1, <2>3 DEF DecisionIs
  <2>5. f \in FileType /\ c \in Configs /\ files \in Seq(FileType)
    BY <1>1, <2>4, LoadIs, PolicyType DEF FileType, TypeOK
  <2>6. Approves(c, files)
    BY <1>1, <2>2, <2>4, <2>5, FewerFiles
  <2>7. QED
    BY <1>1, <2>4, <2>6 DEF DecisionIs
<1>2. TypeOK /\ TypeOK' /\ DecisionIs /\ DecisionIs' /\ [Next]_vars =>
        [files # << >> /\ files' # files /\ Decision # "approve"
           => Decision' # "approve"]_vars
  BY <1>1
<1>3. QED
  BY <1>2, Decided, TypeCorrect, PTL DEF Spec, GrowingThePRNeverHelps

(* A guard more leaves no approval that there was not.                     *)
LEMMA FewerGuards ==
  ASSUME NEW c \in Configs, NEW d \in Configs, NEW fs \in Seq(FileType),
         d.rules = c.rules, d.max_changed_files = c.max_changed_files,
         d.blocked_users = c.blocked_users,
         d.protect.dot_github = c.protect.dot_github,
         d.protect.config_file = c.protect.config_file,
         \A i \in DOMAIN c.protect.paths :
           i \in DOMAIN d.protect.paths /\ d.protect.paths[i] = c.protect.paths[i],
         Approves(d, fs)
  PROVE  Approves(c, fs)
<1>1. EffectiveMaxChangedFiles(d) = EffectiveMaxChangedFiles(c)
  BY DEF EffectiveMaxChangedFiles
<1>2. \A i : FileKinds(d, fs, i) = FileKinds(c, fs, i)
  BY DEF FileKinds, hasConstraint
<1>3. ASSUME NEW i \in DOMAIN fs, NEW p \in TouchedPaths(fs[i])
      PROVE  evaluatePath(c, Me, p, MyTeams, FileKinds(c, fs, i)) = "yes"
  <2> DEFINE ks == FileKinds(c, fs, i)
  <2>1. p \in Seq(STRING)
    BY TouchedType
  <2>2. evaluatePath(d, Me, p, MyTeams, ks) = "yes"
    BY <1>2 DEF Approves
  <2> HIDE DEF ks
  <2>3. GuardedPath(d, p) = "no" /\ ruleAllows(d, Me, p, MyTeams, ks) = "yes"
    BY <2>1, <2>2, PathIs
  <2>4. ruleAllows(c, Me, p, MyTeams, ks) = ruleAllows(d, Me, p, MyTeams, ks)
    BY DEF ruleAllows
  <2>5. /\ ~Guarded(d, p)
        /\ \A j \in DOMAIN d.protect.paths : ~d.protect.paths[j].bad
    BY <2>1, <2>3, GuardIs
  <2>6. ~Guarded(c, p) /\ \A j \in DOMAIN c.protect.paths : ~c.protect.paths[j].bad
    BY <2>5 DEF Guarded
  <2>7. GuardedPath(c, p) = "no"
    BY <2>1, <2>6, GuardIs
  <2>8. evaluatePath(c, Me, p, MyTeams, ks) = "yes"
    BY <2>1, <2>3, <2>4, <2>7, PathIs
  <2>9. QED
    BY <2>8 DEF ks
<1>4. QED
  BY <1>1, <1>3 DEF Approves

(* Without a rule there is no approval.                                    *)
LEMMA NoRules ==
  ASSUME NEW c \in Configs, c.rules = << >>, NEW fs \in Seq(FileType)
  PROVE  ~Approves(c, fs)
<1> SUFFICES ASSUME Approves(c, fs) PROVE FALSE
  OBVIOUS
<1>1. 1 \in DOMAIN fs /\ fs[1] \in FileType
  BY EmptySeq DEF Approves
<1>2. fs[1].path \in TouchedPaths(fs[1]) /\ fs[1].path \in Seq(STRING)
  BY <1>1, TouchedType DEF TouchedPaths
<1>3. Permitted(c, fs[1].path, FileKinds(c, fs, 1))
  BY <1>1, <1>2, PathIs DEF Approves
<1>4. QED
  BY <1>3 DEF Permitted

(* Protecting a path or blocking a user never makes prove approve more.    *)
THEOREM GuardsRestrict == Spec => GuardsOnlyRestrict
<1>1. ASSUME TypeOK, TypeOK', DecisionIs, DecisionIs', Block,
             Decision' = "approve"
      PROVE  FALSE
  <2>1. yml' = {[Start EXCEPT !.blocked_users = {Me}]} /\ Start \in Configs
    BY <1>1, Edits, Starts
  <2>2. PICK c \in Loaded' : Approves(c, files')
    BY <1>1 DEF DecisionIs
  <2>3. c = applyDefaults([Start EXCEPT !.blocked_users = {Me}])
    BY <2>1, <2>2 DEF Loaded, Load, Parse
  <2>4. c.blocked_users = {Me}
    BY <2>1, <2>3 DEF applyDefaults, Configs
  <2>5. QED
    BY <2>2, <2>4 DEF Approves
<1>2. ASSUME TypeOK, TypeOK', DecisionIs, DecisionIs', Protect,
             Decision' = "approve"
      PROVE  Decision = "approve"
  <2>1. PICK g \in GlobType : yml' = {[Start EXCEPT !.protect.paths = Append(@, g)]}
    BY <1>2, Edits
  <2>2. files' = files /\ files \in Seq(FileType)
    BY <1>2, Edits DEF Maintain, TypeOK
  <2> DEFINE after == [Start EXCEPT !.protect.paths = Append(@, g)]
             d == applyDefaults(after)
             c == applyDefaults(Start)
  <2>3. Start \in Configs /\ after \in Configs
    BY <1>2, Starts, EditTypes
  <2>4. /\ Loaded' = {d} /\ Validate(d) /\ Approves(d, files)
    <3>1. Loaded' = Parse(after)
      BY <2>1 DEF Loaded, Load
    <3>2. PICK x \in Loaded' : Approves(x, files)
      BY <1>2, <2>2 DEF DecisionIs
    <3>3. QED
      BY <3>1, <3>2 DEF Parse
  <2>5. /\ after.rules = Start.rules
        /\ after.max_changed_files = Start.max_changed_files
        /\ after.blocked_users = Start.blocked_users
        /\ after.auto_merge = Start.auto_merge
        /\ after.protect.dot_github = Start.protect.dot_github
        /\ after.protect.config_file = Start.protect.config_file
        /\ after.protect.paths = Append(Start.protect.paths, g)
        /\ Start.protect.paths \in Seq(GlobType)
    BY <2>3 DEF Configs, Protections
  <2> HIDE DEF after
  <2>6. ASSUME NEW x \in Configs
        PROVE  /\ applyDefaults(x) \in Configs
               /\ applyDefaults(x).rules = x.rules
               /\ applyDefaults(x).protect = x.protect
               /\ applyDefaults(x).blocked_users = x.blocked_users
               /\ applyDefaults(x).auto_merge = x.auto_merge
               /\ applyDefaults(x).max_changed_files =
                    IF x.max_changed_files = 0 THEN DefaultMaxChangedFiles
                    ELSE x.max_changed_files
    BY MaxFilesType DEF applyDefaults, Configs
  <2>7. /\ c \in Configs /\ d \in Configs
        /\ d.rules = c.rules /\ d.max_changed_files = c.max_changed_files
        /\ d.blocked_users = c.blocked_users /\ d.auto_merge = c.auto_merge
        /\ d.protect.dot_github = c.protect.dot_github
        /\ d.protect.config_file = c.protect.config_file
        /\ d.protect.paths = Append(c.protect.paths, g)
        /\ c.protect.paths \in Seq(GlobType)
    BY <2>3, <2>5, <2>6
  <2>8. c.rules = Start.rules
    BY <2>3, <2>6
  <2> HIDE DEF c, d
  <2>9. \A i \in DOMAIN c.protect.paths :
          i \in DOMAIN d.protect.paths /\ d.protect.paths[i] = c.protect.paths[i]
    BY <2>7
  <2>10. Approves(c, files)
    BY <2>2, <2>4, <2>7, <2>9, FewerGuards
  <2>11. CASE yml = {}
    <3>1. Start.rules = << >>
      BY <2>11 DEF Start, Blank, Default
    <3>2. QED
      BY <2>2, <2>7, <2>8, <2>10, <3>1, NoRules
  <2>12. CASE yml # {}
    <3>1. yml = {Start}
      BY <1>2, <2>12, Starts
    <3>2. Loaded = Parse(Start)
      BY <3>1 DEF Loaded, Load
    <3>3. Validate(c)
      BY <2>4, <2>7, <2>9 DEF Validate
    <3>4. c \in Loaded
      BY <3>2, <3>3 DEF Parse, c
    <3>5. QED
      BY <1>2, <2>10, <3>4 DEF DecisionIs
  <2>13. QED
    BY <2>11, <2>12
<1>3. TypeOK /\ TypeOK' /\ DecisionIs /\ DecisionIs' =>
        [Protect \/ Block => (Decision' = "approve" => Decision = "approve")]_vars
  BY <1>1, <1>2
<1>4. QED
  BY <1>3, Decided, TypeCorrect, PTL DEF GuardsOnlyRestrict

-----------------------------------------------------------------------------
(* Of the author's teams a decision depends on those its rules name, which *)
(* are the ones resolveAuthorTeams asks GitHub about (approver.go:322-357):*)
(* what Approver assumes of Verdict and TeamHandles.  A handle without an  *)
(* org or a slug names no team anybody is in.                              *)
THEOREM NamedTeamsDecide ==
  ASSUME NEW cfg, NEW fs, NEW author,
         NEW ts \in SUBSET ((STRING \ {""}) \X (STRING \ {""}))
  PROVE  Decide(cfg, fs, author, ts)
           = Decide(cfg, fs, author, ts \intersect NamedTeams(cfg))
<1> DEFINE us == ts \intersect NamedTeams(cfg)
<1>1. ASSUME NEW i \in DOMAIN cfg.rules
      PROVE  authorAllowed(cfg.rules[i], author, ts)
               <=> authorAllowed(cfg.rules[i], author, us)
  <2>1. ASSUME NEW j \in DOMAIN cfg.rules[i].allow
        PROVE  principalMatches(cfg.rules[i].allow[j], author, ts)
                 <=> principalMatches(cfg.rules[i].allow[j], author, us)
    <3> DEFINE h == cfg.rules[i].allow[j]
    <3>1. CASE ~h.team
      BY <3>1 DEF principalMatches
    <3>2. CASE h.team
      <4>1. <<h.org, h.name>> \in ts => SplitTeam(h)
        BY <3>2 DEF SplitTeam
      <4>2. SplitTeam(h) => <<h.org, h.name>> \in NamedTeams(cfg)
        <5> DEFINE handles == UNION {{cfg.rules[k].allow[l] : l \in DOMAIN cfg.rules[k].allow}
                                       : k \in DOMAIN cfg.rules}
        <5> DEFINE A(k) == {cfg.rules[k].allow[l] : l \in DOMAIN cfg.rules[k].allow}
        <5>0. h \in A(i)
          OBVIOUS
        <5>1. h \in UNION {A(k) : k \in DOMAIN cfg.rules}
          <6> HIDE DEF A, h
          <6> QED
            BY <5>0
        <5>2. NamedTeams(cfg) = {<<g.org, g.name>> : g \in {f \in handles : SplitTeam(f)}}
          BY DEF NamedTeams
        <5>3. h \in handles
          BY <5>1
        <5> HIDE DEF handles, h
        <5> QED
          BY <5>2, <5>3
      <4> QED
        BY <3>2, <4>1, <4>2 DEF principalMatches
    <3> QED
      BY <3>1, <3>2
  <2> QED
    BY <2>1 DEF authorAllowed
<1>2. ASSUME NEW p, NEW kinds
      PROVE  evaluatePath(cfg, author, p, ts, kinds)
               = evaluatePath(cfg, author, p, us, kinds)
  <2>1. ASSUME NEW i \in DOMAIN cfg.rules
        PROVE  Answer(authorAllowed(cfg.rules[i], author, ts)
                        /\ constraintSatisfied(cfg.rules[i], kinds))
                 = Answer(authorAllowed(cfg.rules[i], author, us)
                            /\ constraintSatisfied(cfg.rules[i], kinds))
    BY <1>1 DEF Answer
  <2>2. ruleAllows(cfg, author, p, ts, kinds) = ruleAllows(cfg, author, p, us, kinds)
    BY <2>1 DEF ruleAllows
  <2> QED
    BY <2>2 DEF evaluatePath
<1> DEFINE A(i) == {evaluatePath(cfg, author, p, ts, FileKinds(cfg, fs, i))
                     : p \in TouchedPaths(fs[i])}
           B(i) == {evaluatePath(cfg, author, p, us, FileKinds(cfg, fs, i))
                     : p \in TouchedPaths(fs[i])}
<1>3. ASSUME NEW i
      PROVE  A(i) = B(i)
  <2>1. \A p : evaluatePath(cfg, author, p, ts, FileKinds(cfg, fs, i))
                = evaluatePath(cfg, author, p, us, FileKinds(cfg, fs, i))
    BY <1>2
  <2> QED
    BY <2>1
<1>4. UNION {A(i) : i \in DOMAIN fs} = UNION {B(i) : i \in DOMAIN fs}
  <2> HIDE DEF A, B
  <2> QED
    BY <1>3
<1> QED
  BY <1>4 DEF Decide
=============================================================================
