---------------------------- MODULE ChangeProofs ----------------------------
(***************************************************************************)
(* What analyzeChange answers, for every patch: the loop over the removed  *)
(* lines pairs each with an added line of its own, so a clean answer is a  *)
(* one-to-one pairing of all the lines.                                    *)
(*                                                                         *)
(* The loop is a recursive function of the number of turns.  Facts about   *)
(* it are proved by its least counterexample: WFMin gives a set of         *)
(* naturals a least element.                                               *)
(***************************************************************************)
EXTENDS Change, TLAPS, WellFoundedInduction, NaturalsInduction,
        SequenceTheorems, FiniteSetTheorems

TypeOK == removed \in Seq(Lines) /\ added \in Seq(Lines)

-----------------------------------------------------------------------------
(* A set of naturals that is not empty has a least element.                *)
LEMMA Least ==
  ASSUME NEW S, S \subseteq Nat, S # {}
  PROVE  \E x \in S : \A y \in S : x <= y
<1>1. IsWellFoundedOn(OpToRel(<, Nat), Nat)
  BY NatLessThanWellFounded
<1>2. PICK x \in S : \A y \in S : ~(<<y, x>> \in OpToRel(<, Nat))
  BY <1>1, WFMin
<1>3. ASSUME NEW y \in S PROVE ~(y < x)
  <2>1. SUFFICES ASSUME y < x PROVE <<y, x>> \in OpToRel(<, Nat)
    BY <1>2
  <2>2. <<y, x>> \in Nat \X Nat
    OBVIOUS
  <2>3. QED
    BY <2>1, <2>2 DEF OpToRel
<1>4. QED
  BY <1>3

(* Min, as the code's first index that fits, is in the set.                *)
LEMMA MinIsLeast ==
  ASSUME NEW S, S \subseteq Nat, S # {}
  PROVE  Min(S) \in S /\ \A y \in S : Min(S) <= y
BY Least DEF Min

-----------------------------------------------------------------------------
Loop(g, n) ==
  [i \in 0..n |-> IF i = 0 THEN [consumed |-> {}, kinds |-> {}]
                  ELSE classify(g[i - 1], removed[i])]

(* The recursion of the loop has a solution for any number of turns.       *)
LEMMA LoopSolves ==
  ASSUME NEW n \in Nat
  PROVE  \E g : g = Loop(g, n)
<1> DEFINE Bad == {k \in Nat : ~ \E g : g = Loop(g, k)}
<1>1. SUFFICES ASSUME Bad # {} PROVE FALSE
  OBVIOUS
<1>2. PICK m \in Bad : \A k \in Bad : m <= k
  BY <1>1, Least
<1>3. CASE m = 0
  <2> DEFINE h == [i \in 0..0 |-> [consumed |-> {}, kinds |-> {}]]
  <2>1. h = Loop(h, 0)
    BY DEF Loop
  <2>2. QED
    BY <1>3, <2>1
<1>4. CASE m # 0
  <2>1. m - 1 \in Nat /\ m - 1 \notin Bad
    BY <1>2, <1>4
  <2>2. PICK g : g = Loop(g, m - 1)
    BY <2>1
  <2> DEFINE h == [i \in 0..m |-> IF i < m THEN g[i]
                                  ELSE classify(g[m - 1], removed[m])]
  <2>3. ASSUME NEW i \in 0..m
        PROVE  h[i] = IF i = 0 THEN [consumed |-> {}, kinds |-> {}]
                      ELSE classify(h[i - 1], removed[i])
    <3>1. \A j \in 0..(m - 1) :
            g[j] = IF j = 0 THEN [consumed |-> {}, kinds |-> {}]
                   ELSE classify(g[j - 1], removed[j])
      BY <2>2 DEF Loop
    <3>2. CASE i = 0
      BY <1>4, <2>1, <3>1, <3>2
    <3>3. CASE i # 0 /\ i < m
      BY <2>1, <3>1, <3>3
    <3>4. CASE i = m
      BY <1>4, <2>1, <3>4
    <3>5. QED
      BY <3>2, <3>3, <3>4
  <2>4. h = Loop(h, m)
    BY <2>3 DEF Loop
  <2>5. QED
    BY <2>4
<1>5. QED
  BY <1>3, <1>4

(* The loop's state after n turns, from its state a turn before.           *)
LEMMA Turns ==
  ASSUME TypeOK
  PROVE  /\ collected[0] = [consumed |-> {}, kinds |-> {}]
         /\ \A n \in 1..Len(removed) :
              collected[n] = classify(collected[n - 1], removed[n])
<1>1. Len(removed) \in Nat
  BY DEF TypeOK
<1>2. \E g : g = Loop(g, Len(removed))
  BY <1>1, LoopSolves
<1>3. collected = CHOOSE g : g = Loop(g, Len(removed))
  BY DEF collected, Loop
<1>4. collected = Loop(collected, Len(removed))
  BY <1>2, <1>3
<1>5. \A i \in 0..Len(removed) :
        collected[i] = IF i = 0 THEN [consumed |-> {}, kinds |-> {}]
                       ELSE classify(collected[i - 1], removed[i])
  BY <1>4, Zenon DEF Loop
<1>6. QED
  BY <1>1, <1>5

-----------------------------------------------------------------------------
Numbers == [1..4 -> Nat]

(* Precedence is decided by the level that leads.                          *)
LEMMA LeadsIsBump ==
  ASSUME NEW m \in Numbers, NEW n \in Numbers, NEW k \in Levels
  PROVE  Leads(k, m, n) <=>
           /\ Precedes(m, n)
           /\ k = IF n[1] # m[1] THEN "major"
                  ELSE IF n[2] # m[2] THEN "minor" ELSE "patch"
<1> DEFINE level == IF n[1] # m[1] THEN "major"
                    ELSE IF n[2] # m[2] THEN "minor" ELSE "patch"
<1>1. /\ m[1] \in Nat /\ m[2] \in Nat /\ m[3] \in Nat /\ m[4] \in Nat
      /\ n[1] \in Nat /\ n[2] \in Nat /\ n[3] \in Nat /\ n[4] \in Nat
  BY DEF Numbers
<1>2. Precedes(m, n) <=>
        \/ m[1] < n[1]
        \/ m[1] = n[1] /\ m[2] < n[2]
        \/ m[1] = n[1] /\ m[2] = n[2] /\ m[3] < n[3]
        \/ m[1] = n[1] /\ m[2] = n[2] /\ m[3] = n[3] /\ m[4] < n[4]
  <2>1. \A i \in 1..4 : i = 1 \/ i = 2 \/ i = 3 \/ i = 4
    OBVIOUS
  <2>2. 1..0 = {} /\ 1..1 = {1} /\ 1..2 = {1, 2} /\ 1..3 = {1, 2, 3}
    OBVIOUS
  <2>3. Precedes(m, n) <=>
          \/ m[1] < n[1] /\ \A j \in 1..0 : m[j] = n[j]
          \/ m[2] < n[2] /\ \A j \in 1..1 : m[j] = n[j]
          \/ m[3] < n[3] /\ \A j \in 1..2 : m[j] = n[j]
          \/ m[4] < n[4] /\ \A j \in 1..3 : m[j] = n[j]
    BY <2>1 DEF Precedes
  <2>4. QED
    BY <2>2, <2>3
<1>3. CASE k = "major"
  BY <1>1, <1>2, <1>3 DEF Leads
<1>4. CASE k = "minor"
  BY <1>1, <1>2, <1>4 DEF Leads
<1>5. CASE k = "patch"
  BY <1>1, <1>2, <1>5 DEF Leads
<1>6. QED
  BY <1>3, <1>4, <1>5 DEF Levels

(* A version that changes is bumped by the one level that leads, or its    *)
(* kind is unknown.                                                        *)
LEMMA BumpIsLead ==
  ASSUME NEW from \in Versions, NEW to \in Versions, from # to
  PROVE  \/ /\ BumpKinds(from, to) = {"unknown"}
            /\ \A k \in Levels :
                 ~(from.n # << >> /\ to.n # << >> /\ Leads(k, from.n, to.n))
         \/ \E k \in Levels :
              /\ BumpKinds(from, to) = {k}
              /\ from.n \in Numbers /\ to.n \in Numbers
              /\ from.n # << >> /\ to.n # << >>
              /\ Leads(k, from.n, to.n)
              /\ \A l \in Levels : Leads(l, from.n, to.n) => l = k
<1>1. /\ from.n = << >> \/ from.n \in Numbers
      /\ to.n = << >> \/ to.n \in Numbers
  BY DEF Versions, Numbers
<1>2. CASE from.n = << >> \/ to.n = << >>
  BY <1>2 DEF BumpKinds, bumpLevel
<1>3. CASE from.n # << >> /\ to.n # << >>
  <2>1. CASE ~Precedes(from.n, to.n)
    BY <1>1, <1>3, <2>1, LeadsIsBump DEF BumpKinds, bumpLevel
  <2>2. CASE Precedes(from.n, to.n)
    <3> DEFINE k == IF to.n[1] # from.n[1] THEN "major"
                    ELSE IF to.n[2] # from.n[2] THEN "minor" ELSE "patch"
    <3>1. k \in Levels /\ bumpLevel(from, to) = {k} /\ {k} # {}
      BY <1>3, <2>2 DEF bumpLevel, Levels
    <3>2. BumpKinds(from, to) = {k}
      BY <3>1 DEF BumpKinds
    <3>3. \A l \in Levels : Leads(l, from.n, to.n) <=> l = k
      BY <1>1, <1>3, <2>2, LeadsIsBump
    <3>4. QED
      BY <1>1, <1>3, <3>1, <3>2, <3>3
  <2>3. QED
    BY <2>1, <2>2
<1>4. QED
  BY <1>2, <1>3

(* The sequences of a line.                                                *)
LEMMA LineSeqs ==
  ASSUME NEW l \in Lines
  PROVE  /\ l.vers \in Seq(Versions) /\ l.shas \in Seq(STRING)
         /\ DOMAIN l.vers = 1..Len(l.vers) /\ Len(l.vers) \in Nat
         /\ DOMAIN l.shas = 1..Len(l.shas) /\ Len(l.shas) \in Nat
         /\ \A i \in DOMAIN l.vers : l.vers[i] \in Versions
<1>1. l \in [text : STRING, vers : Seq(Versions), shas : Seq(STRING)]
  BY LinesType
<1>2. l.vers \in Seq(Versions) /\ l.shas \in Seq(STRING)
  BY <1>1
<1>3. QED
  BY <1>2

Fits(old, new) ==
  classifyPair(old, new) # {} /\ "unknown" \notin classifyPair(old, new)

(* The code's test of a pair and the reference's: a pair of lines is clean *)
(* with no more than these kinds exactly when they permit it.              *)
LEMMA FitsIsPermitted ==
  ASSUME NEW old \in Lines, NEW new \in Lines, NEW kinds
  PROVE  Permitted(old, new, kinds) <=>
           Fits(old, new) /\ classifyPair(old, new) \subseteq kinds
<1> DEFINE B(i) == BumpKinds(old.vers[i], new.vers[i])
<1> DEFINE Dom == DOMAIN old.vers
<1>1. CASE ~SameButTokens(old, new)
  <2>1. classifyPair(old, new) = {}
    <3>1. \/ old.text # new.text \/ Len(old.vers) # Len(new.vers)
          \/ Len(old.shas) # Len(new.shas)
      BY <1>1, LineSeqs DEF SameButTokens
    <3>2. QED
      BY <3>1 DEF classifyPair
  <2>2. QED
    BY <1>1, <2>1 DEF Fits, Permitted
<1>2. CASE SameButTokens(old, new)
  <2>1. Len(old.vers) = Len(new.vers) /\ Len(old.shas) = Len(new.shas)
        /\ old.text = new.text /\ DOMAIN new.vers = Dom
    <3>1. 1..Len(old.vers) = 1..Len(new.vers) /\ 1..Len(old.shas) = 1..Len(new.shas)
      BY <1>2, LineSeqs DEF SameButTokens
    <3>2. \A a, b \in Nat : 1..a = 1..b => a = b
      <4>1. SUFFICES ASSUME NEW a \in Nat, NEW b \in Nat, 1..a = 1..b, a < b
                     PROVE  FALSE
        OBVIOUS
      <4>2. b \in 1..b /\ b \notin 1..a
        BY <4>1
      <4>3. QED
        BY <4>1, <4>2
    <3>3. QED
      BY <1>2, <3>1, <3>2, LineSeqs DEF SameButTokens
  <2>2. CASE old.shas # new.shas
    <3>1. classifyPair(old, new) = {"sha"}
      BY <2>1, <2>2 DEF classifyPair
    <3>2. old # new
      BY <2>2
    <3>3. QED
      BY <1>2, <2>2, <3>1, <3>2 DEF Fits, Permitted
  <2>3. CASE old.shas = new.shas
    <3>1. classifyPair(old, new) = UNION {B(i) : i \in Dom}
      BY <2>1, <2>3 DEF classifyPair
    <3>2. ASSUME NEW i \in Dom
          PROVE  old.vers[i] \in Versions /\ new.vers[i] \in Versions
      BY <2>1, LineSeqs
    <3>3. ASSUME NEW i \in Dom, old.vers[i] = new.vers[i]
          PROVE  B(i) = {}
      BY <3>3 DEF BumpKinds
    <3>4. ASSUME NEW i \in Dom, old.vers[i] # new.vers[i]
          PROVE  /\ B(i) # {}
                 /\ "unknown" \notin B(i) /\ B(i) \subseteq kinds <=>
                      /\ old.vers[i].n # << >> /\ new.vers[i].n # << >>
                      /\ \E k \in kinds \intersect Levels :
                           Leads(k, old.vers[i].n, new.vers[i].n)
      <4>1. "unknown" \notin Levels
        BY DEF Levels
      <4>2. QED
        BY <3>2, <3>4, <4>1, BumpIsLead
    <3>5. old # new <=> \E i \in Dom : old.vers[i] # new.vers[i]
      <4>1. ASSUME \A i \in Dom : old.vers[i] = new.vers[i]
            PROVE  old = new
        <5>1. old.vers = new.vers
          BY <2>1, <4>1, LineSeqs, SeqEqual
        <5>2. /\ old \in [text : STRING, vers : Seq(Versions), shas : Seq(STRING)]
              /\ new \in [text : STRING, vers : Seq(Versions), shas : Seq(STRING)]
          BY LinesType
        <5>3. QED
          BY <2>1, <2>3, <5>1, <5>2
      <4>2. QED
        BY <4>1
    <3>6. Fits(old, new) /\ classifyPair(old, new) \subseteq kinds <=>
            /\ \E i \in Dom : B(i) # {}
            /\ \A i \in Dom : "unknown" \notin B(i) /\ B(i) \subseteq kinds
      BY <3>1 DEF Fits
    <3>7. QED
      BY <1>2, <2>3, <3>3, <3>4, <3>5, <3>6 DEF Permitted
  <2>4. QED
    BY <2>2, <2>3
<1>3. QED
  BY <1>1, <1>2

-----------------------------------------------------------------------------
Kinds == Levels \union {"sha", "unknown"}

Collections == [consumed : SUBSET (DOMAIN added), kinds : SUBSET Kinds]

(* The kinds of a pair are among those of change.go.                       *)
LEMMA PairKinds ==
  ASSUME NEW old \in Lines, NEW new \in Lines
  PROVE  classifyPair(old, new) \subseteq Kinds
<1>1. CASE classifyPair(old, new) \in {{}, {"sha"}}
  BY <1>1 DEF Kinds
<1>2. CASE ~(classifyPair(old, new) \in {{}, {"sha"}})
  <2>1. /\ Len(old.vers) = Len(new.vers)
        /\ classifyPair(old, new) =
             UNION {BumpKinds(old.vers[i], new.vers[i]) : i \in DOMAIN old.vers}
    BY <1>2 DEF classifyPair
  <2>2. ASSUME NEW i \in DOMAIN old.vers
        PROVE  BumpKinds(old.vers[i], new.vers[i]) \subseteq Kinds
    <3>1. old.vers[i] \in Versions /\ new.vers[i] \in Versions
      BY <2>1, LineSeqs
    <3>2. CASE old.vers[i] = new.vers[i]
      BY <3>2 DEF BumpKinds
    <3>3. CASE old.vers[i] # new.vers[i]
      BY <3>1, <3>3, BumpIsLead DEF Kinds
    <3>4. QED
      BY <3>2, <3>3
  <2>3. QED
    BY <2>1, <2>2
<1>3. QED
  BY <1>1, <1>2

(* One turn: the line takes the first added line that is left and fits, or *)
(* leaves the mark of having found none.                                   *)
LEMMA OneTurn ==
  ASSUME TypeOK, NEW c \in Collections, NEW line \in Lines
  PROVE  \/ /\ \A i \in DOMAIN added \ c.consumed :
                 classifyPair(line, added[i]) = {}
            /\ classify(c, line) =
                 [consumed |-> c.consumed, kinds |-> c.kinds \union {"unknown"}]
         \/ \E i \in DOMAIN added \ c.consumed :
              /\ classifyPair(line, added[i]) # {}
              /\ classify(c, line) =
                   [consumed |-> c.consumed \union {i},
                    kinds |-> c.kinds \union classifyPair(line, added[i])]
<1> DEFINE fits == {i \in DOMAIN added \ c.consumed :
                      classifyPair(line, added[i]) # {}}
<1>1. DOMAIN added \subseteq Nat
  BY DEF TypeOK
<1>2. CASE fits = {}
  <2>1. classify(c, line) = [c EXCEPT !.kinds = @ \union {"unknown"}]
    BY <1>2 DEF classify
  <2>2. QED
    BY <1>2, <2>1 DEF Collections
<1>3. CASE fits # {}
  <2>1. Min(fits) \in fits
    BY <1>1, <1>3, MinIsLeast
  <2>2. classify(c, line) =
          [consumed |-> c.consumed \union {Min(fits)},
           kinds |-> c.kinds \union classifyPair(line, added[Min(fits)])]
    BY <1>3, Zenon DEF classify
  <2>3. QED
    BY <2>1, <2>2
<1>4. QED
  BY <1>2, <1>3

(* The loop's invariant: as long as no line was left unmatched, f pairs    *)
(* the first n removed lines with the added lines consumed, one to one,    *)
(* and the kinds are those of the pairs.                                   *)
PairsUp(f, n, c) ==
  /\ f \in [1..n -> DOMAIN added]
  /\ \A i, j \in 1..n : f[i] = f[j] => i = j
  /\ c.consumed = {f[i] : i \in 1..n}
  /\ \A i \in 1..n : Fits(removed[i], added[f[i]])
  /\ c.kinds = UNION {classifyPair(removed[i], added[f[i]]) : i \in 1..n}

LoopInv(n) ==
  /\ collected[n] \in Collections
  /\ "unknown" \notin collected[n].kinds => \E f : PairsUp(f, n, collected[n])

(* A turn keeps the loop's invariant.                                      *)
LEMMA LoopStep ==
  ASSUME TypeOK, NEW n \in 1..Len(removed), LoopInv(n - 1)
  PROVE  LoopInv(n)
<1> DEFINE c == collected[n - 1]
           d == collected[n]
           line == removed[n]
<1>1. Len(removed) \in Nat /\ n \in Nat /\ n - 1 \in Nat /\ line \in Lines
      /\ \A i \in DOMAIN added : added[i] \in Lines
  BY DEF TypeOK
<1>2. c \in Collections /\ d = classify(c, line)
  BY Turns DEF LoopInv
<1>3. CASE d = [consumed |-> c.consumed, kinds |-> c.kinds \union {"unknown"}]
  BY <1>2, <1>3 DEF LoopInv, Collections, Kinds
<1>4. ASSUME NEW m \in DOMAIN added \ c.consumed,
             classifyPair(line, added[m]) # {},
             d = [consumed |-> c.consumed \union {m},
                  kinds |-> c.kinds \union classifyPair(line, added[m])]
      PROVE  LoopInv(n)
  <2>1. classifyPair(line, added[m]) \subseteq Kinds
    BY <1>1, PairKinds
  <2>2. d \in Collections
    BY <1>2, <1>4, <2>1 DEF Collections
  <2>3. ASSUME "unknown" \notin d.kinds
        PROVE  \E f : PairsUp(f, n, d)
    <3>1. "unknown" \notin c.kinds /\ Fits(line, added[m])
      BY <1>4, <2>3 DEF Fits
    <3>2. PICK f : PairsUp(f, n - 1, c)
      BY <3>1 DEF LoopInv
    <3> DEFINE g == [i \in 1..n |-> IF i = n THEN m ELSE f[i]]
    <3>3. \A i \in 1..n : i = n \/ i \in 1..(n - 1)
      BY <1>1
    <3>4. g[n] = m /\ \A i \in 1..(n - 1) : g[i] = f[i] /\ i # n /\ i \in 1..n
      BY <1>1
    <3>5. /\ f \in [1..(n - 1) -> DOMAIN added]
          /\ \A i, j \in 1..(n - 1) : f[i] = f[j] => i = j
          /\ c.consumed = {f[i] : i \in 1..(n - 1)}
          /\ \A i \in 1..(n - 1) : Fits(removed[i], added[f[i]])
          /\ c.kinds = UNION {classifyPair(removed[i], added[f[i]]) :
                                i \in 1..(n - 1)}
      BY <3>2 DEF PairsUp
    <3>6. g \in [1..n -> DOMAIN added]
      BY <1>4, <3>5, <3>3
    <3> HIDE DEF g
    <3>7. \A i, j \in 1..n : g[i] = g[j] => i = j
      BY <1>4, <3>3, <3>4, <3>5
    <3>8. d.consumed = {g[i] : i \in 1..n}
      BY <1>1, <1>4, <3>3, <3>4, <3>5
    <3>9. \A i \in 1..n : Fits(removed[i], added[g[i]])
      BY <3>1, <3>3, <3>4, <3>5
    <3>10. d.kinds = UNION {classifyPair(removed[i], added[g[i]]) : i \in 1..n}
      <4>1. d.kinds = c.kinds \union classifyPair(line, added[m])
        BY <1>4
      <4>2. \A k : k \in c.kinds <=>
              \E i \in 1..(n - 1) : k \in classifyPair(removed[i], added[g[i]])
        BY <3>4, <3>5
      <4>3. \A k : k \in d.kinds <=>
              \E i \in 1..n : k \in classifyPair(removed[i], added[g[i]])
        BY <1>1, <3>3, <3>4, <4>1, <4>2
      <4>4. QED
        BY <4>3
    <3>11. QED
      BY <3>6, <3>7, <3>8, <3>9, <3>10 DEF PairsUp
  <2>4. QED
    BY <2>2, <2>3 DEF LoopInv
<1>5. \/ classify(c, line) =
           [consumed |-> c.consumed, kinds |-> c.kinds \union {"unknown"}]
      \/ \E m \in DOMAIN added \ c.consumed :
           /\ classifyPair(line, added[m]) # {}
           /\ classify(c, line) =
                [consumed |-> c.consumed \union {m},
                 kinds |-> c.kinds \union classifyPair(line, added[m])]
  <2> HIDE DEF c, line
  <2>1. QED
    BY <1>1, <1>2, OneTurn
<1>6. QED
  BY <1>2, <1>3, <1>4, <1>5

(* The loop's invariant holds after any number of turns.                   *)
LEMMA LoopHolds ==
  ASSUME TypeOK, NEW n \in 0..Len(removed)
  PROVE  LoopInv(n)
<1> DEFINE Bad == {k \in 0..Len(removed) : ~LoopInv(k)}
<1>1. SUFFICES ASSUME Bad # {} PROVE FALSE
  OBVIOUS
<1>2. Bad \subseteq Nat
  OBVIOUS
<1>3. PICK m \in Bad : \A k \in Bad : m <= k
  BY <1>1, <1>2, Least
<1>4. CASE m = 0
  <2>1. collected[0] = [consumed |-> {}, kinds |-> {}]
    BY Turns
  <2> DEFINE f == [i \in 1..0 |-> 0]
  <2>2. PairsUp(f, 0, collected[0])
    <3>1. 1..0 = {}
      OBVIOUS
    <3>2. f \in [1..0 -> DOMAIN added]
      BY <3>1
    <3>3. QED
      BY <2>1, <3>1, <3>2 DEF PairsUp
  <2>3. collected[0] \in Collections
    BY <2>1 DEF Collections
  <2>4. QED
    BY <1>3, <1>4, <2>2, <2>3 DEF LoopInv
<1>5. CASE m # 0
  <2>1. m \in 1..Len(removed) /\ m - 1 \in 0..Len(removed) /\ m - 1 \notin Bad
    BY <1>2, <1>3, <1>5 DEF TypeOK
  <2>2. QED
    BY <1>3, <2>1, LoopStep
<1>6. QED
  BY <1>4, <1>5

(* As many lines as there are, one to one, are as many lines.              *)
LEMMA OneToOne ==
  ASSUME NEW m \in Nat, NEW n \in Nat, NEW f \in Injection(1..m, 1..n)
  PROVE  m <= n /\ (m = n <=> f \in Surjection(1..m, 1..n))
<1>1. /\ IsFiniteSet(1..n) /\ Cardinality(1..n) = n
      /\ IsFiniteSet(1..m) /\ Cardinality(1..m) = m
  BY FS_Interval
<1>2. QED
  BY <1>1, FS_Injection

(* What a clean answer stands for.                                         *)
CleanBy(f) ==
  /\ f \in Pairings
  /\ \A i \in DOMAIN removed : Fits(removed[i], added[f[i]])
  /\ analyzeChange = UNION {classifyPair(removed[i], added[f[i]]) :
                              i \in DOMAIN removed}

(* The lines of a patch, by their numbers.                                 *)
LEMMA Domains ==
  ASSUME TypeOK
  PROVE  /\ Len(removed) \in Nat /\ DOMAIN removed = 1..Len(removed)
         /\ Len(added) \in Nat /\ DOMAIN added = 1..Len(added)
         /\ \A i \in DOMAIN removed : removed[i] \in Lines
         /\ \A i \in DOMAIN added : added[i] \in Lines
BY DEF TypeOK

(* Behind a clean answer stands a pairing of all the lines, and its kinds. *)
LEMMA CleanPairs ==
  ASSUME TypeOK, Clean
  PROVE  Len(removed) = Len(added) /\ \E f : CleanBy(f)
<1> DEFINE c == collected[Len(removed)]
<1>1. /\ "unknown" \notin c.kinds
      /\ DOMAIN added \subseteq c.consumed /\ analyzeChange = c.kinds
  <2>1. ~(Len(removed) > MaxPatchLines \/ Len(added) > MaxPatchLines)
    BY DEF Clean, analyzeChange
  <2>2. analyzeChange = c.kinds \union Unpaired(c.consumed)
    BY <2>1 DEF analyzeChange
  <2>3. QED
    BY <2>2 DEF Clean, Unpaired
<1>2. PICK f : PairsUp(f, Len(removed), c)
  BY <1>1, LoopHolds, Domains DEF LoopInv
<1>3. CleanBy(f)
  BY <1>1, <1>2, Domains DEF CleanBy, PairsUp, Pairings
<1>4. f \in Injection(1..Len(removed), 1..Len(added))
  BY <1>2, Domains DEF PairsUp, Injection, IsInjective
<1>5. Len(removed) = Len(added)
  <2>1. \A j \in 1..Len(added) : \E i \in 1..Len(removed) : f[i] = j
    BY <1>1, <1>2, Domains DEF PairsUp
  <2>2. f \in Surjection(1..Len(removed), 1..Len(added))
    BY <1>4, <2>1 DEF Injection, Surjection
  <2>3. QED
    BY <1>4, <2>2, OneToOne, Domains
<1>6. QED
  BY <1>3, <1>5

(* Each pair of the loop is a change that the reported kinds permit.       *)
LEMMA CleanAccounted ==
  ASSUME TypeOK
  PROVE  CleanIsAccounted
<1>1. SUFFICES ASSUME Clean PROVE Accounted(analyzeChange)
  BY DEF CleanIsAccounted
<1>2. PICK f : CleanBy(f)
  BY <1>1, CleanPairs
<1>3. ASSUME NEW i \in DOMAIN removed
      PROVE  Permitted(removed[i], added[f[i]], analyzeChange)
  <2>1. f[i] \in DOMAIN added
    BY <1>2 DEF CleanBy, Pairings
  <2>2. classifyPair(removed[i], added[f[i]]) \subseteq analyzeChange
    BY <1>2 DEF CleanBy
  <2>3. QED
    BY <1>2, <2>1, <2>2, Domains, FitsIsPermitted DEF CleanBy
<1>4. QED
  BY <1>1, <1>2, <1>3, CleanPairs DEF Accounted, CleanBy

-----------------------------------------------------------------------------
(* Lines that pair have the same text.                                     *)
LEMMA FitsSameText ==
  ASSUME NEW old, NEW new, classifyPair(old, new) # {}
  PROVE  old.text = new.text
BY DEF classifyPair

(* Where each added text occurs once, the loop has no choice: it takes the *)
(* pairs that account for the patch.                                       *)
LEMMA LoopFollows ==
  ASSUME TypeOK, OnePerText(added), NEW g \in Pairings,
         \A i \in DOMAIN removed : Fits(removed[i], added[g[i]]),
         NEW n \in 0..Len(removed)
  PROVE  /\ collected[n].consumed = {g[i] : i \in 1..n}
         /\ "unknown" \notin collected[n].kinds
<1> DEFINE Follows(k) == /\ collected[k].consumed = {g[i] : i \in 1..k}
                         /\ "unknown" \notin collected[k].kinds
           Bad == {k \in 0..Len(removed) : ~Follows(k)}
<1>1. SUFFICES ASSUME Bad # {} PROVE FALSE
  OBVIOUS
<1>2. Bad \subseteq Nat
  OBVIOUS
<1>3. PICK m \in Bad : \A k \in Bad : m <= k
  BY <1>1, <1>2, Least
<1>4. CASE m = 0
  <2>1. 1..0 = {}
    OBVIOUS
  <2>2. QED
    BY <1>3, <1>4, <2>1, Turns
<1>5. CASE m # 0
  <2> DEFINE c == collected[m - 1]
             line == removed[m]
  <2>1. /\ m \in 1..Len(removed) /\ m - 1 \in 0..Len(removed)
        /\ m - 1 \notin Bad /\ m \in DOMAIN removed
    BY <1>2, <1>3, <1>5, Domains
  <2>2. c.consumed = {g[i] : i \in 1..(m - 1)} /\ "unknown" \notin c.kinds
    BY <2>1
  <2>3. c \in Collections
    BY <2>1, LoopHolds DEF LoopInv
  <2>4. collected[m] = classify(c, line) /\ line \in Lines
    BY <2>1, Turns, Domains
  <2>5. g[m] \in DOMAIN added \ c.consumed
    BY <2>1, <2>2, Domains DEF Pairings
  <2>6. classifyPair(line, added[g[m]]) # {}
        /\ "unknown" \notin classifyPair(line, added[g[m]])
    BY <2>1 DEF Fits
  <2>7. ASSUME NEW i \in DOMAIN added, classifyPair(line, added[i]) # {}
        PROVE  i = g[m]
    <3>1. added[i].text = added[g[m]].text
      BY <2>6, <2>7, FitsSameText
    <3>2. QED
      BY <2>5, <3>1 DEF OnePerText
  <2>8. classify(c, line) =
          [consumed |-> c.consumed \union {g[m]},
           kinds |-> c.kinds \union classifyPair(line, added[g[m]])]
    <3> HIDE DEF c, line
    <3>1. QED
      BY <2>3, <2>4, <2>5, <2>6, <2>7, OneTurn
  <2>9. collected[m].consumed = {g[i] : i \in 1..m}
    <3>1. \A i \in 1..m : i = m \/ i \in 1..(m - 1)
      BY <2>1
    <3>2. m \in 1..m /\ 1..(m - 1) \subseteq 1..m
      BY <2>1
    <3>3. QED
      BY <2>2, <2>4, <2>8, <3>1, <3>2
  <2>10. "unknown" \notin collected[m].kinds
    BY <2>2, <2>4, <2>6, <2>8
  <2>11. QED
    BY <1>3, <2>9, <2>10
<1>6. QED
  BY <1>4, <1>5

(* With one line of each text there is one pairing, and the loop finds it. *)
LEMMA ExactTexts ==
  ASSUME TypeOK
  PROVE  ExactWhenTextsDiffer
<1> DEFINE All == Levels \union {"sha"}
<1>1. SUFFICES ASSUME OnePerText(removed), OnePerText(added),
                      removed # << >>, Len(removed) <= MaxPatchLines
               PROVE  /\ Clean <=> Accounted(All)
                      /\ Clean => \A k \in analyzeChange :
                                    ~Accounted(analyzeChange \ {k})
  BY DEF ExactWhenTextsDiffer
<1>2. ASSUME NEW kinds, NEW g \in Pairings,
             \A i \in DOMAIN removed : Permitted(removed[i], added[g[i]], kinds),
             NEW i \in DOMAIN removed
      PROVE  /\ Fits(removed[i], added[g[i]])
             /\ classifyPair(removed[i], added[g[i]]) \subseteq kinds
  <2>1. g[i] \in DOMAIN added
    BY DEF Pairings
  <2>2. removed[i] \in Lines /\ added[g[i]] \in Lines
    BY <2>1, Domains
  <2>3. QED
    BY <1>2, <2>2, FitsIsPermitted
<1>3. ASSUME Clean PROVE Accounted(All)
  <2>1. PICK f : CleanBy(f)
    BY <1>3, CleanPairs
  <2>2. ASSUME NEW i \in DOMAIN removed
        PROVE  Permitted(removed[i], added[f[i]], All)
    <3>1. f[i] \in DOMAIN added
      BY <2>1 DEF CleanBy, Pairings
    <3>2. removed[i] \in Lines /\ added[f[i]] \in Lines
      BY <3>1, Domains
    <3>3. Fits(removed[i], added[f[i]])
      BY <2>1 DEF CleanBy
    <3>4. classifyPair(removed[i], added[f[i]]) \subseteq All
      BY <3>2, <3>3, PairKinds DEF Fits, Kinds
    <3>5. QED
      BY <3>2, <3>3, <3>4, FitsIsPermitted
  <2>3. QED
    BY <1>3, <2>1, <2>2, CleanPairs DEF Accounted, CleanBy
<1>4. ASSUME Accounted(All) PROVE Clean
  <2>1. PICK g \in Pairings :
          \A i \in DOMAIN removed : Permitted(removed[i], added[g[i]], All)
    BY <1>4 DEF Accounted
  <2>2. \A i \in DOMAIN removed : Fits(removed[i], added[g[i]])
    BY <1>2, <2>1
  <2>3. Len(removed) = Len(added)
    BY <1>4 DEF Accounted
  <2> DEFINE c == collected[Len(removed)]
  <2>4. Len(removed) \in 0..Len(removed)
    BY Domains
  <2>5. c.consumed = {g[i] : i \in 1..Len(removed)} /\ "unknown" \notin c.kinds
    BY <1>1, <2>1, <2>2, <2>4, LoopFollows
  <2>6. DOMAIN added \subseteq c.consumed
    <3>1. g \in Injection(1..Len(removed), 1..Len(added))
      BY <2>1, Domains DEF Pairings, Injection, IsInjective
    <3>2. g \in Surjection(1..Len(removed), 1..Len(added))
      BY <2>3, <3>1, OneToOne, Domains
    <3>3. QED
      BY <2>5, <3>2, Domains DEF Surjection
  <2>7. analyzeChange = c.kinds
    <3>1. ~(Len(removed) > MaxPatchLines \/ Len(added) > MaxPatchLines)
      BY <1>1, <2>3, Domains, ChangeType
    <3>2. QED
      BY <2>6, <3>1 DEF analyzeChange, Unpaired
  <2>8. c.kinds # {}
    <3>1. PICK f : PairsUp(f, Len(removed), c)
      BY <2>4, <2>5, LoopHolds DEF LoopInv
    <3>2. 1 \in 1..Len(removed)
      BY <1>1, Domains, EmptySeq DEF TypeOK
    <3>3. classifyPair(removed[1], added[f[1]]) # {}
      BY <3>1, <3>2 DEF PairsUp, Fits
    <3>4. c.kinds = UNION {classifyPair(removed[i], added[f[i]]) :
                             i \in 1..Len(removed)}
      BY <3>1, Zenon DEF PairsUp
    <3>5. QED
      BY <3>2, <3>3, <3>4
  <2>9. QED
    BY <2>5, <2>7, <2>8 DEF Clean
<1>5. ASSUME Clean, NEW k \in analyzeChange, Accounted(analyzeChange \ {k})
      PROVE  FALSE
  <2>1. PICK f : CleanBy(f)
    BY <1>5, CleanPairs
  <2>2. PICK g \in Pairings : \A i \in DOMAIN removed :
          Permitted(removed[i], added[g[i]], analyzeChange \ {k})
    BY <1>5 DEF Accounted
  <2>3. PICK i \in DOMAIN removed :
          k \in classifyPair(removed[i], added[f[i]])
    BY <1>5, <2>1 DEF CleanBy
  <2>4. /\ Fits(removed[i], added[g[i]])
        /\ classifyPair(removed[i], added[g[i]]) \subseteq analyzeChange \ {k}
    BY <1>2, <2>2
  <2>5. f[i] = g[i]
    <3>1. f[i] \in DOMAIN added /\ g[i] \in DOMAIN added
      BY <2>1 DEF CleanBy, Pairings
    <3>2. added[f[i]].text = added[g[i]].text
      BY <2>3, <2>4, FitsSameText DEF Fits
    <3>3. QED
      BY <1>1, <3>1, <3>2 DEF OnePerText
  <2>6. QED
    BY <2>3, <2>4, <2>5
<1>6. QED
  BY <1>3, <1>4, <1>5

-----------------------------------------------------------------------------
(* A version moves from m to n by one of the levels that are left out.     *)
Exceeds(m, n, levels) == \E k \in Levels \ levels : Leads(k, m, n)

LevelSets == {{"patch"}, {"patch", "minor"}}

(* A move within the levels keeps what a version exceeds, and a move up by *)
(* any level keeps what it exceeded.                                       *)
LEMMA ExceedsMoves ==
  ASSUME NEW levels \in LevelSets, NEW m \in Numbers,
         NEW a \in Numbers, NEW b \in Numbers
  PROVE  /\ ~Exceeds(m, m, levels)
         /\ \A k \in Levels : Leads(k, a, b) /\ Exceeds(m, a, levels)
              => Exceeds(m, b, levels)
         /\ \A k \in levels : Leads(k, a, b) /\ Exceeds(m, b, levels)
              => Exceeds(m, a, levels)
<1>1. /\ m[1] \in Nat /\ m[2] \in Nat /\ a[1] \in Nat /\ a[2] \in Nat
      /\ b[1] \in Nat /\ b[2] \in Nat
  BY DEF Numbers
<1>2. CASE levels = {"patch"}
  <2>1. \A x, y : Exceeds(x, y, levels) <=>
          Leads("major", x, y) \/ Leads("minor", x, y)
    BY <1>2 DEF Exceeds, Levels
  <2>2. QED
    BY <1>1, <1>2, <2>1 DEF Leads, Levels
<1>3. CASE levels = {"patch", "minor"}
  <2>1. \A x, y : Exceeds(x, y, levels) <=> Leads("major", x, y)
    BY <1>3 DEF Exceeds, Levels
  <2>2. QED
    BY <1>1, <1>3, <2>1 DEF Leads, Levels
<1>4. QED
  BY <1>2, <1>3 DEF LevelSets

(* A set of numbers is not mapped one to one into itself without one of    *)
(* its members.                                                            *)
LEMMA NoRoom ==
  ASSUME NEW n \in Nat, NEW T \in SUBSET (1..n), NEW x \in (1..n) \ T,
         NEW h \in Injection(T \union {x}, T)
  PROVE  FALSE
<1>1. IsFiniteSet(1..n)
  BY FS_Interval
<1>2. IsFiniteSet(T) /\ IsFiniteSet(T \union {x})
  <2>1. T \union {x} \in SUBSET (1..n)
    OBVIOUS
  <2>2. QED
    BY <1>1, <2>1, FS_Subset
<1>3. Cardinality(T \union {x}) <= Cardinality(T)
  BY <1>2, FS_Injection
<1>4. Cardinality(T) <= Cardinality(T \union {x})
      /\ (Cardinality(T \union {x}) = Cardinality(T) => T \union {x} = T)
  <2>1. T \in SUBSET (T \union {x})
    OBVIOUS
  <2>2. QED
    BY <1>2, <2>1, FS_Subset
<1>5. Cardinality(T) \in Nat /\ Cardinality(T \union {x}) \in Nat
  BY <1>2, FS_CardinalityType
<1>6. QED
  BY <1>3, <1>4, <1>5

(* Where no pin is swapped, a permitted change moves each version by one   *)
(* of the levels, or not at all.                                           *)
LEMMA PermittedMoves ==
  ASSUME NEW old \in Lines, NEW new \in Lines, NEW kinds,
         Permitted(old, new, kinds), old.shas = << >>
  PROVE  /\ old.text = new.text /\ DOMAIN old.vers = DOMAIN new.vers
         /\ old.shas = new.shas
         /\ \A t \in DOMAIN old.vers :
              \/ old.vers[t] = new.vers[t]
              \/ /\ old.vers[t].n # << >> /\ old.vers[t].n \in Numbers
                 /\ new.vers[t].n # << >> /\ new.vers[t].n \in Numbers
                 /\ \E k \in kinds \intersect Levels :
                      Leads(k, old.vers[t].n, new.vers[t].n)
<1>1. old.text = new.text /\ DOMAIN old.vers = DOMAIN new.vers
      /\ DOMAIN old.shas = DOMAIN new.shas
  BY DEF Permitted, SameButTokens
<1>2. new.shas = << >>
  <2>1. new.shas \in Seq(STRING) /\ DOMAIN new.shas = {}
    BY <1>1, LineSeqs
  <2>2. Len(new.shas) = 0
    BY <2>1, LineSeqs
  <2>3. QED
    BY <2>1, <2>2, EmptySeq
<1>3. \A t \in DOMAIN old.vers :
        /\ old.vers[t] \in Versions /\ new.vers[t] \in Versions
  BY <1>1, LineSeqs
<1>4. \A t \in DOMAIN old.vers : old.vers[t] # new.vers[t] =>
        /\ old.vers[t].n # << >> /\ new.vers[t].n # << >>
        /\ \E k \in kinds \intersect Levels :
             Leads(k, old.vers[t].n, new.vers[t].n)
  BY <1>2 DEF Permitted
<1>5. \A v \in Versions : v.n = << >> \/ v.n \in Numbers
  BY DEF Versions, Numbers
<1>6. QED
  BY <1>1, <1>2, <1>3, <1>4, <1>5

(* A kind reported of a pair without a pin is the level by which one of    *)
(* its versions moves.                                                     *)
LEMMA PairMoves ==
  ASSUME NEW old \in Lines, NEW new \in Lines, old.shas = new.shas,
         Fits(old, new), NEW k \in classifyPair(old, new)
  PROVE  /\ k \in Levels
         /\ \E t \in DOMAIN old.vers :
              /\ old.vers[t].n \in Numbers /\ new.vers[t].n \in Numbers
              /\ old.vers[t].n # << >>
              /\ Leads(k, old.vers[t].n, new.vers[t].n)
<1>1. /\ Len(old.vers) = Len(new.vers)
      /\ classifyPair(old, new) =
           UNION {BumpKinds(old.vers[i], new.vers[i]) : i \in DOMAIN old.vers}
  BY DEF Fits, classifyPair
<1>2. PICK t \in DOMAIN old.vers : k \in BumpKinds(old.vers[t], new.vers[t])
  BY <1>1
<1>3. "unknown" \notin BumpKinds(old.vers[t], new.vers[t])
  BY <1>1, <1>2 DEF Fits
<1>4. old.vers[t] \in Versions /\ new.vers[t] \in Versions
  BY <1>1, LineSeqs
<1>5. old.vers[t] # new.vers[t]
  BY <1>2 DEF BumpKinds
<1>6. QED
  BY <1>2, <1>3, <1>4, <1>5, BumpIsLead

(* If some line moved beyond the levels of another pairing, that pairing   *)
(* run backwards would map the lines above it, and it too, into those      *)
(* above it.                                                               *)
LEMMA OrderWithholds ==
  ASSUME TypeOK
  PROVE  OrderOnlyWithholds
<1>1. /\ UpTo({"patch"}) \in LevelSets /\ UpTo({"minor"}) \in LevelSets
      /\ UpTo({"patch"}) \subseteq Levels /\ UpTo({"minor"}) \subseteq Levels
  BY DEF UpTo, LevelSets, Levels
<1>2. SUFFICES ASSUME Clean, \A i \in DOMAIN removed : removed[i].shas = << >>,
                      NEW levels \in LevelSets, levels \subseteq Levels,
                      Accounted(levels),
                      NEW k \in analyzeChange, k \notin levels
               PROVE  FALSE
  BY <1>1 DEF OrderOnlyWithholds
<1>3. PICK f : CleanBy(f)
  BY <1>2, CleanPairs
<1>4. PICK g \in Pairings :
        \A i \in DOMAIN removed : Permitted(removed[i], added[g[i]], levels)
  BY <1>2 DEF Accounted
<1> DEFINE n == Len(removed)
<1>5. /\ n \in Nat /\ DOMAIN removed = 1..n /\ DOMAIN added = 1..n
      /\ \A i \in 1..n : removed[i] \in Lines /\ added[i] \in Lines
      /\ f \in Injection(1..n, 1..n) /\ g \in Injection(1..n, 1..n)
      /\ \A i \in 1..n : f[i] \in 1..n /\ g[i] \in 1..n
  <2>1. Len(removed) = Len(added)
    BY <1>2, CleanPairs
  <2>2. QED
    BY <1>3, <1>4, <2>1, Domains DEF CleanBy, Pairings, Injection, IsInjective
<1>6. \A j \in 1..n : \E i \in 1..n : g[i] = j
  <2>1. g \in Surjection(1..n, 1..n)
    BY <1>5, OneToOne
  <2>2. QED
    BY <2>1 DEF Surjection
<1> HIDE DEF n
<1>7. ASSUME NEW i \in 1..n
      PROVE  Permitted(removed[i], added[f[i]], Levels)
  <2>1. classifyPair(removed[i], added[f[i]]) \subseteq analyzeChange
    BY <1>3, <1>5, <1>7 DEF CleanBy
  <2>2. Permitted(removed[i], added[f[i]], analyzeChange)
    BY <1>3, <1>5, <1>7, <2>1, FitsIsPermitted DEF CleanBy
  <2>3. removed[i].shas = added[f[i]].shas
    BY <1>2, <1>5, <2>2, PermittedMoves
  <2>4. QED
    BY <2>2, <2>3 DEF Permitted
<1>8. PICK x \in 1..n : k \in classifyPair(removed[x], added[f[x]])
  BY <1>2, <1>3, <1>5 DEF CleanBy
<1>9. /\ k \in Levels
      /\ \E t \in DOMAIN removed[x].vers :
           /\ removed[x].vers[t].n \in Numbers
           /\ added[f[x]].vers[t].n \in Numbers
           /\ removed[x].vers[t].n # << >>
           /\ Leads(k, removed[x].vers[t].n, added[f[x]].vers[t].n)
  <2>1. removed[x].shas = added[f[x]].shas
    BY <1>2, <1>5, <1>7, PermittedMoves
  <2>2. Fits(removed[x], added[f[x]])
    BY <1>3, <1>5 DEF CleanBy
  <2>3. QED
    BY <1>5, <1>8, <2>1, <2>2, PairMoves
<1>10. PICK t \in DOMAIN removed[x].vers :
         /\ removed[x].vers[t].n \in Numbers
         /\ added[f[x]].vers[t].n \in Numbers
         /\ removed[x].vers[t].n # << >>
         /\ Leads(k, removed[x].vers[t].n, added[f[x]].vers[t].n)
  BY <1>9
<1> DEFINE low == removed[x].vers[t].n
           High(l) == /\ t \in DOMAIN l.vers
                      /\ l.vers[t].n # << >> /\ l.vers[t].n \in Numbers
                      /\ Exceeds(low, l.vers[t].n, levels)
           T == {i \in 1..n : High(removed[i])}
           h == [i \in T \union {x} |-> CHOOSE j \in 1..n : g[j] = f[i]]
<1>11. x \in (1..n) \ T
  BY <1>10, ExceedsMoves
<1>12. ASSUME NEW i \in T \union {x}
       PROVE  High(added[f[i]])
  <2>1. i \in 1..n /\ removed[i] \in Lines /\ added[f[i]] \in Lines
    BY <1>5
  <2>2. CASE i = x
    <3>1. added[f[x]].vers[t].n # << >> /\ t \in DOMAIN added[f[x]].vers
      <4>1. ~(<< >> \in Numbers)
        BY DEF Numbers
      <4>2. t \in DOMAIN added[f[x]].vers
        BY <1>2, <1>5, <1>7, PermittedMoves
      <4>3. QED
        BY <1>10, <4>1, <4>2
    <3>2. Exceeds(low, added[f[x]].vers[t].n, levels)
      BY <1>2, <1>9, <1>10 DEF Exceeds
    <3>3. QED
      BY <1>10, <2>2, <3>1, <3>2
  <2>3. CASE i \in T
    <3>1. High(removed[i])
      BY <2>3
    <3>2. /\ t \in DOMAIN added[f[i]].vers
          /\ \/ removed[i].vers[t] = added[f[i]].vers[t]
             \/ /\ added[f[i]].vers[t].n # << >>
                /\ added[f[i]].vers[t].n \in Numbers
                /\ \E l \in Levels : Leads(l, removed[i].vers[t].n,
                                              added[f[i]].vers[t].n)
      BY <1>2, <1>5, <1>7, <2>1, <3>1, PermittedMoves
    <3>3. QED
      BY <1>10, <3>1, <3>2, ExceedsMoves
  <2>4. QED
    BY <2>2, <2>3
<1>13. ASSUME NEW j \in 1..n, High(added[g[j]])
       PROVE  j \in T
  <2>1. removed[j] \in Lines /\ added[g[j]] \in Lines
    BY <1>5
  <2>2. Permitted(removed[j], added[g[j]], levels) /\ removed[j].shas = << >>
    BY <1>2, <1>4, <1>5
  <2>3. /\ t \in DOMAIN removed[j].vers
        /\ \/ removed[j].vers[t] = added[g[j]].vers[t]
           \/ /\ removed[j].vers[t].n # << >>
              /\ removed[j].vers[t].n \in Numbers
              /\ \E l \in levels : Leads(l, removed[j].vers[t].n,
                                            added[g[j]].vers[t].n)
    BY <1>13, <2>1, <2>2, PermittedMoves
  <2>4. High(removed[j])
    BY <1>10, <1>13, <2>3, ExceedsMoves
  <2>5. QED
    BY <2>4
<1>14. ASSUME NEW i \in T \union {x}
       PROVE  h[i] \in T /\ g[h[i]] = f[i]
  <2>1. i \in 1..n /\ f[i] \in 1..n
    BY <1>5
  <2>2. h[i] \in 1..n /\ g[h[i]] = f[i]
    BY <1>6, <2>1
  <2> HIDE DEF h, T, High
  <2>3. QED
    BY <1>12, <1>13, <2>2
<1>15. h \in Injection(T \union {x}, T)
  <2>1. h \in [T \union {x} -> T]
    BY <1>14
  <2>2. ASSUME NEW i \in T \union {x}, NEW j \in T \union {x}, h[i] = h[j]
        PROVE  i = j
    <3>1. i \in 1..n /\ j \in 1..n
      BY <1>11
    <3> HIDE DEF h, T
    <3>2. f[i] = f[j]
      BY <1>14, <2>2
    <3>3. QED
      BY <1>5, <3>1, <3>2 DEF Injection, IsInjective
  <2> HIDE DEF h, T
  <2>3. QED
    BY <2>1, <2>2 DEF Injection, IsInjective
<1>16. QED
  <2>1. T \in SUBSET (1..n)
    OBVIOUS
  <2> HIDE DEF h, T
  <2>2. QED
    BY <1>5, <1>11, <1>15, <2>1, NoRoom

-----------------------------------------------------------------------------
(* The author writes lines, so the patch is a sequence of them, of any     *)
(* length up to the bounds.                                                *)
THEOREM TypeCorrect == Spec => []TypeOK
<1>1. Init => TypeOK
  BY DEF Init, TypeOK
<1>2. TypeOK /\ [Next]_vars => TypeOK'
  <2> SUFFICES ASSUME TypeOK, [Next]_vars PROVE TypeOK'
    OBVIOUS
  <2>1. ASSUME NEW l \in Lines, RemoveLine(l) PROVE TypeOK'
    BY <2>1 DEF TypeOK, RemoveLine
  <2>2. ASSUME NEW l \in Lines, AddLine(l) PROVE TypeOK'
    BY <2>2 DEF TypeOK, AddLine
  <2>3. CASE UNCHANGED vars
    BY <2>3 DEF TypeOK, vars
  <2>4. QED
    BY <2>1, <2>2, <2>3 DEF Next
<1>3. QED
  BY <1>1, <1>2, PTL DEF Spec

(* Every changed line of a patch that comes out clean is accounted for by  *)
(* the kinds that analyzeChange reports (schema.go:75-80; change.go:47-70).*)
THEOREM CleanCorrect == Spec => []CleanIsAccounted
<1>1. TypeOK => CleanIsAccounted
  BY CleanAccounted
<1>2. QED
  BY <1>1, TypeCorrect, PTL

(* Where texts differ, the kinds reported are exactly those that the patch *)
(* has, in whatever order its lines stand (change.go:72-85).               *)
THEOREM ExactCorrect == Spec => []ExactWhenTextsDiffer
<1>1. TypeOK => ExactWhenTextsDiffer
  BY ExactTexts
<1>2. QED
  BY <1>1, TypeCorrect, PTL

(* Where lines repeat, taking the first one that fits only withholds: the  *)
(* reported levels are in every set that another pairing stays within.  A  *)
(* pairing within lower levels, run backwards, would map the lines above   *)
(* the one that the loop bumped, and that one too, into the lines above it *)
(* (change.go:74).                                                         *)
THEOREM OrderCorrect == Spec => []OrderOnlyWithholds
<1>1. TypeOK => OrderOnlyWithholds
  BY OrderWithholds
<1>2. QED
  BY <1>1, TypeCorrect, PTL
=============================================================================
