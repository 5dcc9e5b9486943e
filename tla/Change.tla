------------------------------- MODULE Change -------------------------------
(***************************************************************************)
(* What a file's patch changes: internal/engine/change.go, driven by an    *)
(* author who writes the patch line by line.                               *)
(*                                                                         *)
(* A line is what the three regular expressions leave of it: text, its     *)
(* skeleton, and the tokens they find, vers and shas, in order.  A version *)
(* token is a record of its spelling and of n, the numbers semver parses   *)
(* it to: major, minor, patch and the rank of its prerelease, or << >> for *)
(* a token that does not parse.  A set of change kinds is the bitmask of   *)
(* the code, {} its zero.                                                  *)
(***************************************************************************)
EXTENDS Integers, Sequences, FiniteSets, FiniteSetsExt

CONSTANTS
  Lines,         \* lines an author may remove or add
  MaxPatchLines, \* 2000 in the code
  MaxRemoved,    \* bounds on the patch that is written
  MaxAdded

Versions == [spelt : STRING, n : {<< >>} \union [1..4 -> Nat]]

ASSUME ChangeType == {MaxPatchLines, MaxRemoved, MaxAdded} \subseteq Nat
ASSUME LinesType ==
  Lines \subseteq [text : STRING, vers : Seq(Versions), shas : Seq(STRING)]

VARIABLES removed, added \* splitPatch: the removed and the added lines

vars == <<removed, added>>

Init == removed = << >> /\ added = << >>

RemoveLine(l) ==
  /\ Len(removed) < MaxRemoved
  /\ removed' = Append(removed, l) /\ UNCHANGED added
AddLine(l) ==
  /\ Len(added) < MaxAdded
  /\ added' = Append(added, l) /\ UNCHANGED removed

Next == \E l \in Lines : RemoveLine(l) \/ AddLine(l)
Spec == Init /\ [][Next]_vars

-----------------------------------------------------------------------------
(* Semver precedence: the first number that differs decides.               *)
Precedes(m, n) ==
  \E i \in 1..4 : m[i] < n[i] /\ \A j \in 1..i - 1 : m[j] = n[j]

AnyDirection(from, to) == \* Mutant: a downgrade is a bump
  IF from.n = << >> \/ to.n = << >> \/ from.n = to.n THEN {}
  ELSE IF to.n[1] # from.n[1] THEN {"major"}
  ELSE IF to.n[2] # from.n[2] THEN {"minor"} ELSE {"patch"}

bumpLevel(from, to) ==
  IF from.n = << >> \/ to.n = << >> THEN {}
  ELSE IF ~Precedes(from.n, to.n) THEN {}
  ELSE IF to.n[1] # from.n[1] THEN {"major"}
  ELSE IF to.n[2] # from.n[2] THEN {"minor"} ELSE {"patch"}

BumpKinds(from, to) ==
  IF from = to THEN {}
  ELSE LET k == bumpLevel(from, to) IN IF k = {} THEN {"unknown"} ELSE k

FirstVersionOnly(old, new) == \* Mutant: one version token per line
  IF \/ Len(old.vers) # Len(new.vers) \/ Len(old.shas) # Len(new.shas)
     \/ old.text # new.text
  THEN {}
  ELSE IF old.shas # new.shas THEN {"sha"}
  ELSE IF old.vers = << >> THEN {} ELSE BumpKinds(old.vers[1], new.vers[1])

(* The kinds of a pair of lines; {} is ok = false.                         *)
classifyPair(old, new) ==
  IF \/ Len(old.vers) # Len(new.vers) \/ Len(old.shas) # Len(new.shas)
     \/ old.text # new.text
  THEN {}
  ELSE IF old.shas # new.shas THEN {"sha"}
  ELSE UNION {BumpKinds(old.vers[i], new.vers[i]) : i \in DOMAIN old.vers}

(* One turn of the loop over removed lines: the line is paired with the    *)
(* first added line that is left and forms a clean change with it.  c      *)
(* holds what the loop has collected.                                      *)
Reuse(c, line) == \* Mutant: an added line may answer for many removed ones
  LET fits == {i \in DOMAIN added : classifyPair(line, added[i]) # {}} IN
    IF fits = {} THEN [c EXCEPT !.kinds = @ \union {"unknown"}]
    ELSE [consumed |-> c.consumed \union {Min(fits)},
          kinds |-> c.kinds \union classifyPair(line, added[Min(fits)])]

classify(c, line) ==
  LET fits == {i \in DOMAIN added \ c.consumed :
                 classifyPair(line, added[i]) # {}}
  IN IF fits = {} THEN [c EXCEPT !.kinds = @ \union {"unknown"}]
     ELSE [consumed |-> c.consumed \union {Min(fits)},
           kinds |-> c.kinds \union classifyPair(line, added[Min(fits)])]

Unpaired(consumed) ==
  IF DOMAIN added \subseteq consumed THEN {} ELSE {"unknown"}

(* What the loop has collected after its first n turns.                    *)
collected[n \in 0..Len(removed)] ==
  IF n = 0 THEN [consumed |-> {}, kinds |-> {}]
  ELSE classify(collected[n - 1], removed[n])

(* An empty patch has no lines and so no kinds.                            *)
analyzeChange ==
  IF Len(removed) > MaxPatchLines \/ Len(added) > MaxPatchLines
  THEN {"unknown"}
  ELSE LET c == collected[Len(removed)] IN c.kinds \union Unpaired(c.consumed)

-----------------------------------------------------------------------------
(* The reference: what may happen to one line, by the comments of the      *)
(* schema, without the code's order of tests.                              *)
Levels == {"patch", "minor", "major"}

Leads(level, m, n) ==
  CASE level = "major" -> m[1] < n[1]
    [] level = "minor" -> m[1] = n[1] /\ m[2] < n[2]
    [] level = "patch" -> m[1] = n[1] /\ m[2] = n[2]
                          /\ (m[3] < n[3] \/ (m[3] = n[3] /\ m[4] < n[4]))

SameButTokens(old, new) ==
  /\ old.text = new.text
  /\ DOMAIN old.vers = DOMAIN new.vers /\ DOMAIN old.shas = DOMAIN new.shas

(* Line old becomes line new by a permitted change: a pin is swapped, or   *)
(* each version that changes is bumped within the levels.                  *)
Permitted(old, new, kinds) ==
  /\ SameButTokens(old, new) /\ old # new
  /\ \/ "sha" \in kinds /\ old.shas # new.shas
     \/ /\ old.shas = new.shas
        /\ \A i \in DOMAIN old.vers : old.vers[i] # new.vers[i] =>
             /\ old.vers[i].n # << >> /\ new.vers[i].n # << >>
             /\ \E k \in kinds \intersect Levels :
                  Leads(k, old.vers[i].n, new.vers[i].n)

Pairings == {f \in [DOMAIN removed -> DOMAIN added] :
               \A i, j \in DOMAIN removed : f[i] = f[j] => i = j}

(* No line of the patch is left out of the pairing.                        *)
Accounted(kinds) ==
  /\ Len(removed) = Len(added)
  /\ \E f \in Pairings : \A i \in DOMAIN removed :
       Permitted(removed[i], added[f[i]], kinds)

OnePerText(lines) ==
  \A i, j \in DOMAIN lines : lines[i].text = lines[j].text => i = j

Clean == "unknown" \notin analyzeChange /\ analyzeChange # {}

(* The levels up to the highest that the patch shows.                      *)
UpTo(kinds) ==
  CASE "major" \in kinds -> Levels
    [] "minor" \in kinds -> {"patch", "minor"}
    [] OTHER             -> {"patch"}

(* A patch that comes out clean has every changed line accounted for: each *)
(* removed line has an added line of its own that it becomes by a change   *)
(* of the kinds reported, and no added line is left.  A constraint that    *)
(* permits those kinds then permits "every changed line" (schema.go:75-80; *)
(* change.go:47-49).                                                       *)
CleanIsAccounted == Clean => Accounted(analyzeChange)

(* The kinds reported are no more than the patch has: a clean result stays *)
(* accounted for by no fewer kinds when each removed and each added text   *)
(* occurs once, and then a patch that can be accounted for at all comes    *)
(* out clean, in whatever order its lines stand (change.go:72-85).         *)
ExactWhenTextsDiffer ==
  OnePerText(removed) /\ OnePerText(added) /\ removed # << >>
  /\ Len(removed) <= MaxPatchLines =>
    /\ Clean <=> Accounted(Levels \union {"sha"})
    /\ Clean => \A k \in analyzeChange : ~Accounted(analyzeChange \ {k})

(* Lines of one text may be paired in several ways and the code takes the  *)
(* first that fits.  Where no pin is swapped, another pairing can only     *)
(* withhold the clean result: none accounts for the patch with lower       *)
(* levels than the one reported (change.go:74).                            *)
OrderOnlyWithholds ==
  Clean /\ (\A i \in DOMAIN removed : removed[i].shas = << >>) =>
    \A levels \in {UpTo({"patch"}), UpTo({"minor"})} :
      Accounted(levels) => analyzeChange \subseteq levels
=============================================================================
