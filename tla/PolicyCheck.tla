---------------------------- MODULE PolicyCheck ----------------------------
(***************************************************************************)
(* The engine and the config loader driven by the people who feed them: a  *)
(* maintainer edits .github/prove.yml, an author grows a pull request.     *)
(* The decision Engine computes is held against the policy the schema's    *)
(* comments state, written here without the code's loops, early returns    *)
(* and errors.                                                             *)
(***************************************************************************)
EXTENDS Engine

CONSTANTS
  Globs,      \* patterns a maintainer may write
  Principals, \* handles a maintainer may allow
  Semvers,    \* semver lists a maintainer may write: sets of levels
  MoreRules,  \* rules a maintainer may add to the first
  ChangedFiles, \* files an author may change
  Me,         \* the author
  MyTeams,    \* the teams the author belongs to, pairs of org and slug
  PageSize,   \* files GitHub lists on one page, 100 in the code
  MaxRules, MaxGuards, MaxFiles \* bounds on what is written

GlobType == [rooted : BOOLEAN, subtree : BOOLEAN, bad : BOOLEAN,
             segs : Seq([stars : BOOLEAN, of : SUBSET STRING])]

PrincipalType == [at : BOOLEAN, team : BOOLEAN, org : STRING, name : STRING]

RuleType == [paths : Seq(GlobType), allow : Seq(PrincipalType),
             semver : SUBSET Levels, sha : BOOLEAN]

ASSUME PolicyType ==
  /\ Globs \subseteq GlobType /\ Principals \subseteq PrincipalType
  /\ Semvers \subseteq SUBSET Levels /\ MoreRules \subseteq RuleType
  /\ ChangedFiles \subseteq [path : Seq(STRING), previous : SUBSET Seq(STRING),
                           kinds : SUBSET ChangeKinds]
  /\ PageSize \in Nat \ {0}

VARIABLES
  yml,  \* {} when there is no prove.yml, or {what it says}
  files \* the changed files of the PR, in the order GitHub lists them

vars == <<yml, files>>

Blank == [Default EXCEPT !.max_changed_files = 0]
Rules == [paths : {<<g>> : g \in Globs}, allow : {<<h>> : h \in Principals},
          semver : Semvers, sha : BOOLEAN]

Init == yml = {} /\ files = << >>

(* The maintainer writes a first prove.yml or changes the one there is.    *)
Edit(Change(_)) ==
  /\ \E c \in IF yml = {} THEN {Blank} ELSE yml : yml' = {Change(c)}
  /\ UNCHANGED files

Written == IF yml = {} THEN Blank ELSE CHOOSE c \in yml : TRUE

AddRule ==
  /\ Len(Written.rules) < MaxRules
  /\ \E r \in IF Written.rules = << >> THEN Rules ELSE MoreRules :
       LET Add(c) == [c EXCEPT !.rules = Append(@, r)] IN Edit(Add)

Protect ==
  /\ Len(Written.protect.paths) < MaxGuards
  /\ \E g \in Globs :
       LET Add(c) == [c EXCEPT !.protect.paths = Append(@, g)] IN Edit(Add)

Block ==
  LET Add(c) == [c EXCEPT !.blocked_users = {Me}] IN Edit(Add)

LiftDefaults ==
  LET Lift(c) == [c EXCEPT !.protect.dot_github = {FALSE}] IN Edit(Lift)

Cap ==
  \E n \in {-1, 1} :
    LET Set(c) == [c EXCEPT !.max_changed_files = n] IN Edit(Set)

Maintain == AddRule \/ Protect \/ Block \/ LiftDefaults \/ Cap

(* A listing names a path once.                                            *)
ChangeFile ==
  /\ Len(files) < MaxFiles
  /\ \E f \in ChangedFiles :
       /\ \A i \in DOMAIN files : files[i].path # f.path
       /\ files' = Append(files, f)
  /\ UNCHANGED yml

Next == Maintain \/ ChangeFile
Spec == Init /\ [][Next]_vars

-----------------------------------------------------------------------------
(* The listing stops at the last page, or at the first page with which it  *)
(* exceeds the cap.                                                        *)
AtTheCap(cfg, all) == \* Mutant: stop when the cap is reached
  LET Enough(n) == \/ n * PageSize >= Len(all)
                   \/ n * PageSize >= EffectiveMaxChangedFiles(cfg)
      pages == Min({n \in 1..Len(all) + 1 : Enough(n)})
  IN SubSeq(all, 1, Min({pages * PageSize, Len(all)}))

ListChangedFiles(cfg, all) ==
  LET Enough(n) == \/ n * PageSize >= Len(all)
                   \/ n * PageSize > EffectiveMaxChangedFiles(cfg)
      pages == Min({n \in 1..Len(all) + 1 : Enough(n)})
  IN SubSeq(all, 1, Min({pages * PageSize, Len(all)}))

Loaded   == Load(yml)
Outcome(cfg) == Decide(cfg, ListChangedFiles(cfg, files), Me, MyTeams)
Decision == IF Loaded = {} THEN "invalid"
            ELSE CHOOSE o \in {Outcome(c) : c \in Loaded} : TRUE

(* A glob covers a path when the path can be cut into one piece for each   *)
(* of its elements.                                                        *)
Covers(g, path) ==
  LET segs == IF g.subtree THEN Append(g.segs, Stars) ELSE g.segs
      n == Len(segs)
  IN \E cut \in [0..n -> 0..Len(path)] :
       /\ cut[0] = 0 /\ cut[n] = Len(path)
       /\ \A i \in 1..n :
            IF segs[i].stars THEN cut[i - 1] <= cut[i]
            ELSE cut[i] = cut[i - 1] + 1 /\ path[cut[i]] \in segs[i].of

Guarded(c, path) ==
  \/ FALSE \notin c.protect.config_file /\ path \in configFiles
  \/ FALSE \notin c.protect.dot_github /\ path[1] = ".github"
  \/ \E i \in DOMAIN c.protect.paths : Covers(c.protect.paths[i], path)

MayApprove(r, path, kinds) ==
  /\ \E i \in DOMAIN r.paths : Covers(r.paths[i], path)
  /\ \E i \in DOMAIN r.allow :
       \/ ~r.allow[i].team /\ r.allow[i].name = Me
       \/ r.allow[i].team /\ <<r.allow[i].org, r.allow[i].name>> \in MyTeams
  /\ r.semver # {} \/ r.sha =>
       kinds # {} /\ \A k \in kinds : k \in r.semver \/ (k = "sha" /\ r.sha)

Permitted(c, path, kinds) ==
  /\ ~Guarded(c, path)
  /\ \E i \in DOMAIN c.rules : MayApprove(c.rules[i], path, kinds)

Policy(c) ==
  /\ Me \notin c.blocked_users
  /\ files # << >> /\ Len(files) <= c.max_changed_files
  /\ \A i \in DOMAIN files :
       \A path \in {files[i].path} \union files[i].previous :
         Permitted(c, path, files[i].kinds)

WellFormed(c) ==
  /\ \A i \in DOMAIN c.protect.paths : ~c.protect.paths[i].bad
  /\ \A i \in DOMAIN c.rules : \A j \in DOMAIN c.rules[i].paths :
       ~c.rules[i].paths[j].bad

-----------------------------------------------------------------------------
(* prove approves exactly the PRs the schema's comments permit: every path *)
(* of every file, both names of a renamed one, is unguarded and covered by *)
(* a rule for the author whose constraint that very file meets, although   *)
(* the listing prove decides on may end before the pull request does       *)
(* (schema.go:19-22, 47-56, 71-86; decide.go:29-43; client.go:41-64).      *)
ApproveIffPolicy ==
  \A c \in Loaded : WellFormed(c) =>
    (Decision = "approve") = Policy(c)

(* A pattern doublestar refuses can withhold an approval and never grant   *)
(* one: with one on the protect list nothing is approved, and a bad one in *)
(* a rule stands for no path (match.go:28-54, decide.go:60-73).            *)
BadPatternNeverGrants ==
  \A c \in Loaded : Decision = "approve" =>
    /\ Policy(c)
    /\ \A i \in DOMAIN c.protect.paths : ~c.protect.paths[i].bad

(* Changing one more file never turns a PR that was refused, or that could *)
(* not be decided, into an approved one.                                   *)
GrowingThePRNeverHelps ==
  [][files # << >> /\ files' # files /\ Decision # "approve"
     => Decision' # "approve"]_vars

(* Protecting a path or blocking a user never makes prove approve more.    *)
GuardsOnlyRestrict ==
  [][Protect \/ Block => (Decision' = "approve" => Decision = "approve")]_vars

(* schema.go:145-146: a bad config is "an error that is surfaced to the    *)
(* user (via the Check Run) rather than silently ignored".  A config that  *)
(* loads can then be decided with.                                         *)
LoadedConfigDecides == Loaded # {} => Decision # "error"

=============================================================================
