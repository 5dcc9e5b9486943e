------------------------------- MODULE Engine -------------------------------
(***************************************************************************)
(* The pure decision of internal/engine: decide.go, match.go and files.go. *)
(*                                                                         *)
(* A path is a sequence of segments.  A changed file is a record of its    *)
(* path, its previous path ({} unless renamed) and kinds, what             *)
(* analyzeChange sees in its patch.  A principal is a handle: at, its "@", *)
(* team, whether it holds a "/", org, what stands before the "/", and name *)
(* (a user's login or a team's slug).  A team is a pair of org and slug.   *)
(*                                                                         *)
(* A test the code answers with (bool, error) answers "yes", "no" or       *)
(* "err" here.                                                             *)
(***************************************************************************)
EXTENDS Config, FiniteSets, FiniteSetsExt

ChangeKinds == Levels \union {"sha", "unknown"}

(* A loop that returns at the first element that is not a "no".            *)
FirstHit(answers) ==
  LET hits == {i \in DOMAIN answers : answers[i] # "no"}
  IN IF hits = {} THEN "no" ELSE answers[Min(hits)]

Answer(b) == IF b THEN "yes" ELSE "no"

-----------------------------------------------------------------------------
(* doublestar.Match: each element of a glob is the set of segments it      *)
(* matches, or any number of segments when it is Stars.                    *)
Stars == [stars |-> TRUE, of |-> {}]

(* The lengths of the beginnings of a path that the first i elements match.*)
Reached(segs, path) ==
  LET reached[i \in 0..Len(segs)] ==
        IF i = 0 THEN {0}
        ELSE IF segs[i].stars
             THEN {j \in 0..Len(path) : \E m \in reached[i - 1] : m <= j}
             ELSE {j \in 1..Len(path) :
                     j - 1 \in reached[i - 1] /\ path[j] \in segs[i].of}
  IN reached

Glob(segs, path) == Len(path) \in Reached(segs, path)[Len(segs)]

(* A leading "/" (rooted) is dropped; a "/" at the end of what is left     *)
(* (subtree) stands for the subtree.  The pattern "/" leaves nothing.      *)
compilePattern(g) == IF g.subtree THEN Append(g.segs, Stars) ELSE g.segs

IgnoreBad(g, path) == \* Mutant: a bad pattern matches nothing
  Answer(~g.bad /\ Glob(compilePattern(g), path))

matchPattern(g, path) ==
  IF g.bad THEN "err" ELSE Answer(Glob(compilePattern(g), path))

-----------------------------------------------------------------------------
configFiles == {<<".github", "prove.yml">>, <<".github", "prove.yaml">>}
IsConfigFile(p)   == p \in configFiles
underDotGithub(p) == p[1] = ".github"

ListReplacesGuards(cfg, p) == \* Mutant: protect.paths replaces the defaults
  IF \/ ConfigFileProtected(cfg) /\ IsConfigFile(p)
     \/ DotGithubProtected(cfg) /\ underDotGithub(p)
  THEN Answer(cfg.protect.paths = << >>)
  ELSE FirstHit([i \in DOMAIN cfg.protect.paths |->
                   matchPattern(cfg.protect.paths[i], p)])

GuardedPath(cfg, p) ==
  IF \/ ConfigFileProtected(cfg) /\ IsConfigFile(p)
     \/ DotGithubProtected(cfg) /\ underDotGithub(p)
  THEN "yes"
  ELSE FirstHit([i \in DOMAIN cfg.protect.paths |->
                   matchPattern(cfg.protect.paths[i], p)])

ruleMatchesPath(r, p) ==
  FirstHit([i \in DOMAIN r.paths |-> matchPattern(r.paths[i], p)])

principalMatches(h, author, authorTeams) ==
  IF h.team THEN <<h.org, h.name>> \in authorTeams ELSE h.name = author

authorAllowed(r, author, authorTeams) ==
  \E i \in DOMAIN r.allow : principalMatches(r.allow[i], author, authorTeams)

allowedChanges(r) == r.semver \union IF r.sha THEN {"sha"} ELSE {}

constraintSatisfied(r, kinds) ==
  \/ allowedChanges(r) = {}
  \/ kinds # {} /\ kinds \subseteq allowedChanges(r)

FirstRuleDecides(cfg, author, p, authorTeams, kinds) == \* Mutant
  LET covering == {i \in DOMAIN cfg.rules : ruleMatchesPath(cfg.rules[i], p) = "yes"}
  IN Answer(covering # {} /\ authorAllowed(cfg.rules[Min(covering)], author, authorTeams)
              /\ constraintSatisfied(cfg.rules[Min(covering)], kinds))

ruleAllows(cfg, author, p, authorTeams, kinds) ==
  FirstHit([i \in DOMAIN cfg.rules |->
    LET r == cfg.rules[i]
        m == ruleMatchesPath(r, p)
    IN IF m = "yes"
       THEN Answer(authorAllowed(r, author, authorTeams)
                     /\ constraintSatisfied(r, kinds))
       ELSE m])

evaluatePath(cfg, author, p, authorTeams, kinds) ==
  LET g == GuardedPath(cfg, p) IN
    CASE g = "err" -> "err"
      [] g = "yes" -> "no"
      [] OTHER     -> ruleAllows(cfg, author, p, authorTeams, kinds)

-----------------------------------------------------------------------------
NewPathOnly(f)  == {f.path} \* Mutant: forget where a renamed file was
TouchedPaths(f) == {f.path} \union f.previous

hasConstraint(cfg) ==
  \E i \in DOMAIN cfg.rules : cfg.rules[i].semver # {} \/ cfg.rules[i].sha

(* The kinds each file is judged by: those of its own patch, looked at     *)
(* only when some rule asks.                                               *)
LastKinds(cfg, files, i) == \* Mutant: one variable for all files
  IF hasConstraint(cfg) THEN files[Len(files)].kinds ELSE {}
FileKinds(cfg, files, i) ==
  IF hasConstraint(cfg) THEN files[i].kinds ELSE {}

(* The loop over files stops at the first error; denied paths only         *)
(* accumulate.                                                             *)
Decide(cfg, files, author, authorTeams) ==
  LET answers == UNION {
        {evaluatePath(cfg, author, p, authorTeams, FileKinds(cfg, files, i))
           : p \in TouchedPaths(files[i])} : i \in DOMAIN files}
  IN IF \/ author \in cfg.blocked_users
        \/ files = << >>
        \/ Len(files) > EffectiveMaxChangedFiles(cfg)
     THEN "reject"
     ELSE IF "err" \in answers THEN "error"
     ELSE IF "no" \in answers THEN "reject" ELSE "approve"

(* The team handles resolveAuthorTeams asks about: those with an org and a *)
(* slug.                                                                   *)
SplitTeam(h) == h.team /\ h.org # "" /\ h.name # ""

NamedTeams(cfg) ==
  LET handles == UNION {{cfg.rules[i].allow[j] : j \in DOMAIN cfg.rules[i].allow}
                          : i \in DOMAIN cfg.rules}
  IN {<<h.org, h.name>> : h \in {g \in handles : SplitTeam(g)}}
=============================================================================
