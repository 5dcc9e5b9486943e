----------------------------- MODULE MCApprover -----------------------------
(***************************************************************************)
(* Small repositories for the model checker.  The commits are real change  *)
(* lists and the verdicts are the engine's: every Verdict below is         *)
(* Engine's Decide.                                                        *)
(***************************************************************************)
EXTENDS ApproverProperties, Engine, TLC

CONSTANTS p1, p2,    \* pull requests
          A, B, C,   \* commits
          main, rel, \* branches
          ann, bob,  \* authors
          r1, r2     \* replicas

-----------------------------------------------------------------------------
(* Change lists.  Documents are what the rules below allow; code is not.   *)
Doc(n)   == [path |-> <<"docs", n>>, previous |-> {}, kinds |-> {"unknown"}]
Code     == [path |-> <<"src", "m.go">>, previous |-> {}, kinds |-> {"unknown"}]

(* A changes one document, B two, C a document and code.                   *)
ChangedIn == (A :> <<Doc("a.md")>>) @@ (B :> <<Doc("a.md"), Doc("b.md")>>)
               @@ (C :> <<Doc("a.md"), Code>>)

Subtree(s) == [rooted |-> FALSE, segs |-> <<[stars |-> FALSE, of |-> {s}]>>,
               subtree |-> TRUE, bad |-> FALSE]
Unclosed   == [rooted |-> FALSE, segs |-> << >>, subtree |-> FALSE, bad |-> TRUE]

User(a)    == [at |-> TRUE, team |-> FALSE, org |-> "", name |-> a]
Team(o, s) == [at |-> TRUE, team |-> TRUE, org |-> o, name |-> s]
writers    == <<"org", "writers">>
Allowing(h) == [paths |-> <<Subtree("docs")>>, allow |-> <<h>>,
                semver |-> {}, sha |-> FALSE]

-----------------------------------------------------------------------------
(* Configs, each the default with some keys set.                           *)
DocsByUser == [Default EXCEPT !.rules = <<Allowing(User(ann))>>]
DocsByTeam == [Default EXCEPT !.rules = <<Allowing(Team("org", "writers"))>>]
Commenting == [DocsByUser EXCEPT !.comment = TRUE]
Merging    == [DocsByUser EXCEPT !.auto_merge = [enabled |-> TRUE, method |-> "squash"]]
DryRun     == [DocsByUser EXCEPT !.dry_run = TRUE, !.enabled = {TRUE}]
Disabled   == [DocsByUser EXCEPT !.enabled = {FALSE}]
BadGlob    == [DocsByUser EXCEPT !.protect.paths = <<Unclosed>>]

AllConfigs == {Default, DocsByUser, DocsByTeam, Commenting, Merging,
               DryRun, Disabled, BadGlob}

(* These are configs prove.yml files really parse to.                      *)
ASSUME \A c \in AllConfigs : Parse(c) = {c}

MCTeamHandles(cfg) == NamedTeams(cfg)

(* A table, so that the engine runs once for each of its inputs.           *)
Table == [cfg \in Configs, c \in Commits, a \in Authors, ts \in SUBSET Teams |->
            Decide(cfg, ChangedIn[c], a, ts)]
MCVerdict(cfg, c, a, ts) == Table[cfg, c, a, ts]

-----------------------------------------------------------------------------
AnyCommit  == [p \in PRs |-> Commits]
ByAnn      == [p \in PRs |-> ann]
OntoMain   == [p \in PRs |-> main]
NoTeams    == [a \in Authors |-> {}]
AnnWrites  == [a \in Authors |-> IF a = ann THEN {writers} ELSE {}]
OneShard   == [p \in PRs |-> 1]
OneTeam    == {writers}

Having(cfg)        == [b \in Branches |-> cfg]

Budget(f) == [k \in Kinds |-> IF k \in DOMAIN f THEN f[k] ELSE 0]

SameReplicas == Permutations(Replicas)

(* Run "race": two replicas, two pushes; B's files fill two pages.         *)
RaceConfigs == {Default, DocsByUser}
RaceFile    == Having(DocsByUser)
RaceLimit   == Budget("push" :> 2)

(* Run "failing": two replicas, with calls, webhooks and replicas failing  *)
(* while the config is edited.                                             *)
FailingConfigs == {Default, Merging, DryRun, Disabled, BadGlob}
FailingFile    == Having(Merging)
FailingLimit   == Budget("push" :> 1 @@ "fault" :> 1 @@ "crash" :> 1
                           @@ "edit" :> 1 @@ "expire" :> 1)

(* Run "serial": one replica that crashes, calls that fail, deliveries that *)
(* come twice and approvals dismissed by hand.                             *)
SerialConfigs == {Default, Commenting}
SerialFile    == Having(Commenting)
SerialLimit   == Budget("push" :> 1 @@ "redeliver" :> 1 @@ "fault" :> 1
                          @@ "dismiss" :> 1 @@ "crash" :> 1)

(* Run "settles": one replica, force pushes back and forth, drafts and     *)
(* approvals dismissed by hand.                                            *)
SettlesLimit  == Budget("push" :> 2 @@ "dismiss" :> 1 @@ "status" :> 1)

(* Run "ends": two authors whose PRs share the mutex and team cache of a   *)
(* replica, while a membership changes, an entry expires and a call fails.  *)
TeamConfigs == {Default, DocsByTeam}
TeamFile    == Having(DocsByTeam)
TeamAuthors == (p1 :> ann) @@ (p2 :> bob)
EndsLimit   == Budget("team" :> 1 @@ "expire" :> 1 @@ "fault" :> 1)
OneCommitEach == (p1 :> {A}) @@ (p2 :> {B})

(* Runs that show where the code and its documentation part.               *)
PushTwice   == Budget("push" :> 2)
OneFault    == Budget("push" :> 1 @@ "fault" :> 1)
=============================================================================
