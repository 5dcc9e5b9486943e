------------------------- MODULE ApproverProperties -------------------------
(***************************************************************************)
(* What prove's approver promises, stated over the state of Approver.      *)
(***************************************************************************)
EXTENDS Approver

(* Every approval prove ever submitted is on a commit whose own changed    *)
(* files, and no others, were listed and qualified under the config and    *)
(* teams it was decided with: the guard of approver.go:234-249 closes the  *)
(* race between evaluating and approving, whatever is pushed in between.   *)
ApprovedWasInspected ==
  \A p \in PRs : \A i \in DOMAIN reviews[p] :
    LET v == reviews[p][i] IN
      /\ v.files = {v.commit}
      /\ Verdict(v.cfg, v.commit, Author[p], v.teams) = "approve"

(* Within one replica lockPR keeps a pull request to one status comment,   *)
(* however its deliveries interleave, fail or repeat (approver.go:76-84,   *)
(* actions.go:91-118).                                                     *)
OneStatusComment == \A p \in PRs : Len(comments[p]) <= 1

(* Within one replica, and without rewinds, no commit carries two standing *)
(* approvals of prove, answers lost and webhooks sent twice included:      *)
(* FindApproval tells act that the head is already approved                *)
(* (approver.go:230-233, actions.go:13-15).                                *)
OneApprovalPerCommit ==
  \A p \in PRs : \A i, j \in Approvals(p) :
    reviews[p][i].commit = reviews[p][j].commit => i = j

(* Dismissal has no head guard of its own (approver.go:265-273).  Within   *)
(* one replica a delivery that decided on an older head all the same never *)
(* dismisses an approval of the live head that its own config and teams    *)
(* would grant, as long as that head is new: the branch did not return to  *)
(* it.  Two replicas do dismiss such an approval, and so does one replica  *)
(* when a force push brings an approved head back.                         *)
NeverDismissesGoodApproval ==
  [][\A d \in Deliveries : pc[d] = "dismiss" /\ pc'[d] # pc[d] =>
       \A i \in Approvals(pr(d)) :
         LET v == reviews[pr(d)][i] IN
           /\ reviews'[pr(d)][i].state = "DISMISSED"
           /\ v.commit = head[pr(d)] /\ head[pr(d)] \notin past[pr(d)]
           => Verdict(ev[d].cfg, v.commit, author(d), ev[d].teams) # "approve"
    ]_vars

-----------------------------------------------------------------------------
(* The decision that is right for PR p as it stands, when its config       *)
(* loads and is enabled.                                                   *)
Current(p)  == file[ConfigBranch(p)]
Active(p)   == stage[p] = "ready" /\ Current(p) # BadFile /\ IsEnabled(Current(p))
Proper(p)   == Verdict(Current(p), head[p], Author[p], members[Author[p]])
AtHead(p)   == {i \in Approvals(p) : reviews[p][i].commit = head[p]}

(* When nothing is in flight and every delivery was heard, the approvals   *)
(* of one replica match the live head in both directions: the head of a PR *)
(* that qualifies is approved, and a PR that does not has no standing      *)
(* approval at all, those of superseded commits included.  Each dismissal  *)
(* raises the event that looks for the next one (approver.go:94-99).       *)
ApprovalsSettle ==
  Quiet => \A p \in PRs : Active(p) /\ ~Current(p).dry_run =>
    /\ Proper(p) = "approve" => AtHead(p) # {}
    /\ Proper(p) = "reject"  => Approvals(p) = {}

(* With any number of replicas the live head at least is never left with   *)
(* the wrong answer, though approvals of former heads may survive.         *)
HeadSettles ==
  Quiet => \A p \in PRs : Active(p) /\ ~Current(p).dry_run =>
    /\ Proper(p) = "approve" => AtHead(p) # {}
    /\ Proper(p) = "reject"  => AtHead(p) = {}

(* The check run on the live head reports the decision on the live head,   *)
(* in whatever order deliveries for older heads arrive (approver.go:181).  *)
CheckSettles ==
  Quiet => \A p \in PRs : Active(p) /\ Proper(p) # "error" =>
    checks[head[p]] = Conclusion(Proper(p))

(* The status comment of one replica ends up telling the decision on the   *)
(* live head (approver.go:189-211).                                        *)
CommentSettles ==
  Quiet => \A p \in PRs :
    /\ Active(p) /\ Proper(p) # "error"
    /\ Current(p).dry_run \/ Current(p).comment
    => comments[p] = <<Proper(p) = "approve">>

(* Every delivery that is raised is dealt with in the end: no goroutine    *)
(* waits forever for a mutex, on any path out of evaluate.                 *)
EveryDeliveryEnds ==
  \A d \in Deliveries : d \in DOMAIN evt ~> pc[d] \in Ended

(* An approval rests on memberships of the PR's own author, whatever the   *)
(* shared team cache answered other evaluations: of the teams its config   *)
(* names it counts those the author is or was in, and leaves out none but  *)
(* those the author is or was not in.  While nobody joins or leaves, that  *)
(* is the author's teams exactly; how old an answer may be is FreshEnough  *)
(* of Caches (approver.go:337-353).                                        *)
ApprovedByOwnTeams ==
  \A p \in PRs : \A i \in DOMAIN reviews[p] :
    LET v == reviews[p][i] IN
      /\ v.teams \subseteq joined[Author[p]] \intersect TeamHandles(v.cfg)
      /\ TeamHandles(v.cfg) \ v.teams \subseteq lacked[Author[p]]

(* Native auto-merge is on only where prove approved under a config that   *)
(* asks for it, also when calls fail (approver.go:249-261).                *)
AutoMergeWasApproved ==
  \A p \in PRs : autoMerge[p] =>
    \E i \in DOMAIN reviews[p] : reviews[p][i].cfg.auto_merge.enabled

-----------------------------------------------------------------------------
(* The approvals prove leaves, as a Ledger of its reviews.                 *)
Book == INSTANCE Ledger
          WITH seen    <- [p \in PRs |-> past[p] \union {head[p]}],
               ledger  <- reviews,
               merging <- autoMerge,
               Entries <- Review

(* Whatever fails, crashes or is edited meanwhile, prove grants nothing    *)
(* but what the rules grant for a commit of the PR, under a config that is *)
(* enabled and not in a dry run; it turns on auto-merge only after an      *)
(* approval that asks for it; and it takes nothing back but a standing     *)
(* approval (approver.go:163-166, 189-211, 223-275).                       *)
KeepsLedger == Book!Spec

-----------------------------------------------------------------------------
(* Why ApprovedWasInspected holds, as an inductive invariant.              *)

Resting == {"raised"} \union Ended
Decided == {"check", "findApproval", "pullHead", "approve"}
Listed  == {"listMore", "teams"} \union Decided

(* A delivery is on a replica exactly as long as its goroutine runs.       *)
Placed == \A d \in Deliveries : pc[d] \notin Resting => at[d] \in Replicas

(* There is nothing to a delivery before it is raised.                     *)
Unraised ==
  \A d \in Deliveries \ DOMAIN evt :
    pc[d] = "raised" /\ ev[d] = NoLocals /\ at[d] = NoReplica

(* Without rewinds a commit is head of a PR once: every event names the    *)
(* live head or a former one.                                              *)
HeadsMoveOn ==
  /\ \A p \in PRs : head[p] \notin past[p]
  /\ \A d \in DOMAIN evt : headSHA(d) \in past[pr(d)] \union {head[pr(d)]}

(* What follows is said of delivery d at label l holding e.                *)

(* Files of another commit in the listing mean that the event's head is    *)
(* history.                                                                *)
ListedLater(d, l, e) ==
  /\ l \in Listed => e.files # {}
  /\ \A c \in e.files : c # headSHA(d) => headSHA(d) \in past[pr(d)]

(* The verdict in hand is the engine's on what was listed, and only an     *)
(* approving one gets to the head guard and past it.                       *)
DecidedRight(d, l, e) ==
  /\ l \in {"pullHead", "approve"} => e.verdict = "approve"
  /\ l \in Decided /\ e.verdict = "approve" =>
       \A c \in Commits : e.files = {c} =>
         Verdict(e.cfg, c, author(d), e.teams) = "approve"

(* Past the guard, what was listed is the event's head and nothing else.   *)
GuardPassed(d, l, e) == l = "approve" => e.files = {headSHA(d)}

Sound(d, l, e) ==
  ListedLater(d, l, e) /\ DecidedRight(d, l, e) /\ GuardPassed(d, l, e)

(* What holds at every step as long as no push returns to a former head:   *)
(* approver.go:234-249 is right because of it.                             *)
ApprovalInv ==
  /\ TypeOK /\ Placed /\ Unraised /\ HeadsMoveOn
  /\ \A d \in DOMAIN evt : Sound(d, pc[d], ev[d])
  /\ ApprovedWasInspected

-----------------------------------------------------------------------------
(* What the repository's README says and the code does not do.             *)

(* README.md:36: "any error during evaluation results in no approval".     *)
(* When the evaluation of the live head failed and that head does not      *)
(* qualify, no approval of prove stands.                                   *)
ErrorMeansNoApproval ==
  Quiet => \A d \in DOMAIN evt :
    LET p == pr(d) IN
      pc[d] = "failed" /\ headSHA(d) = head[p] /\ Proper(p) = "reject"
      => Approvals(p) = {}
=============================================================================
