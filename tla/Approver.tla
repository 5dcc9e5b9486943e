------------------------------ MODULE Approver ------------------------------
(***************************************************************************)
(* prove's production event processor, internal/events/approver.go, on     *)
(* every replica at once.  A webhook delivery becomes one goroutine that   *)
(* walks through evaluate and act one GitHub call at a time; between two   *)
(* calls anything else in the system may move.  pc[d] names the call       *)
(* delivery d is about to make:                                            *)
(*                                                                         *)
(*   raised -> lock -> bot -> config -> getFile -> setConfig -> listFiles  *)
(*     -> listMore -> teams -> check                                       *)
(*     -> findApproval -> pullHead -> approve -> autoMerge                 *)
(*                     -> dismiss                                          *)
(*     -> listComments -> editComment | createComment -> done              *)
(*                                                                         *)
(* An error that evaluate returns ends the delivery in "failed": the       *)
(* server only logs it.  "lost" is a delivery no replica processed to its  *)
(* end: dropped before it arrived, or in flight when its replica crashed.  *)
(***************************************************************************)
EXTENDS GitHub

CONSTANTS
  Replicas,          \* prove processes behind the webhook endpoint
  Shards,            \* the mutexes of one replica's lock pool
  Shard,             \* Shard[p]: the mutex the key of PR p hashes to
  Large,             \* commits whose changed files fill two pages
  TeamHandles(_),    \* the teams the rules of a config name
  Verdict(_, _, _, _)\* engine.Decide(cfg, files of commit, author, teams)

NoReplica == 0
Outcomes  == {"approve", "reject", "error"}

ASSUME ApproverType ==
  /\ Shard \in [PRs -> Shards]
  /\ Large \subseteq Commits
  /\ NoReplica \notin Replicas
ASSUME VerdictType ==
  \A cfg \in Configs, c \in Commits, a \in Authors, ts \in SUBSET Teams :
    Verdict(cfg, c, a, ts) \in Outcomes
ASSUME TeamHandlesType ==
  \A cfg \in Configs : TeamHandles(cfg) \in SUBSET Teams

(* Of the author's teams the engine looks only at those the rules name     *)
(* (NamedTeamsDecide in PolicyProofs).                                     *)
ASSUME VerdictTeams ==
  \A cfg \in Configs, c \in Commits, a \in Authors, ts \in SUBSET Teams :
    Verdict(cfg, c, a, ts) = Verdict(cfg, c, a, ts \intersect TeamHandles(cfg))

VARIABLES
  pc,          \* pc[d]: where delivery d stands
  at,          \* at[d]: the replica that is processing delivery d
  ev,          \* ev[d]: what the goroutine of d holds in its variables
  lock,        \* lock[r][s]: the delivery holding mutex s, 0 when free
  configCache, \* configCache[r][b]: {} or {the cached config of branch b}
  teamCache,   \* teamCache[r][t][a]: {} or {the cached answer}
  bot          \* bot[r]: what the sync.Once around BotLogin remembers

replica == <<lock, configCache, teamCache, bot>>
caches  == <<configCache, teamCache, bot>>
vars    == <<world, pc, at, ev, lock, configCache, teamCache, bot>>

Ended   == {"done", "failed", "lost"}
Labels  == {"raised", "lock", "bot", "config", "getFile", "setConfig",
            "badConfig", "listFiles", "listMore", "teams", "check",
            "findApproval", "pullHead", "approve", "autoMerge", "dismiss",
            "listComments", "editComment", "createComment"} \union Ended

(* files: the commits whose files the listing returned; todo: team handles *)
(* left to resolve; found: the review FindApproval returned, 0 for none.   *)
Locals   == [cfg : Configs, files : SUBSET Commits, todo : SUBSET Teams,
             teams : SUBSET Teams, verdict : Outcomes, found : Nat]
NoLocals == [cfg |-> Default, files |-> {}, todo |-> {}, teams |-> {},
             verdict |-> "error", found |-> 0]

TypeOK ==
  /\ WorldOK
  /\ pc \in [Deliveries -> Labels]
  /\ at \in [Deliveries -> Replicas \union {NoReplica}]
  /\ ev \in [Deliveries -> Locals]
  /\ lock \in [Replicas -> [Shards -> Deliveries \union {0}]]
  /\ configCache \in [Replicas -> [Branches -> SUBSET Configs]]
  /\ teamCache \in [Replicas -> [Teams -> [Authors -> SUBSET BOOLEAN]]]
  /\ bot \in [Replicas -> {"unset", "ok", "err"}]

Init ==
  /\ WorldInit
  /\ pc = [d \in Deliveries |-> "raised"]
  /\ at = [d \in Deliveries |-> NoReplica]
  /\ ev = [d \in Deliveries |-> NoLocals]
  /\ lock = [r \in Replicas |-> [s \in Shards |-> 0]]
  /\ configCache = [r \in Replicas |-> [b \in Branches |-> {}]]
  /\ teamCache = [r \in Replicas |-> [t \in Teams |-> [a \in Authors |-> {}]]]
  /\ bot = [r \in Replicas |-> "unset"]

-----------------------------------------------------------------------------
(* What delivery d says and where it stands.                               *)
pr(d)      == evt[d].pr
shard(d)   == Shard[pr(d)]
author(d)  == Author[pr(d)]

LiveHead(d) == head[pr(d)] \* Mutant: judge the head the PR has by now
headSHA(d)  == evt[d].head

(* evaluate reads prove.yml from the repository's default branch, and from *)
(* the branch the PR targets only when the payload names no default.       *)
ConfigBranch(p) == IF DefaultBranch = NoBranch THEN Base[p] ELSE DefaultBranch

PushesOnly(a) == a \in {"opened", "reopened", "synchronize"} \* Mutant: no drafts
relevantPRAction(a) ==
  a \in {"opened", "reopened", "synchronize", "ready_for_review"}

(* Events Process evaluates; it answers a dismissal so that the state      *)
(* stays consistent.                                                       *)
PullsOnly(e) == relevantPRAction(e.action) \* Mutant: ignore dismissals
Processed(e) == relevantPRAction(e.action) \/ e.action = "dismissed"

(* The deferred unlock: whichever way evaluate returns, the mutex is free. *)
UnlockOnSuccess(d, l) == \* Mutant: unlock at the end instead of deferring
  IF l = "done" THEN [lock EXCEPT ![at[d]][shard(d)] = 0] ELSE lock
UnlockBeforeAct(d, l) == \* Mutant: the mutex spans the decision only
  IF (l \in Ended \/ l = "findApproval") /\ lock[at[d]][shard(d)] = d
  THEN [lock EXCEPT ![at[d]][shard(d)] = 0] ELSE lock
Unlocked(d, l) ==
  IF l \in Ended THEN [lock EXCEPT ![at[d]][shard(d)] = 0] ELSE lock

(* The goroutine of d goes on to label l holding e.                        *)
Go(d, l, e) ==
  /\ pc' = [pc EXCEPT ![d] = l]
  /\ ev' = [ev EXCEPT ![d] = IF l \in Ended THEN NoLocals ELSE e]
  /\ at' = [at EXCEPT ![d] = IF l \in Ended THEN NoReplica ELSE @]
  /\ lock' = Unlocked(d, l)

To(d, l) == Go(d, l, ev[d])

(* A call of d returns an error (a refused or lost request, a rate limit,  *)
(* a context past its 30 s) and evaluate goes on to l.                     *)
Fails(d, l) ==
  /\ Spend("fault") /\ To(d, l)
  /\ UNCHANGED <<pulls, repo, traces, evt, caches>>

(* A write that reached GitHub: the reply arrives, or it is lost and the   *)
(* caller sees an error.  Writes are never retried.                        *)
Replies(d, ok, err) ==
  \/ To(d, ok) /\ UNCHANGED left
  \/ To(d, err) /\ Spend("fault")

Loaded(cfg)       == IF IsEnabled(cfg) THEN "listFiles" ELSE "done"
ActAnyway(cfg)    == "findApproval" \* Mutant: a dry run acts
AfterCheck(cfg)   == IF cfg.dry_run THEN "listComments" ELSE "findApproval"
AfterAct(cfg)     == IF cfg.comment THEN "listComments" ELSE "done"
AfterApprove(cfg) == IF cfg.auto_merge.enabled THEN "autoMerge" ELSE AfterAct(cfg)

-----------------------------------------------------------------------------
(* handleWebhook and Process: a replica accepts the delivery; actions      *)
(* prove does not act on and drafts return at once.                        *)
Receive(d, r) ==
  /\ pc[d] = "raised"
  /\ LET e == evt[d] IN
       IF Processed(e) /\ ~e.draft
       THEN pc' = [pc EXCEPT ![d] = "lock"] /\ at' = [at EXCEPT ![d] = r]
       ELSE pc' = [pc EXCEPT ![d] = "done"] /\ at' = at
  /\ UNCHANGED <<world, ev, replica>>

lockPR(d) ==
  /\ pc[d] = "lock"
  /\ lock[at[d]][shard(d)] = 0
  /\ lock' = [lock EXCEPT ![at[d]][shard(d)] = d]
  /\ pc' = [pc EXCEPT ![d] = "bot"]
  /\ UNCHANGED <<world, at, ev, caches>>

(* The sync.Once keeps the outcome of the first call, an error included.   *)
cachedBotLogin(d) ==
  /\ pc[d] = "bot"
  /\ \/ /\ bot[at[d]] \in {"unset", "ok"}
        /\ bot' = [bot EXCEPT ![at[d]] = "ok"]
        /\ To(d, "config") /\ UNCHANGED left
     \/ /\ bot[at[d]] = "unset"
        /\ bot' = [bot EXCEPT ![at[d]] = "err"]
        /\ To(d, "failed") /\ Spend("fault")
     \/ /\ bot[at[d]] = "err"
        /\ To(d, "failed") /\ UNCHANGED <<bot, left>>
  /\ UNCHANGED <<pulls, repo, traces, evt, configCache, teamCache>>

(* loadConfig: a cache hit is used as it is; a miss fetches.               *)
loadConfig(d) ==
  /\ pc[d] = "config"
  /\ LET cached == configCache[at[d]][ConfigBranch(pr(d))] IN
       \/ \E cfg \in cached : Go(d, Loaded(cfg), [ev[d] EXCEPT !.cfg = cfg])
       \/ cached = {} /\ To(d, "getFile")
  /\ UNCHANGED <<world, caches>>

(* config.Load: any error, of the call or of parsing, is a load error.     *)
fetchConfig(d) ==
  /\ pc[d] = "getFile"
  /\ \/ LET f == file[ConfigBranch(pr(d))] IN
          /\ IF f = BadFile THEN To(d, "badConfig")
             ELSE Go(d, "setConfig", [ev[d] EXCEPT !.cfg = f])
          /\ UNCHANGED <<world, caches>>
     \/ Fails(d, "badConfig")

setConfig(d) ==
  /\ pc[d] = "setConfig"
  /\ LET cfg == ev[d].cfg IN
       /\ configCache' =
            [configCache EXCEPT ![at[d]][ConfigBranch(pr(d))] = {cfg}]
       /\ To(d, Loaded(cfg))
  /\ UNCHANGED <<world, teamCache, bot>>

(* evaluate's error path for a config that would not load: one neutral     *)
(* check run, and no look at the approvals already there.                  *)
reportBadConfig(d) ==
  /\ pc[d] = "badConfig"
  /\ \/ /\ checks' = [checks EXCEPT ![headSHA(d)] = "neutral"]
        /\ Replies(d, "done", "failed")
        /\ UNCHANGED <<pulls, repo, reviews, comments, autoMerge, evt, caches>>
     \/ Fails(d, "failed")

-----------------------------------------------------------------------------
(* ListChangedFiles lists what the PR changes now, page by page; the head  *)
(* may move before the first page and between two pages.  decide starts    *)
(* with every team handle the rules name.                                  *)
listPage(d, last) ==
  LET e == [ev[d] EXCEPT !.files = @ \union {head[pr(d)]},
                         !.todo = TeamHandles(ev[d].cfg)]
  IN \/ /\ Go(d, IF last THEN "teams" ELSE "listMore", e)
        /\ UNCHANGED <<world, caches>>
     \/ Fails(d, "failed")

ListChangedFiles(d) ==
  \/ pc[d] = "listFiles" /\ listPage(d, head[pr(d)] \notin Large)
  \/ pc[d] = "listMore" /\ listPage(d, TRUE)

(* The team cache is keyed by team and user.                               *)
AnyUser(d)   == CHOOSE a \in Authors : TRUE \* Mutant: no user in the key
CacheUser(d) == author(d)

(* One turn of resolveAuthorTeams: the cached answer for a handle, or      *)
(* IsTeamMember and the Set that follows it.                               *)
resolveAuthorTeams(d) ==
  /\ pc[d] = "teams"
  /\ \E t \in ev[d].todo :
       LET a == CacheUser(d)
           cached == teamCache[at[d]][t][a]
           answer == t \in members[author(d)]
           Take(isMember) ==
             Go(d, "teams", [ev[d] EXCEPT
                  !.todo = @ \ {t},
                  !.teams = IF isMember THEN @ \union {t} ELSE @])
       IN \/ /\ \E isMember \in cached : Take(isMember)
             /\ UNCHANGED <<world, caches>>
          \/ /\ cached = {}
             /\ Take(answer)
             /\ teamCache' = [teamCache EXCEPT ![at[d]][t][a] = {answer}]
             /\ UNCHANGED <<world, configCache, bot>>
          \/ cached = {} /\ Fails(d, "failed")

(* engine.Decide on what was listed.  Pages of two heads are files of no   *)
(* commit: the decision on them may come out any way.                      *)
Decisions(d) ==
  LET c == ev[d].files IN
    IF \E x \in c : c = {x}
    THEN {Verdict(ev[d].cfg, x, author(d), ev[d].teams) : x \in c}
    ELSE Outcomes

decide(d) ==
  /\ pc[d] = "teams" /\ ev[d].todo = {}
  /\ \E v \in Decisions(d) :
       IF v = "error" THEN To(d, "failed")
                      ELSE Go(d, "check", [ev[d] EXCEPT !.verdict = v])
  /\ UNCHANGED <<world, caches>>

(* The check run goes on the head the event named.  A failed call is only  *)
(* logged.                                                                 *)
NoNeutral(v)  == IF v = "approve" THEN "success" ELSE "failure" \* Mutant
Conclusion(v) == IF v = "approve" THEN "success" ELSE "neutral"

UpsertCheck(d) ==
  /\ pc[d] = "check"
  /\ LET next == AfterCheck(ev[d].cfg) IN
       \/ /\ checks' = [checks EXCEPT ![headSHA(d)] = Conclusion(ev[d].verdict)]
          /\ Replies(d, next, next)
          /\ UNCHANGED <<pulls, repo, reviews, comments, autoMerge, evt, caches>>
       \/ Fails(d, next)

-----------------------------------------------------------------------------
(* act.                                                                    *)
Approvals(p) == {i \in DOMAIN reviews[p] : reviews[p][i].state = "APPROVED"}

FirstApproval(p) == \* Mutant: stop at the first approval of the list
  IF Approvals(p) = {} THEN {0}
  ELSE {i \in Approvals(p) : \A j \in Approvals(p) : i <= j}

(* What FindApproval finds: the last approval in the list wins.            *)
LastApproval(p) ==
  IF Approvals(p) = {} THEN {0}
  ELSE {i \in Approvals(p) : \A j \in Approvals(p) : j <= i}

SomeApproval(d, i) == i # 0 \* Mutant: do not compare the approved commit
ApprovedHead(d, i) == i # 0 /\ reviews[pr(d)][i].commit = headSHA(d)

AfterFind(d, i) ==
  CASE ev[d].verdict = "approve" /\ ~ApprovedHead(d, i) -> "pullHead"
    [] ev[d].verdict # "approve" /\ i # 0 -> "dismiss"
    [] OTHER -> AfterAct(ev[d].cfg)

FindApproval(d) ==
  /\ pc[d] = "findApproval"
  /\ \/ /\ \E i \in LastApproval(pr(d)) :
             Go(d, AfterFind(d, i), [ev[d] EXCEPT !.found = i])
        /\ UNCHANGED <<world, caches>>
     \/ Fails(d, "failed")

NoHeadGuard(d) == \* Mutant: approve whatever the live head is
  pc[d] = "pullHead" /\ To(d, "approve") /\ UNCHANGED <<world, caches>>

MergeAnyway(d) == \* Mutant: a moved head skips the approval only
  /\ pc[d] = "pullHead"
  /\ To(d, IF head[pr(d)] = headSHA(d) THEN "approve"
                                       ELSE AfterApprove(ev[d].cfg))
  /\ UNCHANGED <<world, caches>>

(* The guard of the race between evaluating and approving.                 *)
PullHeadSHA(d) ==
  /\ pc[d] = "pullHead"
  /\ \/ /\ To(d, IF head[pr(d)] = headSHA(d) THEN "approve"
                                             ELSE AfterAct(ev[d].cfg))
        /\ UNCHANGED <<world, caches>>
     \/ Fails(d, "failed")

(* The approval is pinned to the head the event named.                     *)
Approve(d) ==
  /\ pc[d] = "approve"
  /\ \/ LET p == pr(d) IN
          /\ reviews' = [reviews EXCEPT ![p] = Append(@,
               [commit |-> headSHA(d), state |-> "APPROVED",
                files |-> ev[d].files, cfg |-> ev[d].cfg,
                teams |-> ev[d].teams])]
          /\ Replies(d, AfterApprove(ev[d].cfg), "failed")
          /\ UNCHANGED <<pulls, repo, checks, comments, autoMerge, evt, caches>>
     \/ Fails(d, "failed")

EnableAutoMerge(d) ==
  /\ pc[d] = "autoMerge"
  /\ LET next == AfterAct(ev[d].cfg) IN
       \/ /\ autoMerge' = [autoMerge EXCEPT ![pr(d)] = TRUE]
          /\ Replies(d, next, next)
          /\ UNCHANGED <<pulls, repo, reviews, checks, comments, evt, caches>>
       \/ Fails(d, next)

(* GitHub raises a dismissed event for prove's own dismissal too, and      *)
(* refuses to dismiss a review twice.                                      *)
DismissReview(d) ==
  /\ pc[d] = "dismiss"
  /\ LET p == pr(d)
         i == ev[d].found
     IN \/ /\ i \in Approvals(p)
           /\ reviews' = [reviews EXCEPT ![p][i].state = "DISMISSED"]
           /\ UNCHANGED <<pulls, repo, checks, comments, autoMerge, caches>>
           /\ Replies(d, AfterAct(ev[d].cfg), "failed")
           /\ Raise(Payload("dismissed", p))
        \/ /\ i \notin Approvals(p)
           /\ To(d, "failed") /\ UNCHANGED <<world, caches>>
        \/ Fails(d, "failed")

-----------------------------------------------------------------------------
(* UpsertComment: edit the first status comment, or create one.            *)
NeverEdit(d) == \* Mutant: a comment that is there is left as it is
  /\ pc[d] = "listComments"
  /\ To(d, IF comments[pr(d)] = << >> THEN "createComment" ELSE "done")
  /\ UNCHANGED <<world, caches>>

ListComments(d) ==
  /\ pc[d] = "listComments"
  /\ \/ /\ To(d, IF comments[pr(d)] = << >> THEN "createComment"
                                            ELSE "editComment")
        /\ UNCHANGED <<world, caches>>
     \/ Fails(d, "done")

(* What the comment says, apart from reasons and wording: does the PR, or  *)
(* would it in a dry run, qualify?                                         *)
renderComment(d) == ev[d].verdict = "approve"

WriteComment(d) ==
  /\ LET p == pr(d)
         body == renderComment(d)
     IN \/ /\ \/ /\ pc[d] = "editComment"
                 /\ comments' = [comments EXCEPT ![p][1] = body]
              \/ /\ pc[d] = "createComment"
                 /\ comments' = [comments EXCEPT ![p] = Append(@, body)]
           /\ Replies(d, "done", "done")
           /\ UNCHANGED <<pulls, repo, reviews, checks, autoMerge, evt, caches>>
        \/ pc[d] \in {"editComment", "createComment"} /\ Fails(d, "done")

-----------------------------------------------------------------------------
(* A webhook that never reaches a replica.  Nothing asks for it again.     *)
Drop(d) ==
  /\ pc[d] = "raised" /\ Spend("fault")
  /\ pc' = [pc EXCEPT ![d] = "lost"]
  /\ UNCHANGED <<pulls, repo, traces, evt, at, ev, replica>>

(* A cache entry reaches its TTL, or is evicted at capacity.               *)
ExpireConfig(r, b) ==
  /\ configCache[r][b] # {} /\ Spend("expire")
  /\ configCache' = [configCache EXCEPT ![r][b] = {}]
  /\ UNCHANGED <<pulls, repo, traces, evt, pc, at, ev, lock, teamCache, bot>>

ExpireTeam(r, t, a) ==
  /\ teamCache[r][t][a] # {} /\ Spend("expire")
  /\ teamCache' = [teamCache EXCEPT ![r][t][a] = {}]
  /\ UNCHANGED <<pulls, repo, traces, evt, pc, at, ev, lock, configCache, bot>>

(* A replica dies with everything it holds in memory and starts again.     *)
Crash(r) ==
  /\ Spend("crash")
  /\ pc' = [d \in Deliveries |-> IF at[d] = r THEN "lost" ELSE pc[d]]
  /\ ev' = [d \in Deliveries |-> IF at[d] = r THEN NoLocals ELSE ev[d]]
  /\ at' = [d \in Deliveries |-> IF at[d] = r THEN NoReplica ELSE at[d]]
  /\ lock' = [lock EXCEPT ![r] = [s \in Shards |-> 0]]
  /\ configCache' = [configCache EXCEPT ![r] = [b \in Branches |-> {}]]
  /\ teamCache' =
       [teamCache EXCEPT ![r] = [t \in Teams |-> [a \in Authors |-> {}]]]
  /\ bot' = [bot EXCEPT ![r] = "unset"]
  /\ UNCHANGED <<pulls, repo, traces, evt>>

-----------------------------------------------------------------------------
evaluate(d) ==
  \/ lockPR(d) \/ cachedBotLogin(d)
  \/ loadConfig(d) \/ fetchConfig(d) \/ setConfig(d) \/ reportBadConfig(d)
  \/ ListChangedFiles(d) \/ resolveAuthorTeams(d) \/ decide(d)
  \/ UpsertCheck(d)
  \/ FindApproval(d) \/ PullHeadSHA(d) \/ Approve(d) \/ EnableAutoMerge(d)
  \/ DismissReview(d)
  \/ ListComments(d) \/ WriteComment(d)

Process(d) == evaluate(d) \/ \E r \in Replicas : Receive(d, r)

Surroundings ==
  \/ Outside /\ UNCHANGED <<pc, at, ev, replica>>
  \/ \E d \in DOMAIN evt : Drop(d)
  \/ \E r \in Replicas :
       \/ Crash(r)
       \/ \E b \in Branches : ExpireConfig(r, b)
       \/ \E t \in Teams, a \in Authors : ExpireTeam(r, t, a)

Quiet == \A d \in DOMAIN evt : pc[d] \in Ended

(* Every webhook is dealt with: prove rests until the next one.            *)
Rest == Quiet /\ UNCHANGED vars

Next == (\E d \in DOMAIN evt : Process(d)) \/ Surroundings \/ Rest

Spec == Init /\ [][Next]_vars

(* A delivered webhook gets its goroutine, a runnable goroutine runs, its  *)
(* calls end (each within the 30 s of its context), and a Go mutex is      *)
(* handed to a waiter in the end.                                          *)
FairSpec == Spec /\ \A d \in Deliveries :
                      WF_vars(d \in DOMAIN evt /\ Process(d))
=============================================================================
