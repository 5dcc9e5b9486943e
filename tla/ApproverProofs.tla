--------------------------- MODULE ApproverProofs ---------------------------
(***************************************************************************)
(* Theorems about Approver for every set of pull requests, commits,        *)
(* replicas, deliveries and configs, every engine and every budget.        *)
(***************************************************************************)
EXTENDS ApproverProperties, SequenceTheorems, TLAPS

-----------------------------------------------------------------------------
(* Sequences and payloads.                                                 *)

(* Replacing an element of a sequence keeps its length and the others.     *)
LEMMA UpdateSeq ==
  ASSUME NEW S, NEW s \in Seq(S), NEW i \in DOMAIN s, NEW e \in S
  PROVE  /\ [s EXCEPT ![i] = e] \in Seq(S)
         /\ DOMAIN [s EXCEPT ![i] = e] = DOMAIN s
  BY ExceptSeq, LenProperties

(* Dismissing a review keeps the list a list of reviews.                   *)
LEMMA DismissType ==
  ASSUME NEW s \in Seq(Review), NEW i \in DOMAIN s
  PROVE  [s EXCEPT ![i].state = "DISMISSED"] \in Seq(Review)
<1>1. s[i] \in Review
  BY ElementOfSeq, LenProperties
<1>2. [s[i] EXCEPT !.state = "DISMISSED"] \in Review
  BY <1>1 DEF Review
<1> QED
  BY <1>2, UpdateSeq

(* Raising an event that is well formed keeps the log well formed.         *)
LEMMA RaiseType ==
  ASSUME evt \in Seq(Event), NEW e \in Event, Raise(e)
  PROVE  /\ evt' \in Seq(Event)
         /\ Len(evt') <= MaxDeliveries
         /\ Len(evt') = Len(evt) + 1
         /\ \A d \in DOMAIN evt : d \in DOMAIN evt' /\ evt'[d] = evt[d]
         /\ evt'[Len(evt) + 1] = e
         /\ DOMAIN evt' = DOMAIN evt \union {Len(evt) + 1}
  BY WorldType DEF Raise

LEMMA PayloadType ==
  ASSUME NEW p \in PRs, NEW a \in Actions,
         head' \in [PRs -> Commits], stage' \in [PRs -> Stages]
  PROVE  Payload(a, p) \in Event
  BY DEF Payload, Event

(* Spending keeps the budget a budget.                                     *)
LEMMA SpendType ==
  ASSUME left \in [Kinds -> Nat], NEW k \in Kinds, Spend(k)
  PROVE  left' \in [Kinds -> Nat]
  BY DEF Spend

-----------------------------------------------------------------------------
(* Type correctness of what the environment does.                          *)
LEMMA OutsideType ==
  ASSUME WorldOK, Outside
  PROVE  WorldOK'
<1> USE DEF WorldOK
<1>1. ASSUME NEW p \in PRs, Open(p)
      PROVE  WorldOK'
  <2>1. stage' \in [PRs -> Stages]
    BY <1>1 DEF Open, Stages
  <2>2. Payload("opened", p) \in Event
    BY <1>1, <2>1, PayloadType DEF Open, Actions
  <2> QED
    BY <1>1, <2>1, <2>2, RaiseType DEF Open, repo, people, traces
<1>2. ASSUME NEW p \in PRs, Push(p)
      PROVE  WorldOK'
  <2>1. head' \in [PRs -> Commits] /\ past' \in [PRs -> SUBSET Commits]
    <3>1. PICK c \in Series[p] :
            /\ head' = [head EXCEPT ![p] = c]
            /\ past' = [past EXCEPT ![p] = @ \union {head[p]}]
      BY <1>2 DEF Push
    <3>2. c \in Commits
      BY WorldType
    <3> QED
      BY <3>1, <3>2
  <2>2. Payload("synchronize", p) \in Event
    BY <1>2, <2>1, PayloadType DEF Push, Actions
  <2>3. left' \in [Kinds -> Nat]
    BY <1>2, SpendType DEF Push, Kinds
  <2> QED
    BY <1>2, <2>1, <2>2, <2>3, RaiseType DEF Push, repo, people, traces
<1>3. ASSUME NEW p \in PRs, HumanDismiss(p)
      PROVE  WorldOK'
  <2>1. reviews' \in [PRs -> Seq(Review)]
    <3>1. PICK i \in DOMAIN reviews[p] :
            reviews' = [reviews EXCEPT ![p][i].state = "DISMISSED"]
      BY <1>3 DEF HumanDismiss
    <3>2. [reviews[p] EXCEPT ![i].state = "DISMISSED"] \in Seq(Review)
      BY DismissType
    <3> QED
      BY <3>1, <3>2
  <2>2. Payload("dismissed", p) \in Event
    BY <1>3, PayloadType DEF HumanDismiss, Actions, pulls
  <2>3. left' \in [Kinds -> Nat]
    BY <1>3, SpendType DEF HumanDismiss, Kinds
  <2> QED
    BY <1>3, <2>1, <2>2, <2>3, RaiseType DEF HumanDismiss, pulls, repo, people
<1>4. ASSUME NEW p \in PRs, ConvertToDraft(p)
      PROVE  WorldOK'
  <2>1. stage' \in [PRs -> Stages]
    BY <1>4 DEF ConvertToDraft, Stages
  <2>2. Payload("converted_to_draft", p) \in Event
    BY <1>4, <2>1, PayloadType DEF ConvertToDraft, Actions
  <2>3. left' \in [Kinds -> Nat]
    BY <1>4, SpendType DEF ConvertToDraft, Kinds
  <2> QED
    BY <1>4, <2>1, <2>2, <2>3, RaiseType DEF ConvertToDraft, repo, people, traces
<1>5. ASSUME NEW p \in PRs, ReadyForReview(p)
      PROVE  WorldOK'
  <2>1. stage' \in [PRs -> Stages]
    BY <1>5 DEF ReadyForReview, Stages
  <2>2. Payload("ready_for_review", p) \in Event
    BY <1>5, <2>1, PayloadType DEF ReadyForReview, Actions
  <2>3. left' \in [Kinds -> Nat]
    BY <1>5, SpendType DEF ReadyForReview, Kinds
  <2> QED
    BY <1>5, <2>1, <2>2, <2>3, RaiseType DEF ReadyForReview, repo, people, traces
<1>6. CASE EditConfig
  <2>1. left' \in [Kinds -> Nat]
    BY <1>6, SpendType DEF EditConfig, Kinds
  <2> QED
    BY <1>6, <2>1 DEF EditConfig, pulls, people, traces
<1>7. CASE ChangeTeams
  <2>1. left' \in [Kinds -> Nat]
    BY <1>7, SpendType DEF ChangeTeams, Kinds
  <2>2. /\ members' \in [Authors -> SUBSET Teams]
        /\ joined' \in [Authors -> SUBSET Teams]
        /\ lacked' \in [Authors -> SUBSET Teams]
    <3>1. PICK a \in Authors, t \in Teams :
            IF t \in members[a]
            THEN /\ members' = [members EXCEPT ![a] = @ \ {t}]
                 /\ lacked' = [lacked EXCEPT ![a] = @ \union {t}]
                 /\ joined' = joined
            ELSE /\ members' = [members EXCEPT ![a] = @ \union {t}]
                 /\ joined' = [joined EXCEPT ![a] = @ \union {t}]
                 /\ lacked' = lacked
      BY <1>7 DEF ChangeTeams
    <3>2. /\ members[a] \ {t} \in SUBSET Teams
          /\ members[a] \union {t} \in SUBSET Teams
          /\ joined[a] \union {t} \in SUBSET Teams
          /\ lacked[a] \union {t} \in SUBSET Teams
      OBVIOUS
    <3>3. CASE t \in members[a]
      BY <3>1, <3>2, <3>3
    <3>4. CASE t \notin members[a]
      BY <3>1, <3>2, <3>4
    <3> QED
      BY <3>3, <3>4
  <2> QED
    BY <1>7, <2>1, <2>2 DEF ChangeTeams, pulls, traces
<1>8. CASE Redeliver
  <2>1. left' \in [Kinds -> Nat]
    BY <1>8, SpendType DEF Redeliver, Kinds
  <2>2. PICK d \in DOMAIN evt : Raise(evt[d])
    BY <1>8 DEF Redeliver
  <2>3. evt[d] \in Event
    BY ElementOfSeq, LenProperties
  <2> QED
    BY <1>8, <2>1, <2>2, <2>3, RaiseType DEF Redeliver, pulls, repo, people, traces
<1> QED
  BY <1>1, <1>2, <1>3, <1>4, <1>5, <1>6, <1>7, <1>8 DEF Outside

-----------------------------------------------------------------------------
(* Type correctness of prove's own steps.                                  *)
ProcessOK ==
  /\ pc \in [Deliveries -> Labels]
  /\ at \in [Deliveries -> Replicas \union {NoReplica}]
  /\ ev \in [Deliveries -> Locals]
  /\ lock \in [Replicas -> [Shards -> Deliveries \union {0}]]

CachesOK ==
  /\ configCache \in [Replicas -> [Branches -> SUBSET Configs]]
  /\ teamCache \in [Replicas -> [Teams -> [Authors -> SUBSET BOOLEAN]]]
  /\ bot \in [Replicas -> {"unset", "ok", "err"}]

LEMMA TypeParts == TypeOK <=> WorldOK /\ ProcessOK /\ CachesOK
  BY DEF TypeOK, ProcessOK, CachesOK

LEMMA NoLocalsType == NoLocals \in Locals
  BY ConfigType DEF NoLocals, Locals, Outcomes

(* The deliveries raised so far are among those there is room for.         *)
LEMMA RaisedType ==
  ASSUME WorldOK
  PROVE  /\ DOMAIN evt \subseteq Deliveries
         /\ \A d \in DOMAIN evt : evt[d] \in Event
  BY ElementOfSeq, LenProperties, WorldType DEF WorldOK, Deliveries

LEMMA GoType ==
  ASSUME ProcessOK, NEW d \in Deliveries, NEW l \in Labels, NEW e \in Locals,
         Go(d, l, e)
  PROVE  ProcessOK'
  BY NoLocalsType DEF ProcessOK, Go, Unlocked, Ended

(* Moving to another label, failing and being answered.                    *)
LEMMA ToType ==
  ASSUME ProcessOK, NEW d \in Deliveries, NEW l \in Labels, To(d, l)
  PROVE  ProcessOK'
<1>1. ev[d] \in Locals
  BY DEF ProcessOK
<1> QED
  BY <1>1, GoType DEF To

LEMMA FailsType ==
  ASSUME TypeOK, NEW d \in Deliveries, NEW l \in Labels, Fails(d, l)
  PROVE  TypeOK'
<1>1. ProcessOK'
  BY ToType, TypeParts DEF Fails
<1>2. left' \in [Kinds -> Nat]
  BY SpendType DEF Fails, TypeOK, WorldOK, Kinds
<1>3. WorldOK'
  BY <1>2 DEF Fails, TypeOK, WorldOK, pulls, repo, people, traces
<1>4. CachesOK'
  BY DEF Fails, TypeOK, CachesOK, caches
<1> QED
  BY <1>1, <1>3, <1>4 DEF TypeOK, WorldOK, ProcessOK, CachesOK

LEMMA RepliesType ==
  ASSUME TypeOK, NEW d \in Deliveries, NEW l \in Labels, NEW m \in Labels,
         Replies(d, l, m)
  PROVE  ProcessOK' /\ left' \in [Kinds -> Nat]
<1>1. ProcessOK'
  BY ToType, TypeParts DEF Replies
<1>2. left' \in [Kinds -> Nat]
  BY SpendType DEF Replies, TypeOK, WorldOK, Kinds
<1> QED
  BY <1>1, <1>2

(* One step of a delivery that writes nothing outside the process.         *)
LEMMA LocalType ==
  ASSUME TypeOK, NEW d \in Deliveries, NEW l \in Labels, NEW e \in Locals,
         Go(d, l, e), UNCHANGED <<world, caches>>
  PROVE  TypeOK'
<1>1. ProcessOK'
  BY GoType, TypeParts
<1>2. WorldOK' /\ CachesOK'
  BY DEF TypeOK, WorldOK, CachesOK, world, caches
<1> QED
  BY <1>1, <1>2 DEF TypeOK, WorldOK, ProcessOK, CachesOK

(* The labels actions choose between.                                      *)
LEMMA NextLabels ==
  ASSUME NEW cfg
  PROVE  /\ Loaded(cfg) \in Labels /\ AfterCheck(cfg) \in Labels
         /\ AfterAct(cfg) \in Labels /\ AfterApprove(cfg) \in Labels
  BY DEF Loaded, AfterCheck, AfterAct, AfterApprove, Labels, Ended

LEMMA EvaluateType ==
  ASSUME TypeOK, Placed, NEW d \in DOMAIN evt, evaluate(d)
  PROVE  TypeOK'
<1>d. d \in Deliveries /\ evt[d] \in Event
  BY RaisedType DEF TypeOK
<1>e. /\ pr(d) \in PRs /\ headSHA(d) \in Commits /\ author(d) \in Authors
      /\ shard(d) \in Shards
  BY <1>d, WorldType, ApproverType DEF Event, pr, headSHA, author, shard
<1>l. ev[d] \in Locals /\ at[d] \in Replicas \union {NoReplica}
  BY <1>d DEF TypeOK
<1>n. ASSUME NEW cfg
      PROVE  /\ Loaded(cfg) \in Labels /\ AfterCheck(cfg) \in Labels
             /\ AfterAct(cfg) \in Labels /\ AfterApprove(cfg) \in Labels
  BY NextLabels
<1>w. {"raised", "lock", "bot", "config", "getFile", "setConfig", "badConfig",
       "listFiles", "listMore", "teams", "check", "findApproval", "pullHead",
       "approve", "autoMerge", "dismiss", "listComments", "editComment",
       "createComment", "done", "failed", "lost"} \subseteq Labels
  BY DEF Labels, Ended
<1> USE <1>d, <1>e, <1>l, <1>n, <1>w
<1>1. CASE lockPR(d)
  BY <1>1 DEF lockPR, TypeOK, WorldOK, world, caches
<1>2. CASE cachedBotLogin(d)
  <2>1. ProcessOK'
    BY <1>2, ToType, TypeParts DEF cachedBotLogin
  <2>2. left' \in [Kinds -> Nat]
    BY <1>2, SpendType DEF cachedBotLogin, TypeOK, WorldOK, Kinds
  <2>3. WorldOK'
    BY <1>2, <2>2 DEF cachedBotLogin, TypeOK, WorldOK, pulls, repo, people, traces
  <2>4. CachesOK'
    BY <1>2 DEF cachedBotLogin, TypeOK, CachesOK
  <2> QED
    BY <2>1, <2>3, <2>4 DEF TypeOK, WorldOK, ProcessOK, CachesOK
<1>3. CASE loadConfig(d)
  <2>1. ASSUME NEW cfg \in configCache[at[d]][ConfigBranch(pr(d))],
               Go(d, Loaded(cfg), [ev[d] EXCEPT !.cfg = cfg])
        PROVE  TypeOK'
    <3>1. at[d] \in Replicas
      BY <1>3 DEF loadConfig, Placed, Resting, Ended
    <3>2. ConfigBranch(pr(d)) \in Branches
      BY WorldType DEF ConfigBranch
    <3>3. cfg \in Configs
      BY <3>1, <3>2 DEF TypeOK
    <3>4. [ev[d] EXCEPT !.cfg = cfg] \in Locals
      BY <3>3 DEF Locals
    <3> QED
      BY <1>3, <2>1, <3>4, LocalType DEF loadConfig
  <2>2. CASE To(d, "getFile")
    BY <1>3, <2>2, LocalType DEF loadConfig, To
  <2> QED
    BY <1>3, <2>1, <2>2 DEF loadConfig
<1>4. CASE fetchConfig(d)
  <2>1. CASE Fails(d, "badConfig")
    BY <2>1, FailsType
  <2> DEFINE f == file[ConfigBranch(pr(d))]
  <2>2. CASE UNCHANGED <<world, caches>> /\ f = BadFile /\ To(d, "badConfig")
    BY <2>2, LocalType DEF To
  <2>3. CASE /\ UNCHANGED <<world, caches>> /\ f # BadFile
             /\ Go(d, "setConfig", [ev[d] EXCEPT !.cfg = f])
    <3>1. f \in Configs
      BY <2>3, WorldType DEF TypeOK, WorldOK, Files, ConfigBranch
    <3>2. [ev[d] EXCEPT !.cfg = f] \in Locals
      BY <3>1 DEF Locals
    <3> QED
      BY <2>3, <3>2, LocalType
  <2> QED
    BY <1>4, <2>1, <2>2, <2>3 DEF fetchConfig
<1>5. CASE setConfig(d)
  <2>1. ProcessOK'
    BY <1>5, ToType, TypeParts DEF setConfig
  <2>2. CachesOK'
    BY <1>5 DEF setConfig, TypeOK, CachesOK, Locals
  <2>3. WorldOK'
    BY <1>5 DEF setConfig, TypeOK, WorldOK, world
  <2> QED
    BY <2>1, <2>2, <2>3 DEF TypeOK, WorldOK, ProcessOK, CachesOK
<1>6. CASE reportBadConfig(d)
  <2>1. CASE Fails(d, "failed")
    BY <2>1, FailsType
  <2>2. CASE /\ checks' = [checks EXCEPT ![headSHA(d)] = "neutral"]
             /\ Replies(d, "done", "failed")
             /\ UNCHANGED <<pulls, repo, reviews, comments, autoMerge, evt, caches>>
    <3>1. ProcessOK' /\ left' \in [Kinds -> Nat]
      BY <2>2, RepliesType
    <3>2. WorldOK' /\ CachesOK'
      BY <2>2, <3>1
      DEF TypeOK, WorldOK, CachesOK, Conclusions, pulls, repo, people, caches
    <3> QED
      BY <3>1, <3>2 DEF TypeOK, WorldOK, ProcessOK, CachesOK
  <2> QED
    BY <1>6, <2>1, <2>2 DEF reportBadConfig
<1>7. CASE ListChangedFiles(d)
  <2>1. PICK last \in BOOLEAN : listPage(d, last)
    BY <1>7 DEF ListChangedFiles
  <2> DEFINE e == [ev[d] EXCEPT !.files = @ \union {head[pr(d)]},
                                !.todo = TeamHandles(ev[d].cfg)]
  <2>2. CASE Fails(d, "failed")
    BY <2>2, FailsType
  <2>3. CASE /\ Go(d, IF last THEN "teams" ELSE "listMore", e)
             /\ UNCHANGED <<world, caches>>
    <3>1. head[pr(d)] \in Commits /\ TeamHandles(ev[d].cfg) \in SUBSET Teams
      BY TeamHandlesType DEF TypeOK, WorldOK, Locals
    <3>2. e \in Locals
      BY <3>1 DEF Locals
    <3> QED
      BY <2>3, <3>2, LocalType
  <2> QED
    BY <2>1, <2>2, <2>3 DEF listPage
<1>8. CASE resolveAuthorTeams(d)
  <2>1. PICK t \in ev[d].todo :
          LET a == CacheUser(d)
              cached == teamCache[at[d]][t][a]
              answer == t \in members[author(d)]
              Take(isMember) ==
                Go(d, "teams", [ev[d] EXCEPT
                     !.todo = @ \ {t},
                     !.teams = IF isMember THEN @ \union {t} ELSE @])
          IN \/ /\ \E isMember \in cached : Take(isMember)
                /\ UNCHANGED <<world, caches>>
             \/ /\ cached = {}
                /\ Take(answer)
                /\ teamCache' = [teamCache EXCEPT ![at[d]][t][a] = {answer}]
                /\ UNCHANGED <<world, configCache, bot>>
             \/ cached = {} /\ Fails(d, "failed")
    BY <1>8 DEF resolveAuthorTeams
  <2> DEFINE Take(b) == [ev[d] EXCEPT !.todo = @ \ {t},
                           !.teams = IF b THEN @ \union {t} ELSE @]
             answer == t \in members[author(d)]
  <2>2. t \in Teams /\ \A b : Take(b) \in Locals
    BY DEF Locals
  <2>3. CASE Fails(d, "failed")
    BY <2>3, FailsType
  <2>4. ASSUME NEW b, Go(d, "teams", Take(b)), UNCHANGED <<world, caches>>
        PROVE  TypeOK'
    BY <2>4, <2>2, LocalType
  <2>5. CASE /\ Go(d, "teams", Take(answer))
             /\ teamCache' = [teamCache EXCEPT ![at[d]][t][CacheUser(d)] = {answer}]
             /\ UNCHANGED <<world, configCache, bot>>
    <3>1. ProcessOK'
      BY <2>5, <2>2, GoType, TypeParts
    <3>2. WorldOK'
      BY <2>5 DEF TypeOK, WorldOK, world
    <3>3. {answer} \in SUBSET BOOLEAN
      OBVIOUS
    <3>4. CachesOK'
      BY <2>5, <2>2, <3>3 DEF TypeOK, CachesOK
    <3> QED
      BY <3>1, <3>2, <3>4 DEF TypeOK, WorldOK, ProcessOK, CachesOK
  <2> QED
    BY <2>1, <2>3, <2>4, <2>5
<1>9. CASE decide(d)
  <2>1. PICK v \in Decisions(d) :
          IF v = "error" THEN To(d, "failed")
                         ELSE Go(d, "check", [ev[d] EXCEPT !.verdict = v])
    BY <1>9 DEF decide
  <2>2. v \in Outcomes
    BY VerdictType DEF Decisions, Locals
  <2>3. [ev[d] EXCEPT !.verdict = v] \in Locals
    BY <2>2 DEF Locals
  <2> QED
    BY <1>9, <2>1, <2>3, LocalType DEF decide, To
<1>10. CASE UpsertCheck(d)
  <2> DEFINE next == AfterCheck(ev[d].cfg)
  <2>1. CASE Fails(d, next)
    BY <2>1, FailsType
  <2>2. CASE /\ checks' = [checks EXCEPT ![headSHA(d)] = Conclusion(ev[d].verdict)]
             /\ Replies(d, next, next)
             /\ UNCHANGED <<pulls, repo, reviews, comments, autoMerge, evt, caches>>
    <3>1. ProcessOK' /\ left' \in [Kinds -> Nat]
      BY <2>2, RepliesType
    <3>2. WorldOK' /\ CachesOK'
      BY <2>2, <3>1
      DEF TypeOK, WorldOK, CachesOK, Conclusions, Conclusion, pulls, repo, people, caches
    <3> QED
      BY <3>1, <3>2 DEF TypeOK, WorldOK, ProcessOK, CachesOK
  <2> QED
    BY <1>10, <2>1, <2>2 DEF UpsertCheck
<1>11. CASE FindApproval(d)
  <2>1. CASE Fails(d, "failed")
    BY <2>1, FailsType
  <2>2. ASSUME NEW i \in LastApproval(pr(d)), UNCHANGED <<world, caches>>,
               Go(d, AfterFind(d, i), [ev[d] EXCEPT !.found = i])
        PROVE  TypeOK'
    <3>1. AfterFind(d, i) \in Labels
      BY DEF AfterFind
    <3>2. i \in Nat
      BY LenProperties DEF LastApproval, Approvals, TypeOK, WorldOK
    <3>3. [ev[d] EXCEPT !.found = i] \in Locals
      BY <3>2 DEF Locals
    <3> QED
      BY <2>2, <3>1, <3>3, LocalType
  <2> QED
    BY <1>11, <2>1, <2>2 DEF FindApproval
<1>12. CASE PullHeadSHA(d)
  <2>1. CASE Fails(d, "failed")
    BY <2>1, FailsType
  <2>2. ASSUME NEW l \in Labels, To(d, l), UNCHANGED <<world, caches>>
        PROVE  TypeOK'
    BY <2>2, LocalType DEF To
  <2> QED
    BY <1>12, <2>1, <2>2 DEF PullHeadSHA
<1>13. CASE Approve(d)
  <2>1. CASE Fails(d, "failed")
    BY <2>1, FailsType
  <2> DEFINE r == [commit |-> headSHA(d), state |-> "APPROVED",
                   files |-> ev[d].files, cfg |-> ev[d].cfg,
                   teams |-> ev[d].teams]
  <2>2. CASE /\ reviews' = [reviews EXCEPT ![pr(d)] = Append(@, r)]
             /\ Replies(d, AfterApprove(ev[d].cfg), "failed")
             /\ UNCHANGED <<pulls, repo, checks, comments, autoMerge, evt, caches>>
    <3>1. ProcessOK' /\ left' \in [Kinds -> Nat]
      BY <2>2, RepliesType
    <3>2. r \in Review
      BY DEF Review, Locals
    <3>3. reviews' \in [PRs -> Seq(Review)]
      BY <2>2, <3>2 DEF TypeOK, WorldOK
    <3>4. WorldOK' /\ CachesOK'
      BY <2>2, <3>1, <3>3 DEF TypeOK, WorldOK, CachesOK, pulls, repo, people, caches
    <3> QED
      BY <3>1, <3>4 DEF TypeOK, WorldOK, ProcessOK, CachesOK
  <2> QED
    BY <1>13, <2>1, <2>2 DEF Approve
<1>14. CASE EnableAutoMerge(d)
  <2> DEFINE next == AfterAct(ev[d].cfg)
  <2>1. CASE Fails(d, next)
    BY <2>1, FailsType
  <2>2. CASE /\ autoMerge' = [autoMerge EXCEPT ![pr(d)] = TRUE]
             /\ Replies(d, next, next)
             /\ UNCHANGED <<pulls, repo, reviews, checks, comments, evt, caches>>
    <3>1. ProcessOK' /\ left' \in [Kinds -> Nat]
      BY <2>2, RepliesType
    <3>2. WorldOK' /\ CachesOK'
      BY <2>2, <3>1 DEF TypeOK, WorldOK, CachesOK, pulls, repo, people, caches
    <3> QED
      BY <3>1, <3>2 DEF TypeOK, WorldOK, ProcessOK, CachesOK
  <2> QED
    BY <1>14, <2>1, <2>2 DEF EnableAutoMerge
<1>15. CASE DismissReview(d)
  <2> DEFINE i == ev[d].found
  <2>1. CASE Fails(d, "failed")
    BY <2>1, FailsType
  <2>2. CASE To(d, "failed") /\ UNCHANGED <<world, caches>>
    BY <2>2, LocalType DEF To
  <2>3. CASE /\ i \in Approvals(pr(d))
             /\ reviews' = [reviews EXCEPT ![pr(d)][i].state = "DISMISSED"]
             /\ UNCHANGED <<pulls, repo, checks, comments, autoMerge, caches>>
             /\ Replies(d, AfterAct(ev[d].cfg), "failed")
             /\ Raise(Payload("dismissed", pr(d)))
    <3>1. ProcessOK' /\ left' \in [Kinds -> Nat]
      BY <2>3, RepliesType
    <3>2. [reviews[pr(d)] EXCEPT ![i].state = "DISMISSED"] \in Seq(Review)
      BY <2>3, DismissType DEF Approvals, TypeOK, WorldOK
    <3>3. reviews' \in [PRs -> Seq(Review)]
      BY <2>3, <3>2 DEF TypeOK, WorldOK
    <3>4. Payload("dismissed", pr(d)) \in Event
      BY <2>3, PayloadType DEF TypeOK, WorldOK, pulls, Actions
    <3>5. evt' \in Seq(Event) /\ Len(evt') <= MaxDeliveries
      BY <2>3, <3>4, RaiseType DEF TypeOK, WorldOK
    <3>6. WorldOK' /\ CachesOK'
      BY <2>3, <3>1, <3>3, <3>5 DEF TypeOK, WorldOK, CachesOK, pulls, repo, people, caches
    <3> QED
      BY <3>1, <3>6 DEF TypeOK, WorldOK, ProcessOK, CachesOK
  <2> QED
    BY <1>15, <2>1, <2>2, <2>3 DEF DismissReview
<1>16. CASE ListComments(d)
  <2>1. CASE Fails(d, "done")
    BY <2>1, FailsType
  <2>2. ASSUME NEW l \in Labels, To(d, l), UNCHANGED <<world, caches>>
        PROVE  TypeOK'
    BY <2>2, LocalType DEF To
  <2> QED
    BY <1>16, <2>1, <2>2 DEF ListComments
<1>17. CASE WriteComment(d)
  <2> DEFINE p == pr(d)
             body == renderComment(d)
  <2>1. CASE Fails(d, "done")
    BY <2>1, FailsType
  <2>2. CASE /\ \/ comments' = [comments EXCEPT ![p][1] = body]
                \/ comments' = [comments EXCEPT ![p] = Append(@, body)]
             /\ Replies(d, "done", "done")
             /\ UNCHANGED <<pulls, repo, reviews, checks, autoMerge, evt, caches>>
    <3>1. ProcessOK' /\ left' \in [Kinds -> Nat]
      BY <2>2, RepliesType
    <3>2. body \in BOOLEAN
      BY DEF renderComment
    <3>3. comments[p] \in Seq(BOOLEAN)
      BY DEF TypeOK, WorldOK
    <3>4. /\ Append(comments[p], body) \in Seq(BOOLEAN)
          /\ [comments[p] EXCEPT ![1] = body] \in Seq(BOOLEAN)
      <4>1. CASE 1 \in DOMAIN comments[p]
        BY <3>2, <3>3, <4>1, UpdateSeq
      <4>2. CASE 1 \notin DOMAIN comments[p]
        <5> DEFINE s == comments[p]
                   t == [s EXCEPT ![1] = body]
        <5>1. s \in [1..Len(s) -> BOOLEAN] /\ DOMAIN s = 1..Len(s)
          BY <3>3, LenProperties
        <5>2. t = [j \in DOMAIN s |-> s[j]]
          BY <4>2, Zenon
        <5>3. s = [j \in DOMAIN s |-> s[j]]
          BY <5>1, Zenon
        <5>4. t = s
          BY <5>2, <5>3, Zenon
        <5>5. t \in Seq(BOOLEAN)
          BY <3>3, <5>4, Zenon
        <5>6. Append(s, body) \in Seq(BOOLEAN)
          BY <3>2, <3>3
        <5> QED
          BY <5>5, <5>6, Zenon
      <4> QED
        BY <4>1, <4>2
    <3>5. comments' \in [PRs -> Seq(BOOLEAN)]
      BY <2>2, <3>4 DEF TypeOK, WorldOK
    <3>6. WorldOK' /\ CachesOK'
      BY <2>2, <3>1, <3>5 DEF TypeOK, WorldOK, CachesOK, pulls, repo, people, caches
    <3> QED
      BY <3>1, <3>6 DEF TypeOK, WorldOK, ProcessOK, CachesOK
  <2> QED
    BY <1>17, <2>1, <2>2 DEF WriteComment
<1> QED
  BY <1>1, <1>2, <1>3, <1>4, <1>5, <1>6, <1>7, <1>8, <1>9, <1>10, <1>11,
     <1>12, <1>13, <1>14, <1>15, <1>16, <1>17 DEF evaluate

(* Type correctness of what happens to a delivery or a replica.            *)
LEMMA ReceiveType ==
  ASSUME TypeOK, NEW d \in DOMAIN evt, NEW r \in Replicas, Receive(d, r)
  PROVE  TypeOK'
<1>1. d \in Deliveries /\ "lock" \in Labels /\ "done" \in Labels
  BY RaisedType DEF TypeOK, Labels, Ended
<1>2. ProcessOK'
  BY <1>1 DEF Receive, TypeOK, ProcessOK, replica
<1>3. WorldOK' /\ CachesOK'
  BY DEF Receive, TypeOK, WorldOK, CachesOK, world, replica
<1> QED
  BY <1>2, <1>3 DEF TypeOK, WorldOK, ProcessOK, CachesOK

LEMMA DropType ==
  ASSUME TypeOK, NEW d \in DOMAIN evt, Drop(d)
  PROVE  TypeOK'
<1>1. d \in Deliveries /\ "lost" \in Labels
  BY RaisedType DEF TypeOK, Labels, Ended
<1>2. left' \in [Kinds -> Nat]
  BY SpendType DEF Drop, TypeOK, WorldOK, Kinds
<1>3. ProcessOK'
  BY <1>1 DEF Drop, TypeOK, ProcessOK, replica
<1>4. WorldOK' /\ CachesOK'
  BY <1>2 DEF Drop, TypeOK, WorldOK, CachesOK, pulls, repo, people, traces, replica
<1> QED
  BY <1>3, <1>4 DEF TypeOK, WorldOK, ProcessOK, CachesOK

LEMMA ExpireType ==
  ASSUME TypeOK, NEW r \in Replicas,
         \/ \E b \in Branches : ExpireConfig(r, b)
         \/ \E t \in Teams, a \in Authors : ExpireTeam(r, t, a)
  PROVE  TypeOK'
<1>1. left' \in [Kinds -> Nat]
  BY SpendType DEF ExpireConfig, ExpireTeam, TypeOK, WorldOK, Kinds
<1>2. CASE \E b \in Branches : ExpireConfig(r, b)
  BY <1>1, <1>2 DEF ExpireConfig, TypeOK, WorldOK, pulls, repo, people, traces
<1>3. CASE \E t \in Teams, a \in Authors : ExpireTeam(r, t, a)
  BY <1>1, <1>3 DEF ExpireTeam, TypeOK, WorldOK, pulls, repo, people, traces
<1> QED
  BY <1>2, <1>3

LEMMA CrashType ==
  ASSUME TypeOK, NEW r \in Replicas, Crash(r)
  PROVE  TypeOK'
<1>1. left' \in [Kinds -> Nat]
  BY SpendType DEF Crash, TypeOK, WorldOK, Kinds
<1>2. ProcessOK'
  BY NoLocalsType DEF Crash, TypeOK, ProcessOK, Labels, Ended
<1>3. CachesOK'
  BY DEF Crash, TypeOK, CachesOK
<1>4. WorldOK'
  BY <1>1 DEF Crash, TypeOK, WorldOK, pulls, repo, people, traces
<1> QED
  BY <1>2, <1>3, <1>4 DEF TypeOK, WorldOK, ProcessOK, CachesOK

(* Every step keeps the types.                                             *)
LEMMA StepType ==
  ASSUME TypeOK, Placed, [Next]_vars
  PROVE  TypeOK'
<1>1. ASSUME NEW d \in DOMAIN evt, Process(d)
      PROVE  TypeOK'
  BY <1>1, EvaluateType, ReceiveType DEF Process
<1>2. CASE Outside /\ UNCHANGED <<pc, at, ev, replica>>
  <2>1. WorldOK'
    BY <1>2, OutsideType DEF TypeOK
  <2> QED
    BY <1>2, <2>1 DEF TypeOK, WorldOK, replica
<1>3. ASSUME NEW d \in DOMAIN evt, Drop(d)
      PROVE  TypeOK'
  BY <1>3, DropType
<1>4. ASSUME NEW r \in Replicas,
             \/ Crash(r)
             \/ \E b \in Branches : ExpireConfig(r, b)
             \/ \E t \in Teams, a \in Authors : ExpireTeam(r, t, a)
      PROVE  TypeOK'
  BY <1>4, CrashType, ExpireType
<1>5. CASE UNCHANGED vars
  BY <1>5 DEF TypeOK, WorldOK, vars, world
<1> QED
  BY <1>1, <1>2, <1>3, <1>4, <1>5 DEF Next, Surroundings, Rest

LEMMA InitType == Init => TypeOK
<1> SUFFICES ASSUME Init PROVE TypeOK
  OBVIOUS
<1>1. WorldOK
  BY WorldType DEF Init, WorldInit, WorldOK, Stages, Files, Conclusions
<1>2. ProcessOK
  BY NoLocalsType DEF Init, ProcessOK, Labels
<1>3. CachesOK
  BY DEF Init, CachesOK
<1> QED
  BY <1>1, <1>2, <1>3 DEF TypeOK, WorldOK, ProcessOK, CachesOK

-----------------------------------------------------------------------------
(* Where deliveries are, and what they hold, for TypeOK and for what       *)
(* follows.                                                                *)

(* A step of evaluate moves one running delivery and nothing of another.   *)
Moves(d, l, e) ==
  /\ pc' = [pc EXCEPT ![d] = l]
  /\ ev' = [ev EXCEPT ![d] = e]
  /\ at' = [at EXCEPT ![d] = IF l \in Ended THEN NoReplica ELSE @]

LEMMA EvaluateMoves ==
  ASSUME TypeOK, NEW d, evaluate(d)
  PROVE  pc[d] \notin Resting /\ \E l, e : Moves(d, l, e) /\ l # "raised"
<1>go. ASSUME NEW l, NEW e, Go(d, l, e), l # "raised"
       PROVE  \E m, f : Moves(d, m, f) /\ m # "raised"
  BY <1>go DEF Go, Moves
<1>to. ASSUME NEW l, To(d, l), l # "raised"
       PROVE  \E m, f : Moves(d, m, f) /\ m # "raised"
  BY <1>to, <1>go DEF To
<1>n. \A cfg : /\ Loaded(cfg) # "raised" /\ AfterCheck(cfg) # "raised"
               /\ AfterAct(cfg) # "raised" /\ AfterApprove(cfg) # "raised"
  BY DEF Loaded, AfterCheck, AfterAct, AfterApprove
<1> USE <1>go, <1>to, <1>n DEF Resting, Ended, Fails, Replies
<1>1. CASE lockPR(d)
  <2>1. ev' = [ev EXCEPT ![d] = ev[d]] /\ at' = [at EXCEPT ![d] = @]
    BY <1>1 DEF lockPR, TypeOK
  <2>2. Moves(d, "bot", ev[d])
    BY <1>1, <2>1 DEF lockPR, Moves
  <2> QED
    BY <1>1, <2>2 DEF lockPR
<1>2. CASE cachedBotLogin(d) \/ setConfig(d) \/ reportBadConfig(d)
  BY <1>2 DEF cachedBotLogin, setConfig, reportBadConfig
<1>3. CASE loadConfig(d) \/ fetchConfig(d)
  BY <1>3 DEF loadConfig, fetchConfig
<1>4. CASE ListChangedFiles(d)
  BY <1>4 DEF ListChangedFiles, listPage
<1>5. CASE resolveAuthorTeams(d)
  BY <1>5 DEF resolveAuthorTeams
<1>6. CASE decide(d)
  BY <1>6 DEF decide
<1>7. CASE UpsertCheck(d) \/ Approve(d) \/ EnableAutoMerge(d)
  BY <1>7 DEF UpsertCheck, Approve, EnableAutoMerge
<1>8. CASE FindApproval(d)
  BY <1>8 DEF FindApproval, AfterFind
<1>9. CASE PullHeadSHA(d) \/ DismissReview(d)
  BY <1>9 DEF PullHeadSHA, DismissReview
<1>10. CASE ListComments(d) \/ WriteComment(d)
  BY <1>10 DEF ListComments, WriteComment
<1> QED
  BY <1>1, <1>2, <1>3, <1>4, <1>5, <1>6, <1>7, <1>8, <1>9, <1>10 DEF evaluate

(* Nothing happened to d yet.                                              *)
Fresh(d) == pc[d] = "raised" /\ ev[d] = NoLocals /\ at[d] = NoReplica

LEMMA PlacedStep ==
  ASSUME TypeOK, Placed, Unraised, [Next]_vars
  PROVE  Placed' /\ (\A d \in Deliveries \ DOMAIN evt : Fresh(d)')
<1> DEFINE Kept == \A d \in Deliveries \ DOMAIN evt : Fresh(d)'
<1>r. NoReplica \notin Replicas
  BY ApproverType
<1>u. ASSUME NEW d \in Deliveries \ DOMAIN evt
      PROVE  Fresh(d)
  BY DEF Unraised, Fresh
<1>1. ASSUME NEW d \in DOMAIN evt, evaluate(d)
      PROVE  Placed' /\ Kept
  <2>1. PICK l, e : Moves(d, l, e)
    BY <1>1, EvaluateMoves
  <2>2. pc[d] \notin Resting
    BY <1>1, EvaluateMoves
  <2>3. Kept
    BY <2>1, <1>u DEF Moves, TypeOK, Fresh
  <2>4. Placed'
    BY <2>1, <2>2 DEF Moves, Placed, TypeOK, Resting
  <2> QED
    BY <2>3, <2>4
<1>2. ASSUME NEW d \in DOMAIN evt, NEW r \in Replicas, Receive(d, r)
      PROVE  Placed' /\ Kept
  <2>1. Kept
    BY <1>2, <1>u DEF Receive, TypeOK, Fresh
  <2>2. Placed'
    BY <1>2 DEF Receive, Placed, TypeOK, Resting, Ended
  <2> QED
    BY <2>1, <2>2
<1>3. ASSUME NEW d \in DOMAIN evt, Drop(d)
      PROVE  Placed' /\ Kept
  BY <1>3, <1>u DEF Drop, Placed, TypeOK, Resting, Ended, Fresh
<1>4. ASSUME NEW r \in Replicas, Crash(r)
      PROVE  Placed' /\ Kept
  <2>1. Placed'
    BY <1>4 DEF Crash, Placed, Resting, Ended
  <2>2. ASSUME NEW d \in Deliveries \ DOMAIN evt
        PROVE  Fresh(d)'
    BY <1>4, <1>u, <1>r, <2>2 DEF Crash, Fresh
  <2> QED
    BY <2>1, <2>2
<1>5. CASE UNCHANGED <<pc, at, ev>>
  BY <1>5, <1>u DEF Placed, Fresh
<1>6. ASSUME NEW r \in Replicas,
             \/ \E b \in Branches : ExpireConfig(r, b)
             \/ \E t \in Teams, a \in Authors : ExpireTeam(r, t, a)
      PROVE  Placed' /\ Kept
  BY <1>6, <1>5 DEF ExpireConfig, ExpireTeam
<1> QED
  BY <1>1, <1>2, <1>3, <1>4, <1>5, <1>6
  DEF Next, Process, Surroundings, Rest, vars, replica

(* The event log only grows, by events about the head a PR has or had.     *)
EvtGrows ==
  /\ DOMAIN evt \subseteq DOMAIN evt'
  /\ \A d \in DOMAIN evt : evt'[d] = evt[d]
  /\ \A d \in DOMAIN evt' \ DOMAIN evt :
       /\ evt'[d] \in Event
       /\ \/ evt'[d].head = head'[evt'[d].pr]
          \/ \E c \in DOMAIN evt : evt'[d] = evt[c]

LEMMA RaiseGrows ==
  ASSUME TypeOK, NEW e \in Event, Raise(e),
         e.head = head'[e.pr] \/ \E c \in DOMAIN evt : e = evt[c]
  PROVE  EvtGrows
BY RaiseType DEF TypeOK, WorldOK, EvtGrows

LEMMA PayloadGrows ==
  ASSUME TypeOK, TypeOK', NEW p \in PRs, NEW a \in Actions, Raise(Payload(a, p))
  PROVE  EvtGrows
<1>1. Payload(a, p) \in Event
  BY PayloadType DEF TypeOK, WorldOK
<1>2. Payload(a, p).head = head'[Payload(a, p).pr]
  BY DEF Payload
<1> QED
  BY <1>1, <1>2, RaiseGrows

LEMMA SameGrows ==
  ASSUME UNCHANGED evt
  PROVE  EvtGrows
BY DEF EvtGrows

LEMMA OutsideGrows ==
  ASSUME TypeOK, TypeOK', Outside
  PROVE  EvtGrows
<1>a. {"opened", "synchronize", "converted_to_draft", "ready_for_review",
       "dismissed"} \subseteq Actions
  BY DEF Actions
<1>1. ASSUME NEW p \in PRs,
             \/ Open(p) \/ Push(p) \/ HumanDismiss(p)
             \/ ConvertToDraft(p) \/ ReadyForReview(p)
      PROVE  EvtGrows
  BY <1>a, <1>1, PayloadGrows
  DEF Open, Push, HumanDismiss, ConvertToDraft, ReadyForReview
<1>2. CASE EditConfig \/ ChangeTeams
  BY <1>2, SameGrows DEF EditConfig, ChangeTeams
<1>3. CASE Redeliver
  BY <1>3, RaisedType, RaiseGrows DEF Redeliver, TypeOK
<1> QED
  BY <1>1, <1>2, <1>3 DEF Outside

LEMMA EvaluateGrows ==
  ASSUME TypeOK, TypeOK', NEW d \in DOMAIN evt, evaluate(d)
  PROVE  EvtGrows
<1>1. CASE DismissReview(d)
  <2>1. pr(d) \in PRs
    BY RaisedType DEF TypeOK, Event, pr
  <2>2. "dismissed" \in Actions
    BY DEF Actions
  <2>3. \/ Raise(Payload("dismissed", pr(d)))
        \/ UNCHANGED evt
    BY <1>1 DEF DismissReview, Fails, world
  <2> QED
    BY <2>1, <2>2, <2>3, PayloadGrows, SameGrows
<1>2. CASE ~DismissReview(d)
  <2>1. UNCHANGED evt
    BY <1>2 DEF evaluate, lockPR, cachedBotLogin, loadConfig, fetchConfig,
       setConfig, reportBadConfig, ListChangedFiles, listPage,
       resolveAuthorTeams, decide, UpsertCheck, FindApproval, PullHeadSHA,
       Approve, EnableAutoMerge, ListComments, WriteComment, Fails, world
  <2> QED
    BY <2>1, SameGrows
<1> QED
  BY <1>1, <1>2

LEMMA StepGrows ==
  ASSUME TypeOK, TypeOK', [Next]_vars
  PROVE  EvtGrows
<1>1. ASSUME NEW d \in DOMAIN evt, Process(d)
      PROVE  EvtGrows
  BY <1>1, EvaluateGrows, SameGrows DEF Process, Receive, world
<1>2. CASE Outside
  BY <1>2, OutsideGrows
<1>3. CASE Surroundings /\ ~Outside
  BY <1>3, SameGrows DEF Surroundings, Drop, Crash, ExpireConfig, ExpireTeam
<1>4. CASE UNCHANGED vars
  BY <1>4, SameGrows DEF vars, world
<1> QED
  BY <1>1, <1>2, <1>3, <1>4 DEF Next, Rest

-----------------------------------------------------------------------------
(* In every reachable state every variable has its type, a delivery is on  *)
(* a replica exactly while its goroutine runs, and nothing happens to a    *)
(* delivery before it is raised.                                           *)
PlacedInv == TypeOK /\ Placed /\ Unraised

LEMMA PlacedInvStep == PlacedInv /\ [Next]_vars => PlacedInv'
<1> SUFFICES ASSUME PlacedInv, [Next]_vars
             PROVE  PlacedInv'
  OBVIOUS
<1>1. TypeOK'
  BY StepType DEF PlacedInv
<1>2. Placed' /\ \A d \in Deliveries \ DOMAIN evt : Fresh(d)'
  BY PlacedStep DEF PlacedInv
<1>3. Unraised'
  BY <1>1, <1>2, StepGrows DEF PlacedInv, EvtGrows, Unraised, Fresh, Deliveries
<1> QED
  BY <1>1, <1>2, <1>3 DEF PlacedInv

LEMMA PlacedInvInit == Init => PlacedInv
BY InitType DEF Init, WorldInit, PlacedInv, Placed, Unraised, Resting

(* Every variable keeps its type, whatever fails, crashes or is pushed.    *)
THEOREM TypeCorrect == Spec => []TypeOK
<1>1. PlacedInv => TypeOK
  BY DEF PlacedInv
<1> QED
  BY <1>1, PlacedInvInit, PlacedInvStep, PTL DEF Spec

-----------------------------------------------------------------------------
(* Where a delivery is on its way: before anything is listed, past the     *)
(* first page, and once there is a verdict.                                *)
Before == {"raised", "lock", "bot", "config", "getFile", "setConfig",
           "badConfig", "listFiles"} \union Ended
Onward == Listed \union {"dismiss", "autoMerge", "listComments", "editComment",
                         "createComment"}
Judged == Onward \ {"listMore", "teams"}

(* A step moves a delivery by its own call, by what a replica does with it *)
(* when it arrives, or by losing it; mostly it is another's step.          *)
LEMMA StepOf ==
  ASSUME TypeOK, [Next]_vars, NEW d \in DOMAIN evt
  PROVE  \/ pc'[d] = pc[d] /\ ev'[d] = ev[d]
         \/ evaluate(d)
         \/ /\ pc[d] = "raised" /\ pc'[d] \in {"lock", "done", "lost"}
            /\ ev'[d] = ev[d]
         \/ pc'[d] = "lost" /\ ev'[d] = NoLocals
<1>d. d \in Deliveries
  BY RaisedType DEF TypeOK
<1>1. ASSUME NEW c \in DOMAIN evt, evaluate(c), c # d
      PROVE  pc'[d] = pc[d] /\ ev'[d] = ev[d]
  BY <1>1, <1>d, EvaluateMoves DEF Moves, TypeOK
<1>2. ASSUME NEW c \in DOMAIN evt, NEW r \in Replicas, Receive(c, r)
      PROVE  /\ ev'[d] = ev[d]
             /\ \/ pc'[d] = pc[d]
                \/ pc[d] = "raised" /\ pc'[d] \in {"lock", "done", "lost"}
  BY <1>2, <1>d DEF Receive, TypeOK
<1>3. ASSUME NEW c \in DOMAIN evt, Drop(c)
      PROVE  /\ ev'[d] = ev[d]
             /\ \/ pc'[d] = pc[d]
                \/ pc[d] = "raised" /\ pc'[d] \in {"lock", "done", "lost"}
  BY <1>3, <1>d DEF Drop, TypeOK
<1>4. ASSUME NEW r \in Replicas, Crash(r)
      PROVE  \/ pc'[d] = pc[d] /\ ev'[d] = ev[d]
             \/ pc'[d] = "lost" /\ ev'[d] = NoLocals
  BY <1>4, <1>d DEF Crash
<1> QED
  BY <1>1, <1>2, <1>3, <1>4
  DEF Next, Process, Surroundings, ExpireConfig, ExpireTeam, Rest, vars

-----------------------------------------------------------------------------
(* A step changes the reviews by dismissing some or by one new approval.   *)
OnlyDismissed ==
  \A p \in PRs :
    /\ DOMAIN reviews'[p] = DOMAIN reviews[p]
    /\ \A i \in DOMAIN reviews[p] :
         /\ reviews'[p][i].commit = reviews[p][i].commit
         /\ reviews'[p][i].cfg = reviews[p][i].cfg
         /\ reviews'[p][i].teams = reviews[p][i].teams
         /\ i \in Approvals(p)' => i \in Approvals(p)

Granted(d) ==
  [commit |-> headSHA(d), state |-> "APPROVED", files |-> ev[d].files,
   cfg |-> ev[d].cfg, teams |-> ev[d].teams]

LEMMA DismissOnly ==
  ASSUME TypeOK, NEW q \in PRs, NEW i \in DOMAIN reviews[q],
         reviews' = [reviews EXCEPT ![q][i].state = "DISMISSED"]
  PROVE  OnlyDismissed
<1>t. \A p \in PRs : reviews[p] \in Seq(Review)
  BY DEF TypeOK, WorldOK
<1>r. reviews[q][i] \in Review
  BY <1>t, ElementOfSeq, LenProperties
<1>1. ASSUME NEW p \in PRs
      PROVE  DOMAIN reviews'[p] = DOMAIN reviews[p]
  BY DEF TypeOK, WorldOK
<1>2. ASSUME NEW p \in PRs, NEW j \in DOMAIN reviews[p]
      PROVE  /\ reviews'[p][j].commit = reviews[p][j].commit
             /\ reviews'[p][j].cfg = reviews[p][j].cfg
             /\ reviews'[p][j].teams = reviews[p][j].teams
             /\ j \in Approvals(p)' => j \in Approvals(p)
  <2>1. CASE p = q /\ j = i
    <3>1. reviews'[p][j] = [reviews[q][i] EXCEPT !.state = "DISMISSED"]
      BY <2>1 DEF TypeOK, WorldOK
    <3>2. reviews'[p][j].state = "DISMISSED"
      BY <1>r, <3>1 DEF Review
    <3> QED
      BY <1>r, <2>1, <3>1, <3>2 DEF Review, Approvals
  <2>2. CASE ~(p = q /\ j = i)
    <3>1. reviews'[p][j] = reviews[p][j]
      BY <2>2 DEF TypeOK, WorldOK
    <3> QED
      BY <3>1 DEF Approvals
  <2> QED
    BY <2>1, <2>2
<1> QED
  BY <1>1, <1>2 DEF OnlyDismissed

LEMMA StepReviews ==
  ASSUME TypeOK, [Next]_vars
  PROVE  \/ OnlyDismissed
         \/ \E d \in DOMAIN evt :
              /\ Approve(d)
              /\ reviews' = [reviews EXCEPT ![pr(d)] = Append(@, Granted(d))]
<1>0. ASSUME UNCHANGED reviews
      PROVE  OnlyDismissed
  BY <1>0 DEF OnlyDismissed, Approvals
<1>1. ASSUME NEW d \in DOMAIN evt, evaluate(d)
      PROVE  \/ OnlyDismissed
             \/ /\ Approve(d)
                /\ reviews' = [reviews EXCEPT ![pr(d)] = Append(@, Granted(d))]
  <2>1. CASE Approve(d)
    BY <1>0, <2>1 DEF Approve, Fails, traces, Granted
  <2>2. CASE DismissReview(d)
    <3>1. pr(d) \in PRs
      BY RaisedType DEF TypeOK, Event, pr
    <3> QED
      BY <1>0, <2>2, <3>1, DismissOnly
      DEF DismissReview, Approvals, Fails, world, traces
  <2>3. CASE ~Approve(d) /\ ~DismissReview(d)
    BY <1>0, <1>1, <2>3 DEF evaluate, lockPR, cachedBotLogin, loadConfig,
       fetchConfig, setConfig, reportBadConfig, ListChangedFiles, listPage,
       resolveAuthorTeams, decide, UpsertCheck, FindApproval, PullHeadSHA,
       EnableAutoMerge, ListComments, WriteComment, Fails, world, traces
  <2> QED
    BY <2>1, <2>2, <2>3
<1>2. ASSUME NEW p \in PRs, HumanDismiss(p)
      PROVE  OnlyDismissed
  BY <1>2, DismissOnly DEF HumanDismiss
<1>3. CASE Outside
  BY <1>0, <1>2, <1>3 DEF Outside, Open, Push, ConvertToDraft, ReadyForReview,
     EditConfig, ChangeTeams, Redeliver, traces
<1>4. CASE Surroundings /\ ~Outside
  BY <1>0, <1>4 DEF Surroundings, Drop, Crash, ExpireConfig, ExpireTeam, traces
<1>5. CASE \E d \in DOMAIN evt, r \in Replicas : Receive(d, r)
  BY <1>0, <1>5 DEF Receive, world
<1>6. CASE UNCHANGED vars
  BY <1>0, <1>6 DEF vars, world
<1> QED
  BY <1>1, <1>3, <1>4, <1>5, <1>6 DEF Next, Process, Rest

(* The new approval comes last.                                            *)
LEMMA GrantedLast ==
  ASSUME TypeOK, NEW c \in DOMAIN evt,
         reviews' = [reviews EXCEPT ![pr(c)] = Append(@, Granted(c))]
  PROVE  /\ \A p \in PRs : p # pr(c) => reviews'[p] = reviews[p]
         /\ \E n \in Nat :
              /\ DOMAIN reviews'[pr(c)] = DOMAIN reviews[pr(c)] \union {n}
              /\ \A i \in DOMAIN reviews[pr(c)] :
                   i \in Nat /\ i < n /\ reviews'[pr(c)][i] = reviews[pr(c)][i]
              /\ reviews'[pr(c)][n] = Granted(c)
<1>1. pr(c) \in PRs /\ reviews \in [PRs -> Seq(Review)]
  BY RaisedType DEF TypeOK, WorldOK, Event, pr
<1>2. reviews'[pr(c)] = Append(reviews[pr(c)], Granted(c))
  BY <1>1
<1>3. ASSUME NEW p \in PRs, p # pr(c)
      PROVE  reviews'[p] = reviews[p]
  BY <1>1, <1>3
<1> DEFINE n == Len(reviews[pr(c)]) + 1
<1>4. reviews[pr(c)] \in Seq(Review)
  BY <1>1
<1>5. /\ n \in Nat
      /\ DOMAIN reviews'[pr(c)] = DOMAIN reviews[pr(c)] \union {n}
      /\ \A i \in DOMAIN reviews[pr(c)] :
           i \in Nat /\ i < n /\ reviews'[pr(c)][i] = reviews[pr(c)][i]
      /\ reviews'[pr(c)][n] = Granted(c)
  BY <1>2, <1>4
<1> QED
  BY <1>3, <1>5

-----------------------------------------------------------------------------
(* A call of evaluate ends the delivery, or goes on before the listing,    *)
(* or lists, or asks for a team, or decides, or comes after the decision.  *)
Ends(d)    == pc'[d] \in Ended /\ ev'[d] = NoLocals
Earlier(d) == /\ pc[d] \in Before /\ pc'[d] \in Before
              /\ ev'[d].files = ev[d].files /\ ev'[d].teams = ev[d].teams
Later(d)   == /\ pc[d] \in Judged /\ pc'[d] \in Judged
              /\ ev'[d].cfg = ev[d].cfg /\ ev'[d].files = ev[d].files
              /\ ev'[d].teams = ev[d].teams /\ ev'[d].verdict = ev[d].verdict

LEMMA GoSplits ==
  ASSUME TypeOK, NEW d \in Deliveries, NEW l, NEW e, Go(d, l, e)
  PROVE  \/ Ends(d)
         \/ pc'[d] = l /\ ev'[d] = e /\ l \notin Ended
BY DEF Go, TypeOK, Ends

LEMMA EvaluateSplits ==
  ASSUME TypeOK, NEW d \in DOMAIN evt, evaluate(d)
  PROVE  \/ Ends(d) \/ Earlier(d) \/ Later(d)
         \/ ListChangedFiles(d) \/ resolveAuthorTeams(d) \/ decide(d)
<1>d. d \in Deliveries /\ ev[d] \in Locals
  BY RaisedType DEF TypeOK
<1>e. ASSUME NEW l, To(d, l), l \in Before, pc[d] \in Before
      PROVE  Ends(d) \/ Earlier(d)
  BY <1>d, <1>e, GoSplits DEF To, Earlier
<1>c. ASSUME NEW l, NEW cfg, Go(d, l, [ev[d] EXCEPT !.cfg = cfg]), l \in Before,
             pc[d] \in Before
      PROVE  Ends(d) \/ Earlier(d)
  <2>1. /\ [ev[d] EXCEPT !.cfg = cfg].files = ev[d].files
        /\ [ev[d] EXCEPT !.cfg = cfg].teams = ev[d].teams
    BY <1>d DEF Locals
  <2> QED
    BY <1>d, <1>c, <2>1, GoSplits DEF Earlier
<1>l. ASSUME NEW l, To(d, l), l \in Ended \/ l \in Judged, pc[d] \in Judged
      PROVE  Ends(d) \/ Later(d)
  <2>1. Ends(d) \/ (pc'[d] = l /\ ev'[d] = ev[d] /\ l \notin Ended)
    BY <1>d, <1>l, GoSplits DEF To
  <2> QED
    BY <1>l, <2>1 DEF Later
<1>n. \A cfg : /\ Loaded(cfg) \in Before
               /\ AfterCheck(cfg) \in {"listComments", "findApproval"}
               /\ AfterAct(cfg) \in {"done", "listComments"}
               /\ AfterApprove(cfg) \in {"done", "listComments", "autoMerge"}
  BY DEF Loaded, AfterAct, AfterApprove, AfterCheck, Before, Ended
<1>w. /\ {"lock", "bot", "config", "getFile", "setConfig", "badConfig", "done",
          "failed"} \subseteq Before
      /\ {"check", "findApproval", "pullHead", "approve", "autoMerge", "dismiss",
          "listComments", "editComment", "createComment"} \subseteq Judged
      /\ {"done", "failed"} \subseteq Ended
  BY DEF Before, Ended, Judged, Onward, Listed, Decided
<1>1. CASE lockPR(d)
  <2>1. pc'[d] = "bot" /\ ev'[d] = ev[d] /\ pc[d] = "lock"
    BY <1>1, <1>d DEF lockPR, TypeOK
  <2> QED
    BY <1>w, <2>1 DEF Earlier
<1>2. CASE cachedBotLogin(d)
  BY <1>2, <1>e, <1>w DEF cachedBotLogin
<1>3. CASE loadConfig(d) \/ fetchConfig(d)
  BY <1>3, <1>e, <1>c, <1>w, <1>n DEF loadConfig, fetchConfig, Fails
<1>4. CASE setConfig(d) \/ reportBadConfig(d)
  BY <1>4, <1>e, <1>w, <1>n DEF setConfig, reportBadConfig, Replies, Fails
<1>5. CASE UpsertCheck(d)
  BY <1>5, <1>l, <1>w, <1>n DEF UpsertCheck, Replies, Fails
<1>6. CASE FindApproval(d)
  <2>1. CASE Fails(d, "failed")
    BY <1>6, <2>1, <1>l, <1>w DEF FindApproval, Fails
  <2>2. ASSUME NEW i, Go(d, AfterFind(d, i), [ev[d] EXCEPT !.found = i])
        PROVE  Ends(d) \/ Later(d)
    <3> DEFINE e == [ev[d] EXCEPT !.found = i]
    <3>1. /\ e.cfg = ev[d].cfg /\ e.files = ev[d].files
          /\ e.teams = ev[d].teams /\ e.verdict = ev[d].verdict
      BY <1>d DEF Locals
    <3>2. AfterFind(d, i) \in {"pullHead", "dismiss", "listComments", "done"}
      BY <1>n DEF AfterFind
    <3>3. pc[d] \in Judged
      BY <1>6, <1>w DEF FindApproval
    <3> HIDE DEF e
    <3>4. Ends(d) \/ (pc'[d] = AfterFind(d, i) /\ ev'[d] = e /\ AfterFind(d, i) \notin Ended)
      BY <1>d, <2>2, GoSplits DEF e
    <3> QED
      BY <1>w, <3>1, <3>2, <3>3, <3>4 DEF Later
  <2> QED
    BY <1>6, <2>1, <2>2 DEF FindApproval
<1>7. CASE PullHeadSHA(d)
  BY <1>7, <1>l, <1>w, <1>n DEF PullHeadSHA, Fails
<1>8. CASE Approve(d) \/ EnableAutoMerge(d) \/ DismissReview(d)
  <2>1. \A l : l \in {"done", "failed", "listComments", "autoMerge"} =>
          l \in Ended \/ l \in Judged
    BY <1>w
  <2> QED
    BY <1>8, <1>l, <1>n, <1>w, <2>1
    DEF Approve, EnableAutoMerge, DismissReview, Replies, Fails
<1>9. CASE ListComments(d) \/ WriteComment(d)
  BY <1>9, <1>l, <1>w DEF ListComments, WriteComment, Replies, Fails
<1> QED
  BY <1>1, <1>2, <1>3, <1>4, <1>5, <1>6, <1>7, <1>8, <1>9 DEF evaluate

-----------------------------------------------------------------------------
(* Configs and teams change by counted steps, and budgets only shrink.     *)
LEMMA EvaluateWorld ==
  ASSUME NEW d, evaluate(d)
  PROVE  /\ UNCHANGED <<head, past, stage, file, people>>
         /\ UNCHANGED left \/ Spend("fault")
<1>1. CASE Approve(d) \/ EnableAutoMerge(d) \/ DismissReview(d) \/ WriteComment(d)
  BY <1>1 DEF Approve, EnableAutoMerge, DismissReview, WriteComment, Replies,
     Fails, pulls, repo, people, world
<1>2. CASE ListChangedFiles(d) \/ resolveAuthorTeams(d) \/ decide(d) \/ UpsertCheck(d)
  BY <1>2 DEF ListChangedFiles, listPage, resolveAuthorTeams, decide,
     UpsertCheck, Replies, Fails, pulls, repo, people, world
<1>3. CASE ~(\/ Approve(d) \/ EnableAutoMerge(d) \/ DismissReview(d)
             \/ WriteComment(d) \/ ListChangedFiles(d) \/ resolveAuthorTeams(d)
             \/ decide(d) \/ UpsertCheck(d))
  BY <1>3 DEF evaluate, lockPR, cachedBotLogin, loadConfig, fetchConfig,
     setConfig, reportBadConfig, FindApproval, PullHeadSHA, ListComments,
     Replies, Fails, pulls, repo, people, world
<1> QED
  BY <1>1, <1>2, <1>3

LEMMA StepRepo ==
  ASSUME [Next]_vars
  PROVE  /\ UNCHANGED file \/ Spend("edit")
         /\ UNCHANGED people \/ Spend("team")
         /\ UNCHANGED left \/ \E k \in Kinds : Spend(k)
<1> DEFINE Goal == /\ UNCHANGED file \/ Spend("edit")
                   /\ UNCHANGED people \/ Spend("team")
                   /\ UNCHANGED left \/ \E k \in Kinds : Spend(k)
<1>1. ASSUME NEW d \in DOMAIN evt, evaluate(d)
      PROVE  Goal
  BY <1>1, EvaluateWorld DEF Kinds
<1>2. CASE Outside
  BY <1>2 DEF Outside, Open, Push, ConvertToDraft, ReadyForReview, HumanDismiss,
     EditConfig, ChangeTeams, Redeliver, pulls, repo, people, Kinds
<1>3. CASE Surroundings /\ ~Outside
  BY <1>3 DEF Surroundings, Drop, Crash, ExpireConfig, ExpireTeam, repo, people, Kinds
<1>4. CASE \E d \in DOMAIN evt, r \in Replicas : Receive(d, r)
  BY <1>4 DEF Receive, world, people
<1>5. CASE UNCHANGED vars
  BY <1>5 DEF vars, world, people
<1> QED
  BY <1>1, <1>2, <1>3, <1>4, <1>5 DEF Next, Process, Rest

LEMMA StepLeft ==
  ASSUME TypeOK, [Next]_vars
  PROVE  \A k \in Kinds : left'[k] <= left[k]
<1>1. left \in [Kinds -> Nat]
  BY DEF TypeOK, WorldOK
<1>2. ASSUME NEW k \in Kinds, Spend(k)
      PROVE  \A j \in Kinds : left'[j] <= left[j]
  BY <1>1, <1>2 DEF Spend
<1>3. CASE UNCHANGED left
  BY <1>1, <1>3
<1> QED
  BY <1>2, <1>3, StepRepo
=============================================================================
