----------------------------- MODULE LockProofs -----------------------------
(***************************************************************************)
(* The mutex of a pull request: of two deliveries of one PR on one replica *)
(* at most one is past lockPR.  So one replica leaves one status comment,  *)
(* approves a commit once, and dismisses no approval it would grant.       *)
(***************************************************************************)
EXTENDS ApprovalProofs

(* Labels between lockPR and its deferred unlock.                          *)
Locked == Labels \ (Resting \union {"lock"})

LockInv ==
  \A d \in Deliveries : pc[d] \in Locked => lock[at[d]][shard(d)] = d

MutualExclusion ==
  \A c, d \in DOMAIN evt :
    /\ pc[c] \in Locked /\ pc[d] \in Locked
    /\ at[c] = at[d] /\ pr(c) = pr(d)
    => c = d

-----------------------------------------------------------------------------
LEMMA EvaluateGoes ==
  ASSUME TypeOK, NEW d, evaluate(d), ~lockPR(d)
  PROVE  pc[d] \in Locked /\ \E l, e : Go(d, l, e)
<1>to. ASSUME NEW l, To(d, l)
       PROVE  \E m, f : Go(d, m, f)
  BY <1>to DEF To
<1> USE <1>to DEF Locked, Labels, Resting, Ended, Fails, Replies
<1>1. CASE cachedBotLogin(d) \/ setConfig(d) \/ reportBadConfig(d)
  BY <1>1 DEF cachedBotLogin, setConfig, reportBadConfig
<1>2. CASE loadConfig(d) \/ fetchConfig(d)
  BY <1>2 DEF loadConfig, fetchConfig
<1>3. CASE ListChangedFiles(d)
  BY <1>3 DEF ListChangedFiles, listPage
<1>4. CASE resolveAuthorTeams(d)
  BY <1>4 DEF resolveAuthorTeams
<1>5. CASE decide(d)
  BY <1>5 DEF decide
<1>6. CASE UpsertCheck(d) \/ Approve(d) \/ EnableAutoMerge(d)
  BY <1>6 DEF UpsertCheck, Approve, EnableAutoMerge
<1>7. CASE FindApproval(d)
  BY <1>7 DEF FindApproval
<1>8. CASE PullHeadSHA(d) \/ DismissReview(d)
  BY <1>8 DEF PullHeadSHA, DismissReview
<1>9. CASE ListComments(d) \/ WriteComment(d)
  BY <1>9 DEF ListComments, WriteComment
<1> QED
  BY <1>1, <1>2, <1>3, <1>4, <1>5, <1>6, <1>7, <1>8, <1>9 DEF evaluate

(* Where a delivery that is raised stands under its mutex.                 *)
LEMMA LockedType ==
  ASSUME PlacedInv, NEW d \in Deliveries, pc[d] \in Locked
  PROVE  /\ d \in DOMAIN evt /\ at[d] \in Replicas
         /\ pr(d) \in PRs /\ shard(d) \in Shards
<1>1. d \in DOMAIN evt /\ at[d] \in Replicas
  BY DEF PlacedInv, Placed, Unraised, Locked, Resting
<1>2. pr(d) \in PRs
  BY <1>1, RaisedType DEF PlacedInv, TypeOK, Event, pr
<1> QED
  BY <1>1, <1>2, ApproverType DEF shard

(* Who is past lockPR after a step was so before it, or has just locked,   *)
(* and its mutex is still its own.                                         *)
LEMMA StepLocks ==
  ASSUME PlacedInv, LockInv, [Next]_vars, EvtGrows, (Placed /\ Unraised)'
  PROVE  LockInv'
<1>t. TypeOK
  BY DEF PlacedInv
<1> SUFFICES ASSUME NEW d \in Deliveries, pc'[d] \in Locked
             PROVE  lock'[at'[d]][shard(d)'] = d
  BY DEF LockInv
<1>same. ASSUME d \in DOMAIN evt
         PROVE  shard(d)' = shard(d) /\ shard(d) \in Shards
  <2>1. pr(d) \in PRs /\ pr(d)' = pr(d)
    BY <1>t, <1>same, RaisedType DEF EvtGrows, TypeOK, Event, pr
  <2> QED
    BY <2>1, ApproverType DEF shard
<1>0. ASSUME pc'[d] = pc[d], at'[d] = at[d],
             lock'[at[d]][shard(d)] = lock[at[d]][shard(d)]
      PROVE  lock'[at'[d]][shard(d)'] = d
  <2>1. d \in DOMAIN evt
    BY <1>0, LockedType
  <2> QED
    BY <1>0, <1>same, <2>1 DEF LockInv
<1>1. ASSUME NEW c \in DOMAIN evt, lockPR(c)
      PROVE  lock'[at'[d]][shard(d)'] = d
  <2>1. c \in Deliveries /\ at' = at /\ at[c] \in Replicas
        /\ shard(c) \in Shards
    <3>1. c \in Deliveries /\ at' = at /\ at[c] \in Replicas
      BY <1>1, <1>t, RaisedType DEF lockPR, PlacedInv, Placed, Resting, Ended, TypeOK
    <3>2. pr(c) \in PRs
      BY <1>t, RaisedType DEF TypeOK, Event, pr
    <3> QED
      BY <3>1, <3>2, ApproverType DEF shard
  <2>2. CASE d = c
    BY <1>1, <1>same, <1>t, <2>1, <2>2 DEF lockPR, TypeOK
  <2>3. CASE d # c
    <3>1. pc'[d] = pc[d]
      BY <1>1, <1>t, <2>3 DEF lockPR, TypeOK
    <3>2. lock[at[d]][shard(d)] = d /\ at[d] \in Replicas /\ shard(d) \in Shards
      BY <3>1, LockedType DEF LockInv
    <3>3. ~(at[d] = at[c] /\ shard(d) = shard(c))
      BY <1>1, <3>2 DEF lockPR, Deliveries
    <3>4. lock'[at[d]][shard(d)] = lock[at[d]][shard(d)]
      BY <1>1, <1>t, <2>1, <3>2, <3>3 DEF lockPR, TypeOK
    <3> QED
      BY <1>0, <2>1, <3>1, <3>4
  <2> QED
    BY <2>2, <2>3
<1>2. ASSUME NEW c \in DOMAIN evt, evaluate(c), ~lockPR(c)
      PROVE  lock'[at'[d]][shard(d)'] = d
  <2>1. PICK l, e : Go(c, l, e)
    BY <1>2, <1>t, EvaluateGoes
  <2>c. /\ c \in Deliveries /\ pc[c] \in Locked /\ at[c] \in Replicas
        /\ shard(c) \in Shards /\ lock[at[c]][shard(c)] = c
    BY <1>2, <1>t, EvaluateGoes, LockedType, RaisedType DEF LockInv, TypeOK
  <2>2. CASE d = c
    <3>1. l \notin Ended
      BY <1>t, <2>1, <2>2 DEF Go, TypeOK, Locked, Resting
    <3>2. at'[d] = at[d] /\ lock' = lock
      BY <1>t, <2>1, <2>2, <3>1 DEF Go, TypeOK, Unlocked
    <3> QED
      BY <1>same, <2>c, <2>2, <3>2
  <2>3. CASE d # c
    <3>1. pc'[d] = pc[d] /\ at'[d] = at[d]
      BY <1>t, <2>1, <2>3 DEF Go, TypeOK
    <3>2. lock[at[d]][shard(d)] = d /\ at[d] \in Replicas /\ shard(d) \in Shards
      BY <3>1, LockedType DEF LockInv
    <3>3. ~(at[d] = at[c] /\ shard(d) = shard(c))
      BY <2>3, <2>c, <3>2
    <3>4. lock'[at[d]][shard(d)] = lock[at[d]][shard(d)]
      BY <1>t, <2>1, <2>c, <3>2, <3>3 DEF Go, Unlocked, TypeOK
    <3> QED
      BY <1>0, <3>1, <3>4
  <2> QED
    BY <2>2, <2>3
<1>3. ASSUME NEW c \in DOMAIN evt, NEW r \in Replicas, Receive(c, r)
      PROVE  lock'[at'[d]][shard(d)'] = d
  <2>1. c # d
    BY <1>3, <1>t DEF Receive, TypeOK, Locked, Resting, Ended
  <2> QED
    BY <1>0, <1>3, <1>t, <2>1 DEF Receive, TypeOK, replica
<1>4. ASSUME NEW c \in DOMAIN evt, Drop(c)
      PROVE  lock'[at'[d]][shard(d)'] = d
  <2>1. c # d
    BY <1>4, <1>t DEF Drop, TypeOK, Locked, Resting, Ended
  <2> QED
    BY <1>0, <1>4, <1>t, <2>1 DEF Drop, TypeOK, replica
<1>5. ASSUME NEW r \in Replicas, Crash(r)
      PROVE  lock'[at'[d]][shard(d)'] = d
  <2>1. at[d] # r
    BY <1>5 DEF Crash, Locked, Resting, Ended
  <2> QED
    BY <1>0, <1>5, <1>t, <2>1 DEF Crash, TypeOK
<1>6. CASE UNCHANGED <<pc, at, lock>>
  BY <1>0, <1>6
<1> QED
  BY <1>1, <1>2, <1>3, <1>4, <1>5, <1>6
  DEF Next, Process, Surroundings, ExpireConfig, ExpireTeam, Rest, vars, replica

LEMMA LocksExclude ==
  ASSUME PlacedInv, LockInv
  PROVE  MutualExclusion
<1> SUFFICES ASSUME NEW c \in DOMAIN evt, NEW d \in DOMAIN evt,
                    pc[c] \in Locked, pc[d] \in Locked,
                    at[c] = at[d], pr(c) = pr(d)
             PROVE  c = d
  BY DEF MutualExclusion
<1>1. c \in Deliveries /\ d \in Deliveries
  BY RaisedType DEF PlacedInv, TypeOK
<1>2. lock[at[c]][shard(c)] = c /\ lock[at[d]][shard(d)] = d
  BY <1>1 DEF LockInv
<1> QED
  BY <1>2 DEF shard

-----------------------------------------------------------------------------
(* One status comment, as long as all deliveries go to one replica.        *)
CommentInv ==
  /\ OneStatusComment
  /\ \A d \in DOMAIN evt :
       pc[d] = "createComment" => comments[pr(d)] = << >>

LEMMA OneComment ==
  ASSUME NEW s \in Seq(BOOLEAN), Len(s) <= 1, NEW b \in BOOLEAN
  PROVE  /\ [s EXCEPT ![1] = b] \in Seq(BOOLEAN)
         /\ Len([s EXCEPT ![1] = b]) <= 1
         /\ s = << >> => Len(Append(s, b)) <= 1
<1>1. [s EXCEPT ![1] = b] \in Seq(BOOLEAN) /\ Len([s EXCEPT ![1] = b]) = Len(s)
  <2>1. CASE Len(s) = 0
    <3>1. DOMAIN s = {} /\ s = [i \in DOMAIN s |-> s[i]]
      BY <2>1, LenProperties
    <3>2. [s EXCEPT ![1] = b] = s
      BY <3>1
    <3> QED
      BY <3>2
  <2>2. CASE Len(s) = 1
    BY <2>2, ExceptSeq
  <2> QED
    BY <2>1, <2>2, LenProperties
<1> QED
  BY <1>1

(* Creating one comes right after finding none, under the same mutex.      *)
LEMMA CommentSteps ==
  ASSUME TypeOK, NEW d \in DOMAIN evt, evaluate(d)
  PROVE  /\ pc'[d] = "createComment" =>
              pc[d] = "listComments" /\ comments[pr(d)] = << >>
              /\ UNCHANGED comments
         /\ \/ UNCHANGED comments
            \/ \E b \in BOOLEAN :
                 \/ comments' = [comments EXCEPT ![pr(d)][1] = b]
                    /\ pc[d] = "editComment"
                 \/ comments' = [comments EXCEPT ![pr(d)] = Append(@, b)]
                    /\ pc[d] = "createComment"
<1>d. d \in Deliveries
  BY RaisedType DEF TypeOK
<1>go. \A l, e : Go(d, l, e) => pc'[d] = l
  BY <1>d DEF Go, TypeOK
<1>to. \A l : To(d, l) => pc'[d] = l
  BY <1>go DEF To
<1>n. \A cfg : /\ Loaded(cfg) # "createComment"
               /\ AfterCheck(cfg) # "createComment"
               /\ AfterAct(cfg) # "createComment"
               /\ AfterApprove(cfg) # "createComment"
  BY DEF Loaded, AfterCheck, AfterAct, AfterApprove
<1>1. CASE lockPR(d)
  BY <1>1, <1>d DEF lockPR, world, TypeOK
<1>2. CASE cachedBotLogin(d) \/ setConfig(d) \/ reportBadConfig(d)
  BY <1>2, <1>to, <1>n DEF cachedBotLogin, setConfig, reportBadConfig, Replies,
     Fails, world, traces
<1>3. CASE loadConfig(d) \/ fetchConfig(d)
  BY <1>3, <1>to, <1>go, <1>n DEF loadConfig, fetchConfig, Fails, world, traces
<1>4. CASE ListChangedFiles(d)
  BY <1>4, <1>to, <1>go DEF ListChangedFiles, listPage, Fails, world, traces
<1>5. CASE resolveAuthorTeams(d)
  BY <1>5, <1>to, <1>go DEF resolveAuthorTeams, Fails, world, traces
<1>6. CASE decide(d)
  BY <1>6, <1>to, <1>go DEF decide, world
<1>7. CASE UpsertCheck(d) \/ Approve(d) \/ EnableAutoMerge(d)
  BY <1>7, <1>to, <1>n DEF UpsertCheck, Approve, EnableAutoMerge, Replies,
     Fails, traces
<1>8. CASE FindApproval(d)
  <2>1. \A i : AfterFind(d, i) # "createComment"
    BY <1>n DEF AfterFind
  <2> QED
    BY <1>8, <1>to, <1>go, <2>1 DEF FindApproval, Fails, world, traces
<1>9. CASE PullHeadSHA(d) \/ DismissReview(d)
  BY <1>9, <1>to, <1>n DEF PullHeadSHA, DismissReview, Replies, Fails, world, traces
<1>10. CASE ListComments(d)
  BY <1>10, <1>to DEF ListComments, Fails, world, traces
<1>11. CASE WriteComment(d)
  <2>1. renderComment(d) \in BOOLEAN
    BY DEF renderComment
  <2> QED
    BY <1>11, <1>to, <2>1 DEF WriteComment, Replies, Fails, traces
<1> QED
  BY <1>1, <1>2, <1>3, <1>4, <1>5, <1>6, <1>7, <1>8, <1>9, <1>10, <1>11
  DEF evaluate

OneReplicaInv == PlacedInv /\ LockInv /\ CommentInv

LEMMA StepComments ==
  ASSUME NEW r, Replicas = {r}, OneReplicaInv, [Next]_vars, EvtGrows,
         PlacedInv'
  PROVE  CommentInv'
<1>t. /\ TypeOK /\ comments \in [PRs -> Seq(BOOLEAN)] /\ MutualExclusion
      /\ \A p \in PRs : Len(comments[p]) <= 1
      /\ \A d \in DOMAIN evt : pr(d) \in PRs /\ d \in Deliveries
  BY LocksExclude, RaisedType
  DEF OneReplicaInv, PlacedInv, TypeOK, WorldOK, CommentInv, OneStatusComment,
      Event, pr
<1>e. ASSUME NEW d \in DOMAIN evt', pc'[d] = "createComment"
      PROVE  /\ d \in DOMAIN evt /\ pr(d)' = pr(d)
             /\ pc[d] = "createComment" => comments[pr(d)] = << >>
  <2>1. d \in Deliveries
    BY LenProperties, WorldType DEF PlacedInv, TypeOK, WorldOK, Deliveries
  <2>2. d \in DOMAIN evt
    <3>1. ASSUME d \notin DOMAIN evt
          PROVE  Fresh(d)'
      BY <2>1, <3>1, PlacedStep DEF OneReplicaInv, PlacedInv
    <3> QED
      BY <1>e, <3>1 DEF Fresh
  <2> QED
    BY <2>2 DEF EvtGrows, pr, OneReplicaInv, CommentInv
<1>0. ASSUME UNCHANGED comments,
             \A d \in DOMAIN evt :
               pc'[d] = "createComment" => \/ pc[d] = "createComment"
                                          \/ comments[pr(d)] = << >>
      PROVE  CommentInv'
  BY <1>0, <1>t, <1>e DEF CommentInv, OneStatusComment
<1>1. ASSUME NEW c \in DOMAIN evt, evaluate(c)
      PROVE  CommentInv'
  <2>m. ASSUME NEW d \in DOMAIN evt, d # c
        PROVE  pc'[d] = pc[d]
    BY <1>1, <1>t, <2>m, EvaluateMoves DEF Moves, TypeOK
  <2>1. CASE UNCHANGED comments
    BY <1>0, <1>1, <1>t, <2>1, <2>m, CommentSteps
  <2>2. ASSUME NEW b \in BOOLEAN, NEW s \in Seq(BOOLEAN), Len(s) <= 1,
               comments' = [comments EXCEPT ![pr(c)] = s],
               pc[c] \in {"editComment", "createComment"},
               pc'[c] # "createComment"
        PROVE  CommentInv'
    <3>1. OneStatusComment'
      BY <1>t, <2>2 DEF OneStatusComment
    <3>2. ASSUME NEW d \in DOMAIN evt', pc'[d] = "createComment"
          PROVE  comments'[pr(d)'] = << >>
      <4>1. d \in DOMAIN evt /\ pr(d)' = pr(d) /\ d # c
        BY <1>e, <2>2, <3>2
      <4>2. pc[d] = "createComment" /\ comments[pr(d)] = << >>
        BY <1>e, <2>m, <3>2, <4>1
      <4>3. pc[d] \in Locked /\ pc[c] \in Locked
        BY <2>2, <4>2 DEF Locked, Labels, Resting, Ended
      <4>4. at[d] = r /\ at[c] = r
        BY <1>t, <4>1, <4>3, LockedType DEF OneReplicaInv
      <4>5. pr(d) # pr(c)
        BY <4>1, <4>3, <4>4, <1>t DEF MutualExclusion
      <4>6. pr(d) \in PRs /\ comments'[pr(d)] = comments[pr(d)]
        BY <1>t, <2>2, <4>1, <4>5
      <4> QED
        BY <4>1, <4>2, <4>6
    <3> QED
      BY <3>1, <3>2 DEF CommentInv
  <2>3. CASE ~UNCHANGED comments
    <3>1. PICK b \in BOOLEAN :
            \/ comments' = [comments EXCEPT ![pr(c)][1] = b]
               /\ pc[c] = "editComment"
            \/ comments' = [comments EXCEPT ![pr(c)] = Append(@, b)]
               /\ pc[c] = "createComment"
      BY <1>1, <1>t, <2>3, CommentSteps
    <3>2. pc'[c] # "createComment"
      BY <1>1, <1>t, <2>3, CommentSteps
    <3>3. CASE pc[c] = "editComment"
      <4> DEFINE s == [comments[pr(c)] EXCEPT ![1] = b]
      <4>1. s \in Seq(BOOLEAN) /\ Len(s) <= 1
        BY <1>t, OneComment
      <4>2. comments' = [comments EXCEPT ![pr(c)] = s]
        BY <3>1, <3>3
      <4> HIDE DEF s
      <4> QED
        BY <2>2, <3>2, <3>3, <4>1, <4>2
    <3>4. CASE pc[c] = "createComment"
      <4> DEFINE s == Append(comments[pr(c)], b)
      <4>1. comments[pr(c)] = << >>
        BY <3>4 DEF OneReplicaInv, CommentInv
      <4>2. s \in Seq(BOOLEAN) /\ Len(s) <= 1
        BY <1>t, <4>1, OneComment
      <4>3. comments' = [comments EXCEPT ![pr(c)] = s]
        BY <3>1, <3>4
      <4> HIDE DEF s
      <4> QED
        BY <2>2, <3>2, <3>4, <4>2, <4>3
    <3> QED
      BY <3>1, <3>3, <3>4
  <2> QED
    BY <2>1, <2>3
<1>2. CASE \E d \in DOMAIN evt, q \in Replicas : Receive(d, q)
  BY <1>0, <1>2, <1>t DEF Receive, world, TypeOK
<1>3. CASE \E d \in DOMAIN evt : Drop(d)
  BY <1>0, <1>3, <1>t DEF Drop, traces, TypeOK
<1>4. CASE \E q \in Replicas : Crash(q)
  BY <1>0, <1>4, <1>t DEF Crash, traces
<1>5. CASE UNCHANGED <<pc, comments>>
  BY <1>0, <1>5
<1>6. CASE Outside /\ UNCHANGED pc
  BY <1>5, <1>6 DEF Outside, Open, Push, HumanDismiss, ConvertToDraft,
     ReadyForReview, EditConfig, ChangeTeams, Redeliver, traces
<1> QED
  BY <1>1, <1>2, <1>3, <1>4, <1>5, <1>6
  DEF Next, Process, Surroundings, ExpireConfig, ExpireTeam, Rest, vars, world,
      traces

LEMMA OneReplicaStep ==
  ASSUME NEW r, Replicas = {r}
  PROVE  OneReplicaInv /\ [Next]_vars => OneReplicaInv'
<1> SUFFICES ASSUME OneReplicaInv, [Next]_vars
             PROVE  OneReplicaInv'
  OBVIOUS
<1>1. PlacedInv'
  BY PlacedInvStep DEF OneReplicaInv
<1>2. EvtGrows
  BY <1>1, StepGrows DEF OneReplicaInv, PlacedInv
<1>3. LockInv'
  BY <1>1, <1>2, StepLocks DEF OneReplicaInv, PlacedInv
<1>4. CommentInv'
  BY <1>1, <1>2, StepComments
<1> QED
  BY <1>1, <1>3, <1>4 DEF OneReplicaInv

LEMMA LockInvInit == Init => LockInv
BY DEF Init, LockInv, Locked, Resting

(* Deliveries of one pull request are evaluated one after the other on a   *)
(* replica, whatever fails, crashes and starts again there                 *)
(* (approver.go:76-84, 129-130).                                           *)
THEOREM EvaluationsExclude == Spec => []MutualExclusion
<1>1. Init => PlacedInv /\ LockInv
  BY PlacedInvInit, LockInvInit
<1>2. PlacedInv /\ LockInv /\ [Next]_vars => (PlacedInv /\ LockInv)'
  BY PlacedInvStep, StepGrows, StepLocks DEF PlacedInv
<1>3. PlacedInv /\ LockInv => MutualExclusion
  BY LocksExclude
<1> QED
  BY <1>1, <1>2, <1>3, PTL DEF Spec

(* One replica never leaves a second status comment on a pull request      *)
(* (approver.go:76-84; actions.go:91-118).                                 *)
THEOREM OneCommentPerPR ==
  ASSUME NEW r, Replicas = {r}
  PROVE  Spec => []OneStatusComment
<1>1. Init => OneReplicaInv
  BY PlacedInvInit, LockInvInit
  DEF Init, WorldInit, OneReplicaInv, CommentInv, OneStatusComment
<1>2. OneReplicaInv /\ [Next]_vars => OneReplicaInv'
  BY OneReplicaStep
<1>3. OneReplicaInv => OneStatusComment
  BY DEF OneReplicaInv, CommentInv
<1> QED
  BY <1>1, <1>2, <1>3, PTL DEF Spec

-----------------------------------------------------------------------------
(* What one replica can rely on while a delivery holds the mutex of its    *)
(* pull request: nobody else approves there, so its reviews are those the  *)
(* delivery found.                                                         *)

(* From the first page to the last write on reviews, and within that once  *)
(* there is a verdict.                                                     *)
Judging == Listed \union {"dismiss"}
Ruled   == Decided \union {"dismiss"}

(* Reviews are on heads the PR has or had.                                 *)
InHistory ==
  \A p \in PRs : \A i \in DOMAIN reviews[p] :
    reviews[p][i].commit \in past[p] \union {head[p]}

(* Delivery d at l holding e judged no head older than the reviews it may  *)
(* dismiss, by the engine's verdict: rewinds may be about.                 *)
Newest(d, l, e) ==
  /\ l \in Before => e.files = {}
  /\ l \in Judging =>
       /\ e.files # {}
       /\ \A c \in e.files : \A i \in DOMAIN reviews[pr(d)] :
            reviews[pr(d)][i].commit \in past[pr(d)] \union {c}
  /\ l \in Ruled => \A c \in Commits : e.files = {c} =>
       e.verdict = Verdict(e.cfg, c, author(d), e.teams)
  /\ l = "dismiss" => e.verdict # "approve"

NewestInv ==
  /\ PlacedInv /\ LockInv /\ KnownHeads /\ InHistory
  /\ \A d \in DOMAIN evt : Newest(d, pc[d], ev[d])

-----------------------------------------------------------------------------
(* What a delivery holds stays right when its own call moves it.           *)
LEMMA NewestAway ==
  ASSUME NEW d, NEW l, NEW e, l \notin Before, l \notin Judging
  PROVE  Newest(d, l, e)
BY DEF Newest, Before, Judging, Ruled, Listed, Decided

LEMMA NewestBefore ==
  ASSUME NEW d, NEW l, NEW e, l \in Before, e.files = {}
  PROVE  Newest(d, l, e)
BY DEF Newest, Before, Judging, Ruled, Listed, Decided, Ended

LEMMA GoNewest ==
  ASSUME TypeOK, NEW d \in Deliveries, NEW l, NEW e, Go(d, l, e),
         l \in Ended \/ Newest(d, l, e)
  PROVE  Newest(d, pc'[d], ev'[d])
<1>1. pc'[d] = l /\ ev'[d] = IF l \in Ended THEN NoLocals ELSE e
  BY DEF Go, TypeOK
<1>2. CASE l \in Ended
  BY <1>1, <1>2, NewestBefore DEF Before, NoLocals
<1>3. CASE l \notin Ended
  BY <1>1, <1>3
<1> QED
  BY <1>2, <1>3

LEMMA ToNewest ==
  ASSUME TypeOK, NEW d \in Deliveries, NEW l, To(d, l),
         l \in Ended \/ (l \notin Before /\ l \notin Judging)
  PROVE  Newest(d, pc'[d], ev'[d])
BY NewestAway, GoNewest DEF To

(* Of the two pages each is of a head no older than the reviews.           *)
LEMMA ListNewest ==
  ASSUME NewestInv, NEW d \in DOMAIN evt, ListChangedFiles(d)
  PROVE  Newest(d, pc'[d], ev'[d])
<1>d. /\ d \in Deliveries /\ Newest(d, pc[d], ev[d]) /\ TypeOK
      /\ ev[d] \in Locals /\ pr(d) \in PRs
  BY RaisedType DEF NewestInv, PlacedInv, TypeOK, Event, pr
<1>1. PICK last \in BOOLEAN : listPage(d, last)
  BY DEF ListChangedFiles
<1> DEFINE e == [ev[d] EXCEPT !.files = @ \union {head[pr(d)]},
                              !.todo = TeamHandles(ev[d].cfg)]
           l == IF last THEN "teams" ELSE "listMore"
<1>2. CASE Fails(d, "failed")
  BY <1>d, <1>2, ToNewest DEF Fails, Ended
<1>3. CASE Go(d, l, e)
  <2>1. e.files = ev[d].files \union {head[pr(d)]}
    BY <1>d DEF Locals
  <2>2. ASSUME NEW c \in e.files, NEW i \in DOMAIN reviews[pr(d)]
        PROVE  reviews[pr(d)][i].commit \in past[pr(d)] \union {c}
    <3>1. CASE c = head[pr(d)]
      BY <1>d, <3>1 DEF NewestInv, InHistory
    <3>2. CASE c \in ev[d].files
      BY <1>d, <3>2 DEF ListChangedFiles, Newest, Before, Judging, Listed
    <3> QED
      BY <2>1, <3>1, <3>2
  <2>3. Newest(d, l, e)
    BY <2>1, <2>2 DEF Newest, Before, Ended, Ruled, Decided
  <2> QED
    BY <1>d, <1>3, <2>3, GoNewest
<1> QED
  BY <1>1, <1>2, <1>3 DEF listPage

LEMMA TeamsNewest ==
  ASSUME NewestInv, NEW d \in DOMAIN evt, resolveAuthorTeams(d)
  PROVE  Newest(d, pc'[d], ev'[d])
<1>d. /\ d \in Deliveries /\ Newest(d, pc[d], ev[d]) /\ TypeOK
      /\ ev[d] \in Locals
  BY RaisedType DEF NewestInv, PlacedInv, TypeOK
<1> DEFINE Take(t, b) == [ev[d] EXCEPT !.todo = @ \ {t},
                            !.teams = IF b THEN @ \union {t} ELSE @]
<1>1. ASSUME NEW t, NEW b, Go(d, "teams", Take(t, b))
      PROVE  Newest(d, pc'[d], ev'[d])
  <2>1. Take(t, b).files = ev[d].files
    BY <1>d DEF Locals
  <2>2. Newest(d, "teams", Take(t, b))
    BY <1>d, <2>1 DEF resolveAuthorTeams, Newest, Before, Ended, Judging, Listed,
       Ruled, Decided
  <2> QED
    BY <1>d, <1>1, <2>2, GoNewest
<1>2. ASSUME Fails(d, "failed")
      PROVE  Newest(d, pc'[d], ev'[d])
  BY <1>d, <1>2, ToNewest DEF Fails, Ended
<1> QED
  BY <1>1, <1>2 DEF resolveAuthorTeams

LEMMA DecideNewest ==
  ASSUME NewestInv, NEW d \in DOMAIN evt, decide(d)
  PROVE  Newest(d, pc'[d], ev'[d])
<1>d. /\ d \in Deliveries /\ Newest(d, pc[d], ev[d]) /\ TypeOK
      /\ ev[d] \in Locals
  BY RaisedType DEF NewestInv, PlacedInv, TypeOK
<1>1. PICK v \in Decisions(d) :
        IF v = "error" THEN To(d, "failed")
                       ELSE Go(d, "check", [ev[d] EXCEPT !.verdict = v])
  BY DEF decide
<1> DEFINE e == [ev[d] EXCEPT !.verdict = v]
<1>2. CASE To(d, "failed")
  BY <1>d, <1>2, ToNewest DEF Ended
<1>3. CASE Go(d, "check", e)
  <2>1. /\ e.files = ev[d].files /\ e.cfg = ev[d].cfg /\ e.teams = ev[d].teams
        /\ e.verdict = v
    BY <1>d DEF Locals
  <2>2. ASSUME NEW c \in Commits, e.files = {c}
        PROVE  e.verdict = Verdict(e.cfg, c, author(d), e.teams)
    <3>1. Decisions(d) = {Verdict(ev[d].cfg, x, author(d), ev[d].teams) :
                            x \in ev[d].files}
      BY <2>1, <2>2 DEF Decisions
    <3> QED
      BY <2>1, <2>2, <3>1
  <2>3. Newest(d, "check", e)
    BY <1>d, <2>1, <2>2 DEF decide, Newest, Before, Ended, Judging, Listed
  <2> QED
    BY <1>d, <1>3, <2>3, GoNewest
<1> QED
  BY <1>1, <1>2, <1>3

LEMMA CheckNewest ==
  ASSUME NewestInv, NEW d \in DOMAIN evt, UpsertCheck(d)
  PROVE  Newest(d, pc'[d], ev'[d])
<1>d. d \in Deliveries /\ Newest(d, pc[d], ev[d]) /\ TypeOK
  BY RaisedType DEF NewestInv, PlacedInv, TypeOK
<1>1. pc[d] = "check" /\ To(d, AfterCheck(ev[d].cfg))
  BY DEF UpsertCheck, Replies, Fails
<1>2. CASE AfterCheck(ev[d].cfg) = "listComments"
  BY <1>d, <1>1, <1>2, ToNewest DEF Before, Ended, Judging, Listed, Decided
<1>3. CASE AfterCheck(ev[d].cfg) = "findApproval"
  <2>1. Newest(d, "findApproval", ev[d])
    BY <1>d, <1>1 DEF Newest, Before, Ended, Judging, Listed, Ruled, Decided
  <2> QED
    BY <1>d, <1>1, <1>3, <2>1, GoNewest DEF To
<1> QED
  BY <1>2, <1>3 DEF AfterCheck

LEMMA FindNewest ==
  ASSUME NewestInv, NEW d \in DOMAIN evt, FindApproval(d)
  PROVE  Newest(d, pc'[d], ev'[d])
<1>d. /\ d \in Deliveries /\ Newest(d, pc[d], ev[d]) /\ TypeOK
      /\ ev[d] \in Locals
  BY RaisedType DEF NewestInv, PlacedInv, TypeOK
<1>1. CASE Fails(d, "failed")
  BY <1>d, <1>1, ToNewest DEF Fails, Ended
<1>2. ASSUME NEW i, Go(d, AfterFind(d, i), [ev[d] EXCEPT !.found = i])
      PROVE  Newest(d, pc'[d], ev'[d])
  <2> DEFINE e == [ev[d] EXCEPT !.found = i]
             l == AfterFind(d, i)
  <2>1. /\ e.files = ev[d].files /\ e.cfg = ev[d].cfg /\ e.teams = ev[d].teams
        /\ e.verdict = ev[d].verdict
    BY <1>d DEF Locals
  <2>f. pc[d] = "findApproval"
    BY DEF FindApproval
  <2>2. CASE l = "pullHead"
    <3>1. Newest(d, "pullHead", e)
      BY <1>d, <2>1, <2>f DEF Newest, Before, Ended, Judging, Listed, Ruled,
         Decided
    <3> QED
      BY <1>d, <1>2, <2>2, <3>1, GoNewest
  <2>3. CASE l = "dismiss"
    <3>1. ev[d].verdict # "approve"
      BY <2>3 DEF AfterFind, AfterAct
    <3>2. Newest(d, "dismiss", e)
      BY <1>d, <2>1, <2>f, <3>1 DEF Newest, Before, Ended, Judging, Listed, Ruled,
         Decided
    <3> QED
      BY <1>d, <1>2, <2>3, <3>2, GoNewest
  <2>4. CASE l \notin {"pullHead", "dismiss"}
    <3>1. l \in {"listComments", "done"}
      BY <2>4 DEF AfterFind, AfterAct
    <3>2. l \in Ended \/ Newest(d, l, e)
      BY <3>1, NewestAway DEF Ended, Before, Judging, Listed, Decided
    <3> QED
      BY <1>d, <1>2, <3>2, GoNewest
  <2> QED
    BY <2>2, <2>3, <2>4
<1> QED
  BY <1>1, <1>2 DEF FindApproval

LEMMA PullHeadNewest ==
  ASSUME NewestInv, NEW d \in DOMAIN evt, PullHeadSHA(d)
  PROVE  Newest(d, pc'[d], ev'[d])
<1>d. /\ d \in Deliveries /\ Newest(d, pc[d], ev[d]) /\ TypeOK
      /\ pc[d] = "pullHead"
  BY RaisedType DEF NewestInv, PlacedInv, TypeOK, PullHeadSHA
<1>1. CASE Fails(d, "failed")
  BY <1>d, <1>1, ToNewest DEF Fails, Ended
<1>2. CASE To(d, "approve")
  <2>1. Newest(d, "approve", ev[d])
    BY <1>d DEF Newest, Before, Ended, Judging, Listed, Ruled, Decided
  <2> QED
    BY <1>d, <1>2, <2>1, GoNewest DEF To
<1>3. CASE To(d, AfterAct(ev[d].cfg))
  BY <1>d, <1>3, ToNewest DEF AfterAct, Before, Ended, Judging, Listed, Decided
<1> QED
  BY <1>1, <1>2, <1>3 DEF PullHeadSHA

LEMMA EvaluateNewest ==
  ASSUME NewestInv, NEW d \in DOMAIN evt, evaluate(d)
  PROVE  Newest(d, pc'[d], ev'[d])
<1>d. /\ d \in Deliveries /\ Newest(d, pc[d], ev[d]) /\ TypeOK
      /\ ev[d] \in Locals
  BY RaisedType DEF NewestInv, PlacedInv, TypeOK
<1>to. ASSUME NEW l, To(d, l), l \in Ended \/ (l \notin Before /\ l \notin Judging)
       PROVE  Newest(d, pc'[d], ev'[d])
  BY <1>d, <1>to, ToNewest
<1>b. ASSUME pc[d] \in Before
      PROVE  ev[d].files = {}
  BY <1>d, <1>b DEF Newest
<1>on. ASSUME NEW l, To(d, l), pc[d] \in Before, l \in Before
       PROVE  Newest(d, pc'[d], ev'[d])
  BY <1>d, <1>b, <1>on, NewestBefore, GoNewest DEF To
<1>cfg. ASSUME NEW l, NEW cfg, Go(d, l, [ev[d] EXCEPT !.cfg = cfg]),
               pc[d] \in Before, l \in Before
        PROVE  Newest(d, pc'[d], ev'[d])
  <2>1. [ev[d] EXCEPT !.cfg = cfg].files = ev[d].files
    BY <1>d DEF Locals
  <2> QED
    BY <1>d, <1>b, <1>cfg, <2>1, NewestBefore, GoNewest
<1>n. \A cfg : /\ Loaded(cfg) \in Before
               /\ AfterAct(cfg) \in {"done", "listComments"}
               /\ AfterApprove(cfg) \in {"done", "listComments", "autoMerge"}
  BY DEF Loaded, AfterAct, AfterApprove, Before, Ended
<1>w. /\ {"lock", "bot", "config", "getFile", "setConfig", "badConfig"} \subseteq Before
      /\ {"listComments", "autoMerge", "editComment", "createComment"}
           \intersect (Before \union Judging) = {}
      /\ {"done", "failed"} \subseteq Ended
  BY DEF Before, Ended, Judging, Listed, Decided
<1>1. CASE lockPR(d)
  <2>1. pc'[d] = "bot" /\ ev'[d] = ev[d] /\ pc[d] = "lock"
    BY <1>1, <1>d DEF lockPR, TypeOK
  <2> QED
    BY <1>b, <1>w, <2>1, NewestBefore
<1>2. CASE cachedBotLogin(d)
  BY <1>2, <1>to, <1>on, <1>w DEF cachedBotLogin, Before
<1>3. CASE loadConfig(d)
  BY <1>3, <1>on, <1>cfg, <1>w, <1>n DEF loadConfig
<1>4. CASE fetchConfig(d)
  BY <1>4, <1>on, <1>cfg, <1>w DEF fetchConfig, Fails
<1>5. CASE setConfig(d) \/ reportBadConfig(d)
  BY <1>5, <1>to, <1>on, <1>w, <1>n DEF setConfig, reportBadConfig, Replies, Fails
<1>6. CASE Approve(d) \/ EnableAutoMerge(d) \/ DismissReview(d)
  <2>1. \A l : l \in {"done", "failed", "listComments", "autoMerge"} =>
          l \in Ended \/ (l \notin Before /\ l \notin Judging)
    BY <1>w
  <2> QED
    BY <1>6, <1>to, <1>n, <2>1
    DEF Approve, EnableAutoMerge, DismissReview, Replies, Fails
<1>7. CASE ListComments(d) \/ WriteComment(d)
  BY <1>7, <1>to, <1>w DEF ListComments, WriteComment, Replies, Fails
<1> QED
  BY <1>1, <1>2, <1>3, <1>4, <1>5, <1>6, <1>7, ListNewest, TeamsNewest,
     DecideNewest, CheckNewest, FindNewest, PullHeadNewest DEF evaluate

LEMMA StepNewest ==
  ASSUME NewestInv, [Next]_vars, NEW d \in DOMAIN evt
  PROVE  Newest(d, pc'[d], ev'[d])
<1>t. TypeOK /\ Newest(d, pc[d], ev[d])
  BY DEF NewestInv, PlacedInv
<1>1. CASE pc[d] = "raised" /\ pc'[d] \in {"lock", "done", "lost"} /\ ev'[d] = ev[d]
  BY <1>t, <1>1, NewestBefore DEF Newest, Before, Ended
<1>2. CASE pc'[d] = "lost" /\ ev'[d] = NoLocals
  BY <1>2, NewestBefore DEF Before, Ended, NoLocals
<1> QED
  BY <1>t, <1>1, <1>2, StepOf, EvaluateNewest

-----------------------------------------------------------------------------
(* It stays right when reviews are dismissed and heads move, and when      *)
(* another delivery approves, which is then of another pull request.       *)
LEMMA NewestOn ==
  ASSUME TypeOK, EvtGrows, HeadsKept, OnlyDismissed, NEW d \in DOMAIN evt,
         Newest(d, pc'[d], ev'[d])
  PROVE  Newest(d, pc[d], ev[d])'
<1>1. evt'[d] = evt[d] /\ pr(d) \in PRs
  BY RaisedType DEF EvtGrows, TypeOK, Event, pr
<1>2. past[pr(d)] \subseteq past'[pr(d)]
  BY <1>1 DEF HeadsKept
<1>3. /\ DOMAIN reviews'[pr(d)] = DOMAIN reviews[pr(d)]
      /\ \A i \in DOMAIN reviews[pr(d)] :
           reviews'[pr(d)][i].commit = reviews[pr(d)][i].commit
  BY <1>1 DEF OnlyDismissed, pr
<1> QED
  BY <1>1, <1>2, <1>3 DEF Newest, pr, author

LEMMA NewestApproved ==
  ASSUME NEW r, Replicas = {r}, NewestInv, EvtGrows,
         NEW c \in DOMAIN evt, Approve(c),
         reviews' = [reviews EXCEPT ![pr(c)] = Append(@, Granted(c))],
         NEW d \in DOMAIN evt
  PROVE  Newest(d, pc[d], ev[d])'
<1>t. /\ TypeOK /\ PlacedInv /\ LockInv /\ MutualExclusion
      /\ c \in Deliveries /\ d \in Deliveries
  BY LocksExclude, RaisedType DEF NewestInv, PlacedInv, TypeOK
<1>1. PICK l, e : Moves(c, l, e)
  BY <1>t, EvaluateMoves DEF evaluate
<1>2. CASE d = c
  <2>1. PICK m : To(c, m) /\ m \in {"done", "failed", "listComments", "autoMerge"}
    BY DEF Approve, Replies, Fails, AfterApprove, AfterAct
  <2>2. pc'[d] = m /\ ev'[d] = IF m \in Ended THEN NoLocals ELSE ev[d]
    BY <1>t, <1>2, <2>1 DEF To, Go, TypeOK
  <2> QED
    BY <2>1, <2>2
    DEF Newest, Before, Judging, Ruled, Listed, Decided, Ended, NoLocals
<1>3. CASE d # c
  <2>1. /\ pc'[d] = pc[d] /\ ev'[d] = ev[d] /\ evt'[d] = evt[d] /\ past' = past
        /\ Newest(d, pc[d], ev[d])
    BY <1>t, <1>1, <1>3 DEF Moves, TypeOK, EvtGrows, NewestInv, Approve, Fails, pulls
  <2>2. CASE pc[d] \in Judging
    <3>1. pc[d] \in Locked /\ pc[c] \in Locked
      BY <2>2 DEF Judging, Listed, Decided, Locked, Labels, Resting, Ended, Approve
    <3>2. pr(d) # pr(c) /\ pr(d) \in PRs
      BY <1>t, <1>3, <3>1, LockedType DEF MutualExclusion
    <3>3. reviews'[pr(d)] = reviews[pr(d)]
      BY <1>t, <3>2, GrantedLast
    <3> QED
      BY <2>1, <3>3 DEF Newest, pr, author
  <2>3. CASE pc[d] \notin Judging
    BY <2>1, <2>3 DEF Newest, Judging, Ruled, Listed, Decided
  <2> QED
    BY <2>2, <2>3
<1> QED
  BY <1>2, <1>3

(* The reviews stay on heads the PR has or had.                            *)
LEMMA StepInHistory ==
  ASSUME TypeOK, KnownHeads, InHistory, HeadsKept, [Next]_vars
  PROVE  InHistory'
<1>0. \A p \in PRs : past[p] \union {head[p]} \subseteq past'[p] \union {head'[p]}
  BY DEF HeadsKept
<1>1. CASE OnlyDismissed
  BY <1>0, <1>1 DEF OnlyDismissed, InHistory
<1>2. ASSUME NEW c \in DOMAIN evt, Approve(c),
             reviews' = [reviews EXCEPT ![pr(c)] = Append(@, Granted(c))]
      PROVE  InHistory'
  <2>1. PICK n \in Nat :
          /\ DOMAIN reviews'[pr(c)] = DOMAIN reviews[pr(c)] \union {n}
          /\ \A i \in DOMAIN reviews[pr(c)] :
               reviews'[pr(c)][i] = reviews[pr(c)][i]
          /\ reviews'[pr(c)][n] = Granted(c)
    BY <1>2, GrantedLast
  <2>2. \A p \in PRs : p # pr(c) => reviews'[p] = reviews[p]
    BY <1>2, GrantedLast
  <2>3. Granted(c).commit \in past[pr(c)] \union {head[pr(c)]}
    BY DEF KnownHeads, Granted
  <2>4. ASSUME NEW p \in PRs, NEW i \in DOMAIN reviews'[p]
        PROVE  reviews'[p][i].commit \in past[p] \union {head[p]}
    <3>1. CASE p # pr(c)
      BY <2>2, <2>4, <3>1 DEF InHistory
    <3>2. CASE p = pr(c) /\ i = n
      BY <2>1, <2>3, <3>2
    <3>3. CASE p = pr(c) /\ i # n
      BY <2>1, <2>4, <3>3 DEF InHistory
    <3> QED
      BY <3>1, <3>2, <3>3
  <2> QED
    BY <1>0, <2>4 DEF InHistory
<1> QED
  BY <1>1, <1>2, StepReviews

LEMMA NewestInvInit == Init => NewestInv
<1> SUFFICES ASSUME Init PROVE NewestInv
  OBVIOUS
<1>1. DOMAIN evt = {} /\ \A p \in PRs : DOMAIN reviews[p] = {}
  BY DEF Init, WorldInit
<1> QED
  BY <1>1, PlacedInvInit, LockInvInit DEF NewestInv, KnownHeads, InHistory

LEMMA NewestInvStep ==
  ASSUME NEW r, Replicas = {r}
  PROVE  NewestInv /\ [Next]_vars => NewestInv'
<1> SUFFICES ASSUME NewestInv, [Next]_vars PROVE NewestInv'
  OBVIOUS
<1>1. PlacedInv' /\ PlacedInv /\ TypeOK /\ TypeOK' /\ (Placed /\ Unraised)'
  BY PlacedInvStep DEF NewestInv, PlacedInv
<1>2. EvtGrows /\ HeadsKept
  BY <1>1, StepGrows, StepKeeps
<1>3. LockInv'
  BY <1>1, <1>2, StepLocks DEF NewestInv
<1>4. KnownHeads' /\ InHistory'
  BY <1>1, <1>2, KnownStep, StepInHistory DEF NewestInv
<1>5. ASSUME NEW d \in DOMAIN evt'
      PROVE  Newest(d, pc[d], ev[d])'
  <2>1. CASE d \notin DOMAIN evt
    <3>1. d \in Deliveries \ DOMAIN evt
      BY <1>1, <1>5, <2>1, LenProperties, WorldType DEF TypeOK, WorldOK, Deliveries
    <3>2. pc'[d] = "raised" /\ ev'[d] = NoLocals
      BY <1>1, <3>1, PlacedStep DEF PlacedInv, Fresh
    <3> QED
      BY <3>2 DEF Newest, Before, Judging, Ruled, Listed, Decided, Ended, NoLocals
  <2>2. CASE d \in DOMAIN evt /\ OnlyDismissed
    BY <1>1, <1>2, <2>2, StepNewest, NewestOn
  <2>3. ASSUME d \in DOMAIN evt, NEW c \in DOMAIN evt, Approve(c),
               reviews' = [reviews EXCEPT ![pr(c)] = Append(@, Granted(c))]
        PROVE  Newest(d, pc[d], ev[d])'
    BY <1>2, <2>3, NewestApproved
  <2> QED
    BY <1>1, <2>1, <2>2, <2>3, StepReviews
<1> QED
  BY <1>1, <1>3, <1>4, <1>5 DEF NewestInv

-----------------------------------------------------------------------------
Dismissal(d) ==
  pc[d] = "dismiss" /\ pc'[d] # pc[d] =>
    \A i \in Approvals(pr(d)) :
      LET v == reviews[pr(d)][i] IN
        /\ reviews'[pr(d)][i].state = "DISMISSED"
        /\ v.commit = head[pr(d)] /\ head[pr(d)] \notin past[pr(d)]
        => Verdict(ev[d].cfg, v.commit, author(d), ev[d].teams) # "approve"

LEMMA GoodStays ==
  ASSUME NewestInv, NEW d \in Deliveries
  PROVE  Dismissal(d)
<1> SUFFICES ASSUME pc[d] = "dismiss", NEW i \in Approvals(pr(d)),
                    reviews[pr(d)][i].commit = head[pr(d)],
                    head[pr(d)] \notin past[pr(d)]
             PROVE  Verdict(ev[d].cfg, head[pr(d)], author(d), ev[d].teams)
                      # "approve"
  BY DEF Dismissal
<1>1. d \in DOMAIN evt
  BY DEF NewestInv, PlacedInv, Unraised
<1>2. /\ Newest(d, "dismiss", ev[d]) /\ i \in DOMAIN reviews[pr(d)]
      /\ pr(d) \in PRs /\ head[pr(d)] \in Commits
  BY <1>1, RaisedType DEF NewestInv, PlacedInv, TypeOK, WorldOK, Event, pr,
     Approvals
<1>3. ev[d].files = {head[pr(d)]}
  BY <1>2 DEF Newest, Judging
<1> QED
  BY <1>2, <1>3 DEF Newest, Ruled

(* One replica never dismisses an approval of a live head that is new,     *)
(* not one the branch came back to, when its own evaluation would grant    *)
(* it, whatever is pushed or pushed back, fails or crashes: dismissal has  *)
(* no guard on the head, but what a delivery listed is as new as every     *)
(* review it can dismiss (approver.go:265-273).                            *)
THEOREM DismissalsAreSafe ==
  ASSUME NEW r, Replicas = {r}
  PROVE  Spec => NeverDismissesGoodApproval
<1>1. Init => NewestInv
  BY NewestInvInit
<1>2. NewestInv /\ [Next]_vars => NewestInv'
  BY NewestInvStep
<1>3. NewestInv => [\A d \in Deliveries : Dismissal(d)]_vars
  BY GoodStays
<1> QED
  BY <1>1, <1>2, <1>3, PTL DEF Spec, NeverDismissesGoodApproval, Dismissal

-----------------------------------------------------------------------------
(* What delivery d at l is about to approve has no standing approval, as   *)
(* long as no push returns to a former head.                               *)
Unapproved(d, l) ==
  /\ l = "pullHead" => \A i \in Approvals(pr(d)) :
       reviews[pr(d)][i].commit = headSHA(d) => headSHA(d) \in past[pr(d)]
  /\ l = "approve" => \A i \in Approvals(pr(d)) :
       reviews[pr(d)][i].commit # headSHA(d)

(* Reviews of different commits stand in the order these were head.        *)
InOrder ==
  \A p \in PRs : \A i, j \in DOMAIN reviews[p] :
    i < j /\ reviews[p][i].commit # reviews[p][j].commit
    => reviews[p][i].commit \in past[p]

SerialInv ==
  /\ NewestInv /\ ApprovalInv /\ InOrder /\ OneApprovalPerCommit
  /\ \A d \in DOMAIN evt : Unapproved(d, pc[d])

(* The last approval is on the newest commit of all that are approved: if  *)
(* it is on another than the event's head, that head, if approved, is      *)
(* history.                                                                *)
LEMMA FindUnapproved ==
  ASSUME SerialInv, NEW d \in DOMAIN evt, FindApproval(d)
  PROVE  Unapproved(d, pc'[d])
<1>d. /\ d \in Deliveries /\ TypeOK
      /\ pr(d) \in PRs /\ reviews[pr(d)] \in Seq(Review)
  BY RaisedType DEF SerialInv, ApprovalInv, TypeOK, WorldOK, Event, pr
<1>1. CASE Fails(d, "failed")
  BY <1>d, <1>1 DEF Fails, To, Go, TypeOK, Unapproved
<1>2. ASSUME NEW i \in LastApproval(pr(d)),
             Go(d, AfterFind(d, i), [ev[d] EXCEPT !.found = i])
      PROVE  Unapproved(d, pc'[d])
  <2>1. pc'[d] = AfterFind(d, i)
    BY <1>d, <1>2 DEF Go, TypeOK
  <2>2. CASE AfterFind(d, i) = "pullHead"
    <3>1. ~ApprovedHead(d, i)
      BY <2>2 DEF AfterFind, AfterAct
    <3>2. ASSUME NEW j \in Approvals(pr(d)),
                 reviews[pr(d)][j].commit = headSHA(d)
          PROVE  headSHA(d) \in past[pr(d)]
      <4>1. i \in Approvals(pr(d)) /\ j <= i
        BY <1>2, <3>2 DEF LastApproval
      <4>2. j \in Nat /\ i \in Nat /\ i # 0
        BY <1>d, <4>1, LenProperties DEF Approvals
      <4>3. reviews[pr(d)][i].commit # headSHA(d)
        BY <3>1, <4>2 DEF ApprovedHead
      <4>4. j < i
        BY <3>2, <4>1, <4>2, <4>3
      <4> QED
        BY <1>d, <3>2, <4>1, <4>3, <4>4 DEF SerialInv, InOrder, Approvals
    <3> QED
      BY <2>1, <2>2, <3>2 DEF Unapproved
  <2>3. CASE AfterFind(d, i) # "pullHead"
    BY <2>1, <2>3 DEF AfterFind, AfterAct, Unapproved
  <2> QED
    BY <2>2, <2>3
<1> QED
  BY <1>1, <1>2 DEF FindApproval

(* A live head is not history, so nothing that stands is on it.            *)
LEMMA PullHeadUnapproved ==
  ASSUME SerialInv, NEW d \in DOMAIN evt, PullHeadSHA(d)
  PROVE  Unapproved(d, pc'[d])
<1>d. d \in Deliveries /\ TypeOK /\ pr(d) \in PRs /\ pc[d] = "pullHead"
  BY RaisedType DEF SerialInv, ApprovalInv, TypeOK, Event, pr, PullHeadSHA
<1>to. \A l : To(d, l) => pc'[d] = l
  BY <1>d DEF To, Go, TypeOK
<1>1. CASE head[pr(d)] = headSHA(d) /\ To(d, "approve")
  <2>1. headSHA(d) \notin past[pr(d)]
    BY <1>d, <1>1 DEF SerialInv, ApprovalInv, HeadsMoveOn
  <2> QED
    BY <1>d, <1>to, <1>1, <2>1 DEF SerialInv, Unapproved
<1>2. CASE Fails(d, "failed") \/ To(d, AfterAct(ev[d].cfg))
  BY <1>to, <1>2 DEF Fails, AfterAct, Unapproved
<1> QED
  BY <1>1, <1>2 DEF PullHeadSHA

LEMMA EvaluateUnapproved ==
  ASSUME SerialInv, NEW d \in DOMAIN evt, evaluate(d)
  PROVE  Unapproved(d, pc'[d])
<1>d. d \in Deliveries /\ TypeOK
  BY RaisedType DEF SerialInv, ApprovalInv, TypeOK
<1>go. \A l, e : Go(d, l, e) => pc'[d] = l
  BY <1>d DEF Go, TypeOK
<1>to. \A l : To(d, l) => pc'[d] = l
  BY <1>go DEF To
<1>u. pc'[d] \notin {"pullHead", "approve"} => Unapproved(d, pc'[d])
  BY DEF Unapproved
<1>n. \A cfg : /\ Loaded(cfg) \notin {"pullHead", "approve"}
               /\ AfterCheck(cfg) \notin {"pullHead", "approve"}
               /\ AfterAct(cfg) \notin {"pullHead", "approve"}
               /\ AfterApprove(cfg) \notin {"pullHead", "approve"}
  BY DEF Loaded, AfterCheck, AfterAct, AfterApprove
<1>1. CASE lockPR(d)
  BY <1>1, <1>d, <1>u DEF lockPR, TypeOK
<1>2. CASE cachedBotLogin(d) \/ setConfig(d) \/ reportBadConfig(d)
  BY <1>2, <1>to, <1>n, <1>u DEF cachedBotLogin, setConfig, reportBadConfig,
     Replies, Fails
<1>3. CASE loadConfig(d) \/ fetchConfig(d)
  BY <1>3, <1>to, <1>go, <1>n, <1>u DEF loadConfig, fetchConfig, Fails
<1>4. CASE ListChangedFiles(d)
  BY <1>4, <1>to, <1>go, <1>u DEF ListChangedFiles, listPage, Fails
<1>5. CASE resolveAuthorTeams(d) \/ decide(d)
  BY <1>5, <1>to, <1>go, <1>u DEF resolveAuthorTeams, decide, Fails
<1>6. CASE UpsertCheck(d) \/ Approve(d) \/ EnableAutoMerge(d) \/ DismissReview(d)
  BY <1>6, <1>to, <1>n, <1>u DEF UpsertCheck, Approve, EnableAutoMerge,
     DismissReview, Replies, Fails
<1>7. CASE ListComments(d) \/ WriteComment(d)
  BY <1>7, <1>to, <1>u DEF ListComments, WriteComment, Replies, Fails
<1> QED
  BY <1>1, <1>2, <1>3, <1>4, <1>5, <1>6, <1>7, FindUnapproved,
     PullHeadUnapproved DEF evaluate

LEMMA StepUnapproved ==
  ASSUME SerialInv, [Next]_vars, NEW d \in DOMAIN evt
  PROVE  Unapproved(d, pc'[d])
<1>t. TypeOK /\ Unapproved(d, pc[d])
  BY DEF SerialInv, ApprovalInv
<1>1. CASE pc'[d] \in {"lock", "done", "lost"}
  BY <1>1 DEF Unapproved
<1> QED
  BY <1>t, <1>1, StepOf, EvaluateUnapproved

LEMMA UnapprovedOn ==
  ASSUME TypeOK, EvtGrows, HeadsKept, OnlyDismissed, NEW d \in DOMAIN evt,
         Unapproved(d, pc'[d])
  PROVE  Unapproved(d, pc[d])'
<1>1. evt'[d] = evt[d] /\ pr(d) \in PRs
  BY RaisedType DEF EvtGrows, TypeOK, Event, pr
<1>2. past[pr(d)] \subseteq past'[pr(d)]
  BY <1>1 DEF HeadsKept
<1>3. /\ \A i \in DOMAIN reviews[pr(d)] :
           reviews'[pr(d)][i].commit = reviews[pr(d)][i].commit
      /\ \A i \in Approvals(pr(d))' : i \in Approvals(pr(d))
  BY <1>1 DEF OnlyDismissed, Approvals, pr
<1>4. \A i \in Approvals(pr(d)) : i \in DOMAIN reviews[pr(d)]
  BY DEF Approvals
<1> QED
  BY <1>1, <1>2, <1>3, <1>4 DEF Unapproved, pr, headSHA

(* Who approves is past the head guard, and alone with that pull request.  *)
LEMMA UnapprovedApproved ==
  ASSUME NEW r, Replicas = {r}, SerialInv, EvtGrows,
         NEW c \in DOMAIN evt, Approve(c),
         reviews' = [reviews EXCEPT ![pr(c)] = Append(@, Granted(c))],
         NEW d \in DOMAIN evt
  PROVE  Unapproved(d, pc[d])'
<1>t. /\ TypeOK /\ PlacedInv /\ LockInv /\ MutualExclusion
      /\ c \in Deliveries /\ d \in Deliveries
  BY LocksExclude, RaisedType DEF SerialInv, NewestInv, PlacedInv, TypeOK
<1>1. PICK l, e : Moves(c, l, e)
  BY <1>t, EvaluateMoves DEF evaluate
<1>2. CASE d = c
  <2>1. PICK m : To(c, m) /\ m \in {"done", "failed", "listComments", "autoMerge"}
    BY DEF Approve, Replies, Fails, AfterApprove, AfterAct
  <2>2. pc'[d] = m
    BY <1>t, <1>2, <2>1 DEF To, Go, TypeOK
  <2> QED
    BY <2>1, <2>2 DEF Unapproved
<1>3. CASE d # c
  <2>1. /\ pc'[d] = pc[d] /\ evt'[d] = evt[d] /\ past' = past
        /\ Unapproved(d, pc[d])
    BY <1>t, <1>1, <1>3 DEF Moves, TypeOK, EvtGrows, SerialInv, Approve, Fails, pulls
  <2>2. CASE pc[d] \in {"pullHead", "approve"}
    <3>1. pc[d] \in Locked /\ pc[c] \in Locked
      BY <2>2 DEF Locked, Labels, Resting, Ended, Approve
    <3>2. pr(d) # pr(c) /\ pr(d) \in PRs
      BY <1>t, <1>3, <3>1, LockedType DEF MutualExclusion
    <3>3. reviews'[pr(d)] = reviews[pr(d)]
      BY <1>t, <3>2, GrantedLast
    <3> QED
      BY <2>1, <3>3 DEF Unapproved, pr, headSHA, Approvals
  <2>3. CASE pc[d] \notin {"pullHead", "approve"}
    BY <2>1, <2>3 DEF Unapproved
  <2> QED
    BY <2>2, <2>3
<1> QED
  BY <1>2, <1>3

(* Reviews stay in the order of the heads they are on, one for each.       *)
LEMMA DismissedHistory ==
  ASSUME InOrder, OneApprovalPerCommit, HeadsKept, OnlyDismissed
  PROVE  (InOrder /\ OneApprovalPerCommit)'
<1>1. ASSUME NEW p \in PRs
      PROVE  /\ past[p] \subseteq past'[p]
             /\ DOMAIN reviews'[p] = DOMAIN reviews[p]
             /\ \A i \in DOMAIN reviews[p] :
                  reviews'[p][i].commit = reviews[p][i].commit
             /\ \A i \in Approvals(p)' : i \in Approvals(p)
             /\ \A i \in Approvals(p) : i \in DOMAIN reviews[p]
  BY DEF HeadsKept, OnlyDismissed, Approvals
<1>2. InOrder'
  BY <1>1 DEF InOrder
<1>3. OneApprovalPerCommit'
  BY <1>1 DEF OneApprovalPerCommit
<1> QED
  BY <1>2, <1>3

LEMMA ApprovedHistory ==
  ASSUME SerialInv, NEW c \in DOMAIN evt, Approve(c),
         reviews' = [reviews EXCEPT ![pr(c)] = Append(@, Granted(c))]
  PROVE  (InOrder /\ OneApprovalPerCommit)'
<1>t. /\ TypeOK /\ InOrder /\ OneApprovalPerCommit
      /\ pr(c) \in PRs /\ past' = past
  BY RaisedType DEF SerialInv, ApprovalInv, TypeOK, Event, pr, Approve, Fails,
     pulls
<1>1. /\ \A i \in DOMAIN reviews[pr(c)] :
           reviews[pr(c)][i].commit \in past[pr(c)] \union {headSHA(c)}
      /\ \A i \in Approvals(pr(c)) : reviews[pr(c)][i].commit # headSHA(c)
  BY DEF SerialInv, NewestInv, ApprovalInv, Sound, GuardPassed, Newest,
     Unapproved, Approve, Judging, Listed, Decided
<1>o. \A p \in PRs : p # pr(c) => reviews'[p] = reviews[p]
  BY <1>t, GrantedLast
<1>n. PICK n \in Nat :
        /\ DOMAIN reviews'[pr(c)] = DOMAIN reviews[pr(c)] \union {n}
        /\ \A i \in DOMAIN reviews[pr(c)] :
             i \in Nat /\ i < n /\ reviews'[pr(c)][i] = reviews[pr(c)][i]
        /\ reviews'[pr(c)][n] = Granted(c)
  BY <1>t, GrantedLast
<1>g. Granted(c).commit = headSHA(c)
  BY DEF Granted
<1>2. InOrder'
  <2>1. ASSUME NEW i \in DOMAIN reviews'[pr(c)], NEW j \in DOMAIN reviews'[pr(c)],
               i < j, reviews'[pr(c)][i].commit # reviews'[pr(c)][j].commit
        PROVE  reviews'[pr(c)][i].commit \in past[pr(c)]
    <3>1. i # n /\ i \in DOMAIN reviews[pr(c)]
      BY <1>n, <2>1
    <3>2. CASE j = n
      BY <1>1, <1>n, <1>g, <2>1, <3>1, <3>2
    <3>3. CASE j # n
      BY <1>t, <1>n, <2>1, <3>1, <3>3 DEF InOrder
    <3> QED
      BY <3>2, <3>3
  <2> QED
    BY <1>t, <1>o, <2>1 DEF InOrder
<1>3. OneApprovalPerCommit'
  <2> DEFINE p == pr(c)
             N == {i \in DOMAIN reviews'[p] : reviews'[p][i].state = "APPROVED"}
  <2>0. evt' = evt
    BY DEF Approve, Fails
  <2>1. ASSUME NEW i \in N
        PROVE  i = n \/ (i \in Approvals(p) /\ reviews'[p][i] = reviews[p][i])
    BY <1>n, <2>1 DEF Approvals
  <2>2. ASSUME NEW q \in PRs, q # p
        PROVE  Approvals(q)' = Approvals(q) /\ reviews'[q] = reviews[q]
    BY <1>o, <2>2 DEF Approvals
  <2>3. ASSUME NEW i \in N, NEW j \in N, reviews'[p][i].commit = reviews'[p][j].commit
        PROVE  i = j
    BY <1>t, <1>1, <1>n, <1>g, <2>1, <2>3 DEF OneApprovalPerCommit
  <2>4. ASSUME NEW q \in PRs, q = p
        PROVE  Approvals(q)' = N
    BY <2>4 DEF Approvals
  <2>5. \A q \in PRs : \A i, j \in Approvals(q)' :
          reviews'[q][i].commit = reviews'[q][j].commit => i = j
    <3> SUFFICES ASSUME NEW q \in PRs, NEW i \in Approvals(q)', NEW j \in Approvals(q)',
                        reviews'[q][i].commit = reviews'[q][j].commit
                 PROVE  i = j
      OBVIOUS
    <3>1. CASE q = p
      <4>1. i \in N /\ j \in N
        BY <2>4, <3>1
      <4> HIDE DEF N
      <4> QED
        BY <2>3, <3>1, <4>1
    <3>2. CASE q # p
      <4>1. i \in Approvals(q) /\ j \in Approvals(q) /\ reviews'[q] = reviews[q]
        BY <2>2, <3>2
      <4> QED
        BY <1>t, <4>1 DEF OneApprovalPerCommit
    <3> QED
      BY <3>1, <3>2
  <2> QED
    BY <2>5 DEF OneApprovalPerCommit
<1> QED
  BY <1>2, <1>3

LEMMA SerialInvInit == Init => SerialInv
<1> SUFFICES ASSUME Init PROVE SerialInv
  OBVIOUS
<1>1. NewestInv /\ ApprovalInv
  BY NewestInvInit, ApprovalInvInit
<1>2. DOMAIN evt = {} /\ \A p \in PRs : DOMAIN reviews[p] = {}
  BY DEF Init, WorldInit
<1> QED
  BY <1>1, <1>2 DEF SerialInv, InOrder, OneApprovalPerCommit, Approvals

LEMMA SerialInvStep ==
  ASSUME ~Rewind, NEW r, Replicas = {r}
  PROVE  SerialInv /\ [Next]_vars => SerialInv'
<1> SUFFICES ASSUME SerialInv, [Next]_vars PROVE SerialInv'
  OBVIOUS
<1>1. NewestInv' /\ ApprovalInv' /\ ApprovalInv /\ TypeOK /\ PlacedInv
  BY NewestInvStep, ApprovalInvStep DEF SerialInv, ApprovalInv, PlacedInv
<1>2. EvtGrows /\ HeadsKept /\ TypeOK'
  BY <1>1, StepGrows, StepKeeps DEF ApprovalInv
<1>3. ASSUME NEW d \in DOMAIN evt' \ DOMAIN evt
      PROVE  Unapproved(d, pc[d])'
  <2>1. d \in Deliveries \ DOMAIN evt
    BY <1>2, LenProperties, WorldType DEF TypeOK, WorldOK, Deliveries
  <2>2. pc'[d] = "raised"
    BY <1>1, <2>1, PlacedStep DEF PlacedInv, Fresh
  <2> QED
    BY <2>2 DEF Unapproved
<1>4. CASE OnlyDismissed
  <2>1. \A d \in DOMAIN evt : Unapproved(d, pc[d])'
    BY <1>1, <1>2, <1>4, StepUnapproved, UnapprovedOn
  <2>2. (InOrder /\ OneApprovalPerCommit)'
    BY <1>2, <1>4, DismissedHistory DEF SerialInv
  <2> QED
    BY <1>1, <1>3, <2>1, <2>2 DEF SerialInv
<1>5. ASSUME NEW c \in DOMAIN evt, Approve(c),
             reviews' = [reviews EXCEPT ![pr(c)] = Append(@, Granted(c))]
      PROVE  SerialInv'
  <2>1. \A d \in DOMAIN evt : Unapproved(d, pc[d])'
    BY <1>2, <1>5, UnapprovedApproved
  <2>2. (InOrder /\ OneApprovalPerCommit)'
    BY <1>5, ApprovedHistory
  <2> QED
    BY <1>1, <1>3, <2>1, <2>2 DEF SerialInv
<1> QED
  BY <1>1, <1>4, <1>5, StepReviews

(* One replica never gives a commit a second standing approval, though     *)
(* answers are lost, webhooks come twice and it crashes on the way: the    *)
(* approval FindApproval takes last is on the newest commit, and nobody    *)
(* else approves before act is done (approver.go:76-84, 230-233).          *)
THEOREM NoDoubleApproval ==
  ASSUME ~Rewind, NEW r, Replicas = {r}
  PROVE  Spec => []OneApprovalPerCommit
<1>1. Init => SerialInv
  BY SerialInvInit
<1>2. SerialInv /\ [Next]_vars => SerialInv'
  BY SerialInvStep
<1>3. SerialInv => OneApprovalPerCommit
  BY DEF SerialInv
<1> QED
  BY <1>1, <1>2, <1>3, PTL DEF Spec
=============================================================================
