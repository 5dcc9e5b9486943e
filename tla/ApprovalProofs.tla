--------------------------- MODULE ApprovalProofs ---------------------------
(***************************************************************************)
(* What an approval of prove rests on: the files of the commit it is given *)
(* to (ApprovalInv), the memberships of the author, and a config that lets *)
(* prove act, so that the reviews prove leaves are a Ledger.               *)
(***************************************************************************)
EXTENDS ApproverProofs

-----------------------------------------------------------------------------
(* What a delivery holds stays sound when it moves.                        *)

(* Outside the stretch from listing to approving only the files matter.    *)
LEMMA SoundAway ==
  ASSUME NEW d, NEW l, NEW e, Sound(d, pc[d], ev[d]),
         e.files = ev[d].files, l \notin Listed
  PROVE  Sound(d, l, e)
BY DEF Sound, ListedLater, DecidedRight, GuardPassed, Listed, Decided

LEMMA SoundNothing ==
  ASSUME NEW d, NEW l, l \notin Listed
  PROVE  Sound(d, l, NoLocals)
BY DEF Sound, ListedLater, DecidedRight, GuardPassed, Listed, Decided, NoLocals

LEMMA GoSound ==
  ASSUME TypeOK, NEW d \in Deliveries, NEW l, NEW e, Go(d, l, e), Sound(d, l, e)
  PROVE  Sound(d, pc'[d], ev'[d])
<1>1. pc'[d] = l /\ ev'[d] = IF l \in Ended THEN NoLocals ELSE e
  BY DEF Go, TypeOK
<1>2. CASE l \in Ended
  BY <1>1, <1>2, SoundNothing DEF Ended, Listed, Decided
<1>3. CASE l \notin Ended
  BY <1>1, <1>3
<1> QED
  BY <1>2, <1>3

LEMMA ToSound ==
  ASSUME TypeOK, NEW d \in Deliveries, NEW l, To(d, l),
         Sound(d, pc[d], ev[d]), l \notin Listed
  PROVE  Sound(d, pc'[d], ev'[d])
BY SoundAway, GoSound DEF To

(* The listing takes in the live head: another head than the event's means *)
(* that the event's is history.                                            *)
LEMMA ListSound ==
  ASSUME ApprovalInv, NEW d \in DOMAIN evt, ListChangedFiles(d)
  PROVE  Sound(d, pc'[d], ev'[d])
<1>d. d \in Deliveries /\ Sound(d, pc[d], ev[d]) /\ TypeOK
  BY RaisedType DEF ApprovalInv, TypeOK
<1>1. PICK last \in BOOLEAN : listPage(d, last)
  BY DEF ListChangedFiles
<1> DEFINE e == [ev[d] EXCEPT !.files = @ \union {head[pr(d)]},
                              !.todo = TeamHandles(ev[d].cfg)]
           l == IF last THEN "teams" ELSE "listMore"
<1>2. CASE Fails(d, "failed")
  BY <1>d, <1>2, ToSound DEF Fails, Listed, Decided
<1>3. CASE Go(d, l, e)
  <2>1. e.files = ev[d].files \union {head[pr(d)]}
    BY <1>d DEF TypeOK, Locals
  <2>2. headSHA(d) \in past[pr(d)] \union {head[pr(d)]}
    BY DEF ApprovalInv, HeadsMoveOn
  <2>3. ListedLater(d, l, e)
    BY <1>d, <2>1, <2>2 DEF Sound, ListedLater
  <2>4. DecidedRight(d, l, e) /\ GuardPassed(d, l, e)
    BY DEF DecidedRight, GuardPassed, Decided
  <2> QED
    BY <1>d, <1>3, <2>3, <2>4, GoSound DEF Sound
<1> QED
  BY <1>1, <1>2, <1>3 DEF listPage

LEMMA TeamsSound ==
  ASSUME ApprovalInv, NEW d \in DOMAIN evt, resolveAuthorTeams(d)
  PROVE  Sound(d, pc'[d], ev'[d])
<1>d. d \in Deliveries /\ Sound(d, pc[d], ev[d]) /\ TypeOK
  BY RaisedType DEF ApprovalInv, TypeOK
<1> DEFINE Take(t, b) == [ev[d] EXCEPT !.todo = @ \ {t},
                            !.teams = IF b THEN @ \union {t} ELSE @]
<1>1. ASSUME NEW t, NEW b, Go(d, "teams", Take(t, b))
      PROVE  Sound(d, pc'[d], ev'[d])
  <2>1. Take(t, b).files = ev[d].files
    BY <1>d DEF TypeOK, Locals
  <2>2. Sound(d, "teams", Take(t, b))
    BY <1>d, <2>1 DEF resolveAuthorTeams, Sound, ListedLater, DecidedRight,
       GuardPassed, Listed, Decided
  <2> QED
    BY <1>d, <1>1, <2>2, GoSound
<1>2. ASSUME Fails(d, "failed")
      PROVE  Sound(d, pc'[d], ev'[d])
  BY <1>d, <1>2, ToSound DEF Fails, Listed, Decided
<1> QED
  BY <1>1, <1>2 DEF resolveAuthorTeams

(* The verdict is the engine's on the files listed, when they are of one   *)
(* commit.                                                                 *)
LEMMA DecideSound ==
  ASSUME ApprovalInv, NEW d \in DOMAIN evt, decide(d)
  PROVE  Sound(d, pc'[d], ev'[d])
<1>d. d \in Deliveries /\ Sound(d, pc[d], ev[d]) /\ TypeOK /\ ev[d] \in Locals
  BY RaisedType DEF ApprovalInv, TypeOK
<1>1. PICK v \in Decisions(d) :
        IF v = "error" THEN To(d, "failed")
                       ELSE Go(d, "check", [ev[d] EXCEPT !.verdict = v])
  BY DEF decide
<1> DEFINE e == [ev[d] EXCEPT !.verdict = v]
<1>2. CASE To(d, "failed")
  BY <1>d, <1>2, ToSound DEF Listed, Decided
<1>3. CASE Go(d, "check", e)
  <2>1. /\ e.files = ev[d].files /\ e.cfg = ev[d].cfg /\ e.teams = ev[d].teams
        /\ e.verdict = v
    BY <1>d DEF Locals
  <2>2. ASSUME v = "approve", NEW c \in Commits, e.files = {c}
        PROVE  Verdict(e.cfg, c, author(d), e.teams) = "approve"
    <3>1. Decisions(d) = {Verdict(ev[d].cfg, x, author(d), ev[d].teams) :
                            x \in ev[d].files}
      BY <2>1, <2>2 DEF Decisions
    <3> QED
      BY <2>1, <2>2, <3>1
  <2>3. DecidedRight(d, "check", e)
    BY <2>1, <2>2 DEF DecidedRight
  <2>4. ListedLater(d, "check", e) /\ GuardPassed(d, "check", e)
    BY <1>d, <2>1 DEF decide, Sound, ListedLater, GuardPassed, Listed
  <2> QED
    BY <1>d, <1>3, <2>3, <2>4, GoSound DEF Sound
<1> QED
  BY <1>1, <1>2, <1>3

LEMMA CheckSound ==
  ASSUME ApprovalInv, NEW d \in DOMAIN evt, UpsertCheck(d)
  PROVE  Sound(d, pc'[d], ev'[d])
<1>d. d \in Deliveries /\ Sound(d, pc[d], ev[d]) /\ TypeOK
  BY RaisedType DEF ApprovalInv, TypeOK
<1>1. pc[d] = "check"
  BY DEF UpsertCheck
<1>2. To(d, AfterCheck(ev[d].cfg))
  BY DEF UpsertCheck, Replies, Fails
<1>3. CASE AfterCheck(ev[d].cfg) = "listComments"
  BY <1>d, <1>2, <1>3, ToSound DEF Listed, Decided
<1>4. CASE AfterCheck(ev[d].cfg) = "findApproval"
  <2>1. Sound(d, "findApproval", ev[d])
    BY <1>d, <1>1 DEF Sound, ListedLater, DecidedRight, GuardPassed, Listed, Decided
  <2> QED
    BY <1>d, <1>2, <1>4, <2>1, GoSound DEF To
<1> QED
  BY <1>3, <1>4 DEF AfterCheck

(* Only an approving verdict leads to the head guard.                      *)
LEMMA FindSound ==
  ASSUME ApprovalInv, NEW d \in DOMAIN evt, FindApproval(d)
  PROVE  Sound(d, pc'[d], ev'[d])
<1>d. d \in Deliveries /\ Sound(d, pc[d], ev[d]) /\ TypeOK
  BY RaisedType DEF ApprovalInv, TypeOK
<1>1. CASE Fails(d, "failed")
  BY <1>d, <1>1, ToSound DEF Fails, Listed, Decided
<1>2. ASSUME NEW i, Go(d, AfterFind(d, i), [ev[d] EXCEPT !.found = i])
      PROVE  Sound(d, pc'[d], ev'[d])
  <2> DEFINE e == [ev[d] EXCEPT !.found = i]
  <2>1. /\ e.files = ev[d].files /\ e.cfg = ev[d].cfg /\ e.teams = ev[d].teams
        /\ e.verdict = ev[d].verdict
    BY <1>d DEF TypeOK, Locals
  <2>2. CASE AfterFind(d, i) = "pullHead"
    <3>1. ev[d].verdict = "approve"
      BY <2>2 DEF AfterFind, AfterAct
    <3>2. Sound(d, "pullHead", e)
      BY <1>d, <2>1, <3>1 DEF FindApproval, Sound, ListedLater, DecidedRight,
         GuardPassed, Listed, Decided
    <3> QED
      BY <1>d, <1>2, <2>2, <3>2, GoSound
  <2>3. CASE AfterFind(d, i) # "pullHead"
    <3>1. AfterFind(d, i) \notin Listed
      BY <2>3 DEF AfterFind, AfterAct, Listed, Decided
    <3>2. Sound(d, AfterFind(d, i), e)
      BY <1>d, <2>1, <3>1, SoundAway
    <3> QED
      BY <1>d, <1>2, <3>2, GoSound
  <2> QED
    BY <2>2, <2>3
<1> QED
  BY <1>1, <1>2 DEF FindApproval

(* The head guard: a live head is no former one, so what was listed is it. *)
LEMMA PullHeadSound ==
  ASSUME ApprovalInv, NEW d \in DOMAIN evt, PullHeadSHA(d)
  PROVE  Sound(d, pc'[d], ev'[d])
<1>d. d \in Deliveries /\ Sound(d, pc[d], ev[d]) /\ TypeOK /\ pr(d) \in PRs
  BY RaisedType DEF ApprovalInv, TypeOK, Event, pr
<1>1. CASE Fails(d, "failed")
  BY <1>d, <1>1, ToSound DEF Fails, Listed, Decided
<1>2. CASE head[pr(d)] = headSHA(d) /\ To(d, "approve")
  <2>1. headSHA(d) \notin past[pr(d)]
    BY <1>d, <1>2 DEF ApprovalInv, HeadsMoveOn
  <2>2. ev[d].files = {headSHA(d)}
    BY <1>d, <2>1 DEF PullHeadSHA, Sound, ListedLater, Listed, Decided
  <2>3. Sound(d, "approve", ev[d])
    BY <1>d, <2>1, <2>2 DEF PullHeadSHA, Sound, ListedLater, DecidedRight,
       GuardPassed, Listed, Decided
  <2> QED
    BY <1>d, <1>2, <2>3, GoSound DEF To
<1>3. CASE To(d, AfterAct(ev[d].cfg))
  BY <1>d, <1>3, ToSound DEF AfterAct, Listed, Decided
<1> QED
  BY <1>1, <1>2, <1>3 DEF PullHeadSHA

LEMMA EvaluateSound ==
  ASSUME ApprovalInv, NEW d \in DOMAIN evt, evaluate(d)
  PROVE  Sound(d, pc'[d], ev'[d])
<1>d. d \in Deliveries /\ Sound(d, pc[d], ev[d]) /\ TypeOK /\ ev[d] \in Locals
  BY RaisedType DEF ApprovalInv, TypeOK
<1>to. ASSUME NEW l, To(d, l), l \notin Listed
       PROVE  Sound(d, pc'[d], ev'[d])
  BY <1>d, <1>to, ToSound
<1>n. \A cfg : /\ Loaded(cfg) \notin Listed /\ AfterAct(cfg) \notin Listed
               /\ AfterApprove(cfg) \notin Listed
  BY DEF Loaded, AfterAct, AfterApprove, Listed, Decided
<1>w. {"failed", "done", "bot", "config", "getFile", "setConfig", "badConfig",
       "listComments", "editComment", "createComment"} \intersect Listed = {}
  BY DEF Listed, Decided
<1>cfg. ASSUME NEW l, NEW cfg, Go(d, l, [ev[d] EXCEPT !.cfg = cfg]), l \notin Listed
        PROVE  Sound(d, pc'[d], ev'[d])
  <2>1. [ev[d] EXCEPT !.cfg = cfg].files = ev[d].files
    BY <1>d DEF Locals
  <2> QED
    BY <1>d, <1>cfg, <2>1, SoundAway, GoSound
<1>1. CASE lockPR(d)
  BY <1>1, <1>d, <1>w, SoundAway DEF lockPR, TypeOK, world
<1>2. CASE cachedBotLogin(d)
  BY <1>2, <1>to, <1>w DEF cachedBotLogin
<1>3. CASE loadConfig(d)
  BY <1>3, <1>to, <1>cfg, <1>w, <1>n DEF loadConfig
<1>4. CASE fetchConfig(d)
  BY <1>4, <1>to, <1>cfg, <1>w DEF fetchConfig, Fails
<1>5. CASE setConfig(d) \/ reportBadConfig(d)
  BY <1>5, <1>to, <1>w, <1>n DEF setConfig, reportBadConfig, Replies, Fails
<1>6. CASE Approve(d) \/ EnableAutoMerge(d) \/ DismissReview(d)
  BY <1>6, <1>to, <1>w, <1>n
  DEF Approve, EnableAutoMerge, DismissReview, Replies, Fails
<1>7. CASE ListComments(d) \/ WriteComment(d)
  BY <1>7, <1>to, <1>w DEF ListComments, WriteComment, Replies, Fails
<1> QED
  BY <1>1, <1>2, <1>3, <1>4, <1>5, <1>6, <1>7, ListSound, TeamsSound,
     DecideSound, CheckSound, FindSound, PullHeadSound DEF evaluate

-----------------------------------------------------------------------------
(* What the environment and the other deliveries leave sound.              *)

(* No history is lost.                                                     *)
HeadsKept ==
  \A p \in PRs :
    /\ past[p] \subseteq past'[p]
    /\ head[p] \in past'[p] \union {head'[p]}

(* A head that was passed is never live again either.                      *)
HeadsGrow == HeadsKept /\ \A p \in PRs : head'[p] \notin past'[p]

LEMMA StepPushes ==
  ASSUME [Next]_vars
  PROVE  UNCHANGED <<head, past>> \/ \E p \in PRs : Push(p)
<1>1. ASSUME NEW d \in DOMAIN evt, evaluate(d)
      PROVE  UNCHANGED <<head, past>>
  BY <1>1, EvaluateWorld
<1>2. CASE Outside
  BY <1>2 DEF Outside, Open, HumanDismiss, ConvertToDraft, ReadyForReview,
     EditConfig, ChangeTeams, Redeliver, pulls
<1>3. CASE Surroundings /\ ~Outside
  BY <1>3 DEF Surroundings, Drop, Crash, ExpireConfig, ExpireTeam, pulls
<1>4. CASE \E d \in DOMAIN evt, r \in Replicas : Receive(d, r)
  BY <1>4 DEF Receive, world
<1>5. CASE UNCHANGED vars
  BY <1>5 DEF vars, world
<1> QED
  BY <1>1, <1>2, <1>3, <1>4, <1>5 DEF Next, Process, Rest

LEMMA StepKeeps ==
  ASSUME TypeOK, [Next]_vars
  PROVE  HeadsKept
<1>1. CASE UNCHANGED <<head, past>>
  BY <1>1 DEF HeadsKept
<1>2. ASSUME NEW p \in PRs, Push(p)
      PROVE  HeadsKept
  BY <1>2 DEF Push, HeadsKept, TypeOK, WorldOK
<1> QED
  BY <1>1, <1>2, StepPushes

LEMMA StepHeads ==
  ASSUME ~Rewind, ApprovalInv, [Next]_vars
  PROVE  HeadsGrow
<1>h. TypeOK /\ \A p \in PRs : head[p] \notin past[p]
  BY DEF ApprovalInv, HeadsMoveOn
<1>1. CASE UNCHANGED <<head, past>>
  BY <1>h, <1>1, StepKeeps DEF HeadsGrow
<1>2. ASSUME NEW p \in PRs, Push(p)
      PROVE  HeadsGrow
  <2>1. PICK c \in Series[p] \ {head[p]} :
          /\ c \notin past[p]
          /\ head' = [head EXCEPT ![p] = c]
          /\ past' = [past EXCEPT ![p] = @ \union {head[p]}]
    BY <1>2 DEF Push
  <2> QED
    BY <1>h, <2>1, StepKeeps DEF HeadsGrow, TypeOK, WorldOK
<1> QED
  BY <1>1, <1>2, StepPushes

(* Every event names a head its PR has or had.                             *)
KnownHeads == \A d \in DOMAIN evt : headSHA(d) \in past[pr(d)] \union {head[pr(d)]}

LEMMA KnownStep ==
  ASSUME TypeOK, KnownHeads, EvtGrows, HeadsKept
  PROVE  KnownHeads'
<1>1. \A c \in DOMAIN evt : evt[c].pr \in PRs
  BY RaisedType DEF TypeOK, Event
<1>2. \A c \in DOMAIN evt :
        evt[c].head \in past'[evt[c].pr] \union {head'[evt[c].pr]}
  BY <1>1 DEF KnownHeads, HeadsKept, headSHA, pr
<1>3. ASSUME NEW d \in DOMAIN evt'
      PROVE  evt'[d].head \in past'[evt'[d].pr] \union {head'[evt'[d].pr]}
  BY <1>2 DEF EvtGrows
<1> QED
  BY <1>3 DEF KnownHeads, headSHA, pr

LEMMA HeadsStep ==
  ASSUME ApprovalInv, EvtGrows, HeadsGrow
  PROVE  HeadsMoveOn'
<1>1. KnownHeads'
  BY KnownStep DEF ApprovalInv, HeadsMoveOn, KnownHeads, HeadsGrow
<1> QED
  BY <1>1 DEF HeadsMoveOn, HeadsGrow, KnownHeads

(* Soundness outlives a step of anybody else.                              *)
LEMMA SoundOn ==
  ASSUME TypeOK, EvtGrows, HeadsKept, NEW d \in DOMAIN evt,
         Sound(d, pc'[d], ev'[d])
  PROVE  Sound(d, pc[d], ev[d])'
<1>1. evt'[d] = evt[d] /\ evt[d].pr \in PRs
  BY RaisedType DEF EvtGrows, TypeOK, Event
<1>2. past[evt[d].pr] \subseteq past'[evt[d].pr]
  BY <1>1 DEF HeadsKept
<1> QED
  BY <1>1, <1>2 DEF Sound, ListedLater, DecidedRight, GuardPassed, headSHA,
     author, pr

(* Every step leaves every delivery sound as long as heads move on.        *)
LEMMA StepSound ==
  ASSUME ApprovalInv, [Next]_vars, NEW d \in DOMAIN evt
  PROVE  Sound(d, pc'[d], ev'[d])
<1>d. Sound(d, pc[d], ev[d]) /\ TypeOK /\ d \in Deliveries
  BY RaisedType DEF ApprovalInv, TypeOK
<1>0. CASE pc'[d] = pc[d] /\ ev'[d] = ev[d]
  BY <1>d, <1>0
<1>1. ASSUME NEW c \in DOMAIN evt, evaluate(c)
      PROVE  Sound(d, pc'[d], ev'[d])
  <2>1. CASE c = d
    BY <1>1, <2>1, EvaluateSound
  <2>2. CASE c # d
    <3>1. PICK l, e : Moves(c, l, e)
      BY <1>d, <1>1, EvaluateMoves
    <3>2. pc'[d] = pc[d] /\ ev'[d] = ev[d]
      BY <1>d, <2>2, <3>1 DEF Moves, TypeOK
    <3> QED
      BY <1>0, <3>2
  <2> QED
    BY <2>1, <2>2
<1>2. ASSUME NEW c \in DOMAIN evt, NEW r \in Replicas, Receive(c, r)
      PROVE  Sound(d, pc'[d], ev'[d])
  <2>1. ev' = ev /\ (pc'[d] = pc[d] \/ pc'[d] \in {"lock", "done"})
    BY <1>d, <1>2 DEF Receive, TypeOK
  <2> QED
    BY <1>d, <2>1, SoundAway DEF Listed, Decided
<1>3. ASSUME NEW c \in DOMAIN evt, Drop(c)
      PROVE  Sound(d, pc'[d], ev'[d])
  <2>1. ev' = ev /\ (pc'[d] = pc[d] \/ pc'[d] = "lost")
    BY <1>d, <1>3 DEF Drop, TypeOK
  <2> QED
    BY <1>d, <2>1, SoundAway DEF Listed, Decided
<1>4. ASSUME NEW r \in Replicas, Crash(r)
      PROVE  Sound(d, pc'[d], ev'[d])
  BY <1>d, <1>4, SoundNothing DEF Crash, Listed, Decided
<1>5. CASE UNCHANGED <<pc, ev>>
  BY <1>0, <1>5
<1> QED
  BY <1>1, <1>2, <1>3, <1>4, <1>5
  DEF Next, Process, Surroundings, ExpireConfig, ExpireTeam, Rest, vars

-----------------------------------------------------------------------------
(* Approvals.                                                              *)

(* What makes an approval good is written once: a dismissal leaves it.     *)
Inspected(p, v) ==
  /\ v.files = {v.commit}
  /\ Verdict(v.cfg, v.commit, Author[p], v.teams) = "approve"

LEMMA InspectedAll ==
  ApprovedWasInspected <=>
    \A p \in PRs : \A i \in DOMAIN reviews[p] : Inspected(p, reviews[p][i])
BY DEF ApprovedWasInspected, Inspected

LEMMA DismissInspected ==
  ASSUME TypeOK, ApprovedWasInspected, NEW q \in PRs,
         NEW i \in DOMAIN reviews[q],
         reviews' = [reviews EXCEPT ![q][i].state = "DISMISSED"]
  PROVE  ApprovedWasInspected'
<1>1. ASSUME NEW p \in PRs, NEW j \in DOMAIN reviews'[p]
      PROVE  Inspected(p, reviews'[p][j])
  <2>t. \A r \in PRs : reviews[r] \in Seq(Review)
    BY DEF TypeOK, WorldOK
  <2>1. reviews[q][i] \in Review
    BY <2>t, ElementOfSeq, LenProperties
  <2>2. CASE p = q /\ j = i
    <3>1. reviews'[p][j] = [reviews[q][i] EXCEPT !.state = "DISMISSED"]
      BY <2>2 DEF TypeOK, WorldOK
    <3>2. Inspected(q, reviews[q][i])
      BY InspectedAll
    <3> QED
      BY <2>1, <2>2, <3>1, <3>2 DEF Inspected, Review
  <2>3. CASE ~(p = q /\ j = i)
    <3>1. j \in DOMAIN reviews[p] /\ reviews'[p][j] = reviews[p][j]
      BY <2>3 DEF TypeOK, WorldOK
    <3> QED
      BY <3>1, InspectedAll
  <2> QED
    BY <2>2, <2>3
<1> QED
  BY <1>1 DEF ApprovedWasInspected, Inspected

(* The only new review is of a delivery past the head guard.               *)
LEMMA ApproveInspected ==
  ASSUME ApprovalInv, NEW d \in DOMAIN evt, Approve(d)
  PROVE  ApprovedWasInspected'
<1>d. /\ TypeOK /\ ApprovedWasInspected /\ Sound(d, pc[d], ev[d])
      /\ pr(d) \in PRs /\ headSHA(d) \in Commits
  BY RaisedType DEF ApprovalInv, TypeOK, Event, pr, headSHA
<1>1. CASE UNCHANGED reviews
  BY <1>d, <1>1 DEF ApprovedWasInspected
<1> DEFINE v == [commit |-> headSHA(d), state |-> "APPROVED",
                 files |-> ev[d].files, cfg |-> ev[d].cfg,
                 teams |-> ev[d].teams]
<1>2. CASE reviews' = [reviews EXCEPT ![pr(d)] = Append(@, v)]
  <2>1. Inspected(pr(d), v)
    BY <1>d DEF Approve, Sound, GuardPassed, DecidedRight, Decided, Inspected,
       author
  <2>2. ASSUME NEW p \in PRs, NEW j \in DOMAIN reviews'[p]
        PROVE  Inspected(p, reviews'[p][j])
    <3>t. reviews[p] \in Seq(Review) /\ reviews \in [PRs -> Seq(Review)]
      BY <1>d DEF TypeOK, WorldOK
    <3>1. CASE p = pr(d)
      <4>1. reviews'[p] = Append(reviews[p], v)
        BY <1>2, <3>1, <3>t
      <4>2. \/ j \in DOMAIN reviews[p] /\ reviews'[p][j] = reviews[p][j]
            \/ reviews'[p][j] = v
        BY <2>2, <3>t, <4>1
      <4> QED
        BY <1>d, <2>1, <3>1, <4>2, InspectedAll
    <3>2. CASE p # pr(d)
      <4>1. reviews'[p] = reviews[p]
        BY <1>2, <3>2, <3>t
      <4> QED
        BY <1>d, <2>2, <4>1, InspectedAll
    <3> QED
      BY <3>1, <3>2
  <2> QED
    BY <2>2 DEF ApprovedWasInspected, Inspected
<1> QED
  BY <1>1, <1>2 DEF Approve, Fails, traces

LEMMA StepInspected ==
  ASSUME ApprovalInv, [Next]_vars
  PROVE  ApprovedWasInspected'
<1>d. TypeOK /\ ApprovedWasInspected
  BY DEF ApprovalInv
<1>0. CASE UNCHANGED reviews
  BY <1>d, <1>0 DEF ApprovedWasInspected
<1>1. ASSUME NEW d \in DOMAIN evt, evaluate(d)
      PROVE  ApprovedWasInspected'
  <2>1. CASE Approve(d)
    BY <2>1, ApproveInspected
  <2>2. CASE DismissReview(d)
    <3>1. pr(d) \in PRs
      BY <1>d, RaisedType DEF TypeOK, Event, pr
    <3> QED
      BY <1>d, <1>0, <2>2, <3>1, DismissInspected
      DEF DismissReview, Approvals, Fails, world, traces
  <2>3. CASE ~Approve(d) /\ ~DismissReview(d)
    BY <1>0, <1>1, <2>3 DEF evaluate, lockPR, cachedBotLogin, loadConfig,
       fetchConfig, setConfig, reportBadConfig, ListChangedFiles, listPage,
       resolveAuthorTeams, decide, UpsertCheck, FindApproval, PullHeadSHA,
       EnableAutoMerge, ListComments, WriteComment, Fails, world, traces
  <2> QED
    BY <2>1, <2>2, <2>3
<1>2. ASSUME NEW p \in PRs, HumanDismiss(p)
      PROVE  ApprovedWasInspected'
  BY <1>2, <1>d, DismissInspected DEF HumanDismiss
<1>3. CASE Outside
  BY <1>0, <1>2, <1>3 DEF Outside, Open, Push, ConvertToDraft, ReadyForReview,
     EditConfig, ChangeTeams, Redeliver, traces
<1>4. CASE Surroundings /\ ~Outside
  BY <1>0, <1>4 DEF Surroundings, Drop, Crash, ExpireConfig, ExpireTeam, traces
<1>5. CASE \E d \in DOMAIN evt, r \in Replicas : Receive(d, r)
  BY <1>0, <1>5 DEF Receive, world
<1>6. CASE UNCHANGED vars
  BY <1>0, <1>6 DEF vars, world
<1> QED
  BY <1>1, <1>3, <1>4, <1>5, <1>6 DEF Next, Process, Rest

-----------------------------------------------------------------------------
LEMMA ApprovalInvInit == Init => ApprovalInv
<1> SUFFICES ASSUME Init PROVE ApprovalInv
  OBVIOUS
<1>1. TypeOK /\ Placed /\ Unraised
  BY PlacedInvInit DEF PlacedInv
<1>2. DOMAIN evt = {} /\ \A p \in PRs : DOMAIN reviews[p] = {}
  BY DEF Init, WorldInit
<1> QED
  BY <1>1, <1>2 DEF Init, WorldInit, ApprovalInv, HeadsMoveOn,
     ApprovedWasInspected

LEMMA ApprovalInvStep ==
  ASSUME ~Rewind
  PROVE  ApprovalInv /\ [Next]_vars => ApprovalInv'
<1> SUFFICES ASSUME ApprovalInv, [Next]_vars
             PROVE  ApprovalInv'
  OBVIOUS
<1>1. (TypeOK /\ Placed /\ Unraised)'
  BY PlacedInvStep DEF PlacedInv, ApprovalInv
<1>2. EvtGrows /\ HeadsGrow /\ HeadsKept
  BY <1>1, StepGrows, StepHeads DEF ApprovalInv, HeadsGrow
<1>3. HeadsMoveOn'
  BY <1>1, <1>2, HeadsStep
<1>4. ASSUME NEW d \in DOMAIN evt'
      PROVE  Sound(d, pc[d], ev[d])'
  <2>1. CASE d \in DOMAIN evt
    BY <1>2, <2>1, StepSound, SoundOn DEF ApprovalInv
  <2>2. CASE d \notin DOMAIN evt
    <3>1. d \in Deliveries
      BY <1>1, <1>4, LenProperties, WorldType DEF TypeOK, WorldOK, Deliveries
    <3>2. pc'[d] = "raised" /\ ev'[d] = NoLocals
      BY <2>2, <3>1, PlacedStep DEF ApprovalInv, Fresh
    <3> QED
      BY <3>2 DEF Sound, ListedLater, DecidedRight, GuardPassed, Listed,
         Decided, NoLocals
  <2> QED
    BY <2>1, <2>2
<1>5. ApprovedWasInspected'
  BY StepInspected
<1> QED
  BY <1>1, <1>3, <1>4, <1>5 DEF ApprovalInv

(* As long as no push returns to a former head, ApprovalInv is an          *)
(* invariant: an event's head is the live head or history, files listed    *)
(* for anything but the event's head make that head history, and only what *)
(* the engine approved gets past the head guard (approver.go:169-249).     *)
THEOREM DecisionsAreSound ==
  ASSUME ~Rewind
  PROVE  Spec => []ApprovalInv
<1>1. ApprovalInv /\ [Next]_vars => ApprovalInv'
  BY ApprovalInvStep
<1> QED
  BY <1>1, ApprovalInvInit, PTL DEF Spec

(* As long as no push returns to a former head, every approval prove       *)
(* submits is on a commit whose own files, and no others, were listed and  *)
(* qualified: whatever is pushed, edited, lost or repeated between two     *)
(* GitHub calls, on any number of replicas (approver.go:234-249).          *)
THEOREM ApprovalsInspected ==
  ASSUME ~Rewind
  PROVE  Spec => []ApprovedWasInspected
<1>1. ApprovalInv => ApprovedWasInspected
  BY DEF ApprovalInv
<1> QED
  BY <1>1, DecisionsAreSound, PTL

-----------------------------------------------------------------------------
(* The memberships an approval rests on.  What the team API answers is     *)
(* true when it answers, so every answer the cache or a delivery holds has *)
(* been true of the author.                                                *)
Steady == left["team"] = Limit["team"]

HistoryInv ==
  /\ \A a \in Authors : /\ members[a] \subseteq joined[a]
                        /\ Teams \ members[a] \subseteq lacked[a]
  /\ left["team"] <= Limit["team"]
  /\ Steady => \A a \in Authors : /\ joined[a] = members[a]
                                  /\ lacked[a] = Teams \ members[a]

CachedTrue ==
  \A r \in Replicas, t \in Teams, a \in Authors :
    /\ TRUE \in teamCache[r][t][a] => t \in joined[a]
    /\ FALSE \in teamCache[r][t][a] => t \in lacked[a]

(* Of the teams hs, ts are some a has been in and hs \ ts some a has not.  *)
Resolved(a, hs, ts) == ts \subseteq joined[a] \intersect hs /\ hs \ ts \subseteq lacked[a]

(* Delivery d at l holding e has resolved the teams it asked for so far,   *)
(* and all that its config names once it decides.                          *)
Membered(d, l, e) ==
  /\ l \in Before \union {"listMore"} => e.teams = {}
  /\ l = "teams" => /\ e.todo \subseteq TeamHandles(e.cfg)
                    /\ Resolved(author(d), TeamHandles(e.cfg) \ e.todo, e.teams)
  /\ l \in Judged => Resolved(author(d), TeamHandles(e.cfg), e.teams)

OwnTeams ==
  \A p \in PRs : \A i \in DOMAIN reviews[p] :
    Resolved(Author[p], TeamHandles(reviews[p][i].cfg), reviews[p][i].teams)

TeamsInv ==
  /\ PlacedInv /\ HistoryInv /\ CachedTrue /\ OwnTeams
  /\ \A d \in DOMAIN evt : Membered(d, pc[d], ev[d])

LEMMA MemberedNothing ==
  ASSUME NEW d, NEW l \in Before, NEW e, e.teams = {}
  PROVE  Membered(d, l, e)
BY DEF Membered, Before, Ended, Judged, Onward, Listed, Decided

(* While nobody joins or leaves, what is resolved is what is.              *)
LEMMA ResolvedSteady ==
  ASSUME TypeOK, HistoryInv, Steady, NEW a \in Authors,
         NEW hs \in SUBSET Teams, NEW ts, Resolved(a, hs, ts)
  PROVE  ts = members[a] \intersect hs
BY DEF HistoryInv, Resolved

(* One turn of resolveAuthorTeams settles one handle.                      *)
LEMMA TurnResolved ==
  ASSUME NEW a, NEW hs, NEW todo \in SUBSET hs, NEW ts, NEW t \in todo, NEW b,
         Resolved(a, hs \ todo, ts),
         IF b THEN t \in joined[a] ELSE t \in lacked[a]
  PROVE  Resolved(a, hs \ (todo \ {t}), IF b THEN ts \union {t} ELSE ts)
<1>1. CASE b
  BY <1>1 DEF Resolved
<1>2. CASE ~b
  BY <1>2 DEF Resolved
<1> QED
  BY <1>1, <1>2

LEMMA TurnMembered ==
  ASSUME TypeOK, CachedTrue, HistoryInv, NEW d \in DOMAIN evt,
         resolveAuthorTeams(d), Placed, Membered(d, pc[d], ev[d])
  PROVE  Membered(d, pc'[d], ev'[d])
<1>d. d \in Deliveries /\ ev[d] \in Locals /\ pc[d] = "teams"
  BY RaisedType DEF TypeOK, resolveAuthorTeams
<1>a. author(d) \in Authors /\ at[d] \in Replicas
  <2>1. at[d] \in Replicas
    BY <1>d DEF Placed, Resting, Ended
  <2>2. pr(d) \in PRs
    BY RaisedType DEF TypeOK, Event, pr
  <2> QED
    BY <2>1, <2>2, WorldType DEF author
<1> DEFINE Take(t, b) == [ev[d] EXCEPT !.todo = @ \ {t},
                            !.teams = IF b THEN @ \union {t} ELSE @]
<1>1. ASSUME NEW t \in ev[d].todo, NEW b, Go(d, "teams", Take(t, b)),
             IF b THEN t \in joined[author(d)] ELSE t \in lacked[author(d)]
      PROVE  Membered(d, pc'[d], ev'[d])
  <2>1. /\ Take(t, b).cfg = ev[d].cfg /\ Take(t, b).todo = ev[d].todo \ {t}
        /\ Take(t, b).teams = IF b THEN ev[d].teams \union {t} ELSE ev[d].teams
    BY <1>d DEF Locals
  <2>2. /\ ev[d].todo \subseteq TeamHandles(ev[d].cfg)
        /\ Resolved(author(d), TeamHandles(ev[d].cfg) \ ev[d].todo, ev[d].teams)
    BY <1>d DEF Membered
  <2>3. Resolved(author(d), TeamHandles(ev[d].cfg) \ (ev[d].todo \ {t}),
                 IF b THEN ev[d].teams \union {t} ELSE ev[d].teams)
    BY <1>1, <2>2, TurnResolved
  <2>4. pc'[d] = "teams" /\ ev'[d] = Take(t, b)
    BY <1>1, <1>d DEF Go, TypeOK, Ended
  <2> HIDE DEF Take
  <2>5. Membered(d, "teams", Take(t, b))
    BY <2>1, <2>2, <2>3 DEF Membered, Before, Ended, Judged
  <2> QED
    BY <2>4, <2>5
<1>2. CASE Fails(d, "failed")
  BY <1>2, <1>d, GoSplits, MemberedNothing
  DEF Fails, To, Ends, Before, NoLocals, Ended
<1>3. PICK t \in ev[d].todo :
        \/ \E b \in teamCache[at[d]][t][author(d)] : Go(d, "teams", Take(t, b))
        \/ Go(d, "teams", Take(t, t \in members[author(d)]))
        \/ Fails(d, "failed")
  BY DEF resolveAuthorTeams, CacheUser
<1>4. t \in Teams
  BY <1>d DEF Locals
<1>5. ASSUME NEW b \in teamCache[at[d]][t][author(d)], Go(d, "teams", Take(t, b))
      PROVE  Membered(d, pc'[d], ev'[d])
  <2>1. b \in BOOLEAN
    BY <1>a, <1>4 DEF TypeOK
  <2>2. IF b THEN t \in joined[author(d)] ELSE t \in lacked[author(d)]
    <3>1. CASE b = TRUE
      BY <1>a, <1>4, <1>5, <3>1 DEF CachedTrue
    <3>2. CASE b = FALSE
      BY <1>a, <1>4, <1>5, <3>2 DEF CachedTrue
    <3> QED
      BY <2>1, <3>1, <3>2
  <2> HIDE DEF Take
  <2> QED
    BY <1>1, <1>5, <2>2
<1>6. ASSUME Go(d, "teams", Take(t, t \in members[author(d)]))
      PROVE  Membered(d, pc'[d], ev'[d])
  <2>1. CASE t \in members[author(d)]
    <3>1. Take(t, t \in members[author(d)]) = Take(t, TRUE)
      BY <2>1
    <3>2. t \in joined[author(d)]
      BY <1>a, <2>1 DEF HistoryInv
    <3> HIDE DEF Take
    <3> QED
      BY <1>1, <1>6, <3>1, <3>2
  <2>2. CASE t \notin members[author(d)]
    <3>1. Take(t, t \in members[author(d)]) = Take(t, FALSE)
      BY <2>2
    <3>2. t \in lacked[author(d)]
      BY <1>a, <1>4, <2>2 DEF HistoryInv
    <3> HIDE DEF Take
    <3> QED
      BY <1>1, <1>6, <3>1, <3>2
  <2> QED
    BY <2>1, <2>2
<1> QED
  <2> HIDE DEF Take
  <2> QED
    BY <1>2, <1>3, <1>5, <1>6

LEMMA EvaluateMembered ==
  ASSUME TypeOK, CachedTrue, HistoryInv, Placed, NEW d \in DOMAIN evt, evaluate(d),
         Membered(d, pc[d], ev[d])
  PROVE  Membered(d, pc'[d], ev'[d])
<1>d. d \in Deliveries /\ ev[d] \in Locals
  BY RaisedType DEF TypeOK
<1>1. CASE Ends(d)
  BY <1>1, MemberedNothing DEF Ends, Before, NoLocals
<1>2. CASE Earlier(d)
  BY <1>2, MemberedNothing DEF Earlier, Membered
<1>3. CASE Later(d)
  BY <1>3 DEF Later, Membered, Before, Ended, Judged, Onward, Listed, Decided
<1>4. CASE ListChangedFiles(d)
  <2>1. ev[d].teams = {} /\ pc[d] \in {"listFiles", "listMore"}
    BY <1>4 DEF ListChangedFiles, Membered, Before
  <2>2. PICK last \in BOOLEAN : listPage(d, last)
    BY <1>4 DEF ListChangedFiles
  <2> DEFINE e == [ev[d] EXCEPT !.files = @ \union {head[pr(d)]},
                                !.todo = TeamHandles(ev[d].cfg)]
             l == IF last THEN "teams" ELSE "listMore"
  <2>3. CASE Go(d, l, e)
    <3>1. e.teams = {} /\ e.cfg = ev[d].cfg /\ e.todo = TeamHandles(ev[d].cfg)
      BY <1>d, <2>1 DEF Locals
    <3>2. Membered(d, l, e)
      BY <3>1 DEF Membered, Resolved, Before, Ended, Judged
    <3> HIDE DEF e
    <3>3. pc'[d] = l /\ ev'[d] = e
      BY <1>d, <2>3 DEF Go, TypeOK, Ended
    <3> QED
      BY <3>2, <3>3
  <2>4. CASE Fails(d, "failed")
    BY <2>4, <1>d, GoSplits, MemberedNothing
    DEF Fails, To, Ends, Before, NoLocals, Ended
  <2> QED
    BY <2>2, <2>3, <2>4 DEF listPage
<1>5. CASE resolveAuthorTeams(d)
  BY <1>5, TurnMembered
<1>6. CASE decide(d)
  <2>1. PICK v : \/ To(d, "failed")
                 \/ Go(d, "check", [ev[d] EXCEPT !.verdict = v])
    BY <1>6 DEF decide
  <2>2. CASE To(d, "failed")
    BY <2>2, <1>d, GoSplits, MemberedNothing DEF To, Ends, Before, NoLocals, Ended
  <2> DEFINE e == [ev[d] EXCEPT !.verdict = v]
  <2>3. CASE Go(d, "check", e)
    <3>1. e.teams = ev[d].teams /\ e.cfg = ev[d].cfg
      BY <1>d DEF Locals
    <3>2. TeamHandles(ev[d].cfg) \ ev[d].todo = TeamHandles(ev[d].cfg)
      BY <1>6 DEF decide
    <3>3. Membered(d, "check", e)
      BY <1>6, <3>1, <3>2 DEF decide, Membered, Before, Ended
    <3> HIDE DEF e
    <3>4. pc'[d] = "check" /\ ev'[d] = e
      BY <1>d, <2>3 DEF Go, TypeOK, Ended
    <3> QED
      BY <3>3, <3>4
  <2> QED
    BY <2>1, <2>2, <2>3
<1> QED
  BY <1>1, <1>2, <1>3, <1>4, <1>5, <1>6, EvaluateSplits

LEMMA StepMembered ==
  ASSUME TypeOK, CachedTrue, HistoryInv, Placed, [Next]_vars, NEW d \in DOMAIN evt,
         Membered(d, pc[d], ev[d])
  PROVE  Membered(d, pc'[d], ev'[d])
<1>1. CASE pc[d] = "raised" /\ pc'[d] \in {"lock", "done", "lost"} /\ ev'[d] = ev[d]
  BY <1>1, MemberedNothing DEF Membered, Before, Ended
<1>2. CASE pc'[d] = "lost" /\ ev'[d] = NoLocals
  BY <1>2, MemberedNothing DEF Before, Ended, NoLocals
<1> QED
  BY <1>1, <1>2, StepOf, EvaluateMembered

(* Nobody was, or was not, in a team without it being remembered.          *)
HistoryGrows ==
  \A a \in Authors : joined[a] \subseteq joined'[a] /\ lacked[a] \subseteq lacked'[a]

LEMMA StepPeople ==
  ASSUME [Next]_vars
  PROVE  UNCHANGED people \/ ChangeTeams
<1>1. ASSUME NEW d \in DOMAIN evt, evaluate(d)
      PROVE  UNCHANGED people
  BY <1>1, EvaluateWorld
<1>2. CASE Outside
  BY <1>2 DEF Outside, Open, Push, HumanDismiss, ConvertToDraft,
     ReadyForReview, EditConfig, Redeliver, repo
<1>3. CASE Surroundings /\ ~Outside
  BY <1>3 DEF Surroundings, Drop, Crash, ExpireConfig, ExpireTeam, repo
<1>4. CASE \E d \in DOMAIN evt, r \in Replicas : Receive(d, r)
  BY <1>4 DEF Receive, world, people
<1>5. CASE UNCHANGED vars
  BY <1>5 DEF vars, world, people
<1> QED
  BY <1>1, <1>2, <1>3, <1>4, <1>5 DEF Next, Process, Rest

LEMMA StepHistory ==
  ASSUME TypeOK, TypeOK', HistoryInv, [Next]_vars
  PROVE  HistoryInv' /\ HistoryGrows
<1>t. /\ members \in [Authors -> SUBSET Teams] /\ joined \in [Authors -> SUBSET Teams]
      /\ lacked \in [Authors -> SUBSET Teams]
      /\ left \in [Kinds -> Nat] /\ left' \in [Kinds -> Nat] /\ "team" \in Kinds
  BY DEF TypeOK, WorldOK, Kinds
<1>l. left'["team"] <= left["team"] /\ left'["team"] <= Limit["team"]
  <2>1. left'["team"] <= left["team"]
    BY <1>t, StepLeft
  <2> QED
    BY <1>t, <2>1, WorldType DEF HistoryInv
<1>1. CASE UNCHANGED people
  <2>1. Steady' => Steady
    BY <1>t, <1>l, WorldType DEF Steady, HistoryInv
  <2> QED
    BY <1>1, <1>l, <2>1 DEF HistoryInv, HistoryGrows, people
<1>2. CASE ChangeTeams
  <2>1. PICK a \in Authors, t \in Teams :
          IF t \in members[a]
          THEN /\ members' = [members EXCEPT ![a] = @ \ {t}]
               /\ lacked' = [lacked EXCEPT ![a] = @ \union {t}]
               /\ joined' = joined
          ELSE /\ members' = [members EXCEPT ![a] = @ \union {t}]
               /\ joined' = [joined EXCEPT ![a] = @ \union {t}]
               /\ lacked' = lacked
    BY <1>2 DEF ChangeTeams
  <2>2. ~Steady'
    <3>1. left["team"] > 0 /\ left'["team"] = left["team"] - 1
      BY <1>2, <1>t DEF ChangeTeams, Spend
    <3> QED
      BY <1>t, <3>1, WorldType DEF Steady, HistoryInv
  <2>3. \A c \in Authors : /\ members'[c] \subseteq joined'[c]
                         /\ Teams \ members'[c] \subseteq lacked'[c]
                         /\ joined[c] \subseteq joined'[c] /\ lacked[c] \subseteq lacked'[c]
    <3>1. CASE t \in members[a]
      BY <1>t, <2>1, <3>1 DEF HistoryInv
    <3>2. CASE t \notin members[a]
      BY <1>t, <2>1, <3>2 DEF HistoryInv
    <3> QED
      BY <3>1, <3>2
  <2> QED
    BY <1>l, <2>2, <2>3 DEF HistoryInv, HistoryGrows
<1> QED
  BY <1>1, <1>2, StepPeople

(* The team cache takes in nothing but answers of the team API.            *)
LEMMA StepCached ==
  ASSUME TypeOK, Placed, CachedTrue, HistoryInv, HistoryGrows, [Next]_vars
  PROVE  CachedTrue'
<1>0. CASE UNCHANGED teamCache
  BY <1>0 DEF CachedTrue, HistoryGrows
<1>t. teamCache \in [Replicas -> [Teams -> [Authors -> SUBSET BOOLEAN]]]
  BY DEF TypeOK
<1>1. ASSUME NEW d \in DOMAIN evt, evaluate(d)
      PROVE  CachedTrue'
  <2>1. CASE ~resolveAuthorTeams(d)
    BY <1>0, <1>1, <2>1 DEF evaluate, lockPR, cachedBotLogin, loadConfig,
       fetchConfig, setConfig, reportBadConfig, ListChangedFiles, listPage,
       decide, UpsertCheck, FindApproval, PullHeadSHA, Approve, EnableAutoMerge,
       DismissReview, ListComments, WriteComment, Fails, caches
  <2>2. CASE resolveAuthorTeams(d) /\ ~UNCHANGED teamCache
    <3> DEFINE a == author(d)
               Answer(t) == t \in members[author(d)]
    <3>1. PICK t \in ev[d].todo :
            teamCache' = [teamCache EXCEPT ![at[d]][t][author(d)] = {Answer(t)}]
      BY <2>2 DEF resolveAuthorTeams, CacheUser, Fails, caches
    <3>2. UNCHANGED people
      BY <1>1, EvaluateWorld
    <3>3. ASSUME NEW r \in Replicas, NEW u \in Teams, NEW b \in Authors
          PROVE  /\ TRUE \in teamCache'[r][u][b] => u \in joined'[b]
                 /\ FALSE \in teamCache'[r][u][b] => u \in lacked'[b]
      <4>1. CASE r = at[d] /\ u = t /\ b = a
        <5>1. teamCache'[r][u][b] = {Answer(t)}
          <6> HIDE DEF Answer
          <6> QED
            BY <1>t, <3>1, <4>1
        <5>2. CASE t \in members[a]
          <6>1. TRUE = (t \in members[a]) /\ u \in joined[b]
            BY <4>1, <5>2 DEF HistoryInv
          <6> QED
            BY <3>2, <5>1, <6>1 DEF people
        <5>3. CASE t \notin members[a]
          <6>1. FALSE = (t \in members[a]) /\ u \in lacked[b]
            BY <4>1, <5>3 DEF HistoryInv
          <6> QED
            BY <3>2, <5>1, <6>1 DEF people
        <5> QED
          BY <5>2, <5>3
      <4>2. CASE ~(r = at[d] /\ u = t /\ b = a)
        <5>1. teamCache'[r][u][b] = teamCache[r][u][b]
          BY <1>t, <3>1, <4>2
        <5> QED
          BY <3>2, <5>1 DEF CachedTrue, people
      <4> QED
        BY <4>1, <4>2
    <3> QED
      BY <3>3 DEF CachedTrue
  <2> QED
    BY <1>0, <2>1, <2>2
<1>2. ASSUME NEW r \in Replicas, NEW t \in Teams, NEW a \in Authors,
             ExpireTeam(r, t, a)
      PROVE  CachedTrue'
  <2>1. \A q \in Replicas, u \in Teams, b \in Authors :
          teamCache'[q][u][b] \subseteq teamCache[q][u][b]
    BY <1>2, <1>t DEF ExpireTeam
  <2> QED
    BY <2>1 DEF CachedTrue, HistoryGrows
<1>3. ASSUME NEW r \in Replicas, Crash(r)
      PROVE  CachedTrue'
  <2>1. \A q \in Replicas, u \in Teams, b \in Authors :
          teamCache'[q][u][b] \subseteq teamCache[q][u][b]
    BY <1>3, <1>t DEF Crash
  <2> QED
    BY <2>1 DEF CachedTrue, HistoryGrows
<1>4. CASE Outside /\ UNCHANGED <<pc, at, ev, replica>>
  BY <1>0, <1>4 DEF replica
<1>5. CASE \E d \in DOMAIN evt, r \in Replicas : Receive(d, r)
  BY <1>0, <1>5 DEF Receive, replica
<1>6. CASE \/ \E d \in DOMAIN evt : Drop(d)
           \/ \E r \in Replicas, b \in Branches : ExpireConfig(r, b)
           \/ UNCHANGED vars
  BY <1>0, <1>6 DEF Drop, ExpireConfig, replica, vars
<1> QED
  BY <1>1, <1>2, <1>3, <1>4, <1>5, <1>6
  DEF Next, Process, Surroundings, Rest

LEMMA StepOwnTeams ==
  ASSUME TypeOK, OwnTeams, HistoryGrows, [Next]_vars,
         \A d \in DOMAIN evt : Membered(d, pc[d], ev[d])
  PROVE  OwnTeams'
<1>p. \A p \in PRs : Author[p] \in Authors
  BY WorldType
<1>1. CASE OnlyDismissed
  BY <1>p, <1>1 DEF OnlyDismissed, OwnTeams, HistoryGrows, Resolved
<1>2. ASSUME NEW c \in DOMAIN evt, Approve(c),
             reviews' = [reviews EXCEPT ![pr(c)] = Append(@, Granted(c))]
      PROVE  OwnTeams'
  <2>1. PICK n \in Nat :
          /\ DOMAIN reviews'[pr(c)] = DOMAIN reviews[pr(c)] \union {n}
          /\ \A i \in DOMAIN reviews[pr(c)] :
               reviews'[pr(c)][i] = reviews[pr(c)][i]
          /\ reviews'[pr(c)][n] = Granted(c)
    BY <1>2, GrantedLast
  <2>2. \A p \in PRs : p # pr(c) => reviews'[p] = reviews[p]
    BY <1>2, GrantedLast
  <2>3. Resolved(Author[pr(c)], TeamHandles(Granted(c).cfg), Granted(c).teams)
    BY <1>2 DEF Approve, Membered, Granted, author, Judged, Onward, Listed, Decided
  <2>4. ASSUME NEW p \in PRs, NEW i \in DOMAIN reviews'[p]
        PROVE  Resolved(Author[p], TeamHandles(reviews'[p][i].cfg),
                        reviews'[p][i].teams)
    <3>1. CASE p # pr(c)
      BY <2>2, <2>4, <3>1 DEF OwnTeams
    <3>2. CASE p = pr(c) /\ i = n
      BY <2>1, <2>3, <3>2
    <3>3. CASE p = pr(c) /\ i # n
      BY <2>1, <2>4, <3>3 DEF OwnTeams
    <3> QED
      BY <3>1, <3>2, <3>3
  <2> QED
    BY <1>p, <2>4 DEF OwnTeams, HistoryGrows, Resolved
<1> QED
  BY <1>1, <1>2, StepReviews

LEMMA TeamsInvInit == Init => TeamsInv
<1> SUFFICES ASSUME Init PROVE TeamsInv
  OBVIOUS
<1>1. PlacedInv /\ DOMAIN evt = {} /\ \A p \in PRs : DOMAIN reviews[p] = {}
  BY PlacedInvInit DEF Init, WorldInit
<1>2. HistoryInv
  BY WorldType DEF Init, WorldInit, Kinds, HistoryInv
<1>3. CachedTrue
  BY DEF Init, CachedTrue
<1> QED
  BY <1>1, <1>2, <1>3 DEF TeamsInv, OwnTeams

LEMMA TeamsInvStep == TeamsInv /\ [Next]_vars => TeamsInv'
<1> SUFFICES ASSUME TeamsInv, [Next]_vars PROVE TeamsInv'
  OBVIOUS
<1>1. PlacedInv' /\ PlacedInv /\ TypeOK /\ Placed
  BY PlacedInvStep DEF TeamsInv, PlacedInv
<1>2. EvtGrows /\ TypeOK'
  BY <1>1, StepGrows DEF PlacedInv
<1>3. HistoryInv' /\ HistoryGrows
  BY <1>1, <1>2, StepHistory DEF TeamsInv
<1>4. CachedTrue' /\ OwnTeams'
  BY <1>1, <1>3, StepCached, StepOwnTeams DEF TeamsInv
<1>5. ASSUME NEW d \in DOMAIN evt'
      PROVE  Membered(d, pc[d], ev[d])'
  <2>1. CASE d \in DOMAIN evt
    <3>1. Membered(d, pc'[d], ev'[d])
      BY <1>1, <2>1, StepMembered DEF TeamsInv
    <3>2. author(d)' = author(d) /\ author(d) \in Authors
      BY <1>1, <1>2, <2>1, RaisedType, WorldType
      DEF EvtGrows, author, pr, TypeOK, Event
    <3> QED
      BY <1>3, <3>1, <3>2 DEF Membered, Resolved, HistoryGrows
  <2>2. CASE d \notin DOMAIN evt
    <3>1. d \in Deliveries \ DOMAIN evt
      BY <1>2, <1>5, <2>2, LenProperties, WorldType DEF TypeOK, WorldOK, Deliveries
    <3>2. pc'[d] = "raised" /\ ev'[d] = NoLocals
      BY <1>1, <3>1, PlacedStep DEF PlacedInv, Fresh
    <3> QED
      BY <3>2 DEF Membered, NoLocals, Before, Ended, Judged, Onward, Listed, Decided
  <2> QED
    BY <2>1, <2>2
<1> QED
  BY <1>1, <1>3, <1>4, <1>5 DEF TeamsInv

(* However often people join or leave teams, every approval was decided    *)
(* with memberships that the pull request's own author has or had in the   *)
(* teams its config names, whoever filled the cache: its key is team and   *)
(* user, and it holds nothing but answers of GitHub (approver.go:337-353). *)
THEOREM TeamsAreOwn == Spec => []ApprovedByOwnTeams
<1>1. TeamsInv => ApprovedByOwnTeams
  BY DEF TeamsInv, OwnTeams, Resolved, ApprovedByOwnTeams
<1> QED
  BY <1>1, TeamsInvInit, TeamsInvStep, PTL DEF Spec

-----------------------------------------------------------------------------
(* The Ledger: every step of Approver is, on the reviews and auto-merge it *)
(* leaves behind, a step of Ledger or none, as long as no push returns to  *)
(* a former head.                                                          *)

(* Labels past a config that is enabled, and past one that may act.        *)
Acting     == {"findApproval", "pullHead", "approve", "autoMerge", "dismiss"}
Evaluating == {"listFiles", "autoMerge", "dismiss"} \union Listed

Allowed(l, e) ==
  /\ l \in Evaluating => IsEnabled(e.cfg)
  /\ l \in Acting => ~e.cfg.dry_run

AllowedInv == \A d \in Deliveries : Allowed(pc[d], ev[d])

(* Somebody's config asked for auto-merge when p was approved.             *)
Asked(p) == \E i \in DOMAIN reviews[p] : reviews[p][i].cfg.auto_merge.enabled

MergeInv == \A d \in DOMAIN evt : pc[d] = "autoMerge" => Asked(pr(d))

LedgerInv == ApprovalInv /\ AllowedInv /\ MergeInv

-----------------------------------------------------------------------------
(* Which labels a delivery may reach under its config.                     *)
LEMMA AllowedGo ==
  ASSUME TypeOK, AllowedInv, NEW d \in Deliveries, NEW l, NEW e,
         Go(d, l, e), Allowed(l, e)
  PROVE  AllowedInv'
<1> SUFFICES ASSUME NEW c \in Deliveries
             PROVE  Allowed(pc'[c], ev'[c])
  BY DEF AllowedInv, Allowed, Evaluating, Acting, Listed, Decided
<1>1. CASE c # d
  BY <1>1 DEF Go, TypeOK, AllowedInv
<1>2. CASE c = d /\ l \notin Ended
  BY <1>2 DEF Go, TypeOK
<1>3. CASE c = d /\ l \in Ended
  BY <1>3 DEF Go, TypeOK, Allowed, Ended, Evaluating, Acting, Listed, Decided
<1> QED
  BY <1>1, <1>2, <1>3

LEMMA AllowedOut ==
  ASSUME TypeOK, AllowedInv, NEW d \in Deliveries, NEW l, NEW e,
         Go(d, l, e), l \notin Evaluating
  PROVE  AllowedInv'
<1>1. Allowed(l, e)
  BY DEF Allowed, Evaluating, Acting, Listed, Decided
<1> QED
  BY <1>1, AllowedGo

LEMMA AllowedToOut ==
  ASSUME TypeOK, AllowedInv, NEW d \in Deliveries, NEW l,
         To(d, l), l \notin Evaluating
  PROVE  AllowedInv'
BY AllowedOut DEF To

LEMMA AllowedOn ==
  ASSUME TypeOK, AllowedInv, NEW d \in Deliveries, NEW l, NEW e,
         Go(d, l, e), e.cfg = ev[d].cfg, pc[d] \in Evaluating,
         l \in Acting => pc[d] \in Acting
  PROVE  AllowedInv'
<1>1. Allowed(l, e)
  BY DEF AllowedInv, Allowed
<1> QED
  BY <1>1, AllowedGo

LEMMA EvaluateAllowed ==
  ASSUME TypeOK, AllowedInv, NEW d \in DOMAIN evt, evaluate(d)
  PROVE  AllowedInv'
<1>d. d \in Deliveries /\ ev[d] \in Locals
  BY RaisedType DEF TypeOK
<1>n. \A cfg : /\ AfterAct(cfg) \notin Evaluating
               /\ Loaded(cfg) \in Evaluating => IsEnabled(cfg)
               /\ Loaded(cfg) \notin Acting
  BY DEF AfterAct, Loaded, Evaluating, Acting, Listed, Decided
<1>w. {"failed", "done", "bot", "config", "getFile", "setConfig", "badConfig",
       "listComments", "editComment", "createComment"}
        \intersect Evaluating = {}
  BY DEF Evaluating, Listed, Decided
<1>out. ASSUME NEW l, To(d, l), l \notin Evaluating
        PROVE  AllowedInv'
  BY <1>d, <1>out, AllowedToOut
<1>on. ASSUME NEW l, To(d, l), pc[d] \in Evaluating,
              l \in Acting => pc[d] \in Acting
       PROVE  AllowedInv'
  BY <1>d, <1>on, AllowedOn DEF To
<1>1. CASE lockPR(d)
  BY <1>1, <1>d, <1>w
  DEF lockPR, TypeOK, AllowedInv, Allowed, Evaluating, Acting, Listed, Decided
<1>2. CASE cachedBotLogin(d) \/ reportBadConfig(d)
  BY <1>2, <1>out, <1>w DEF cachedBotLogin, reportBadConfig, Replies, Fails
<1>3. CASE loadConfig(d)
  <2>1. ASSUME NEW cfg, Go(d, Loaded(cfg), [ev[d] EXCEPT !.cfg = cfg])
        PROVE  AllowedInv'
    <3>1. Allowed(Loaded(cfg), [ev[d] EXCEPT !.cfg = cfg])
      BY <1>d, <1>n DEF Allowed, Locals
    <3> QED
      BY <1>d, <2>1, <3>1, AllowedGo
  <2> QED
    BY <1>3, <1>out, <1>w, <2>1 DEF loadConfig
<1>4. CASE fetchConfig(d)
  <2>1. ASSUME NEW e, Go(d, "setConfig", e)
        PROVE  AllowedInv'
    BY <1>d, <1>w, <2>1, AllowedOut
  <2> QED
    BY <1>4, <1>out, <1>w, <2>1 DEF fetchConfig, Fails
<1>5. CASE setConfig(d)
  <2>1. Allowed(Loaded(ev[d].cfg), ev[d])
    BY <1>n DEF Allowed
  <2> QED
    BY <1>5, <1>d, <2>1, AllowedGo DEF setConfig, To
<1>6. CASE ListChangedFiles(d)
  <2>1. PICK last \in BOOLEAN : listPage(d, last)
    BY <1>6 DEF ListChangedFiles
  <2>2. pc[d] \in Evaluating
    BY <1>6 DEF ListChangedFiles, Evaluating, Listed
  <2> DEFINE e == [ev[d] EXCEPT !.files = @ \union {head[pr(d)]},
                                !.todo = TeamHandles(ev[d].cfg)]
             l == IF last THEN "teams" ELSE "listMore"
  <2>3. e.cfg = ev[d].cfg /\ l \notin Acting
    BY <1>d DEF Locals, Acting
  <2>4. CASE Go(d, l, e)
    BY <1>d, <2>2, <2>3, <2>4, AllowedOn
  <2> QED
    BY <1>out, <1>w, <2>1, <2>4 DEF listPage, Fails
<1>7. CASE resolveAuthorTeams(d)
  <2> DEFINE Take(t, b) == [ev[d] EXCEPT !.todo = @ \ {t},
                              !.teams = IF b THEN @ \union {t} ELSE @]
  <2>1. ASSUME NEW t, NEW b, Go(d, "teams", Take(t, b))
        PROVE  AllowedInv'
    <3>1. Take(t, b).cfg = ev[d].cfg
      BY <1>d DEF Locals
    <3>2. pc[d] \in Evaluating /\ "teams" \notin Acting
      BY <1>7 DEF resolveAuthorTeams, Evaluating, Listed, Acting
    <3> QED
      BY <1>d, <2>1, <3>1, <3>2, AllowedOn
  <2> QED
    BY <1>7, <1>out, <1>w, <2>1 DEF resolveAuthorTeams, Fails
<1>8. CASE decide(d)
  <2>1. ASSUME NEW v, Go(d, "check", [ev[d] EXCEPT !.verdict = v])
        PROVE  AllowedInv'
    <3>1. [ev[d] EXCEPT !.verdict = v].cfg = ev[d].cfg
      BY <1>d DEF Locals
    <3>2. pc[d] \in Evaluating /\ "check" \notin Acting
      BY <1>8 DEF decide, Evaluating, Listed, Acting
    <3> QED
      BY <1>d, <2>1, <3>1, <3>2, AllowedOn
  <2> QED
    BY <1>8, <1>out, <1>w, <2>1 DEF decide
<1>9. CASE UpsertCheck(d)
  <2>1. To(d, AfterCheck(ev[d].cfg)) /\ pc[d] = "check"
    BY <1>9 DEF UpsertCheck, Replies, Fails
  <2>2. Allowed(AfterCheck(ev[d].cfg), ev[d])
    BY <1>d, <2>1 DEF AllowedInv, Allowed, AfterCheck, Evaluating, Acting,
       Listed, Decided
  <2> QED
    BY <1>d, <2>1, <2>2, AllowedGo DEF To
<1>10. CASE FindApproval(d)
  <2>1. ASSUME NEW i, Go(d, AfterFind(d, i), [ev[d] EXCEPT !.found = i])
        PROVE  AllowedInv'
    <3>1. [ev[d] EXCEPT !.found = i].cfg = ev[d].cfg
      BY <1>d DEF Locals
    <3>2. pc[d] \in Evaluating /\ pc[d] \in Acting
      BY <1>10 DEF FindApproval, Evaluating, Listed, Decided, Acting
    <3> QED
      BY <1>d, <2>1, <3>1, <3>2, AllowedOn
  <2> QED
    BY <1>10, <1>out, <1>w, <2>1 DEF FindApproval, Fails
<1>11. CASE PullHeadSHA(d) \/ Approve(d) \/ EnableAutoMerge(d) \/ DismissReview(d)
  <2>1. pc[d] \in {"pullHead", "approve", "autoMerge", "dismiss"}
    BY <1>11 DEF PullHeadSHA, Approve, EnableAutoMerge, DismissReview, Fails
  <2>2. pc[d] \in Evaluating /\ pc[d] \in Acting
    BY <2>1 DEF Evaluating, Listed, Decided, Acting
  <2>3. \E l : To(d, l)
    BY <1>11
    DEF PullHeadSHA, Approve, EnableAutoMerge, DismissReview, Replies, Fails
  <2> QED
    BY <1>on, <2>2, <2>3
<1>12. CASE ListComments(d) \/ WriteComment(d)
  BY <1>12, <1>out, <1>w DEF ListComments, WriteComment, Replies, Fails
<1> QED
  BY <1>1, <1>2, <1>3, <1>4, <1>5, <1>6, <1>7, <1>8, <1>9, <1>10, <1>11, <1>12
  DEF evaluate

LEMMA StepAllowed ==
  ASSUME TypeOK, AllowedInv, [Next]_vars
  PROVE  AllowedInv'
<1>1. ASSUME NEW d \in DOMAIN evt, evaluate(d)
      PROVE  AllowedInv'
  BY <1>1, EvaluateAllowed
<1>2. ASSUME \A d \in Deliveries : \/ pc'[d] = pc[d] /\ ev'[d] = ev[d]
                                   \/ pc'[d] \in {"lock"} \union Ended
      PROVE  AllowedInv'
  BY <1>2 DEF AllowedInv, Allowed, Evaluating, Acting, Listed, Decided, Ended
<1>3. CASE \E d \in DOMAIN evt, r \in Replicas : Receive(d, r)
  BY <1>3, <1>2 DEF Receive, TypeOK, Ended
<1>4. CASE \E d \in DOMAIN evt : Drop(d)
  BY <1>4, <1>2 DEF Drop, TypeOK, Ended
<1>5. CASE \E r \in Replicas : Crash(r)
  BY <1>5, <1>2 DEF Crash, Ended
<1>6. CASE UNCHANGED <<pc, ev>>
  BY <1>6, <1>2
<1> QED
  BY <1>1, <1>3, <1>4, <1>5, <1>6
  DEF Next, Process, Surroundings, ExpireConfig, ExpireTeam, Rest, vars

-----------------------------------------------------------------------------
(* Each write prove makes is a step of the ledger.                         *)
LEMMA PushMoves ==
  ASSUME TypeOK, NEW p \in PRs, Push(p)
  PROVE  Book!Move(p)
<1>1. PICK c \in Series[p] :
        /\ head' = [head EXCEPT ![p] = c]
        /\ past' = [past EXCEPT ![p] = @ \union {head[p]}]
  BY DEF Push
<1>2. c \in Commits
  BY WorldType
<1> DEFINE Seen == [q \in PRs |-> past[q] \union {head[q]}]
<1>3. Seen' = [Seen EXCEPT ![p] = @ \union {c}]
  BY <1>1 DEF TypeOK, WorldOK
<1> QED
  BY <1>2, <1>3 DEF Push, Book!Move, traces

LEMMA ApproveGrants ==
  ASSUME LedgerInv, NEW d \in DOMAIN evt, Approve(d), reviews' # reviews
  PROVE  Book!Grant(pr(d))
<1>d. /\ d \in Deliveries /\ TypeOK /\ Sound(d, pc[d], ev[d])
      /\ Allowed(pc[d], ev[d]) /\ ev[d] \in Locals
      /\ pr(d) \in PRs /\ headSHA(d) \in Commits
  BY RaisedType DEF LedgerInv, ApprovalInv, AllowedInv, TypeOK, Event, pr, headSHA
<1> DEFINE v == [commit |-> headSHA(d), state |-> "APPROVED",
                 files |-> ev[d].files, cfg |-> ev[d].cfg,
                 teams |-> ev[d].teams]
<1>1. /\ pc[d] = "approve"
      /\ reviews' = [reviews EXCEPT ![pr(d)] = Append(@, v)]
      /\ UNCHANGED <<head, past, autoMerge>>
  BY DEF Approve, Fails, traces, pulls
<1>2. v \in Review
  BY <1>d DEF Review, Locals
<1>3. v.commit \in past[pr(d)] \union {head[pr(d)]}
  BY DEF LedgerInv, ApprovalInv, HeadsMoveOn
<1>4. /\ v.files = {v.commit}
      /\ Verdict(v.cfg, v.commit, Author[pr(d)], v.teams) = "approve"
  BY <1>d, <1>1 DEF Sound, GuardPassed, DecidedRight, Decided, author
<1>5. IsEnabled(v.cfg) /\ ~v.cfg.dry_run
  BY <1>d, <1>1 DEF Allowed, Evaluating, Acting, Listed, Decided
<1>6. Book!Granted(pr(d), v)
  BY <1>d, <1>3, <1>4, <1>5 DEF Book!Granted, Book!Acts, Book!IsEnabled,
     Book!TrueUnlessSet, IsEnabled, TrueUnlessSet
<1> QED
  BY <1>1, <1>2, <1>6 DEF Book!Grant

LEMMA DismissWithdraws ==
  ASSUME NEW p \in PRs, NEW i \in DOMAIN reviews[p],
         reviews[p][i].state = "APPROVED",
         reviews' = [reviews EXCEPT ![p][i].state = "DISMISSED"],
         UNCHANGED <<head, past, autoMerge>>
  PROVE  Book!Withdraw(p)
BY DEF Book!Withdraw

LEMMA AutoMergeMerges ==
  ASSUME LedgerInv, NEW d \in DOMAIN evt, EnableAutoMerge(d),
         autoMerge' # autoMerge
  PROVE  Book!Merge(pr(d))
<1>1. /\ pc[d] = "autoMerge"
      /\ autoMerge' = [autoMerge EXCEPT ![pr(d)] = TRUE]
      /\ UNCHANGED <<head, past, reviews>>
  BY DEF EnableAutoMerge, Fails, traces, pulls
<1> QED
  BY <1>1 DEF LedgerInv, MergeInv, Asked, Book!Merge

LEMMA StepKeepsLedger ==
  ASSUME LedgerInv, [Next]_vars
  PROVE  [Book!Next]_(Book!vars)
<1>d. TypeOK /\ \A d \in DOMAIN evt : pr(d) \in PRs
  BY RaisedType DEF LedgerInv, ApprovalInv, TypeOK, Event, pr
<1>0. CASE UNCHANGED <<head, past, reviews, autoMerge>>
  BY <1>0 DEF Book!vars
<1>n. ASSUME NEW p \in PRs, \/ Book!Move(p) \/ Book!Grant(p)
                            \/ Book!Withdraw(p) \/ Book!Merge(p)
      PROVE  Book!Next
  BY <1>n DEF Book!Next
<1>1. ASSUME NEW d \in DOMAIN evt, evaluate(d)
      PROVE  [Book!Next]_(Book!vars)
  <2>1. CASE Approve(d)
    <3>1. UNCHANGED <<head, past, autoMerge>>
      BY <2>1 DEF Approve, Fails, traces, pulls
    <3> QED
      BY <1>0, <1>d, <1>n, <2>1, <3>1, ApproveGrants
  <2>2. CASE DismissReview(d)
    <3>1. CASE UNCHANGED world \/ Fails(d, "failed")
      BY <1>0, <3>1 DEF world, Fails, traces, pulls
    <3>2. CASE /\ ev[d].found \in Approvals(pr(d))
               /\ reviews' = [reviews EXCEPT
                                ![pr(d)][ev[d].found].state = "DISMISSED"]
               /\ UNCHANGED <<head, past, autoMerge>>
      BY <1>d, <1>n, <3>2, DismissWithdraws DEF Approvals
    <3> QED
      BY <2>2, <3>1, <3>2 DEF DismissReview, pulls
  <2>3. CASE EnableAutoMerge(d)
    <3>1. UNCHANGED <<head, past, reviews>>
      BY <2>3 DEF EnableAutoMerge, Fails, traces, pulls
    <3> QED
      BY <1>0, <1>d, <1>n, <2>3, <3>1, AutoMergeMerges
  <2>4. CASE ~Approve(d) /\ ~DismissReview(d) /\ ~EnableAutoMerge(d)
    BY <1>0, <1>1, <2>4 DEF evaluate, lockPR, cachedBotLogin, loadConfig,
       fetchConfig, setConfig, reportBadConfig, ListChangedFiles, listPage,
       resolveAuthorTeams, decide, UpsertCheck, FindApproval, PullHeadSHA,
       ListComments, WriteComment, Fails, world, traces, pulls
  <2> QED
    BY <2>1, <2>2, <2>3, <2>4
<1>2. ASSUME NEW p \in PRs, HumanDismiss(p)
      PROVE  [Book!Next]_(Book!vars)
  BY <1>n, <1>2, DismissWithdraws DEF HumanDismiss, pulls
<1>3. ASSUME NEW p \in PRs, Push(p)
      PROVE  [Book!Next]_(Book!vars)
  BY <1>d, <1>n, <1>3, PushMoves
<1>4. CASE Outside
  BY <1>0, <1>2, <1>3, <1>4 DEF Outside, Open, ConvertToDraft,
     ReadyForReview, EditConfig, ChangeTeams, Redeliver, traces, pulls
<1>5. CASE Surroundings /\ ~Outside
  BY <1>0, <1>5 DEF Surroundings, Drop, Crash, ExpireConfig, ExpireTeam,
     traces, pulls
<1>6. CASE \E d \in DOMAIN evt, r \in Replicas : Receive(d, r)
  BY <1>0, <1>6 DEF Receive, world
<1>7. CASE UNCHANGED vars
  BY <1>0, <1>7 DEF vars, world
<1> QED
  BY <1>1, <1>4, <1>5, <1>6, <1>7 DEF Next, Process, Rest

-----------------------------------------------------------------------------
(* Auto-merge.                                                             *)

(* A ledger forgets no approval, nor what it was based on.                 *)
LedgerGrows ==
  \A p \in PRs : \A i \in DOMAIN reviews[p] :
    i \in DOMAIN reviews'[p] /\ reviews'[p][i].cfg = reviews[p][i].cfg

LEMMA BookGrows ==
  ASSUME TypeOK, [Book!Next]_(Book!vars)
  PROVE  LedgerGrows
<1>t. reviews \in [PRs -> Seq(Review)]
  BY DEF TypeOK, WorldOK
<1>0. CASE UNCHANGED reviews
  BY <1>0 DEF LedgerGrows
<1>1. ASSUME NEW p \in PRs, Book!Grant(p)
      PROVE  LedgerGrows
  <2>1. PICK v \in Review : reviews' = [reviews EXCEPT ![p] = Append(@, v)]
    BY <1>1 DEF Book!Grant
  <2>2. \A q \in PRs : reviews[q] \in Seq(Review) /\
          reviews'[q] = IF q = p THEN Append(reviews[q], v) ELSE reviews[q]
    BY <1>t, <2>1
  <2>3. \A s \in Seq(Review) : \A i \in DOMAIN s :
          i \in DOMAIN Append(s, v) /\ Append(s, v)[i] = s[i]
    OBVIOUS
  <2> QED
    BY <2>2, <2>3 DEF LedgerGrows
<1>2. ASSUME NEW p \in PRs, Book!Withdraw(p)
      PROVE  LedgerGrows
  <2>1. PICK i \in DOMAIN reviews[p] :
          reviews' = [reviews EXCEPT ![p][i].state = "DISMISSED"]
    BY <1>2 DEF Book!Withdraw
  <2>2. reviews[p][i] \in Review
    BY <1>t, ElementOfSeq, LenProperties
  <2>3. [reviews[p][i] EXCEPT !.state = "DISMISSED"].cfg = reviews[p][i].cfg
    BY <2>2 DEF Review
  <2>4. \A q \in PRs : reviews'[q] =
          IF q = p THEN [reviews[p] EXCEPT
                           ![i] = [reviews[p][i] EXCEPT !.state = "DISMISSED"]]
                   ELSE reviews[q]
    BY <1>t, <2>1
  <2> QED
    BY <1>t, <2>3, <2>4 DEF LedgerGrows
<1> QED
  BY <1>0, <1>1, <1>2 DEF Book!Next, Book!Move, Book!Merge, Book!vars

(* A delivery gets to enabling auto-merge by approving.                    *)
LEMMA ApproveAsked ==
  ASSUME LedgerInv, NEW d \in DOMAIN evt, Approve(d), pc'[d] = "autoMerge",
         evt'[d] = evt[d]
  PROVE  Asked(pr(d))'
<1>d. /\ d \in Deliveries /\ TypeOK /\ pr(d) \in PRs /\ ev[d] \in Locals
  BY RaisedType DEF LedgerInv, ApprovalInv, TypeOK, Event, pr
<1> DEFINE v == [commit |-> headSHA(d), state |-> "APPROVED",
                 files |-> ev[d].files, cfg |-> ev[d].cfg,
                 teams |-> ev[d].teams]
<1>1. \A l : To(d, l) => pc'[d] = l
  BY <1>d DEF To, Go, TypeOK
<1>2. /\ reviews' = [reviews EXCEPT ![pr(d)] = Append(@, v)]
      /\ AfterApprove(ev[d].cfg) = "autoMerge"
  BY <1>1 DEF Approve, Fails, Replies
<1>3. v.cfg.auto_merge.enabled
  BY <1>2 DEF AfterApprove, AfterAct
<1>4. reviews[pr(d)] \in Seq(Review) /\ reviews'[pr(d)] = Append(reviews[pr(d)], v)
  BY <1>d, <1>2 DEF TypeOK, WorldOK
<1>5. LET i == Len(reviews[pr(d)]) + 1
      IN  i \in DOMAIN reviews'[pr(d)] /\ reviews'[pr(d)][i] = v
  BY <1>4
<1> QED
  BY <1>3, <1>5 DEF Asked, pr

LEMMA ToAutoMerge ==
  ASSUME LedgerInv, [Next]_vars, NEW d \in DOMAIN evt, pc'[d] = "autoMerge"
  PROVE  pc[d] = "autoMerge" \/ Approve(d)
<1>d. TypeOK /\ d \in Deliveries
  BY RaisedType DEF LedgerInv, ApprovalInv, TypeOK
<1>1. ASSUME evaluate(d), ~Approve(d)
      PROVE  FALSE
  <2>1. \A l, e : Go(d, l, e) => l = "autoMerge"
    BY <1>d DEF Go, TypeOK
  <2>2. \A l : To(d, l) => l = "autoMerge"
    BY <2>1 DEF To
  <2>3. ~lockPR(d)
    BY <1>d DEF lockPR, TypeOK
  <2>4. \A cfg : Loaded(cfg) # "autoMerge" /\ AfterCheck(cfg) # "autoMerge"
                 /\ AfterAct(cfg) # "autoMerge"
    BY DEF Loaded, AfterCheck, AfterAct
  <2>5. \A i : AfterFind(d, i) # "autoMerge"
    BY DEF AfterFind, AfterAct
  <2>6. ~cachedBotLogin(d) /\ ~loadConfig(d) /\ ~fetchConfig(d)
        /\ ~setConfig(d) /\ ~reportBadConfig(d)
    BY <2>1, <2>2, <2>4 DEF cachedBotLogin, loadConfig, fetchConfig,
       setConfig, reportBadConfig, Fails, Replies
  <2>7. ~ListChangedFiles(d) /\ ~resolveAuthorTeams(d) /\ ~decide(d)
        /\ ~UpsertCheck(d)
    BY <2>1, <2>2, <2>4 DEF ListChangedFiles, listPage, resolveAuthorTeams,
       decide, UpsertCheck, Fails, Replies
  <2>8. ~FindApproval(d) /\ ~PullHeadSHA(d) /\ ~EnableAutoMerge(d)
        /\ ~DismissReview(d) /\ ~ListComments(d) /\ ~WriteComment(d)
    BY <2>1, <2>2, <2>4, <2>5 DEF FindApproval, PullHeadSHA, EnableAutoMerge,
       DismissReview, ListComments, WriteComment, Fails, Replies
  <2> QED
    BY <1>1, <2>3, <2>6, <2>7, <2>8 DEF evaluate
<1>2. ASSUME NEW c \in DOMAIN evt, c # d, evaluate(c)
      PROVE  pc[d] = "autoMerge"
  BY <1>d, <1>2, EvaluateMoves DEF Moves, TypeOK
<1>3. ASSUME \/ pc' = pc
             \/ \E c \in DOMAIN evt : Drop(c)
             \/ \E c \in DOMAIN evt, r \in Replicas : Receive(c, r)
             \/ \E r \in Replicas : Crash(r)
      PROVE  pc[d] = "autoMerge"
  BY <1>d, <1>3 DEF Drop, Receive, Crash, TypeOK
<1> QED
  BY <1>1, <1>2, <1>3
  DEF Next, Process, Surroundings, ExpireConfig, ExpireTeam, Rest, vars

LEMMA StepMerges ==
  ASSUME LedgerInv, [Next]_vars, EvtGrows, (TypeOK /\ Unraised)'
  PROVE  MergeInv'
<1> SUFFICES ASSUME NEW d \in DOMAIN evt', pc'[d] = "autoMerge"
             PROVE  Asked(pr(d))'
  BY DEF MergeInv
<1>d. d \in Deliveries
  BY LenProperties, WorldType DEF TypeOK, WorldOK, Deliveries
<1>1. d \in DOMAIN evt
  <2>1. ASSUME d \notin DOMAIN evt
        PROVE  Fresh(d)'
    BY <1>d, <2>1, PlacedStep DEF LedgerInv, ApprovalInv
  <2> QED
    BY <2>1 DEF Fresh
<1>2. evt'[d] = evt[d] /\ pr(d) \in PRs
  BY <1>1, RaisedType DEF EvtGrows, LedgerInv, ApprovalInv, TypeOK, Event, pr
<1>3. CASE Approve(d)
  BY <1>1, <1>2, <1>3, ApproveAsked
<1>4. CASE pc[d] = "autoMerge"
  <2>1. LedgerGrows
    BY StepKeepsLedger, BookGrows DEF LedgerInv, ApprovalInv
  <2>2. Asked(pr(d))
    BY <1>1, <1>4 DEF LedgerInv, MergeInv
  <2> QED
    BY <1>2, <2>1, <2>2 DEF LedgerGrows, Asked, pr
<1> QED
  BY <1>1, <1>3, <1>4, ToAutoMerge

-----------------------------------------------------------------------------
LEMMA LedgerInvInit == Init => LedgerInv
<1> SUFFICES ASSUME Init PROVE LedgerInv
  OBVIOUS
<1>1. AllowedInv
  BY DEF Init, AllowedInv, Allowed, Evaluating, Acting, Listed, Decided
<1>2. MergeInv
  BY DEF Init, WorldInit, MergeInv
<1> QED
  BY <1>1, <1>2, ApprovalInvInit DEF LedgerInv

LEMMA LedgerInvStep ==
  ASSUME ~Rewind
  PROVE  LedgerInv /\ [Next]_vars => LedgerInv'
<1> SUFFICES ASSUME LedgerInv, [Next]_vars
             PROVE  LedgerInv'
  OBVIOUS
<1>1. ApprovalInv'
  BY ApprovalInvStep DEF LedgerInv
<1>2. AllowedInv'
  BY StepAllowed DEF LedgerInv, ApprovalInv
<1>3. EvtGrows
  BY <1>1, StepGrows DEF LedgerInv, ApprovalInv
<1>4. MergeInv'
  BY <1>1, <1>3, StepMerges DEF ApprovalInv
<1> QED
  BY <1>1, <1>2, <1>4 DEF LedgerInv

LEMMA InitKeepsLedger == Init => Book!Init
<1> SUFFICES ASSUME Init PROVE Book!Init
  OBVIOUS
<1>1. [p \in PRs |-> past[p] \union {head[p]}] \in [PRs -> {{c} : c \in Commits}]
  BY DEF Init, WorldInit
<1> QED
  BY <1>1 DEF Init, WorldInit, Book!Init

(* As long as no push returns to a former head, prove's approver           *)
(* implements the ledger: with any number of replicas, pull requests,      *)
(* commits and configs, and whatever fails, crashes, is edited or pushed,  *)
(* each approval is what an active config grants for a commit of the PR,   *)
(* auto-merge follows an approval that asks for it, and only standing      *)
(* approvals are taken back (approver.go:163-166, 189-211, 223-275).       *)
THEOREM ImplementsLedger ==
  ASSUME ~Rewind
  PROVE  Spec => KeepsLedger
<1>1. LedgerInv /\ [Next]_vars => [Book!Next]_(Book!vars)
  BY StepKeepsLedger
<1>2. LedgerInv /\ [Next]_vars => LedgerInv'
  BY LedgerInvStep
<1> QED
  BY <1>1, <1>2, LedgerInvInit, InitKeepsLedger, PTL
  DEF Spec, KeepsLedger, Book!Spec

(* Auto-merge is on only where prove approved under a config that asks for *)
(* it (approver.go:249-261).                                               *)
THEOREM AutoMergeAfterApproval ==
  ASSUME ~Rewind
  PROVE  Spec => []AutoMergeWasApproved
<1>1. Init => AutoMergeWasApproved
  BY DEF Init, WorldInit, AutoMergeWasApproved
<1>2. LedgerInv /\ [Next]_vars /\ AutoMergeWasApproved => AutoMergeWasApproved'
  <2> SUFFICES ASSUME LedgerInv, [Next]_vars, AutoMergeWasApproved,
                      NEW p \in PRs, autoMerge'[p]
               PROVE  Asked(p)'
    BY DEF AutoMergeWasApproved, Asked
  <2>1. [Book!Next]_(Book!vars) /\ LedgerGrows
    BY StepKeepsLedger, BookGrows DEF LedgerInv, ApprovalInv
  <2>2. Asked(p)
    <3>1. CASE autoMerge[p]
      BY <3>1 DEF AutoMergeWasApproved, Asked
    <3>2. CASE ~autoMerge[p]
      <4>1. PICK q \in PRs : Book!Merge(q)
        BY <2>1, <3>2 DEF Book!Next, Book!Move, Book!Grant, Book!Withdraw,
           Book!vars
      <4>2. q = p
        BY <3>2, <4>1 DEF Book!Merge, LedgerInv, ApprovalInv, TypeOK, WorldOK
      <4> QED
        BY <4>1, <4>2 DEF Book!Merge, Asked
    <3> QED
      BY <3>1, <3>2
  <2> QED
    BY <2>1, <2>2 DEF LedgerGrows, Asked
<1>3. LedgerInv /\ [Next]_vars => LedgerInv'
  BY LedgerInvStep
<1> QED
  BY <1>1, <1>2, <1>3, LedgerInvInit, PTL DEF Spec
=============================================================================
