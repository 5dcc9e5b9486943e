---------------------------- MODULE SettleProofs ----------------------------
(***************************************************************************)
(* What prove comes to rest with when nothing fails and nobody edits the   *)
(* config or the teams: every push, draft toggle and dismissal raises an   *)
(* event of the live head, and some delivery that has yet to act on that   *)
(* head is around until the answer on it is right.                         *)
(***************************************************************************)
EXTENDS LockProofs

(* Nothing fails, no replica dies, configs and teams stay as they are.     *)
Trouble == {"fault", "crash", "edit", "team"}
Calm    == \A k \in Trouble : Limit[k] = 0
Spent   == \A k \in Trouble : left[k] = 0

(* The decision that is right for commit c of PR p: Proper is that of the  *)
(* live head.                                                              *)
Right(p, c) == Verdict(Current(p), c, Author[p], members[Author[p]])

(* Delivery d at l holding e goes by the config and decides what is right  *)
(* for the commit it listed.                                               *)
OnCourse(d, l, e) ==
  /\ l = "badConfig" => Current(pr(d)) = BadFile
  /\ l \in {"setConfig", "listFiles"} \union Onward => e.cfg = Current(pr(d))
  /\ l \in Before => e.files = {}
  /\ l \in Judged =>
       /\ e.verdict # "error"
       /\ \A c \in Commits : e.files = {c} => e.verdict = Right(pr(d), c)
  /\ l \in {"pullHead", "approve"} => e.verdict = "approve"
  /\ l = "dismiss" => e.verdict # "approve"

CachesFresh ==
  /\ \A r \in Replicas : bot[r] # "err"
  /\ \A r \in Replicas, b \in Branches : configCache[r][b] \subseteq {file[b]}

CalmInv ==
  /\ TeamsInv /\ AllowedInv /\ Spent /\ CachesFresh
  /\ \A d \in DOMAIN evt : OnCourse(d, pc[d], ev[d])

-----------------------------------------------------------------------------
(* No call fails, no webhook is lost and nothing is edited.                *)
LEMMA CalmSteps ==
  ASSUME TypeOK, Spent, [Next]_vars
  PROVE  /\ UNCHANGED <<file, members>> /\ Spent'
         /\ \A d, l : ~Fails(d, l)
         /\ \A d, l, m : Replies(d, l, m) => To(d, l)
         /\ \A d : ~Drop(d)
         /\ \A r : ~Crash(r)
<1>1. \A k \in Trouble : ~Spend(k)
  BY DEF Spent, Spend
<1>2. \A k \in Trouble : left'[k] = left[k]
  <2>1. left \in [Kinds -> Nat]
    BY DEF TypeOK, WorldOK
  <2>2. ASSUME NEW k \in Trouble, NEW j \in Kinds, Spend(j)
        PROVE  left'[k] = left[k]
    BY <1>1, <2>1, <2>2 DEF Spend, Trouble, Kinds
  <2> QED
    BY <2>2, StepRepo
<1>3. "fault" \in Trouble /\ "crash" \in Trouble /\ "edit" \in Trouble
      /\ "team" \in Trouble
  BY DEF Trouble
<1>4. UNCHANGED <<file, members>>
  BY <1>1, <1>3, StepRepo DEF people
<1>5. /\ \A d, l : ~Fails(d, l)
      /\ \A d, l, m : Replies(d, l, m) => To(d, l)
      /\ \A d : ~Drop(d)
      /\ \A r : ~Crash(r)
  BY <1>1, <1>3 DEF Fails, Replies, Drop, Crash
<1> QED
  BY <1>2, <1>4, <1>5 DEF Spent

LEMMA CalmTypes ==
  ASSUME CalmInv
  PROVE  /\ PlacedInv /\ TypeOK /\ Placed /\ Unraised /\ Spent
         /\ \A d \in DOMAIN evt :
              /\ d \in Deliveries /\ ev[d] \in Locals /\ pr(d) \in PRs
              /\ author(d) \in Authors /\ evt[d] \in Event
              /\ ConfigBranch(pr(d)) \in Branches
              /\ pc[d] \notin Resting => at[d] \in Replicas
         /\ \A p \in PRs : /\ ConfigBranch(p) \in Branches
                           /\ head[p] \in Commits /\ Author[p] \in Authors
<1>1. PlacedInv /\ TypeOK /\ Placed /\ Unraised /\ Spent
  BY DEF CalmInv, TeamsInv, PlacedInv
<1>2. \A p \in PRs : /\ ConfigBranch(p) \in Branches
                     /\ head[p] \in Commits /\ Author[p] \in Authors
  BY <1>1, WorldType DEF ConfigBranch, TypeOK, WorldOK
<1>3. ASSUME NEW d \in DOMAIN evt
      PROVE  d \in Deliveries /\ evt[d] \in Event
  BY <1>1, RaisedType DEF TypeOK
<1>4. ASSUME NEW d \in DOMAIN evt
      PROVE  pr(d) \in PRs /\ ev[d] \in Locals
  BY <1>1, <1>3 DEF TypeOK, Event, pr
<1> QED
  BY <1>1, <1>2, <1>3, <1>4 DEF author, Placed

(* With the memberships in the teams the config names the verdict is the   *)
(* one on all memberships.                                                 *)
LEMMA RightVerdict ==
  ASSUME CalmInv, NEW d \in DOMAIN evt, NEW c \in Commits,
         ev[d].cfg = Current(pr(d)),
         ev[d].teams = members[author(d)] \intersect TeamHandles(ev[d].cfg)
  PROVE  Verdict(ev[d].cfg, c, author(d), ev[d].teams) = Right(pr(d), c)
<1>1. ev[d].cfg \in Configs /\ author(d) \in Authors
      /\ members[author(d)] \in SUBSET Teams
  BY CalmTypes DEF Locals, TypeOK, WorldOK
<1> QED
  BY <1>1, VerdictTeams DEF Right, author

LEMMA TeamsExact ==
  ASSUME CalmInv, Calm, NEW a \in Authors, NEW cfg \in Configs, NEW ts,
         Resolved(a, TeamHandles(cfg), ts)
  PROVE  ts = members[a] \intersect TeamHandles(cfg)
<1>1. TypeOK /\ HistoryInv
  BY CalmTypes DEF CalmInv, TeamsInv
<1>2. Steady
  BY DEF CalmInv, Steady, Spent, Calm, Trouble
<1>3. TeamHandles(cfg) \in SUBSET Teams
  BY TeamHandlesType
<1> QED
  BY <1>1, <1>2, <1>3, ResolvedSteady

-----------------------------------------------------------------------------
(* A call of evaluate keeps a delivery on course.                          *)
LEMMA GoOnCourse ==
  ASSUME TypeOK, NEW d \in Deliveries, NEW l, NEW e, Go(d, l, e),
         l \in Ended \/ OnCourse(d, l, e)
  PROVE  OnCourse(d, pc'[d], ev'[d])
<1>1. pc'[d] = l /\ ev'[d] = IF l \in Ended THEN NoLocals ELSE e
  BY DEF Go, TypeOK
<1>2. CASE l \in Ended
  BY <1>1, <1>2 DEF OnCourse, NoLocals, Ended, Judged, Onward, Listed, Decided
<1>3. CASE l \notin Ended
  BY <1>1, <1>3
<1> QED
  BY <1>2, <1>3

LEMMA EarlyOnCourse ==
  ASSUME CalmInv, Spent, [Next]_vars, NEW d \in DOMAIN evt,
         \/ lockPR(d) \/ cachedBotLogin(d) \/ loadConfig(d)
         \/ fetchConfig(d) \/ setConfig(d) \/ reportBadConfig(d)
  PROVE  OnCourse(d, pc'[d], ev'[d])
<1>d. /\ TypeOK /\ d \in Deliveries /\ ev[d] \in Locals /\ OnCourse(d, pc[d], ev[d])
      /\ \A l : ~Fails(d, l)
  BY CalmTypes, CalmSteps DEF CalmInv
<1>w. Before \intersect (Onward \union Judged) = {} /\ Ended \subseteq Before
  BY DEF Before, Ended, Judged, Onward, Listed, Decided
<1>to. ASSUME NEW l, To(d, l), pc[d] \in Before,
              l \in Ended \/ l \in {"config", "getFile"}
       PROVE  OnCourse(d, pc'[d], ev'[d])
  <2>1. l \in Ended \/ OnCourse(d, l, ev[d])
    BY <1>d, <1>w, <1>to DEF OnCourse, Before
  <2> QED
    BY <1>d, <1>to, <2>1, GoOnCourse DEF To
<1>cfg. ASSUME NEW l, NEW cfg, Go(d, l, [ev[d] EXCEPT !.cfg = cfg]),
               pc[d] \in Before, cfg = Current(pr(d)),
               l \in {"setConfig", "listFiles", "done"}
        PROVE  OnCourse(d, pc'[d], ev'[d])
  <2> DEFINE e == [ev[d] EXCEPT !.cfg = cfg]
  <2>1. e.files = ev[d].files /\ e.cfg = cfg
    BY <1>d DEF Locals
  <2>2. l \in Ended \/ OnCourse(d, l, e)
    BY <1>d, <1>w, <1>cfg, <2>1 DEF OnCourse, Before, Ended
  <2> HIDE DEF e
  <2>3. Go(d, l, e)
    BY <1>cfg DEF e
  <2> QED
    BY <1>d, <2>2, <2>3, GoOnCourse
<1>b. /\ {"lock", "bot", "config", "getFile", "setConfig", "badConfig"} \subseteq Before
      /\ {"done", "failed"} \subseteq Ended
      /\ \A cfg : Loaded(cfg) \in {"listFiles", "done"}
  BY DEF Before, Ended, Loaded
<1>1. CASE lockPR(d)
  <2>1. pc'[d] = "bot" /\ ev'[d] = ev[d] /\ pc[d] = "lock"
    BY <1>1, <1>d DEF lockPR, TypeOK
  <2> QED
    BY <1>d, <1>b, <1>w, <2>1 DEF OnCourse, Before
<1>2. CASE cachedBotLogin(d)
  BY <1>2, <1>to, <1>b DEF cachedBotLogin
<1>3. CASE loadConfig(d)
  <2>1. pc[d] = "config" /\ at[d] \in Replicas
    BY <1>3, CalmTypes DEF loadConfig, Resting, Ended
  <2>2. \A cfg \in configCache[at[d]][ConfigBranch(pr(d))] : cfg = Current(pr(d))
    BY <2>1, CalmTypes DEF CalmInv, CachesFresh, Current
  <2> QED
    BY <1>3, <1>to, <1>cfg, <1>b, <2>1, <2>2 DEF loadConfig
<1>4. CASE fetchConfig(d)
  <2>1. CASE Current(pr(d)) = BadFile /\ To(d, "badConfig")
    <3>1. OnCourse(d, "badConfig", ev[d])
      BY <1>4, <1>d, <1>w, <2>1 DEF fetchConfig, OnCourse, Before
    <3> QED
      BY <1>d, <2>1, <3>1, GoOnCourse DEF To
  <2>2. CASE Go(d, "setConfig", [ev[d] EXCEPT !.cfg = Current(pr(d))])
    BY <1>4, <1>cfg, <1>b, <2>2 DEF fetchConfig
  <2> QED
    BY <1>4, <1>d, <2>1, <2>2 DEF fetchConfig, Current
<1>5. CASE setConfig(d)
  <2>1. pc[d] = "setConfig" /\ To(d, Loaded(ev[d].cfg))
    BY <1>5 DEF setConfig
  <2>2. Loaded(ev[d].cfg) \in Ended \/ OnCourse(d, Loaded(ev[d].cfg), ev[d])
    BY <1>d, <1>b, <1>w, <2>1 DEF OnCourse, Before
  <2> QED
    BY <1>d, <2>1, <2>2, GoOnCourse DEF To
<1>6. CASE reportBadConfig(d)
  BY <1>6, <1>d, <1>to, <1>b DEF reportBadConfig, Replies
<1> QED
  BY <1>1, <1>2, <1>3, <1>4, <1>5, <1>6

LEMMA ListOnCourse ==
  ASSUME CalmInv, Spent, [Next]_vars, NEW d \in DOMAIN evt,
         ListChangedFiles(d) \/ resolveAuthorTeams(d)
  PROVE  /\ OnCourse(d, pc'[d], ev'[d])
         /\ pc'[d] \in {"listMore", "teams"}
         /\ ListChangedFiles(d) => ev'[d].files = ev[d].files \union {head[pr(d)]}
         /\ resolveAuthorTeams(d) => ev'[d].files = ev[d].files
<1>d. /\ TypeOK /\ d \in Deliveries /\ ev[d] \in Locals /\ OnCourse(d, pc[d], ev[d])
      /\ \A l : ~Fails(d, l)
  BY CalmTypes, CalmSteps DEF CalmInv
<1>1. ASSUME NEW l \in {"listMore", "teams"}, NEW e, Go(d, l, e), e.cfg = ev[d].cfg,
             pc[d] \in {"listFiles", "listMore", "teams"}
      PROVE  OnCourse(d, pc'[d], ev'[d]) /\ pc'[d] = l /\ ev'[d] = e
  <2>1. OnCourse(d, l, e)
    BY <1>d, <1>1 DEF OnCourse, Onward, Listed, Before, Judged, Ended
  <2>2. pc'[d] = l /\ ev'[d] = e
    BY <1>d, <1>1 DEF Go, TypeOK, Ended
  <2> QED
    BY <2>1, <2>2
<1>2. CASE ListChangedFiles(d)
  <2>1. PICK last \in BOOLEAN : listPage(d, last)
    BY <1>2 DEF ListChangedFiles
  <2> DEFINE e == [ev[d] EXCEPT !.files = @ \union {head[pr(d)]},
                                !.todo = TeamHandles(ev[d].cfg)]
             l == IF last THEN "teams" ELSE "listMore"
  <2>2. Go(d, l, e)
    BY <1>d, <2>1 DEF listPage
  <2>3. e.cfg = ev[d].cfg /\ e.files = ev[d].files \union {head[pr(d)]}
    BY <1>d DEF Locals
  <2>4. pc[d] \in {"listFiles", "listMore"}
    BY <1>2 DEF ListChangedFiles
  <2> HIDE DEF e
  <2> QED
    BY <1>1, <2>2, <2>3, <2>4 DEF resolveAuthorTeams
<1>3. CASE resolveAuthorTeams(d)
  <2>1. PICK t, b : Go(d, "teams", [ev[d] EXCEPT !.todo = @ \ {t},
                       !.teams = IF b THEN @ \union {t} ELSE @])
    BY <1>3, <1>d DEF resolveAuthorTeams
  <2> DEFINE e == [ev[d] EXCEPT !.todo = @ \ {t},
                                !.teams = IF b THEN @ \union {t} ELSE @]
  <2>2. e.cfg = ev[d].cfg /\ e.files = ev[d].files
    BY <1>d DEF Locals
  <2>3. pc[d] = "teams"
    BY <1>3 DEF resolveAuthorTeams
  <2> HIDE DEF e
  <2>4. Go(d, "teams", e)
    BY <2>1 DEF e
  <2> QED
    BY <1>1, <2>2, <2>3, <2>4 DEF ListChangedFiles
<1> QED
  BY <1>2, <1>3

(* A decision on one commit is the right one for it; only the engine's own *)
(* error ends the delivery here.                                           *)
LEMMA DecideOnCourse ==
  ASSUME CalmInv, Calm, [Next]_vars, NEW d \in DOMAIN evt, decide(d)
  PROVE  /\ OnCourse(d, pc'[d], ev'[d])
         /\ \/ pc'[d] = "check" /\ ev'[d].files = ev[d].files
            \/ /\ pc'[d] = "failed"
               /\ \A c \in Commits : ev[d].files = {c} => Right(pr(d), c) = "error"
<1>d. /\ TypeOK /\ d \in Deliveries /\ ev[d] \in Locals /\ OnCourse(d, pc[d], ev[d])
      /\ pc[d] = "teams" /\ ev[d].todo = {} /\ Membered(d, pc[d], ev[d])
      /\ author(d) \in Authors
  BY CalmTypes DEF CalmInv, TeamsInv, decide
<1>1. PICK v \in Decisions(d) :
        IF v = "error" THEN To(d, "failed")
                       ELSE Go(d, "check", [ev[d] EXCEPT !.verdict = v])
  BY DEF decide
<1>2. ASSUME NEW c \in Commits, ev[d].files = {c}
      PROVE  v = Right(pr(d), c)
  <2>1. ev[d].cfg = Current(pr(d))
    BY <1>d DEF OnCourse, Onward, Listed
  <2>2. ev[d].teams = members[author(d)] \intersect TeamHandles(ev[d].cfg)
    <3>1. TeamHandles(ev[d].cfg) \ ev[d].todo = TeamHandles(ev[d].cfg)
      BY <1>d
    <3>2. Resolved(author(d), TeamHandles(ev[d].cfg), ev[d].teams)
      BY <1>d, <3>1 DEF Membered
    <3> QED
      BY <1>d, <3>2, TeamsExact DEF Locals
  <2>3. Decisions(d) = {Verdict(ev[d].cfg, x, author(d), ev[d].teams) : x \in ev[d].files}
    BY <1>2 DEF Decisions
  <2>4. v = Verdict(ev[d].cfg, c, author(d), ev[d].teams)
    BY <1>2, <2>3
  <2> QED
    BY <2>1, <2>2, <2>4, RightVerdict
<1>3. CASE v = "error"
  <2>1. pc'[d] = "failed"
    BY <1>1, <1>3, <1>d DEF To, Go, TypeOK
  <2>2. OnCourse(d, pc'[d], ev'[d])
    BY <1>1, <1>3, <1>d, GoOnCourse DEF To, Ended
  <2> QED
    BY <1>2, <1>3, <2>1, <2>2
<1>4. CASE v # "error"
  <2> DEFINE e == [ev[d] EXCEPT !.verdict = v]
  <2>1. e.files = ev[d].files /\ e.cfg = ev[d].cfg /\ e.verdict = v
    BY <1>d DEF Locals
  <2>2. pc'[d] = "check" /\ ev'[d] = e
    BY <1>1, <1>4, <1>d DEF Go, TypeOK, Ended
  <2> HIDE DEF e
  <2>3. OnCourse(d, "check", e)
    BY <1>2, <1>4, <1>d, <2>1 DEF OnCourse, Onward, Listed, Before, Ended
  <2> QED
    BY <2>1, <2>2, <2>3
<1> QED
  BY <1>3, <1>4

(* Past the decision only the two ways act takes need a look.              *)
LEMMA LaterOnCourse ==
  ASSUME CalmInv, NEW d \in DOMAIN evt, Later(d),
         pc'[d] \in {"pullHead", "approve"} => ev'[d].verdict = "approve",
         pc'[d] = "dismiss" => ev'[d].verdict # "approve"
  PROVE  OnCourse(d, pc'[d], ev'[d])
<1>1. OnCourse(d, pc[d], ev[d])
  BY DEF CalmInv
<1> QED
  BY <1>1 DEF OnCourse, Later, Judged, Onward, Listed, Decided, Before, Ended

(* Where each call past the decision leads when it does not fail.          *)
LEMMA JudgedGoes ==
  ASSUME CalmInv, [Next]_vars, NEW d \in DOMAIN evt, evaluate(d)
  PROVE  /\ pc[d] = "check" => UpsertCheck(d) /\ pc'[d] = AfterCheck(ev[d].cfg)
         /\ pc[d] = "findApproval" =>
              /\ FindApproval(d)
              /\ \E i \in LastApproval(pr(d)) :
                   /\ pc'[d] = AfterFind(d, i)
                   /\ pc'[d] \notin Ended => ev'[d].found = i
         /\ pc[d] = "pullHead" =>
              /\ PullHeadSHA(d)
              /\ pc'[d] = IF head[pr(d)] = headSHA(d) THEN "approve"
                                                    ELSE AfterAct(ev[d].cfg)
         /\ pc[d] = "approve" => Approve(d) /\ pc'[d] = AfterApprove(ev[d].cfg)
         /\ pc[d] = "autoMerge" => EnableAutoMerge(d) /\ pc'[d] = AfterAct(ev[d].cfg)
         /\ pc[d] = "dismiss" =>
              /\ DismissReview(d)
              /\ pc'[d] = IF ev[d].found \in Approvals(pr(d))
                          THEN AfterAct(ev[d].cfg) ELSE "failed"
         /\ pc[d] = "listComments" =>
              /\ ListComments(d)
              /\ pc'[d] = IF comments[pr(d)] = << >> THEN "createComment"
                                                  ELSE "editComment"
         /\ pc[d] \in {"editComment", "createComment"} =>
              WriteComment(d) /\ pc'[d] = "done"
<1>d. /\ TypeOK /\ d \in Deliveries /\ ev[d] \in Locals
      /\ \A l : ~Fails(d, l)
      /\ \A l, m : Replies(d, l, m) => To(d, l)
  BY CalmTypes, CalmSteps
<1>g. \A l, e : Go(d, l, e) => pc'[d] = l /\ (l \notin Ended => ev'[d] = e)
  BY <1>d DEF Go, TypeOK
<1>to. \A l : To(d, l) => pc'[d] = l
  BY <1>g DEF To
<1> DEFINE Calls == \/ UpsertCheck(d) \/ FindApproval(d) \/ PullHeadSHA(d)
                    \/ Approve(d) \/ EnableAutoMerge(d) \/ DismissReview(d)
                    \/ ListComments(d) \/ WriteComment(d)
<1>c. pc[d] \in {"check", "findApproval", "pullHead", "approve", "autoMerge",
                "dismiss", "listComments", "editComment", "createComment"}
      => Calls
  BY DEF evaluate, lockPR, cachedBotLogin, loadConfig, fetchConfig, setConfig,
     reportBadConfig, ListChangedFiles, resolveAuthorTeams, decide
<1>p. /\ UpsertCheck(d) => pc[d] = "check"
      /\ FindApproval(d) => pc[d] = "findApproval"
      /\ PullHeadSHA(d) => pc[d] = "pullHead"
      /\ Approve(d) => pc[d] = "approve"
      /\ EnableAutoMerge(d) => pc[d] = "autoMerge"
      /\ DismissReview(d) => pc[d] = "dismiss"
      /\ ListComments(d) => pc[d] = "listComments"
      /\ WriteComment(d) => pc[d] \in {"editComment", "createComment"}
  BY DEF UpsertCheck, FindApproval, PullHeadSHA, Approve, EnableAutoMerge,
     DismissReview, ListComments, WriteComment
<1>1. CASE UpsertCheck(d)
  BY <1>1, <1>d, <1>to, <1>p DEF UpsertCheck
<1>2. CASE FindApproval(d)
  <2>1. PICK i \in LastApproval(pr(d)) :
          Go(d, AfterFind(d, i), [ev[d] EXCEPT !.found = i])
    BY <1>2, <1>d DEF FindApproval
  <2>2. [ev[d] EXCEPT !.found = i].found = i
    BY <1>d DEF Locals
  <2>3. pc'[d] = AfterFind(d, i) /\ (pc'[d] \notin Ended => ev'[d].found = i)
    BY <1>g, <2>1, <2>2
  <2> QED
    BY <1>2, <1>p, <2>3
<1>3. CASE PullHeadSHA(d)
  BY <1>3, <1>d, <1>to, <1>p DEF PullHeadSHA
<1>4. CASE Approve(d)
  BY <1>4, <1>d, <1>to, <1>p DEF Approve
<1>5. CASE EnableAutoMerge(d)
  BY <1>5, <1>d, <1>to, <1>p DEF EnableAutoMerge
<1>6. CASE DismissReview(d)
  BY <1>6, <1>d, <1>to, <1>p DEF DismissReview
<1>7. CASE ListComments(d)
  BY <1>7, <1>d, <1>to, <1>p DEF ListComments
<1>8. CASE WriteComment(d)
  BY <1>8, <1>d, <1>to, <1>p DEF WriteComment
<1> QED
  BY <1>1, <1>2, <1>3, <1>4, <1>5, <1>6, <1>7, <1>8, <1>c

LEMMA EvaluateOnCourse ==
  ASSUME CalmInv, Calm, [Next]_vars, NEW d \in DOMAIN evt, evaluate(d)
  PROVE  OnCourse(d, pc'[d], ev'[d])
<1>d. Spent /\ OnCourse(d, pc[d], ev[d])
  BY DEF CalmInv
<1>0. CASE Ends(d)
  BY <1>0 DEF Ends, OnCourse, NoLocals, Ended, Judged, Onward, Listed, Decided
<1>1. CASE \/ lockPR(d) \/ cachedBotLogin(d) \/ loadConfig(d)
           \/ fetchConfig(d) \/ setConfig(d) \/ reportBadConfig(d)
  BY <1>1, <1>d, EarlyOnCourse
<1>2. CASE ListChangedFiles(d) \/ resolveAuthorTeams(d)
  BY <1>2, <1>d, ListOnCourse
<1>3. CASE decide(d)
  BY <1>3, DecideOnCourse
<1>4. CASE Later(d)
  <2>1. pc[d] \in {"check", "findApproval", "pullHead", "approve", "autoMerge",
                  "dismiss", "listComments", "editComment", "createComment"}
    BY <1>4 DEF Later, Judged, Onward, Listed, Decided
  <2>2. \A cfg : /\ AfterCheck(cfg) \in {"listComments", "findApproval"}
                 /\ AfterAct(cfg) \in {"done", "listComments"}
                 /\ AfterApprove(cfg) \in {"done", "listComments", "autoMerge"}
    BY DEF AfterAct, AfterApprove, AfterCheck
  <2>3. \A i : /\ AfterFind(d, i) \in {"pullHead", "approve"} => ev[d].verdict = "approve"
               /\ AfterFind(d, i) = "dismiss" => ev[d].verdict # "approve"
    BY <2>2 DEF AfterFind
  <2>4. pc[d] = "pullHead" => ev[d].verdict = "approve"
    BY <1>d DEF OnCourse
  <2>5. /\ pc'[d] \in {"pullHead", "approve"} => ev[d].verdict = "approve"
        /\ pc'[d] = "dismiss" => ev[d].verdict # "approve"
    BY <2>1, <2>2, <2>3, <2>4, JudgedGoes
  <2> QED
    BY <1>4, <2>5, LaterOnCourse DEF Later
<1>5. CASE pc[d] \in Before /\ ~ListChangedFiles(d)
  <2>1. /\ resolveAuthorTeams(d) \/ decide(d) => pc[d] = "teams"
        /\ UpsertCheck(d) => pc[d] = "check"
        /\ FindApproval(d) => pc[d] = "findApproval"
        /\ PullHeadSHA(d) => pc[d] = "pullHead"
        /\ Approve(d) => pc[d] = "approve"
        /\ EnableAutoMerge(d) => pc[d] = "autoMerge"
        /\ DismissReview(d) => pc[d] = "dismiss"
        /\ ListComments(d) => pc[d] = "listComments"
        /\ WriteComment(d) => pc[d] \in {"editComment", "createComment"}
    BY DEF resolveAuthorTeams, decide, UpsertCheck, FindApproval, PullHeadSHA,
       Approve, EnableAutoMerge, DismissReview, ListComments, WriteComment
  <2> QED
    BY <1>1, <1>5, <2>1 DEF evaluate, Before, Ended
<1> QED
  BY <1>0, <1>2, <1>3, <1>4, <1>5, CalmTypes, EvaluateSplits DEF Earlier

-----------------------------------------------------------------------------
(* All of it stays so as long as nothing fails and nothing is edited.      *)
LEMMA StepOnCourse ==
  ASSUME CalmInv, Calm, [Next]_vars, NEW d \in DOMAIN evt
  PROVE  OnCourse(d, pc'[d], ev'[d])
<1>t. TypeOK /\ OnCourse(d, pc[d], ev[d])
  BY CalmTypes DEF CalmInv
<1>w. Before \intersect (Onward \union Judged) = {}
  BY DEF Before, Ended, Judged, Onward, Listed, Decided
<1>1. CASE pc[d] = "raised" /\ pc'[d] \in {"lock", "done", "lost"} /\ ev'[d] = ev[d]
  BY <1>t, <1>w, <1>1 DEF OnCourse, Before, Ended
<1>2. CASE pc'[d] = "lost" /\ ev'[d] = NoLocals
  BY <1>w, <1>2 DEF OnCourse, NoLocals, Before, Ended
<1> QED
  BY <1>t, <1>1, <1>2, StepOf, EvaluateOnCourse

LEMMA StepFresh ==
  ASSUME CalmInv, [Next]_vars
  PROVE  CachesFresh'
<1>t. /\ TypeOK /\ CachesFresh /\ file' = file
      /\ bot \in [Replicas -> {"unset", "ok", "err"}]
      /\ configCache \in [Replicas -> [Branches -> SUBSET Configs]]
  BY CalmTypes, CalmSteps DEF CalmInv, TypeOK
<1>0. CASE UNCHANGED <<bot, configCache>>
  BY <1>t, <1>0 DEF CachesFresh
<1>1. ASSUME NEW d \in DOMAIN evt, evaluate(d)
      PROVE  CachesFresh'
  <2>s. \A l : ~Fails(d, l)
    BY <1>t, CalmTypes, CalmSteps
  <2>1. CASE cachedBotLogin(d)
    <3>1. \/ configCache' = configCache /\ bot' = [bot EXCEPT ![at[d]] = "ok"]
          \/ UNCHANGED <<bot, configCache>>
      BY <2>1, CalmTypes DEF cachedBotLogin, Spend, Spent, Trouble
    <3> QED
      BY <1>0, <1>t, <3>1 DEF CachesFresh
  <2>2. CASE setConfig(d)
    <3>1. ev[d].cfg = file[ConfigBranch(pr(d))]
      BY <2>2 DEF CalmInv, OnCourse, setConfig, Current
    <3>2. /\ bot' = bot
          /\ configCache' = [configCache EXCEPT
               ![at[d]][ConfigBranch(pr(d))] = {file[ConfigBranch(pr(d))]}]
      BY <2>2, <3>1 DEF setConfig
    <3> QED
      BY <1>t, <3>2 DEF CachesFresh
  <2>3. CASE ~cachedBotLogin(d) /\ ~setConfig(d)
    BY <1>0, <1>1, <2>3, <2>s DEF evaluate, lockPR, loadConfig, fetchConfig,
       reportBadConfig, ListChangedFiles, listPage, resolveAuthorTeams, decide,
       UpsertCheck, FindApproval, PullHeadSHA, Approve, EnableAutoMerge,
       DismissReview, ListComments, WriteComment, caches
  <2> QED
    BY <2>1, <2>2, <2>3
<1>2. ASSUME NEW r \in Replicas, NEW b \in Branches, ExpireConfig(r, b)
      PROVE  CachesFresh'
  BY <1>2, <1>t DEF ExpireConfig, CachesFresh
<1>3. CASE Outside /\ UNCHANGED <<pc, at, ev, replica>>
  BY <1>0, <1>3 DEF replica
<1>4. CASE \E d \in DOMAIN evt, r \in Replicas : Receive(d, r)
  BY <1>0, <1>4 DEF Receive, replica
<1>5. CASE \/ \E r \in Replicas, t \in Teams, a \in Authors : ExpireTeam(r, t, a)
           \/ UNCHANGED vars
  BY <1>0, <1>5 DEF ExpireTeam, vars
<1>6. /\ \A d : ~Drop(d)
      /\ \A r : ~Crash(r)
  BY CalmTypes, CalmSteps
<1> QED
  BY <1>1, <1>2, <1>3, <1>4, <1>5, <1>6
  DEF Next, Process, Surroundings, Rest

LEMMA CalmInvInit ==
  ASSUME Calm
  PROVE  Init => CalmInv
<1> SUFFICES ASSUME Init PROVE CalmInv
  OBVIOUS
<1>1. TeamsInv /\ DOMAIN evt = {}
  BY TeamsInvInit DEF Init, WorldInit
<1>2. Spent
  BY DEF Calm, Spent, Init, WorldInit
<1>3. CachesFresh
  BY DEF Init, CachesFresh
<1>4. AllowedInv
  BY DEF Init, AllowedInv, Allowed, Evaluating, Acting, Listed, Decided
<1> QED
  BY <1>1, <1>2, <1>3, <1>4 DEF CalmInv

LEMMA CalmInvStep ==
  ASSUME Calm
  PROVE  CalmInv /\ [Next]_vars => CalmInv'
<1> SUFFICES ASSUME CalmInv, [Next]_vars PROVE CalmInv'
  OBVIOUS
<1>t. PlacedInv /\ TypeOK /\ Placed /\ Unraised /\ Spent /\ PlacedInv'
  BY CalmTypes, PlacedInvStep
<1>1. TeamsInv' /\ AllowedInv' /\ Spent' /\ CachesFresh'
  BY <1>t, TeamsInvStep, StepAllowed, CalmSteps, StepFresh DEF CalmInv
<1>2. EvtGrows /\ TypeOK'
  BY <1>t, StepGrows DEF PlacedInv
<1>3. ASSUME NEW d \in DOMAIN evt'
      PROVE  OnCourse(d, pc[d], ev[d])'
  <2>1. CASE d \in DOMAIN evt
    <3>1. OnCourse(d, pc'[d], ev'[d])
      BY <2>1, StepOnCourse
    <3>2. evt'[d] = evt[d] /\ file' = file /\ members' = members
      BY <1>2, <1>t, <2>1, CalmSteps DEF EvtGrows
    <3>3. pr(d)' = pr(d) /\ Current(pr(d))' = Current(pr(d))
          /\ \A c : Right(pr(d), c)' = Right(pr(d), c)
      BY <3>2 DEF pr, Right, Current, ConfigBranch
    <3> QED
      BY <3>1, <3>3 DEF OnCourse
  <2>2. CASE d \notin DOMAIN evt
    <3>1. d \in Deliveries \ DOMAIN evt
      BY <1>2, <1>3, <2>2, LenProperties, WorldType DEF TypeOK, WorldOK, Deliveries
    <3>2. pc'[d] = "raised" /\ ev'[d] = NoLocals
      BY <1>t, <3>1, PlacedStep DEF Fresh
    <3> QED
      BY <3>2 DEF OnCourse, NoLocals, Before, Judged, Onward, Listed, Decided
  <2> QED
    BY <2>1, <2>2
<1> QED
  BY <1>1, <1>3 DEF CalmInv

-----------------------------------------------------------------------------
(* Waiting on the live head of a PR.                                       *)
Early == {"raised", "lock", "bot", "config", "getFile", "setConfig", "listFiles"}

Hears(d) == Processed(evt[d]) /\ ~evt[d].draft /\ headSHA(d) = head[pr(d)]

(* A delivery of PR p's live head stands at one of the labels L.           *)
Pending(p, L) == \E d \in DOMAIN evt : pr(d) = p /\ Hears(d) /\ pc[d] \in L

(* PR p is as ready as it was, with the head and the approvals it had.     *)
Still(p) == /\ stage'[p] = stage[p] /\ head'[p] = head[p]
            /\ Approvals(p) \subseteq Approvals(p)'

LEMMA OthersStay ==
  ASSUME TypeOK, NEW c \in DOMAIN evt, NEW d \in DOMAIN evt, evaluate(c), c # d
  PROVE  pc'[d] = pc[d] /\ ev'[d] = ev[d]
<1>1. \E l, e : Moves(c, l, e)
  BY EvaluateMoves
<1> QED
  BY <1>1 DEF Moves, TypeOK

LEMMA CalmStepOf ==
  ASSUME CalmInv, [Next]_vars, NEW d \in DOMAIN evt
  PROVE  \/ pc'[d] = pc[d] /\ ev'[d] = ev[d]
         \/ evaluate(d)
         \/ \E r \in Replicas : Receive(d, r)
<1>t. /\ TypeOK /\ d \in Deliveries
      /\ \A c : ~Drop(c)
      /\ \A r : ~Crash(r)
  BY CalmTypes, CalmSteps
<1>1. ASSUME NEW c \in DOMAIN evt, evaluate(c), c # d
      PROVE  pc'[d] = pc[d] /\ ev'[d] = ev[d]
  BY <1>t, <1>1, OthersStay
<1>2. ASSUME NEW c \in DOMAIN evt, NEW r, Receive(c, r), c # d
      PROVE  pc'[d] = pc[d] /\ ev'[d] = ev[d]
  BY <1>t, <1>2 DEF Receive, TypeOK
<1>3. CASE Surroundings
  BY <1>t, <1>3 DEF Surroundings, ExpireConfig, ExpireTeam
<1>4. CASE UNCHANGED vars
  BY <1>4 DEF vars
<1> QED
  BY <1>1, <1>2, <1>3, <1>4 DEF Next, Process, Rest

(* A webhook of these actions about a ready PR is one prove processes.     *)
LEMMA Told ==
  ASSUME PlacedInv, TypeOK', [Next]_vars, NEW p \in PRs,
         NEW a \in {"opened", "synchronize", "ready_for_review", "dismissed"},
         Raise(Payload(a, p)), stage'[p] = "ready"
  PROVE  Pending(p, {"raised"})'
<1>t. TypeOK /\ Placed /\ Unraised /\ evt \in Seq(Event) /\ Len(evt) \in Nat
  BY DEF PlacedInv, TypeOK, WorldOK
<1>1. Payload(a, p) \in Event
  BY PayloadType DEF TypeOK, WorldOK, Actions
<1>2. PICK n \in Deliveries \ DOMAIN evt :
        n \in DOMAIN evt' /\ evt'[n] = Payload(a, p)
  <2>1. /\ Len(evt) + 1 \in DOMAIN evt' /\ evt'[Len(evt) + 1] = Payload(a, p)
        /\ Len(evt') <= MaxDeliveries /\ evt' \in Seq(Event)
    BY <1>1, <1>t, RaiseType
  <2>2. Len(evt) + 1 \in Deliveries \ DOMAIN evt
    BY <1>t, <2>1, LenProperties, WorldType DEF Deliveries
  <2> QED
    BY <2>1, <2>2
<1>3. pc'[n] = "raised"
  BY <1>t, PlacedStep DEF Fresh
<1>4. /\ evt'[n].action = a /\ evt'[n].pr = p /\ evt'[n].head = head'[p]
      /\ ~evt'[n].draft
  <2>1. LET e == Payload(a, p) IN
          e.action = a /\ e.pr = p /\ e.head = head'[p] /\ ~e.draft
    BY DEF Payload
  <2> QED
    BY <1>2, <2>1
<1>5. pr(n)' = p /\ Hears(n)'
  BY <1>4 DEF pr, Hears, headSHA, Processed, relevantPRAction
<1> QED
  BY <1>2, <1>3, <1>5 DEF Pending

(* Whatever else happens to a ready PR raises an event of its live head.   *)
LEMMA Announces ==
  ASSUME PlacedInv, TypeOK', [Next]_vars, NEW p \in PRs, stage'[p] = "ready",
         ~Still(p)
  PROVE  Pending(p, {"raised"})'
<1>t. TypeOK
  BY DEF PlacedInv
<1> DEFINE Same == stage'[p] = stage[p] /\ head'[p] = head[p] /\ reviews'[p] = reviews[p]
<1>s. ~Same
  BY DEF Still, Approvals
<1>1. ASSUME NEW q \in PRs, Open(q) \/ Push(q) \/ ReadyForReview(q)
      PROVE  Pending(p, {"raised"})'
  <2>1. p = q
    BY <1>1, <1>s, <1>t DEF Open, Push, ReadyForReview, TypeOK, WorldOK, traces
  <2> QED
    BY <1>1, <2>1, Told DEF Open, Push, ReadyForReview
<1>2. ASSUME NEW q \in PRs, HumanDismiss(q)
      PROVE  Pending(p, {"raised"})'
  <2>1. p = q
    BY <1>2, <1>s, <1>t DEF HumanDismiss, pulls, TypeOK, WorldOK
  <2> QED
    BY <1>2, <2>1, Told DEF HumanDismiss
<1>3. ASSUME NEW q \in PRs, ConvertToDraft(q)
      PROVE  FALSE
  <2>1. stage' = [stage EXCEPT ![q] = "draft"] /\ UNCHANGED <<head, reviews>>
    BY <1>3 DEF ConvertToDraft, traces
  <2> QED
    BY <2>1, <1>s, <1>t DEF TypeOK, WorldOK
<1>4. ASSUME NEW d \in DOMAIN evt, evaluate(d)
      PROVE  Pending(p, {"raised"})'
  <2>1. stage' = stage /\ head' = head
    BY <1>4, EvaluateWorld
  <2>d. d \in Deliveries /\ pr(d) \in PRs
    BY <1>t, RaisedType DEF TypeOK, Event, pr
  <2>2. CASE DismissReview(d)
    <3>1. reviews' # reviews
      BY <2>1, <1>s
    <3>2. /\ reviews' = [reviews EXCEPT ![pr(d)][ev[d].found].state = "DISMISSED"]
          /\ Raise(Payload("dismissed", pr(d)))
      BY <2>2, <3>1 DEF DismissReview, Fails, traces, world
    <3>3. p = pr(d)
      BY <1>s, <2>1, <1>t, <3>2 DEF TypeOK, WorldOK
    <3> QED
      BY <3>2, <3>3, Told
  <2>3. CASE Approve(d)
    <3>1. reviews' = reviews \/ reviews' = [reviews EXCEPT ![pr(d)] = Append(@, Granted(d))]
      BY <2>3 DEF Approve, Granted, Fails, traces
    <3>2. CASE reviews' = reviews
      BY <1>s, <2>1, <3>2
    <3>3. CASE reviews' = [reviews EXCEPT ![pr(d)] = Append(@, Granted(d))]
      <4>1. /\ \A q \in PRs : q # pr(d) => reviews'[q] = reviews[q]
            /\ \A i \in DOMAIN reviews[pr(d)] :
                 i \in DOMAIN reviews'[pr(d)] /\ reviews'[pr(d)][i] = reviews[pr(d)][i]
        BY <3>3, <1>t, GrantedLast
      <4>2. Approvals(p) \subseteq Approvals(p)'
        BY <4>1 DEF Approvals
      <4> QED
        BY <2>1, <4>2 DEF Still
    <3> QED
      BY <3>1, <3>2, <3>3
  <2>4. CASE ~DismissReview(d) /\ ~Approve(d)
    <3>1. reviews' = reviews
      BY <1>4, <2>4 DEF evaluate, lockPR, cachedBotLogin, loadConfig,
         fetchConfig, setConfig, reportBadConfig, ListChangedFiles, listPage,
         resolveAuthorTeams, decide, UpsertCheck, FindApproval, PullHeadSHA,
         EnableAutoMerge, ListComments, WriteComment, Fails, traces, world
    <3> QED
      BY <1>s, <2>1, <3>1
  <2> QED
    BY <2>2, <2>3, <2>4
<1>5. CASE \/ \E d \in DOMAIN evt, r \in Replicas : Receive(d, r)
           \/ \E d \in DOMAIN evt : Drop(d)
           \/ \E r \in Replicas :
                \/ Crash(r)
                \/ \E b \in Branches : ExpireConfig(r, b)
                \/ \E x \in Teams, a \in Authors : ExpireTeam(r, x, a)
           \/ EditConfig \/ ChangeTeams \/ Redeliver \/ UNCHANGED vars
  BY <1>5, <1>s DEF Receive, Drop, Crash, ExpireConfig, ExpireTeam, EditConfig,
     ChangeTeams, Redeliver, vars, world, pulls, traces
<1> QED
  BY <1>1, <1>2, <1>3, <1>4, <1>5
  DEF Next, Process, Surroundings, Outside, Rest

(* A delivery that heard of the live head keeps doing so while it lives.   *)
LEMMA StillPending ==
  ASSUME EvtGrows, NEW p, NEW L, NEW d \in DOMAIN evt, pr(d) = p, Hears(d),
         Still(p), pc'[d] \in L
  PROVE  Pending(p, L)'
<1>1. d \in DOMAIN evt' /\ evt'[d] = evt[d] /\ head'[pr(d)] = head[pr(d)]
  BY DEF EvtGrows, Still
<1>2. pr(d)' = pr(d) /\ Hears(d)'
  BY <1>1 DEF pr, Hears, headSHA
<1> QED
  BY <1>1, <1>2 DEF Pending

(* On an active PR it goes straight to listing that head's files.          *)
LEMMA Walk ==
  ASSUME CalmInv, [Next]_vars, NEW d \in DOMAIN evt, Hears(d),
         Active(pr(d)), pc[d] \in Early
  PROVE  /\ pc'[d] \in Early \union {"listMore", "teams"}
         /\ pc'[d] \in {"listMore", "teams"} => ev'[d].files = {head[pr(d)]}
<1>t. /\ TypeOK /\ d \in Deliveries /\ ev[d] \in Locals /\ OnCourse(d, pc[d], ev[d])
      /\ \A l : ~Fails(d, l)
      /\ Spent /\ CachesFresh /\ ConfigBranch(pr(d)) \in Branches
      /\ pc[d] \notin Resting => at[d] \in Replicas
  BY CalmTypes, CalmSteps DEF CalmInv
<1>e. ev[d].files = {}
  BY <1>t DEF OnCourse, Early, Before
<1>g. \A l, e : Go(d, l, e) => pc'[d] = l
  BY <1>t DEF Go, TypeOK
<1>to. \A l : To(d, l) => pc'[d] = l
  BY <1>g DEF To
<1>l. Loaded(Current(pr(d))) = "listFiles"
  BY DEF Loaded, Active
<1>1. CASE pc'[d] = pc[d] /\ ev'[d] = ev[d]
  BY <1>1 DEF Early
<1>2. CASE \E r \in Replicas : Receive(d, r)
  <2>1. pc'[d] = "lock"
    BY <1>2, <1>t DEF Receive, Hears, TypeOK
  <2> QED
    BY <2>1 DEF Early
<1>3. CASE lockPR(d)
  <2>1. pc'[d] = "bot"
    BY <1>3, <1>t DEF lockPR, TypeOK
  <2> QED
    BY <2>1 DEF Early
<1>4. CASE cachedBotLogin(d)
  <2>1. at[d] \in Replicas
    BY <1>4, <1>t DEF cachedBotLogin, Resting, Ended
  <2>2. ~Spend("fault") /\ bot[at[d]] # "err"
    BY <2>1, <1>t DEF Spent, Spend, Trouble, CachesFresh
  <2>3. To(d, "config")
    BY <1>4, <2>2 DEF cachedBotLogin
  <2> QED
    BY <2>3, <1>to DEF Early
<1>5. CASE loadConfig(d)
  <2>1. at[d] \in Replicas
    BY <1>5, <1>t DEF loadConfig, Resting, Ended
  <2>2. \A cfg \in configCache[at[d]][ConfigBranch(pr(d))] : cfg = Current(pr(d))
    BY <2>1, <1>t DEF CachesFresh, Current
  <2>3. pc'[d] \in {"listFiles", "getFile"}
    BY <1>5, <2>2, <1>g, <1>to, <1>l DEF loadConfig
  <2> QED
    BY <2>3 DEF Early
<1>6. CASE fetchConfig(d)
  <2>1. pc'[d] = "setConfig"
    BY <1>6, <1>t, <1>g DEF fetchConfig, Active, Current
  <2> QED
    BY <2>1 DEF Early
<1>7. CASE setConfig(d)
  <2>1. ev[d].cfg = Current(pr(d))
    BY <1>7, <1>t DEF setConfig, OnCourse
  <2>2. pc'[d] = "listFiles"
    BY <1>7, <2>1, <1>to, <1>l DEF setConfig
  <2> QED
    BY <2>2 DEF Early
<1>8. CASE ListChangedFiles(d)
  BY <1>8, <1>t, <1>e, ListOnCourse
<1>9. CASE evaluate(d)
  <2>1. /\ reportBadConfig(d) => pc[d] = "badConfig"
        /\ resolveAuthorTeams(d) \/ decide(d) => pc[d] = "teams"
        /\ UpsertCheck(d) => pc[d] = "check"
        /\ FindApproval(d) => pc[d] = "findApproval"
        /\ PullHeadSHA(d) => pc[d] = "pullHead"
        /\ Approve(d) => pc[d] = "approve"
        /\ EnableAutoMerge(d) => pc[d] = "autoMerge"
        /\ DismissReview(d) => pc[d] = "dismiss"
        /\ ListComments(d) => pc[d] = "listComments"
        /\ WriteComment(d) => pc[d] \in {"editComment", "createComment"}
    BY DEF reportBadConfig, resolveAuthorTeams, decide, UpsertCheck,
       FindApproval, PullHeadSHA, Approve, EnableAutoMerge, DismissReview,
       ListComments, WriteComment
  <2> QED
    BY <1>3, <1>4, <1>5, <1>6, <1>7, <1>8, <1>9, <2>1 DEF evaluate, Early
<1> QED
  BY <1>1, <1>2, <1>9, CalmStepOf

-----------------------------------------------------------------------------
(* What act makes of the live head.                                        *)
Settled(p) == /\ Proper(p) = "approve" => AtHead(p) # {}
              /\ Proper(p) = "reject"  => Approvals(p) = {}

LEMMA SameProper ==
  ASSUME CalmInv, [Next]_vars, NEW p \in PRs, head'[p] = head[p]
  PROVE  /\ Current(p)' = Current(p) /\ Proper(p)' = Proper(p)
         /\ stage'[p] = stage[p] => Active(p)' = Active(p)
<1>1. file' = file /\ members' = members
  BY CalmTypes, CalmSteps
<1>2. Current(p)' = Current(p)
  BY <1>1 DEF Current, ConfigBranch
<1>3. Proper(p)' = Proper(p)
  BY <1>1, <1>2 DEF Proper
<1>4. ASSUME stage'[p] = stage[p]
      PROVE  Active(p)' = Active(p)
  BY <1>2, <1>4 DEF Active, IsEnabled
<1> QED
  BY <1>2, <1>3, <1>4

LEMMA ProperVerdict ==
  ASSUME CalmInv, NEW d \in DOMAIN evt, pc[d] \in Judged,
         ev[d].files = {head[pr(d)]}
  PROVE  ev[d].verdict = Proper(pr(d)) /\ Proper(pr(d)) # "error"
<1>1. OnCourse(d, pc[d], ev[d]) /\ head[pr(d)] \in Commits
  BY CalmTypes DEF CalmInv
<1> QED
  BY <1>1 DEF OnCourse, Right, Proper

LEMMA StillApproved ==
  ASSUME TypeOK, [Next]_vars, NEW p \in PRs, Still(p), AtHead(p) # {}
  PROVE  AtHead(p)' # {}
<1>1. PICK i \in Approvals(p) : reviews[p][i].commit = head[p]
  BY DEF AtHead
<1>2. i \in Approvals(p)' /\ i \in DOMAIN reviews[p]
  BY DEF Still, Approvals
<1>3. reviews'[p][i].commit = reviews[p][i].commit
  <2>1. CASE OnlyDismissed
    BY <1>2, <2>1 DEF OnlyDismissed
  <2>2. CASE \E d \in DOMAIN evt :
               reviews' = [reviews EXCEPT ![pr(d)] = Append(@, Granted(d))]
    BY <1>2, <2>2, GrantedLast
  <2> QED
    BY <2>1, <2>2, StepReviews
<1> QED
  BY <1>1, <1>2, <1>3 DEF AtHead, Still

LEMMA Resolves ==
  ASSUME CalmInv, Calm, [Next]_vars, NEW d \in DOMAIN evt, evaluate(d),
         NEW p \in PRs, pr(d) = p, ev[d].files = {head[p]},
         pc[d] \in {"listMore", "teams"}
  PROVE  \/ pc'[d] \in {"listMore", "teams", "check"} /\ ev'[d].files = {head[p]}
         \/ Proper(p) = "error"
<1>t. Spent /\ head[p] \in Commits
  BY CalmTypes DEF CalmInv
<1>1. CASE ListChangedFiles(d) \/ resolveAuthorTeams(d)
  BY <1>t, <1>1, ListOnCourse
<1>2. CASE decide(d)
  <2>1. CASE pc'[d] = "check" /\ ev'[d].files = ev[d].files
    BY <2>1
  <2>2. CASE \A c \in Commits : ev[d].files = {c} => Right(p, c) = "error"
    BY <1>t, <2>2 DEF Right, Proper
  <2> QED
    BY <1>2, <2>1, <2>2, DecideOnCourse
<1> QED
  BY <1>1, <1>2 DEF evaluate, lockPR, cachedBotLogin, loadConfig, fetchConfig,
     setConfig, reportBadConfig, UpsertCheck, FindApproval, PullHeadSHA,
     Approve, EnableAutoMerge, DismissReview, ListComments, WriteComment

(* A delivery that listed just the live head, and was raised by it, gets   *)
(* on towards the right answer until it stands.                            *)
LEMMA Decides ==
  ASSUME CalmInv, Calm, [Next]_vars, NEW d \in DOMAIN evt, evaluate(d),
         NEW p \in PRs, pr(d) = p, headSHA(d) = head[p],
         ev[d].files = {head[p]}, ~Current(p).dry_run, pc[d] \in Listed
  PROVE  \/ /\ pc'[d] \in Judging /\ ev'[d].files = {head[p]}
            /\ Proper(p) = "approve" => pc'[d] \in Listed
         \/ Settled(p)'
<1>t. /\ TypeOK /\ d \in Deliveries /\ ev[d] \in Locals 
      /\ OnCourse(d, pc[d], ev[d]) /\ Spent /\ head[p] \in Commits
      /\ Current(p) = ev[d].cfg
  BY CalmTypes DEF CalmInv, OnCourse, Onward
<1>w. /\ head' = head /\ Proper(p)' = Proper(p)
  BY <1>t, EvaluateWorld, SameProper
<1>v. pc[d] \in Judged => ev[d].verdict = Proper(p) /\ Proper(p) # "error"
  BY ProperVerdict
<1>f. pc'[d] \in Judging /\ pc[d] \in Judged => ev'[d].files = ev[d].files
  <2>1. /\ ListChangedFiles(d) => pc[d] \in Before \union {"listMore"}
        /\ resolveAuthorTeams(d) \/ decide(d) => pc[d] = "teams"
    BY DEF ListChangedFiles, resolveAuthorTeams, decide, Before
  <2>2. /\ Judging \intersect Ended = {}
        /\ Judged \intersect (Before \union {"listMore", "teams"}) = {}
    BY DEF Judging, Judged, Onward, Listed, Decided, Ended, Before
  <2> QED
    BY <1>t, <2>1, <2>2, EvaluateSplits DEF Ends, Earlier, Later
<1>1. CASE pc[d] \in {"listMore", "teams"}
  BY <1>w, <1>1, Resolves DEF Settled, Judging, Listed, Decided
<1>2. CASE pc[d] = "check"
  <2>1. pc'[d] = "findApproval"
    BY <1>2, <1>t, JudgedGoes DEF AfterCheck
  <2> QED
    BY <1>2, <1>f, <2>1 DEF Judging, Judged, Onward, Listed, Decided
<1>3. CASE pc[d] = "findApproval"
  <2>1. PICK i \in LastApproval(p) : pc'[d] = AfterFind(d, i)
    BY <1>3, JudgedGoes
  <2>2. UNCHANGED reviews
    BY <1>3, JudgedGoes DEF FindApproval, Fails, traces, world
  <2>3. pc[d] \in Judged
    BY <1>3 DEF Judged, Onward, Listed, Decided
  <2>4. reviews[p] \in Seq(Review)
    BY <1>t DEF TypeOK, WorldOK
  <2>5. i # 0 => i \in Approvals(p)
    BY DEF LastApproval
  <2>6. i = 0 => Approvals(p) = {}
    <3>1. 0 \notin Approvals(p)
      BY <2>4, LenProperties DEF Approvals
    <3> QED
      BY <3>1 DEF LastApproval
  <2>7. Approvals(p)' = Approvals(p)
    BY <2>2 DEF Approvals
  <2>8. CASE Proper(p) = "approve" /\ ~ApprovedHead(d, i)
    <3>1. pc'[d] = "pullHead"
      BY <1>v, <2>1, <2>3, <2>8 DEF AfterFind
    <3> QED
      BY <1>f, <2>3, <3>1 DEF Judging, Listed, Decided
  <2>9. CASE Proper(p) = "approve" /\ ApprovedHead(d, i)
    <3>1. i \in AtHead(p)
      BY <2>5, <2>9 DEF ApprovedHead, AtHead
    <3>2. AtHead(p)' # {}
      BY <3>1, <1>w, <2>2 DEF AtHead, Approvals
    <3> QED
      BY <1>w, <2>9, <3>2 DEF Settled
  <2>10. CASE Proper(p) # "approve" /\ i # 0
    <3>1. pc'[d] = "dismiss"
      BY <1>v, <2>1, <2>3, <2>10 DEF AfterFind
    <3> QED
      BY <1>f, <2>3, <2>10, <3>1 DEF Judging
  <2>11. CASE Proper(p) # "approve" /\ i = 0
    <3>1. Settled(p)'
      BY <1>w, <2>6, <2>2, <2>11 DEF Settled, Approvals
    <3> QED
      BY <3>1
  <2> QED
    BY <2>8, <2>9, <2>10, <2>11
<1>4. CASE pc[d] = "pullHead"
  <2>1. pc'[d] = "approve"
    BY <1>4, JudgedGoes
  <2> QED
    BY <1>4, <1>f, <2>1 DEF Judging, Judged, Onward, Listed, Decided
<1>5. CASE pc[d] = "approve"
  <2>1. Approve(d) /\ \A l : ~Fails(d, l)
    BY <1>5, <1>t, JudgedGoes, CalmSteps
  <2>2. reviews' = [reviews EXCEPT ![p] = Append(@, Granted(d))]
    BY <2>1 DEF Approve, Granted
  <2>3. PICK n : n \in DOMAIN reviews'[p] /\ reviews'[p][n] = Granted(d)
    BY <1>t, <2>2, GrantedLast
  <2>4. n \in Approvals(p)' /\ reviews'[p][n].commit = head[p]
    BY <2>3 DEF Approvals, Granted
  <2>5. AtHead(p)' # {}
    BY <2>4, <1>w DEF AtHead
  <2>6. Proper(p) = "approve"
    BY <1>5, <1>v, <1>t DEF OnCourse, Judged, Onward, Listed, Decided
  <2> QED
    BY <1>w, <2>5, <2>6 DEF Settled
<1> QED
  BY <1>1, <1>2, <1>3, <1>4, <1>5 DEF Listed, Decided

-----------------------------------------------------------------------------
(* The live head is answered, with any number of replicas.                 *)
HeadDue(p) ==
  Active(p) /\ ~Current(p).dry_run /\ Proper(p) = "approve" =>
    AtHead(p) # {} \/ Pending(p, Early \union Listed)

(* While the config stays, every review was granted under it.              *)
GrantedNow ==
  \A p \in PRs : \A i \in DOMAIN reviews[p] : reviews[p][i].cfg = Current(p)

HeadInv == /\ CalmInv /\ ApprovalInv /\ GrantedNow
           /\ \A p \in PRs : HeadDue(p)

(* Without rewinds the files of a delivery for the live head are that      *)
(* head's.                                                                 *)
LEMMA ListedHead ==
  ASSUME ApprovalInv, NEW d \in DOMAIN evt, Hears(d), pc[d] \in Listed,
         pr(d) \in PRs
  PROVE  ev[d].files = {head[pr(d)]}
<1>1. ListedLater(d, pc[d], ev[d]) /\ headSHA(d) = head[pr(d)]
      /\ head[pr(d)] \notin past[pr(d)]
  BY DEF ApprovalInv, Sound, Hears, HeadsMoveOn
<1> QED
  BY <1>1 DEF ListedLater

LEMMA StepHeadDue ==
  ASSUME CalmInv, Calm, ApprovalInv, [Next]_vars, TypeOK', EvtGrows,
         NEW p \in PRs, HeadDue(p)
  PROVE  HeadDue(p)'
<1>t. PlacedInv /\ TypeOK
  BY CalmTypes
<1> SUFFICES ASSUME Active(p)', (~Current(p).dry_run)', (Proper(p) = "approve")'
             PROVE  AtHead(p)' # {} \/ Pending(p, Early \union Listed)'
  BY DEF HeadDue
<1>1. CASE ~Still(p)
  <2>1. Pending(p, {"raised"})'
    BY <1>t, <1>1, Announces DEF Active
  <2> QED
    BY <2>1 DEF Pending, Early
<1>2. CASE Still(p)
  <2>1. Active(p) /\ ~Current(p).dry_run /\ Proper(p) = "approve"
    BY <1>2, SameProper DEF Still
  <2>2. CASE AtHead(p) # {}
    BY <1>2, <1>t, <2>2, StillApproved
  <2>3. ASSUME NEW d \in DOMAIN evt, pr(d) = p, Hears(d), pc[d] \in Early \union Listed
        PROVE  AtHead(p)' # {} \/ Pending(p, Early \union Listed)'
    <3>1. CASE pc'[d] \in Early \union Listed
      BY <1>2, <2>3, <3>1, StillPending
    <3>2. CASE pc[d] \in Early
      <4>1. pc'[d] \in Early \union Listed
        BY <2>1, <2>3, <3>2, Walk DEF Listed
      <4> QED
        BY <3>1, <4>1
    <3>3. CASE pc[d] \in Listed /\ evaluate(d)
      <4>1. headSHA(d) = head[p] /\ ev[d].files = {head[p]}
        BY <2>3, <3>3, ListedHead DEF Hears
      <4>2. CASE pc'[d] \in Listed
        BY <3>1, <4>2
      <4>3. CASE Settled(p)'
        BY <4>3 DEF Settled
      <4> QED
        BY <2>1, <2>3, <3>3, <4>1, <4>2, <4>3, Decides
    <3>4. ASSUME NEW r, Receive(d, r)
          PROVE  pc[d] \in Early
      BY <3>4 DEF Receive, Early
    <3> QED
      BY <2>3, <3>1, <3>2, <3>3, <3>4, CalmStepOf
  <2> QED
    BY <2>1, <2>2, <2>3 DEF HeadDue, Pending
<1> QED
  BY <1>1, <1>2

LEMMA StepGrantedNow ==
  ASSUME CalmInv, [Next]_vars, GrantedNow
  PROVE  GrantedNow'
<1>t. TypeOK /\ file' = file
  BY CalmTypes, CalmSteps
<1>1. \A p : Current(p)' = Current(p)
  BY <1>t DEF Current, ConfigBranch
<1>2. CASE OnlyDismissed
  <2>1. \A p \in PRs : \A i \in DOMAIN reviews'[p] : reviews'[p][i].cfg = Current(p)
    BY <1>2 DEF OnlyDismissed, GrantedNow
  <2> QED
    BY <1>1, <2>1 DEF GrantedNow
<1>3. ASSUME NEW d \in DOMAIN evt, Approve(d),
             reviews' = [reviews EXCEPT ![pr(d)] = Append(@, Granted(d))]
      PROVE  GrantedNow'
  <2>1. Granted(d).cfg = Current(pr(d))
    BY <1>3 DEF CalmInv, OnCourse, Approve, Granted, Onward, Listed, Decided
  <2>2. \A p \in PRs : p # pr(d) => reviews'[p] = reviews[p]
    BY <1>3, <1>t, GrantedLast
  <2>3. PICK n \in Nat :
          /\ DOMAIN reviews'[pr(d)] = DOMAIN reviews[pr(d)] \union {n}
          /\ \A i \in DOMAIN reviews[pr(d)] :
               i \in Nat /\ i < n /\ reviews'[pr(d)][i] = reviews[pr(d)][i]
          /\ reviews'[pr(d)][n] = Granted(d)
    BY <1>3, <1>t, GrantedLast
  <2>4. \A p \in PRs : \A i \in DOMAIN reviews'[p] : reviews'[p][i].cfg = Current(p)
    BY <2>1, <2>2, <2>3 DEF GrantedNow
  <2> QED
    BY <1>1, <2>4 DEF GrantedNow
<1> QED
  BY <1>t, <1>2, <1>3, StepReviews

LEMMA HeadInvStep ==
  ASSUME ~Rewind, Calm
  PROVE  HeadInv /\ [Next]_vars => HeadInv'
<1> SUFFICES ASSUME HeadInv, [Next]_vars PROVE HeadInv'
  OBVIOUS
<1>1. CalmInv /\ ApprovalInv /\ GrantedNow /\ CalmInv' /\ ApprovalInv'
  BY CalmInvStep, ApprovalInvStep DEF HeadInv
<1>2. GrantedNow'
  BY <1>1, StepGrantedNow
<1>3. TypeOK /\ TypeOK'
  BY <1>1 DEF ApprovalInv
<1>4. EvtGrows
  BY <1>3, StepGrows
<1>5. \A p \in PRs : HeadDue(p)'
  BY <1>1, <1>3, <1>4, StepHeadDue DEF HeadInv
<1> QED
  BY <1>1, <1>2, <1>5 DEF HeadInv

LEMMA NothingActive ==
  ASSUME Init
  PROVE  \A p \in PRs : ~Active(p)
BY DEF Init, WorldInit, Active

LEMMA HeadInvInit ==
  ASSUME Calm
  PROVE  Init => HeadInv
<1> SUFFICES ASSUME Init PROVE HeadInv
  OBVIOUS
<1>1. CalmInv /\ ApprovalInv
  BY CalmInvInit, ApprovalInvInit
<1>2. GrantedNow
  BY DEF Init, WorldInit, GrantedNow
<1> QED
  BY <1>1, <1>2, NothingActive DEF HeadInv, HeadDue

LEMMA NothingPending ==
  ASSUME Quiet, NEW p, NEW L, L \intersect Ended = {}
  PROVE  ~Pending(p, L)
BY DEF Quiet, Pending

(* A standing approval of the live head is one the current config grants.  *)
LEMMA HeadGranted ==
  ASSUME CalmInv, Calm, ApprovalInv, GrantedNow, NEW p \in PRs, AtHead(p) # {}
  PROVE  Proper(p) = "approve"
<1>1. PICK i \in DOMAIN reviews[p] : reviews[p][i].commit = head[p]
  BY DEF AtHead, Approvals
<1> DEFINE v == reviews[p][i]
<1>2. /\ v.cfg = Current(p) /\ v.cfg \in Configs
      /\ head[p] \in Commits /\ Author[p] \in Authors
      /\ members[Author[p]] \in SUBSET Teams
  <2>1. v \in Review
    BY CalmTypes, ElementOfSeq, LenProperties DEF TypeOK, WorldOK
  <2> QED
    BY <2>1, CalmTypes DEF GrantedNow, Review, TypeOK, WorldOK
<1>3. v.teams = members[Author[p]] \intersect TeamHandles(v.cfg)
  <2>1. Resolved(Author[p], TeamHandles(v.cfg), v.teams)
    BY DEF CalmInv, TeamsInv, OwnTeams
  <2> HIDE DEF v
  <2> QED
    BY <1>2, <2>1, TeamsExact
<1>4. Verdict(v.cfg, v.commit, Author[p], v.teams) = "approve"
  BY DEF ApprovalInv, ApprovedWasInspected
<1> HIDE DEF v
<1>5. v.commit = head[p]
  BY <1>1 DEF v
<1> QED
  BY <1>2, <1>3, <1>4, <1>5, VerdictTeams DEF Proper

(* HeadSettles: with any number of replicas and every order of events, the *)
(* live head of a PR is left with the right answer when nothing fails, no  *)
(* config or team is edited, and no push returns to a former head.         *)
THEOREM HeadsSettle ==
  ASSUME ~Rewind, Calm
  PROVE  Spec => []HeadSettles
<1>1. HeadInv => HeadSettles
  <2> SUFFICES ASSUME HeadInv, Quiet, NEW p \in PRs, Active(p),
                      ~Current(p).dry_run
               PROVE  /\ Proper(p) = "approve" => AtHead(p) # {}
                      /\ Proper(p) = "reject"  => AtHead(p) = {}
    BY DEF HeadSettles
  <2>1. (Early \union Listed) \intersect Ended = {}
    BY DEF Early, Listed, Decided, Ended
  <2>2. Proper(p) = "approve" => AtHead(p) # {}
    BY <2>1, NothingPending DEF HeadInv, HeadDue
  <2>3. AtHead(p) # {} => Proper(p) = "approve"
    BY HeadGranted DEF HeadInv
  <2> QED
    BY <2>2, <2>3
<1> QED
  BY <1>1, HeadInvInit, HeadInvStep, PTL DEF Spec

-----------------------------------------------------------------------------
(* The check run on the live head.  No two PRs share a commit: a check run *)
(* belongs to the commit, and would be the last one's that wrote it.       *)
OwnCommits == \A p, q \in PRs : p # q => Series[p] \intersect Series[q] = {}

SeriesInv ==
  /\ \A p \in PRs : head[p] \in Series[p]
  /\ \A d \in DOMAIN evt : headSHA(d) \in Series[pr(d)]

CheckDue(p) ==
  Active(p) /\ Proper(p) # "error" =>
    \/ checks[head[p]] = Conclusion(Proper(p))
    \/ Pending(p, Early \union {"listMore", "teams", "check"})

CheckInv == /\ CalmInv /\ ApprovalInv /\ SeriesInv
            /\ \A p \in PRs : CheckDue(p)

LEMMA StepSeries ==
  ASSUME TypeOK, [Next]_vars, EvtGrows, SeriesInv
  PROVE  SeriesInv'
<1>1. \A p \in PRs : head'[p] \in Series[p]
  <2>1. ASSUME NEW q \in PRs, Push(q)
        PROVE  \A p \in PRs : head'[p] \in Series[p]
    BY <2>1 DEF Push, SeriesInv, TypeOK, WorldOK
  <2>2. CASE head' = head
    BY <2>2 DEF SeriesInv
  <2>3. ASSUME NEW q \in PRs, \/ Open(q) \/ HumanDismiss(q)
                              \/ ConvertToDraft(q) \/ ReadyForReview(q)
        PROVE  head' = head
    BY <2>3 DEF Open, HumanDismiss, ConvertToDraft, ReadyForReview, pulls
  <2>4. CASE EditConfig \/ ChangeTeams \/ Redeliver
    BY <2>2, <2>4 DEF EditConfig, ChangeTeams, Redeliver, pulls
  <2>5. CASE Outside
    BY <2>1, <2>2, <2>3, <2>4, <2>5 DEF Outside
  <2>6. CASE ~Outside
    BY <2>2, <2>6, EvaluateWorld DEF Next, Process, Receive, Surroundings,
       Drop, Crash, ExpireConfig, ExpireTeam, Rest, vars, world, pulls
  <2> QED
    BY <2>5, <2>6
<1>2. \A d \in DOMAIN evt' : evt'[d].head \in Series[evt'[d].pr]
  <2>1. ASSUME NEW d \in DOMAIN evt
        PROVE  evt'[d].head \in Series[evt'[d].pr]
    BY <2>1 DEF EvtGrows, SeriesInv, headSHA, pr
  <2>2. ASSUME NEW d \in DOMAIN evt' \ DOMAIN evt
        PROVE  evt'[d].head \in Series[evt'[d].pr]
    <3>1. evt'[d].pr \in PRs
      BY DEF EvtGrows, Event
    <3>2. CASE evt'[d].head = head'[evt'[d].pr]
      BY <1>1, <3>1, <3>2
    <3>3. CASE \E c \in DOMAIN evt : evt'[d] = evt[c]
      BY <3>3 DEF SeriesInv, headSHA, pr
    <3> QED
      BY <3>2, <3>3 DEF EvtGrows
  <2> QED
    BY <2>1, <2>2
<1> QED
  BY <1>1, <1>2 DEF SeriesInv, headSHA, pr

LEMMA StepChecks ==
  ASSUME CalmInv, [Next]_vars
  PROVE  \/ UNCHANGED checks
         \/ \E c \in DOMAIN evt :
              /\ evaluate(c)
              /\ \/ /\ pc[c] = "badConfig"
                    /\ checks' = [checks EXCEPT ![headSHA(c)] = "neutral"]
                 \/ /\ pc[c] = "check"
                    /\ checks' = [checks EXCEPT ![headSHA(c)] =
                                    Conclusion(ev[c].verdict)]
<1>1. ASSUME NEW c \in DOMAIN evt, evaluate(c), checks' # checks
      PROVE  \/ /\ pc[c] = "badConfig"
                /\ checks' = [checks EXCEPT ![headSHA(c)] = "neutral"]
             \/ /\ pc[c] = "check"
                /\ checks' = [checks EXCEPT ![headSHA(c)] =
                                Conclusion(ev[c].verdict)]
  <2>1. \A l : ~Fails(c, l)
    BY CalmTypes, CalmSteps
  <2>2. CASE reportBadConfig(c) \/ UpsertCheck(c)
    BY <2>1, <2>2 DEF reportBadConfig, UpsertCheck
  <2>3. CASE ~(reportBadConfig(c) \/ UpsertCheck(c))
    BY <1>1, <2>1, <2>3 DEF evaluate, lockPR, cachedBotLogin, loadConfig,
       fetchConfig, setConfig, ListChangedFiles, listPage, resolveAuthorTeams,
       decide, FindApproval, PullHeadSHA, Approve, EnableAutoMerge,
       DismissReview, ListComments, WriteComment, traces, world
  <2> QED
    BY <2>2, <2>3
<1>2. CASE \/ Surroundings \/ UNCHANGED vars
           \/ \E d \in DOMAIN evt, r \in Replicas : Receive(d, r)
  BY <1>2 DEF Surroundings, Outside, Open, Push, HumanDismiss, ConvertToDraft,
     ReadyForReview, EditConfig, ChangeTeams, Redeliver, Drop, Crash,
     ExpireConfig, ExpireTeam, Receive, vars, world, traces
<1> QED
  BY <1>1, <1>2 DEF Next, Process, Rest

(* Only a delivery of PR p writes on its live head, and it writes what is  *)
(* right.                                                                  *)
LEMMA WritesRight ==
  ASSUME CalmInv, ApprovalInv, SeriesInv, OwnCommits, NEW p \in PRs, Active(p),
         NEW c \in DOMAIN evt, headSHA(c) = head[p],
         pc[c] \in {"badConfig", "check"}
  PROVE  pc[c] = "check" /\ pr(c) = p /\ ev[c].verdict = Proper(p)
<1>1. pr(c) = p
  BY CalmTypes DEF OwnCommits, SeriesInv
<1>2. pc[c] = "check"
  BY <1>1 DEF CalmInv, OnCourse, Active
<1>3. ListedLater(c, pc[c], ev[c]) /\ head[p] \notin past[p]
  BY DEF ApprovalInv, Sound, HeadsMoveOn
<1>4. ev[c].files = {head[p]}
  BY <1>1, <1>2, <1>3 DEF ListedLater, Listed, Decided
<1> QED
  BY <1>1, <1>2, <1>4, ProperVerdict DEF Judged, Onward, Listed, Decided

LEMMA StepCheckDue ==
  ASSUME CalmInv, Calm, ApprovalInv, SeriesInv, OwnCommits, [Next]_vars,
         TypeOK', EvtGrows, NEW p \in PRs, CheckDue(p)
  PROVE  CheckDue(p)'
<1> DEFINE L == Early \union {"listMore", "teams", "check"}
<1>t. PlacedInv /\ TypeOK /\ checks \in [Commits -> Conclusions]
      /\ head[p] \in Commits
  BY CalmTypes DEF TypeOK, WorldOK
<1> SUFFICES ASSUME Active(p)', (Proper(p) # "error")'
             PROVE  (checks[head[p]] = Conclusion(Proper(p)))' \/ Pending(p, L)'
  BY DEF CheckDue
<1>1. CASE ~Still(p)
  <2>1. Pending(p, {"raised"})'
    BY <1>t, <1>1, Announces DEF Active
  <2> QED
    BY <2>1 DEF Pending, Early
<1>2. CASE Still(p)
  <2>1. /\ Active(p) /\ Proper(p) # "error" /\ head'[p] = head[p]
        /\ Proper(p)' = Proper(p)
    BY <1>2, SameProper DEF Still
  <2>2. CASE checks[head[p]] = Conclusion(Proper(p))
    <3>1. checks'[head[p]] = checks[head[p]] \/ checks'[head[p]] = Conclusion(Proper(p))
      BY <1>t, <2>1, StepChecks, WritesRight
    <3> QED
      BY <2>1, <2>2, <3>1
  <2>3. ASSUME NEW d \in DOMAIN evt, pr(d) = p, Hears(d), pc[d] \in L
        PROVE  (checks[head[p]] = Conclusion(Proper(p)))' \/ Pending(p, L)'
    <3>1. CASE pc'[d] \in L
      BY <1>2, <2>3, <3>1, StillPending
    <3>2. CASE pc[d] \in Early
      <4>1. pc'[d] \in L
        BY <2>1, <2>3, <3>2, Walk
      <4> QED
        BY <3>1, <4>1
    <3>3. CASE pc[d] \in {"listMore", "teams"} /\ evaluate(d)
      <4>1. ev[d].files = {head[p]}
        BY <2>3, <3>3, ListedHead DEF Listed
      <4>2. pc'[d] \in L
        BY <2>1, <2>3, <3>3, <4>1, Resolves
      <4> QED
        BY <3>1, <4>2
    <3>4. CASE pc[d] = "check" /\ evaluate(d)
      <4>1. UpsertCheck(d) /\ \A l : ~Fails(d, l)
        BY <3>4, JudgedGoes, CalmTypes, CalmSteps
      <4>2. checks' = [checks EXCEPT ![headSHA(d)] = Conclusion(ev[d].verdict)]
        BY <4>1 DEF UpsertCheck
      <4>3. headSHA(d) = head[p]
        BY <2>3 DEF Hears
      <4>4. ev[d].verdict = Proper(p)
        BY <2>1, <3>4, <4>3, WritesRight
      <4> QED
        BY <1>t, <2>1, <4>2, <4>3, <4>4
    <3>5. ASSUME NEW r, Receive(d, r)
          PROVE  pc[d] \in Early
      BY <3>5 DEF Receive, Early
    <3> QED
      BY <2>3, <3>1, <3>2, <3>3, <3>4, <3>5, CalmStepOf
  <2> QED
    BY <2>1, <2>2, <2>3 DEF CheckDue, Pending
<1> QED
  BY <1>1, <1>2

LEMMA CheckInvStep ==
  ASSUME ~Rewind, Calm, OwnCommits
  PROVE  CheckInv /\ [Next]_vars => CheckInv'
<1> SUFFICES ASSUME CheckInv, [Next]_vars PROVE CheckInv'
  OBVIOUS
<1>1. CalmInv /\ ApprovalInv /\ SeriesInv /\ CalmInv' /\ ApprovalInv'
  BY CalmInvStep, ApprovalInvStep DEF CheckInv
<1>2. TypeOK /\ TypeOK'
  BY <1>1 DEF ApprovalInv
<1>3. EvtGrows
  BY <1>2, StepGrows
<1>4. SeriesInv'
  BY <1>1, <1>2, <1>3, StepSeries
<1>5. \A p \in PRs : CheckDue(p)'
  BY <1>1, <1>2, <1>3, StepCheckDue DEF CheckInv
<1> QED
  BY <1>1, <1>4, <1>5 DEF CheckInv

LEMMA CheckInvInit ==
  ASSUME Calm
  PROVE  Init => CheckInv
<1> SUFFICES ASSUME Init PROVE CheckInv
  OBVIOUS
<1>1. CalmInv /\ ApprovalInv
  BY CalmInvInit, ApprovalInvInit
<1>2. SeriesInv
  BY DEF Init, WorldInit, SeriesInv
<1> QED
  BY <1>1, <1>2, NothingActive DEF CheckInv, CheckDue

(* CheckSettles: in whatever order the deliveries of older heads arrive,   *)
(* the check run on the live head ends up reporting the decision on it.    *)
THEOREM ChecksSettle ==
  ASSUME ~Rewind, Calm, OwnCommits
  PROVE  Spec => []CheckSettles
<1>1. CheckInv => CheckSettles
  <2> SUFFICES ASSUME CheckInv, Quiet, NEW p \in PRs, Active(p),
                      Proper(p) # "error"
               PROVE  checks[head[p]] = Conclusion(Proper(p))
    BY DEF CheckSettles
  <2>1. (Early \union {"listMore", "teams", "check"}) \intersect Ended = {}
    BY DEF Early, Ended
  <2> QED
    BY <2>1, NothingPending DEF CheckInv, CheckDue
<1> QED
  BY <1>1, CheckInvInit, CheckInvStep, PTL DEF Spec

-----------------------------------------------------------------------------
(* One replica, rewinds included: approvals of former heads and the status *)
(* comment.  A delivery that goes by the files of another head, or is      *)
(* about to dismiss what is dismissed already, has another one waiting for *)
(* the mutex it holds.                                                     *)
Queued == {"raised", "lock"}

Out(p, l, e) ==
  /\ l \in Onward
  /\ e.files # {head[p]} \/ (l = "dismiss" /\ e.found \notin Approvals(p))

BehindInv ==
  \A c \in DOMAIN evt :
    stage[pr(c)] = "ready" /\ Out(pr(c), pc[c], ev[c]) => Pending(pr(c), Queued)

Working(d, p) == pr(d) = p /\ pc[d] \in Onward /\ ev[d].files = {head[p]}

ApprovalsDue(p) ==
  Active(p) /\ ~Current(p).dry_run =>
    \/ Settled(p) \/ Pending(p, Early)
    \/ \E d \in DOMAIN evt :
         Working(d, p) /\ headSHA(d) = head[p] /\ pc[d] \in Judging

Reported(p) == comments[p] = <<Proper(p) = "approve">>

CommentDue(p) ==
  /\ Active(p) /\ Proper(p) # "error"
  /\ Current(p).dry_run \/ Current(p).comment
  => Reported(p) \/ Pending(p, Early) \/ \E d \in DOMAIN evt : Working(d, p)

EditInv ==
  \A d \in DOMAIN evt : pc[d] = "editComment" => comments[pr(d)] # << >>

SettleInv ==
  /\ CalmInv /\ OneReplicaInv /\ EditInv /\ BehindInv
  /\ \A p \in PRs : ApprovalsDue(p) /\ CommentDue(p)

-----------------------------------------------------------------------------
(* Who waits for a mutex waits as long as it is held.                      *)
LEMMA QueuedStays ==
  ASSUME NEW r, Replicas = {r}, CalmInv, LockInv, [Next]_vars, EvtGrows,
         NEW p \in PRs, Still(p), Pending(p, Queued),
         NEW c \in DOMAIN evt, pr(c) = p, pc[c] \in Onward
  PROVE  Pending(p, Queued)'
<1>t. /\ TypeOK /\ c \in Deliveries
      /\ \A d \in DOMAIN evt : d \in Deliveries /\ (pc[d] \notin Resting => at[d] = r)
  BY CalmTypes
<1>1. PICK d \in DOMAIN evt : pr(d) = p /\ Hears(d) /\ pc[d] \in Queued
  BY DEF Pending
<1>2. pc[c] \in Locked /\ pc[c] \notin Resting
  BY DEF Locked, Labels, Resting, Ended, Onward, Listed, Decided
<1>3. lock[at[c]][shard(c)] = c /\ c # 0 /\ at[c] = r
  BY <1>t, <1>2 DEF LockInv, Deliveries
<1>4. ~lockPR(d)
  <2>1. pc[d] = "lock" => at[d] = r
    BY <1>t DEF Resting, Ended
  <2> QED
    BY <1>1, <1>3, <2>1 DEF lockPR, shard
<1>5. ~evaluate(d)
  <2>1. evaluate(d) /\ ~lockPR(d) => pc[d] \in Locked
    BY <1>t, EvaluateGoes
  <2> QED
    BY <1>1, <1>4, <2>1 DEF Queued, Locked, Resting
<1>6. ASSUME NEW q, Receive(d, q)
      PROVE  pc'[d] = "lock"
  BY <1>t, <1>1, <1>6 DEF Receive, Hears, TypeOK
<1>7. pc'[d] \in Queued
  BY <1>1, <1>5, <1>6, CalmStepOf DEF Queued
<1> QED
  BY <1>1, <1>7, StillPending

(* Where a delivery takes up the dismissal of a review.                    *)
LEMMA ToDismiss ==
  ASSUME CalmInv, [Next]_vars, NEW d \in DOMAIN evt, evaluate(d),
         pc[d] \in Judged, pc'[d] = "dismiss"
  PROVE  ev'[d].found \in Approvals(pr(d))
<1>1. \A cfg : /\ AfterCheck(cfg) \in {"listComments", "findApproval"}
               /\ AfterAct(cfg) \in {"done", "listComments"}
               /\ AfterApprove(cfg) \in {"done", "listComments", "autoMerge"}
  BY DEF AfterAct, AfterApprove, AfterCheck
<1>2. pc[d] = "findApproval"
  BY <1>1, JudgedGoes DEF Judged, Onward, Listed, Decided
<1>3. PICK i \in LastApproval(pr(d)) :
        pc'[d] = AfterFind(d, i) /\ (pc'[d] \notin Ended => ev'[d].found = i)
  BY <1>2, JudgedGoes
<1>4. i # 0
  BY <1>1, <1>3 DEF AfterFind
<1> QED
  BY <1>3, <1>4 DEF LastApproval, Ended

LEMMA OutBefore ==
  ASSUME CalmInv, Calm, [Next]_vars, NEW d \in DOMAIN evt, evaluate(d),
         NEW p \in PRs, pr(d) = p, pc'[d] \in Onward,
         \/ ev'[d].files # {head[p]}
         \/ pc'[d] = "dismiss" /\ ev'[d].found \notin Approvals(p)
  PROVE  Out(p, pc[d], ev[d])
<1>t. TypeOK /\ Spent /\ OnCourse(d, pc[d], ev[d])
  BY CalmTypes DEF CalmInv
<1>w. Onward \intersect Before = {}
  BY DEF Onward, Before, Listed, Decided, Ended
<1>1. CASE Ends(d) \/ Earlier(d)
  BY <1>w, <1>1 DEF Ends, Earlier, Before
<1>2. CASE Later(d)
  <2>1. pc'[d] = "dismiss" => ev'[d].found \in Approvals(p)
    BY <1>2, ToDismiss DEF Later
  <2> QED
    BY <1>2, <2>1 DEF Later, Judged, Out
<1>3. CASE ListChangedFiles(d)
  <2>1. pc'[d] # "dismiss" /\ ev'[d].files = ev[d].files \union {head[p]}
    BY <1>t, <1>3, ListOnCourse
  <2>2. pc[d] = "listFiles" => ev[d].files = {}
    BY <1>t DEF OnCourse, Before
  <2>3. ev[d].files # {head[p]} /\ pc[d] = "listMore"
    BY <2>1, <2>2, <1>3 DEF ListChangedFiles
  <2> QED
    BY <2>3 DEF Out, Onward, Listed
<1>4. CASE resolveAuthorTeams(d)
  <2>1. pc'[d] # "dismiss" /\ ev'[d].files = ev[d].files
    BY <1>t, <1>4, ListOnCourse
  <2> QED
    BY <1>4, <2>1 DEF Out, Onward, Listed, resolveAuthorTeams
<1>5. CASE decide(d)
  <2>1. pc'[d] # "failed"
    BY DEF Onward, Listed, Decided
  <2>2. pc'[d] # "dismiss" /\ ev'[d].files = ev[d].files
    BY <1>5, <2>1, DecideOnCourse
  <2> QED
    BY <1>5, <2>2 DEF Out, Onward, Listed, decide
<1> QED
  BY <1>t, <1>1, <1>2, <1>3, <1>4, <1>5, EvaluateSplits

LEMMA StepBehind ==
  ASSUME NEW r, Replicas = {r}, CalmInv, Calm, LockInv, BehindInv,
         [Next]_vars, EvtGrows, TypeOK', NEW d \in DOMAIN evt', NEW p \in PRs,
         evt'[d].pr = p, stage'[p] = "ready", pc'[d] \in Onward,
         \/ ev'[d].files # {head'[p]}
         \/ pc'[d] = "dismiss" /\ ev'[d].found \notin Approvals(p)'
  PROVE  Pending(p, Queued)'
<1>t. PlacedInv /\ TypeOK /\ Placed /\ Unraised
  BY CalmTypes
<1>1. CASE ~Still(p)
  <2>1. Pending(p, {"raised"})'
    BY <1>t, <1>1, Announces
  <2> QED
    BY <2>1 DEF Pending, Queued
<1>2. CASE Still(p) /\ d \in DOMAIN evt
  <2>1. pr(d) = p /\ stage[p] = "ready" /\ head'[p] = head[p]
    BY <1>2 DEF EvtGrows, Still, pr
  <2>2. ev'[d].found \notin Approvals(p)' => ev'[d].found \notin Approvals(p)
    BY <1>2 DEF Still
  <2>3. CASE pc'[d] = pc[d] /\ ev'[d] = ev[d]
    BY <2>1, <2>2, <2>3, <1>2, QueuedStays DEF BehindInv, Out
  <2>4. CASE evaluate(d)
    <3>0. \/ ev'[d].files # {head[p]}
          \/ pc'[d] = "dismiss" /\ ev'[d].found \notin Approvals(p)
      BY <2>1, <2>2
    <3>1. Out(p, pc[d], ev[d])
      BY <1>2, <2>1, <2>4, <3>0, OutBefore
    <3> QED
      BY <1>2, <2>1, <3>1, QueuedStays DEF BehindInv, Out
  <2>5. ASSUME NEW q, Receive(d, q)
        PROVE  FALSE
    <3>1. pc'[d] \in {"lock", "done"}
      BY <2>5, <1>t, CalmTypes, <1>2 DEF Receive, TypeOK
    <3> QED
      BY <3>1 DEF Onward, Listed, Decided
  <2> QED
    BY <1>2, <2>3, <2>4, <2>5, CalmStepOf
<1>3. CASE d \notin DOMAIN evt
  <2>1. d \in Deliveries \ DOMAIN evt
    BY <1>3, LenProperties, WorldType DEF TypeOK, WorldOK, Deliveries
  <2>2. pc'[d] = "raised"
    BY <1>t, <2>1, PlacedStep DEF Fresh
  <2> QED
    BY <2>2 DEF Onward, Listed, Decided
<1> QED
  BY <1>1, <1>2, <1>3

-----------------------------------------------------------------------------
LEMMA StepApprovalsDue ==
  ASSUME NEW r, Replicas = {r}, CalmInv, Calm, LockInv, BehindInv,
         [Next]_vars, EvtGrows, TypeOK', NEW p \in PRs, ApprovalsDue(p)
  PROVE  ApprovalsDue(p)'
<1>t. PlacedInv /\ TypeOK
  BY CalmTypes
<1> DEFINE Judge(d) == Working(d, p) /\ headSHA(d) = head[p] /\ pc[d] \in Judging
<1> SUFFICES ASSUME Active(p)', (~Current(p).dry_run)'
             PROVE  \/ Settled(p)' \/ Pending(p, Early)'
                    \/ \E d \in DOMAIN evt' : Judge(d)'
  BY DEF ApprovalsDue
<1>0. Queued \subseteq Early /\ "raised" \in Early
  BY DEF Queued, Early
<1>1. CASE ~Still(p)
  <2>1. Pending(p, {"raised"})'
    BY <1>t, <1>1, Announces DEF Active
  <2> QED
    BY <1>0, <2>1 DEF Pending
<1>2. CASE Still(p)
  <2>1. /\ Active(p) /\ ~Current(p).dry_run /\ head'[p] = head[p]
        /\ Proper(p)' = Proper(p) /\ stage[p] = "ready"
    BY <1>2, SameProper DEF Still, Active
  <2>q. ASSUME NEW c \in DOMAIN evt, pr(c) = p, Out(p, pc[c], ev[c])
        PROVE  Pending(p, Early)'
    <3>1. Pending(p, Queued)'
      BY <1>2, <2>1, <2>q, QueuedStays DEF BehindInv, Out
    <3> QED
      BY <3>1, <1>0 DEF Pending
  <2>w. ASSUME NEW d \in DOMAIN evt, pr(d) = p, headSHA(d) = head[p],
               pc'[d] \in Judging, ev'[d].files = {head[p]}
        PROVE  \E x \in DOMAIN evt' : Judge(x)'
    <3>1. d \in DOMAIN evt' /\ evt'[d] = evt[d]
      BY DEF EvtGrows
    <3>2. pr(d)' = p /\ headSHA(d)' = head'[p] /\ ev'[d].files = {head'[p]}
      BY <2>1, <2>w, <3>1 DEF pr, headSHA
    <3>3. pc'[d] \in Onward
      BY <2>w DEF Judging, Onward
    <3> QED
      BY <2>w, <3>1, <3>2, <3>3 DEF Working
  <2>2. CASE Settled(p)
    <3>1. CASE Proper(p) = "approve"
      BY <1>2, <1>t, <2>1, <2>2, <3>1, StillApproved DEF Settled
    <3>2. CASE Proper(p) = "reject" /\ OnlyDismissed
      <4>1. Approvals(p)' = {}
        BY <2>2, <3>2 DEF Settled, OnlyDismissed, Approvals
      <4> QED
        BY <2>1, <3>2, <4>1 DEF Settled
    <3>3. ASSUME Proper(p) = "reject", NEW c \in DOMAIN evt, Approve(c),
                 reviews' = [reviews EXCEPT ![pr(c)] = Append(@, Granted(c))]
          PROVE  Settled(p)' \/ Pending(p, Early)'
      <4>1. CASE pr(c) # p
        <5>1. reviews'[p] = reviews[p]
          BY <1>t, <3>3, <4>1, GrantedLast
        <5>2. Approvals(p)' = {}
          BY <2>2, <3>3, <5>1 DEF Settled, Approvals
        <5> QED
          BY <2>1, <3>3, <5>2 DEF Settled
      <4>2. CASE pr(c) = p
        <5>1. pc[c] = "approve" /\ OnCourse(c, pc[c], ev[c])
          BY <3>3 DEF Approve, CalmInv
        <5>2. pc[c] \in Judged /\ pc[c] \in Onward /\ ev[c].verdict = "approve"
          BY <5>1 DEF Judged, Onward, Listed, Decided, OnCourse
        <5>3. ev[c].files # {head[p]}
          BY <3>3, <4>2, <5>2, ProperVerdict
        <5>4. Out(p, pc[c], ev[c])
          BY <5>2, <5>3 DEF Out
        <5> QED
          BY <2>q, <4>2, <5>4
      <4> QED
        BY <4>1, <4>2
    <3>4. CASE Proper(p) # "approve" /\ Proper(p) # "reject"
      BY <2>1, <3>4 DEF Settled
    <3> QED
      BY <1>t, <3>1, <3>2, <3>3, <3>4, StepReviews
  <2>3. ASSUME NEW d \in DOMAIN evt, pr(d) = p, Hears(d), pc[d] \in Early
        PROVE  Pending(p, Early)' \/ \E x \in DOMAIN evt' : Judge(x)'
    <3>1. CASE pc'[d] \in Early
      BY <1>2, <2>3, <3>1, StillPending
    <3>2. CASE pc'[d] \in {"listMore", "teams"}
      <4>1. ev'[d].files = {head[p]} /\ headSHA(d) = head[p]
        BY <2>1, <2>3, <3>2, Walk DEF Hears
      <4> QED
        BY <2>3, <2>w, <3>2, <4>1 DEF Judging, Listed
    <3> QED
      BY <2>1, <2>3, <3>1, <3>2, Walk
  <2>4. ASSUME NEW d \in DOMAIN evt, Judge(d)
        PROVE  \/ Settled(p)' \/ Pending(p, Early)'
               \/ \E x \in DOMAIN evt' : Judge(x)'
    <3>1. pr(d) = p /\ headSHA(d) = head[p] /\ ev[d].files = {head[p]}
          /\ pc[d] \in Onward /\ pc[d] \in Judging
      BY <2>4 DEF Working
    <3>2. CASE pc'[d] = pc[d] /\ ev'[d] = ev[d]
      BY <2>w, <3>1, <3>2
    <3>3. CASE evaluate(d) /\ pc[d] \in Listed
      BY <2>1, <2>w, <3>1, <3>3, Decides
    <3>4. CASE evaluate(d) /\ pc[d] = "dismiss"
      <4>1. CASE ev[d].found \notin Approvals(p)
        BY <2>q, <3>1, <3>4, <4>1 DEF Out
      <4>2. CASE ev[d].found \in Approvals(p)
        <5>1. DismissReview(d) /\ \A l : ~Fails(d, l)
          BY <3>4, JudgedGoes, CalmTypes, CalmSteps
        <5>2. reviews' = [reviews EXCEPT ![p][ev[d].found].state = "DISMISSED"]
          BY <5>1, <3>1, <4>2 DEF DismissReview
        <5>3. ev[d].found \notin Approvals(p)'
          <6>1. reviews'[p][ev[d].found].state = "DISMISSED"
            BY <4>2, <5>2, <1>t, ElementOfSeq, LenProperties
            DEF TypeOK, WorldOK, Approvals, Review
          <6> QED
            BY <6>1 DEF Approvals
        <5> QED
          BY <1>2, <4>2, <5>3 DEF Still
      <4> QED
        BY <4>1, <4>2
    <3>5. ASSUME NEW q, Receive(d, q)
          PROVE  FALSE
      BY <3>1, <3>5 DEF Receive, Onward, Listed, Decided
    <3> QED
      BY <3>1, <3>2, <3>3, <3>4, <3>5, CalmStepOf DEF Judging
  <2> QED
    BY <2>1, <2>2, <2>3, <2>4 DEF ApprovalsDue, Pending
<1> QED
  BY <1>1, <1>2

-----------------------------------------------------------------------------
LEMMA OneBody ==
  ASSUME NEW s \in Seq(BOOLEAN), NEW b \in BOOLEAN
  PROVE  /\ Append(s, b) # << >>
         /\ s # << >> => [s EXCEPT ![1] = b] # << >>
         /\ Len(s) <= 1 /\ s # << >> => [s EXCEPT ![1] = b] = <<b>>
         /\ Append(<< >>, b) = <<b>>
<1>1. ASSUME s # << >>
      PROVE  1 \in DOMAIN s
  BY <1>1, EmptySeq, LenProperties
<1>2. ASSUME s # << >>
      PROVE  [s EXCEPT ![1] = b] \in Seq(BOOLEAN) /\ Len([s EXCEPT ![1] = b]) = Len(s)
  BY <1>1, <1>2, ExceptSeq
<1>3. ASSUME s # << >>, Len(s) <= 1
      PROVE  [s EXCEPT ![1] = b] = <<b>>
  <2>1. Len(s) \in Nat /\ Len(s) # 0 /\ DOMAIN s = 1..Len(s)
    BY <1>1, <1>3, EmptySeq, LenProperties
  <2>2. Len(s) = 1
    BY <1>3, <2>1
  <2> DEFINE u == [s EXCEPT ![1] = b]
  <2>3. u \in Seq(BOOLEAN) /\ Len(u) = 1 /\ u[1] = b
    BY <1>2, <1>3, <1>1, <2>2
  <2> HIDE DEF u
  <2>4. u = <<b>>
    BY <2>3
  <2> QED
    BY <2>4 DEF u
<1>4. Append(s, b) # << >>
  BY AppendProperties, LenProperties
<1>5. s # << >> => [s EXCEPT ![1] = b] # << >>
  BY <1>2, EmptySeq, LenProperties
<1> QED
  BY <1>3, <1>4, <1>5

LEMMA StepBodies ==
  ASSUME CalmInv, [Next]_vars
  PROVE  \/ UNCHANGED comments
         \/ \E c \in DOMAIN evt :
              /\ evaluate(c)
              /\ \/ /\ pc[c] = "editComment"
                    /\ comments' = [comments EXCEPT ![pr(c)][1] = renderComment(c)]
                 \/ /\ pc[c] = "createComment"
                    /\ comments' = [comments EXCEPT ![pr(c)] =
                                      Append(@, renderComment(c))]
<1>1. ASSUME NEW c \in DOMAIN evt, evaluate(c), comments' # comments
      PROVE  \/ /\ pc[c] = "editComment"
                /\ comments' = [comments EXCEPT ![pr(c)][1] = renderComment(c)]
             \/ /\ pc[c] = "createComment"
                /\ comments' = [comments EXCEPT ![pr(c)] =
                                  Append(@, renderComment(c))]
  <2>1. \A l : ~Fails(c, l)
    BY CalmTypes, CalmSteps
  <2>2. CASE WriteComment(c)
    BY <2>1, <2>2 DEF WriteComment
  <2>3. CASE ~WriteComment(c)
    BY <1>1, <2>1, <2>3 DEF evaluate, lockPR, cachedBotLogin, loadConfig,
       fetchConfig, setConfig, reportBadConfig, ListChangedFiles, listPage,
       resolveAuthorTeams, decide, UpsertCheck, FindApproval, PullHeadSHA,
       Approve, EnableAutoMerge, DismissReview, ListComments, traces, world
  <2> QED
    BY <2>2, <2>3
<1>2. CASE \/ Surroundings \/ UNCHANGED vars
           \/ \E d \in DOMAIN evt, r \in Replicas : Receive(d, r)
  BY <1>2 DEF Surroundings, Outside, Open, Push, HumanDismiss, ConvertToDraft,
     ReadyForReview, EditConfig, ChangeTeams, Redeliver, Drop, Crash,
     ExpireConfig, ExpireTeam, Receive, vars, world, traces
<1> QED
  BY <1>1, <1>2 DEF Next, Process, Rest

(* A status comment that is there stays there.                             *)
LEMMA CommentsStay ==
  ASSUME CalmInv, [Next]_vars, NEW p \in PRs, comments[p] # << >>
  PROVE  comments'[p] # << >>
<1>1. comments \in [PRs -> Seq(BOOLEAN)]
  BY CalmTypes DEF TypeOK, WorldOK
<1>2. ASSUME NEW c \in DOMAIN evt
      PROVE  renderComment(c) \in BOOLEAN
  BY DEF renderComment
<1>3. ASSUME NEW c \in DOMAIN evt, NEW b \in BOOLEAN,
             \/ comments' = [comments EXCEPT ![pr(c)][1] = b]
             \/ comments' = [comments EXCEPT ![pr(c)] = Append(@, b)]
      PROVE  comments'[p] # << >>
  BY <1>1, <1>3, OneBody, CalmTypes
<1> QED
  BY <1>2, <1>3, StepBodies

LEMMA StepEdit ==
  ASSUME CalmInv, Calm, [Next]_vars, EvtGrows, TypeOK', EditInv
  PROVE  EditInv'
<1>t. PlacedInv /\ TypeOK /\ Placed /\ Unraised
  BY CalmTypes
<1> SUFFICES ASSUME NEW d \in DOMAIN evt', pc'[d] = "editComment"
             PROVE  comments'[evt'[d].pr] # << >>
  BY DEF EditInv, pr
<1>1. CASE d \in DOMAIN evt
  <2>1. evt'[d].pr = pr(d) /\ pr(d) \in PRs
    BY <1>1, CalmTypes DEF EvtGrows, pr
  <2>2. CASE pc'[d] = pc[d]
    BY <1>1, <2>1, <2>2, CommentsStay DEF EditInv
  <2>3. CASE evaluate(d)
    <3>1. \A cfg : /\ AfterCheck(cfg) # "editComment"
                   /\ AfterAct(cfg) # "editComment"
                   /\ AfterApprove(cfg) # "editComment"
      BY DEF AfterAct, AfterApprove, AfterCheck
    <3>2. Later(d)
      <4>1. Spent
        BY <1>t, CalmTypes
      <4>2. ~Ends(d) /\ ~Earlier(d)
        BY DEF Ends, Earlier, Before, Ended
      <4> QED
        BY <1>1, <1>t, <2>3, <4>1, <4>2, EvaluateSplits, ListOnCourse,
           DecideOnCourse
    <3>3. pc[d] = "listComments"
      BY <1>1, <2>3, <3>1, <3>2, JudgedGoes
      DEF Later, Judged, Onward, Listed, Decided, AfterFind
    <3>4. comments[pr(d)] # << >>
      BY <1>1, <2>3, <3>3, JudgedGoes
    <3> QED
      BY <2>1, <3>4, CommentsStay
  <2>4. ASSUME NEW q, Receive(d, q)
        PROVE  FALSE
    BY <1>1, <1>t, <2>4, CalmTypes DEF Receive, TypeOK
  <2> QED
    BY <1>1, <2>2, <2>3, <2>4, CalmStepOf
<1>2. CASE d \notin DOMAIN evt
  <2>1. d \in Deliveries \ DOMAIN evt
    BY <1>2, LenProperties, WorldType DEF TypeOK, WorldOK, Deliveries
  <2>2. pc'[d] = "raised"
    BY <1>t, <2>1, PlacedStep DEF Fresh
  <2> QED
    BY <2>2
<1> QED
  BY <1>1, <1>2

(* A delivery that listed just the live head gets on towards the comment   *)
(* that reports it.                                                        *)
LEMMA Reports ==
  ASSUME CalmInv, Calm, OneReplicaInv, EditInv, [Next]_vars,
         NEW d \in DOMAIN evt, evaluate(d), NEW p \in PRs, Working(d, p),
         Proper(p) # "error", Current(p).dry_run \/ Current(p).comment
  PROVE  \/ pc'[d] \in Onward /\ ev'[d].files = {head[p]}
         \/ Reported(p)'
         \/ pc[d] = "dismiss" /\ ev[d].found \notin Approvals(p)
<1>t. /\ TypeOK /\ Spent /\ OnCourse(d, pc[d], ev[d]) /\ Allowed(pc[d], ev[d])
      /\ pr(d) = p /\ ev[d].files = {head[p]} /\ pc[d] \in Onward
      /\ ev[d].cfg = Current(p) /\ d \in Deliveries
  BY CalmTypes DEF CalmInv, Working, AllowedInv, OnCourse
<1>a. /\ AfterAct(Current(p)) \in {"done", "listComments"}
      /\ ~Current(p).dry_run => AfterAct(Current(p)) = "listComments"
      /\ AfterCheck(Current(p)) \in {"listComments", "findApproval"}
      /\ AfterApprove(Current(p)) \in {"autoMerge", AfterAct(Current(p))}
  BY DEF AfterAct, AfterCheck, AfterApprove
<1>b. pc[d] \in Acting => AfterAct(Current(p)) = "listComments"
  BY <1>t, <1>a DEF Allowed
<1>c. {"listComments", "findApproval", "autoMerge", "pullHead", "approve",
       "dismiss", "check", "listMore", "teams", "editComment",
       "createComment"} \subseteq Onward
  BY DEF Onward, Listed, Decided
<1>1. CASE pc[d] \in {"listMore", "teams"}
  BY <1>t, <1>c, <1>1, Resolves
<1>f. ASSUME pc[d] \in Judged, pc'[d] \in Onward
      PROVE  ev'[d].files = {head[p]}
  <2>1. /\ ListChangedFiles(d) => pc[d] \in Before \union {"listMore"}
        /\ resolveAuthorTeams(d) \/ decide(d) => pc[d] = "teams"
    BY DEF ListChangedFiles, resolveAuthorTeams, decide, Before
  <2>2. /\ Onward \intersect Ended = {}
        /\ Judged \intersect (Before \union {"listMore", "teams"}) = {}
    BY DEF Judged, Onward, Listed, Decided, Ended, Before
  <2> QED
    BY <1>f, <1>t, <2>1, <2>2, EvaluateSplits DEF Ends, Earlier, Later
<1>2. CASE pc[d] = "check"
  <2>1. pc'[d] \in Onward
    BY <1>2, <1>t, <1>a, <1>c, JudgedGoes
  <2> QED
    BY <1>2, <1>c, <1>f, <2>1 DEF Judged
<1>3. CASE pc[d] = "findApproval"
  <2>1. pc'[d] \in Onward
    BY <1>3, <1>t, <1>b, <1>c, JudgedGoes DEF AfterFind, Acting
  <2> QED
    BY <1>3, <1>c, <1>f, <2>1 DEF Judged
<1>4. CASE pc[d] \in {"pullHead", "approve", "autoMerge"}
  <2>1. pc'[d] \in Onward
    BY <1>4, <1>t, <1>a, <1>b, <1>c, JudgedGoes DEF Acting
  <2> QED
    BY <1>4, <1>c, <1>f, <2>1 DEF Judged
<1>5. CASE pc[d] = "dismiss"
  <2>1. CASE ev[d].found \in Approvals(p)
    <3>1. pc'[d] \in Onward
      BY <1>5, <1>t, <1>b, <1>c, <2>1, JudgedGoes DEF Acting
    <3> QED
      BY <1>5, <1>c, <1>f, <3>1 DEF Judged
  <2> QED
    BY <1>5, <2>1
<1>6. CASE pc[d] = "listComments"
  <2>1. pc'[d] \in Onward
    BY <1>6, <1>c, JudgedGoes
  <2> QED
    BY <1>6, <1>c, <1>f, <2>1 DEF Judged
<1>7. CASE pc[d] \in {"editComment", "createComment"}
  <2>1. WriteComment(d) /\ \A l : ~Fails(d, l)
    BY <1>7, JudgedGoes, CalmTypes, CalmSteps
  <2>2. ev[d].verdict = Proper(p)
    BY <1>7, <1>c, <1>t, ProperVerdict DEF Judged
  <2> DEFINE body == Proper(p) = "approve"
  <2>3. renderComment(d) = body /\ body \in BOOLEAN
    BY <2>2 DEF renderComment
  <2>4. /\ comments \in [PRs -> Seq(BOOLEAN)] /\ Len(comments[p]) <= 1
        /\ pc[d] = "editComment" => comments[p] # << >>
        /\ pc[d] = "createComment" => comments[p] = << >>
    BY <1>t DEF TypeOK, WorldOK, OneReplicaInv, CommentInv, OneStatusComment, EditInv
  <2>5. head'[p] = head[p]
    BY EvaluateWorld
  <2>6. Proper(p)' = Proper(p)
    BY <2>5, SameProper
  <2>7. \/ /\ pc[d] = "editComment"
           /\ comments' = [comments EXCEPT ![p][1] = renderComment(d)]
        \/ /\ pc[d] = "createComment"
           /\ comments' = [comments EXCEPT ![p] = Append(@, renderComment(d))]
    BY <1>t, <2>1 DEF WriteComment
  <2> HIDE DEF body
  <2>8. comments'[p] = <<body>>
    BY <2>3, <2>4, <2>7, OneBody
  <2> QED
    BY <2>6, <2>8 DEF body, Reported
<1> QED
  BY <1>t, <1>1, <1>2, <1>3, <1>4, <1>5, <1>6, <1>7 DEF Onward, Listed, Decided

LEMMA StepCommentDue ==
  ASSUME NEW r, Replicas = {r}, CalmInv, Calm, OneReplicaInv, EditInv,
         BehindInv, [Next]_vars, EvtGrows, TypeOK', NEW p \in PRs, CommentDue(p)
  PROVE  CommentDue(p)'
<1>t. PlacedInv /\ TypeOK /\ LockInv
  BY CalmTypes DEF OneReplicaInv
<1> SUFFICES ASSUME Active(p)', (Proper(p) # "error")',
                    (Current(p).dry_run \/ Current(p).comment)'
             PROVE  \/ Reported(p)' \/ Pending(p, Early)'
                    \/ \E d \in DOMAIN evt' : Working(d, p)'
  BY DEF CommentDue
<1>0. Queued \subseteq Early /\ "raised" \in Early
  BY DEF Queued, Early
<1>1. CASE ~Still(p)
  <2>1. Pending(p, {"raised"})'
    BY <1>t, <1>1, Announces DEF Active
  <2> QED
    BY <1>0, <2>1 DEF Pending
<1>2. CASE Still(p)
  <2>1. /\ Active(p) /\ Proper(p) # "error"
        /\ Current(p).dry_run \/ Current(p).comment
        /\ head'[p] = head[p] /\ Proper(p)' = Proper(p) /\ stage[p] = "ready"
    BY <1>2, SameProper DEF Still, Active
  <2>q. ASSUME NEW c \in DOMAIN evt, pr(c) = p, Out(p, pc[c], ev[c])
        PROVE  Pending(p, Early)'
    <3>1. Pending(p, Queued)'
      BY <1>2, <1>t, <2>1, <2>q, QueuedStays DEF BehindInv, Out
    <3> QED
      BY <3>1, <1>0 DEF Pending
  <2>w. ASSUME NEW d \in DOMAIN evt, pr(d) = p, pc'[d] \in Onward,
               ev'[d].files = {head[p]}
        PROVE  \E x \in DOMAIN evt' : Working(x, p)'
    <3>1. d \in DOMAIN evt' /\ evt'[d] = evt[d]
      BY DEF EvtGrows
    <3>2. pr(d)' = p /\ ev'[d].files = {head'[p]}
      BY <2>1, <2>w, <3>1 DEF pr
    <3> QED
      BY <2>w, <3>1, <3>2 DEF Working
  <2>2. CASE Reported(p)
    <3>1. CASE UNCHANGED comments
      BY <2>1, <2>2, <3>1 DEF Reported
    <3>2. ASSUME NEW c \in DOMAIN evt, pr(c) # p, NEW b,
                 \/ comments' = [comments EXCEPT ![pr(c)][1] = b]
                 \/ comments' = [comments EXCEPT ![pr(c)] = Append(@, b)]
          PROVE  Reported(p)'
      <4>1. comments'[p] = comments[p]
        BY <1>t, <3>2 DEF TypeOK, WorldOK
      <4> QED
        BY <2>1, <2>2, <4>1 DEF Reported
    <3>3. ASSUME NEW c \in DOMAIN evt, pr(c) = p, evaluate(c),
                 pc[c] \in {"editComment", "createComment"}
          PROVE  Reported(p)' \/ Pending(p, Early)'
      <4>1. pc[c] \in Onward /\ pc'[c] = "done"
        BY <3>3, JudgedGoes DEF Onward
      <4>2. CASE ev[c].files = {head[p]}
        <5>1. Working(c, p)
          BY <3>3, <4>1, <4>2 DEF Working
        <5> QED
          BY <2>1, <3>3, <4>1, <5>1, Reports DEF Onward, Listed, Decided
      <4>3. CASE ev[c].files # {head[p]}
        BY <2>q, <3>3, <4>1, <4>3 DEF Out
      <4> QED
        BY <4>2, <4>3
    <3> QED
      BY <3>1, <3>2, <3>3, StepBodies
  <2>3. ASSUME NEW d \in DOMAIN evt, pr(d) = p, Hears(d), pc[d] \in Early
        PROVE  Pending(p, Early)' \/ \E x \in DOMAIN evt' : Working(x, p)'
    <3>1. CASE pc'[d] \in Early
      BY <1>2, <2>3, <3>1, StillPending
    <3>2. CASE pc'[d] \in {"listMore", "teams"}
      <4>1. ev'[d].files = {head[p]}
        BY <2>1, <2>3, <3>2, Walk
      <4> QED
        BY <2>3, <2>w, <3>2, <4>1 DEF Onward, Listed
    <3> QED
      BY <2>1, <2>3, <3>1, <3>2, Walk
  <2>4. ASSUME NEW d \in DOMAIN evt, Working(d, p)
        PROVE  \/ Reported(p)' \/ Pending(p, Early)'
               \/ \E x \in DOMAIN evt' : Working(x, p)'
    <3>1. pr(d) = p /\ ev[d].files = {head[p]} /\ pc[d] \in Onward
      BY <2>4 DEF Working
    <3>2. CASE pc'[d] = pc[d] /\ ev'[d] = ev[d]
      BY <2>w, <3>1, <3>2
    <3>3. CASE evaluate(d)
      <4>1. CASE pc[d] = "dismiss" /\ ev[d].found \notin Approvals(p)
        BY <2>q, <3>1, <4>1 DEF Out
      <4>2. CASE pc'[d] \in Onward /\ ev'[d].files = {head[p]}
        BY <2>w, <3>1, <4>2
      <4> QED
        BY <2>1, <2>4, <3>3, <4>1, <4>2, Reports
    <3>4. ASSUME NEW q, Receive(d, q)
          PROVE  FALSE
      BY <3>1, <3>4 DEF Receive, Onward, Listed, Decided
    <3> QED
      BY <3>2, <3>3, <3>4, CalmStepOf
  <2> QED
    BY <2>1, <2>2, <2>3, <2>4 DEF CommentDue, Pending
<1> QED
  BY <1>1, <1>2

-----------------------------------------------------------------------------
LEMMA SettleInvStep ==
  ASSUME Calm, NEW r, Replicas = {r}
  PROVE  SettleInv /\ [Next]_vars => SettleInv'
<1> SUFFICES ASSUME SettleInv, [Next]_vars PROVE SettleInv'
  OBVIOUS
<1>1. /\ CalmInv /\ OneReplicaInv /\ EditInv /\ BehindInv /\ LockInv
      /\ CalmInv' /\ OneReplicaInv'
  BY CalmInvStep, OneReplicaStep DEF SettleInv, OneReplicaInv
<1>2. TypeOK /\ TypeOK'
  BY <1>1 DEF OneReplicaInv, PlacedInv
<1>3. EvtGrows
  BY <1>2, StepGrows
<1>4. EditInv'
  BY <1>1, <1>2, <1>3, StepEdit
<1>5. BehindInv'
  <2> SUFFICES ASSUME NEW d \in DOMAIN evt', stage'[evt'[d].pr] = "ready",
                      Out(evt[d].pr, pc[d], ev[d])'
               PROVE  Pending(evt[d].pr, Queued)'
    BY DEF BehindInv, pr
  <2>1. PICK p \in PRs : evt'[d].pr = p
    <3>1. evt' \in Seq(Event)
      BY <1>2 DEF TypeOK, WorldOK
    <3>2. evt'[d] \in Event
      BY <3>1, ElementOfSeq, LenProperties
    <3> QED
      BY <3>2 DEF Event
  <2>2. /\ pc'[d] \in Onward
        /\ \/ ev'[d].files # {head'[p]}
           \/ pc'[d] = "dismiss" /\ ev'[d].found \notin Approvals(p)'
    BY <2>1 DEF Out, Approvals
  <2>3. Pending(p, Queued)'
    BY <1>1, <1>2, <1>3, <2>1, <2>2, StepBehind
  <2> QED
    BY <2>1, <2>3 DEF Pending
<1>6. \A p \in PRs : ApprovalsDue(p)' /\ CommentDue(p)'
  BY <1>1, <1>2, <1>3, StepApprovalsDue, StepCommentDue DEF SettleInv
<1> QED
  BY <1>1, <1>4, <1>5, <1>6 DEF SettleInv

LEMMA SettleInvInit ==
  ASSUME Calm
  PROVE  Init => SettleInv
<1> SUFFICES ASSUME Init PROVE SettleInv
  OBVIOUS
<1>1. CalmInv /\ PlacedInv /\ LockInv /\ DOMAIN evt = {}
  BY CalmInvInit, PlacedInvInit, LockInvInit DEF Init, WorldInit
<1>2. OneReplicaInv
  BY <1>1 DEF Init, WorldInit, OneReplicaInv, CommentInv, OneStatusComment
<1> QED
  BY <1>1, <1>2, NothingActive
  DEF SettleInv, EditInv, BehindInv, ApprovalsDue, CommentDue

(* ApprovalsSettle: one replica ends up with the live head approved when   *)
(* it qualifies and with no standing approval when it does not, those of   *)
(* former heads included, also when a push returns to a former head.       *)
THEOREM ApprovalsComeToRest ==
  ASSUME Calm, NEW r, Replicas = {r}
  PROVE  Spec => []ApprovalsSettle
<1>1. SettleInv => ApprovalsSettle
  <2> SUFFICES ASSUME SettleInv, Quiet, NEW p \in PRs, Active(p),
                      ~Current(p).dry_run
               PROVE  Settled(p)
    BY DEF ApprovalsSettle, Settled
  <2>1. Early \intersect Ended = {} /\ Judging \intersect Ended = {}
    BY DEF Early, Judging, Listed, Decided, Ended
  <2> QED
    BY <2>1, NothingPending DEF SettleInv, ApprovalsDue, Quiet
<1> QED
  BY <1>1, SettleInvInit, SettleInvStep, PTL DEF Spec

(* CommentSettles: the status comment one replica leaves tells the         *)
(* decision on the live head, in dry runs too.                             *)
THEOREM CommentComesToRest ==
  ASSUME Calm, NEW r, Replicas = {r}
  PROVE  Spec => []CommentSettles
<1>1. SettleInv => CommentSettles
  <2> SUFFICES ASSUME SettleInv, Quiet, NEW p \in PRs, Active(p),
                      Proper(p) # "error",
                      Current(p).dry_run \/ Current(p).comment
               PROVE  Reported(p)
    BY DEF CommentSettles, Reported
  <2>1. Early \intersect Ended = {} /\ Onward \intersect Ended = {}
    BY DEF Early, Onward, Listed, Decided, Ended
  <2> QED
    BY <2>1, NothingPending DEF SettleInv, CommentDue, Quiet, Working
<1> QED
  BY <1>1, SettleInvInit, SettleInvStep, PTL DEF Spec

-----------------------------------------------------------------------------
(* The check run of one replica, rewinds included.                         *)
Checking == {"listMore", "teams", "check"}

CheckDueAlone(p) ==
  Active(p) /\ Proper(p) # "error" =>
    \/ checks[head[p]] = Conclusion(Proper(p))
    \/ Pending(p, Early)
    \/ \E d \in DOMAIN evt :
         Working(d, p) /\ headSHA(d) = head[p] /\ pc[d] \in Checking

CheckAloneInv == SettleInv /\ SeriesInv /\ \A p \in PRs : CheckDueAlone(p)

LEMMA StepCheckDueAlone ==
  ASSUME NEW r, Replicas = {r}, CalmInv, Calm, LockInv, BehindInv, SeriesInv,
         OwnCommits, [Next]_vars, EvtGrows, TypeOK', NEW p \in PRs,
         CheckDueAlone(p)
  PROVE  CheckDueAlone(p)'
<1>t. PlacedInv /\ TypeOK /\ checks \in [Commits -> Conclusions]
      /\ head[p] \in Commits
  BY CalmTypes DEF TypeOK, WorldOK
<1> DEFINE Due(d) == Working(d, p) /\ headSHA(d) = head[p] /\ pc[d] \in Checking
           Shown == checks[head[p]] = Conclusion(Proper(p))
<1> SUFFICES ASSUME Active(p)', (Proper(p) # "error")'
             PROVE  Shown' \/ Pending(p, Early)' \/ \E d \in DOMAIN evt' : Due(d)'
  BY DEF CheckDueAlone
<1>0. Queued \subseteq Early /\ "raised" \in Early
  BY DEF Queued, Early
<1>1. CASE ~Still(p)
  <2>1. Pending(p, {"raised"})'
    BY <1>t, <1>1, Announces DEF Active
  <2> QED
    BY <1>0, <2>1 DEF Pending
<1>2. CASE Still(p)
  <2>1. /\ Active(p) /\ Proper(p) # "error" /\ head'[p] = head[p]
        /\ Proper(p)' = Proper(p) /\ stage[p] = "ready"
    BY <1>2, SameProper DEF Still, Active
  <2>w. ASSUME NEW d \in DOMAIN evt, pr(d) = p, headSHA(d) = head[p],
               pc'[d] \in Checking, ev'[d].files = {head[p]}
        PROVE  \E x \in DOMAIN evt' : Due(x)'
    <3>1. d \in DOMAIN evt' /\ evt'[d] = evt[d]
      BY DEF EvtGrows
    <3>2. pr(d)' = p /\ headSHA(d)' = head'[p] /\ ev'[d].files = {head'[p]}
      BY <2>1, <2>w, <3>1 DEF pr, headSHA
    <3>3. pc'[d] \in Onward
      BY <2>w DEF Checking, Onward, Listed, Decided
    <3> QED
      BY <2>w, <3>1, <3>2, <3>3 DEF Working
  <2>c. ASSUME NEW c \in DOMAIN evt, headSHA(c) = head[p],
               pc[c] \in {"badConfig", "check"}
        PROVE  /\ pc[c] = "check" /\ pr(c) = p
               /\ ev[c].verdict = Proper(p) \/ Pending(p, Early)'
    <3>1. pr(c) = p
      BY <2>c, CalmTypes DEF OwnCommits, SeriesInv
    <3>2. pc[c] = "check"
      BY <2>1, <2>c, <3>1 DEF CalmInv, OnCourse, Active
    <3>3. pc[c] \in Onward /\ pc[c] \in Judged
      BY <3>2 DEF Onward, Judged, Listed, Decided
    <3>4. CASE ev[c].files = {head[p]}
      BY <3>1, <3>2, <3>3, <3>4, ProperVerdict
    <3>5. CASE ev[c].files # {head[p]}
      <4>1. Out(p, pc[c], ev[c])
        BY <3>3, <3>5 DEF Out
      <4>2. Pending(p, Queued)'
        BY <1>2, <2>1, <3>1, <3>3, <4>1, QueuedStays DEF BehindInv
      <4> QED
        BY <1>0, <3>1, <3>2, <4>2 DEF Pending
    <3> QED
      BY <3>4, <3>5
  <2>2. CASE Shown
    <3>1. CASE checks'[head[p]] = checks[head[p]]
      BY <2>1, <2>2, <3>1
    <3>2. ASSUME NEW c \in DOMAIN evt, NEW x, pc[c] \in {"badConfig", "check"},
                 checks' = [checks EXCEPT ![headSHA(c)] = x],
                 pc[c] = "check" => x = Conclusion(ev[c].verdict),
                 headSHA(c) = head[p]
          PROVE  Shown' \/ Pending(p, Early)'
      BY <1>t, <2>1, <2>c, <3>2
    <3> QED
      BY <1>t, <3>1, <3>2, StepChecks
  <2>3. ASSUME NEW d \in DOMAIN evt, pr(d) = p, Hears(d), pc[d] \in Early
        PROVE  Pending(p, Early)' \/ \E x \in DOMAIN evt' : Due(x)'
    <3>1. CASE pc'[d] \in Early
      BY <1>2, <2>3, <3>1, StillPending
    <3>2. CASE pc'[d] \in {"listMore", "teams"}
      <4>1. ev'[d].files = {head[p]} /\ headSHA(d) = head[p]
        BY <2>1, <2>3, <3>2, Walk DEF Hears
      <4> QED
        BY <2>3, <2>w, <3>2, <4>1 DEF Checking
    <3> QED
      BY <2>1, <2>3, <3>1, <3>2, Walk
  <2>4. ASSUME NEW d \in DOMAIN evt, Due(d)
        PROVE  Shown' \/ Pending(p, Early)' \/ \E x \in DOMAIN evt' : Due(x)'
    <3>1. pr(d) = p /\ headSHA(d) = head[p] /\ ev[d].files = {head[p]}
          /\ pc[d] \in Checking
      BY <2>4 DEF Working
    <3>2. CASE pc'[d] = pc[d] /\ ev'[d] = ev[d]
      BY <2>w, <3>1, <3>2
    <3>3. CASE evaluate(d) /\ pc[d] \in {"listMore", "teams"}
      BY <2>1, <2>w, <3>1, <3>3, Resolves DEF Checking
    <3>4. CASE evaluate(d) /\ pc[d] = "check"
      <4>1. UpsertCheck(d) /\ \A l : ~Fails(d, l)
        BY <3>4, JudgedGoes, CalmTypes, CalmSteps
      <4>2. checks' = [checks EXCEPT ![headSHA(d)] = Conclusion(ev[d].verdict)]
        BY <4>1 DEF UpsertCheck
      <4> QED
        BY <1>t, <2>1, <2>c, <3>1, <3>4, <4>2
    <3>5. ASSUME NEW q, Receive(d, q)
          PROVE  FALSE
      BY <3>1, <3>5 DEF Receive, Checking
    <3> QED
      BY <3>1, <3>2, <3>3, <3>4, <3>5, CalmStepOf DEF Checking
  <2> QED
    BY <2>1, <2>2, <2>3, <2>4 DEF CheckDueAlone, Pending
<1> QED
  BY <1>1, <1>2

LEMMA CheckAloneStep ==
  ASSUME Calm, OwnCommits, NEW r, Replicas = {r}
  PROVE  CheckAloneInv /\ [Next]_vars => CheckAloneInv'
<1> SUFFICES ASSUME CheckAloneInv, [Next]_vars PROVE CheckAloneInv'
  OBVIOUS
<1>1. /\ SettleInv /\ SettleInv' /\ SeriesInv /\ CalmInv /\ LockInv /\ BehindInv
      /\ TypeOK /\ TypeOK'
  BY SettleInvStep DEF CheckAloneInv, SettleInv, OneReplicaInv, PlacedInv
<1>2. EvtGrows
  BY <1>1, StepGrows
<1>3. SeriesInv'
  BY <1>1, <1>2, StepSeries
<1>4. \A p \in PRs : CheckDueAlone(p)'
  BY <1>1, <1>2, StepCheckDueAlone DEF CheckAloneInv
<1> QED
  BY <1>1, <1>3, <1>4 DEF CheckAloneInv

(* CheckSettles for one replica needs no premise on pushes: who is about   *)
(* to report another head's files has the delivery of this head behind it. *)
THEOREM CheckComesToRest ==
  ASSUME Calm, OwnCommits, NEW r, Replicas = {r}
  PROVE  Spec => []CheckSettles
<1>1. CheckAloneInv => CheckSettles
  <2> SUFFICES ASSUME CheckAloneInv, Quiet, NEW p \in PRs, Active(p),
                      Proper(p) # "error"
               PROVE  checks[head[p]] = Conclusion(Proper(p))
    BY DEF CheckSettles
  <2>1. Early \intersect Ended = {} /\ Checking \intersect Ended = {}
    BY DEF Early, Checking, Ended
  <2> QED
    BY <2>1, NothingPending DEF CheckAloneInv, CheckDueAlone, Quiet
<1>2. Init => CheckAloneInv
  <2>1. Init => SeriesInv
    BY DEF Init, WorldInit, SeriesInv
  <2> QED
    BY <2>1, SettleInvInit, NothingActive DEF CheckAloneInv, CheckDueAlone
<1> QED
  BY <1>1, <1>2, CheckAloneStep, PTL DEF Spec
=============================================================================
