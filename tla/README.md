# prove in TLA+

prove is a GitHub App that approves pull requests: a webhook tells it that a
pull request was opened, pushed to, made ready or lost a review; it reads
`.github/prove.yml`, lists the changed files, decides by the rules in that
file whether the author may approve the change alone, and then approves,
dismisses its earlier approval, posts a check run and, when asked, a comment.
Several replicas may run behind one webhook URL. Nothing is persisted: all of
prove's lasting state is on GitHub.

These modules model that program, TLC checks them on small repositories, and
TLAPS proves every safety property among the results for every repository. Paths below are
relative to the repository's root; line numbers are those of the modelled
commit.

## The system

| Part | Source | State it keeps | Operations |
|---|---|---|---|
| Webhook server | `internal/server` | a WaitGroup of running goroutines | accept a delivery, answer 202, process it in a goroutine with a 30 s context; drain on shutdown |
| Approver | `internal/events/approver.go` | 256 mutexes, a config cache, a team cache, a `sync.Once` with the bot's login | `Process`, `evaluate`, `decide`, `act`, `loadConfig`, `resolveAuthorTeams`, `lockPR`, `cachedBotLogin` |
| GitHub client | `internal/githubapp` | installation tokens (in a library) | `GetFile`, `ListChangedFiles`, `FindApproval`, `PullHeadSHA`, `Approve`, `DismissReview`, `UpsertCheck`, `UpsertComment`, `IsTeamMember`, `EnableAutoMerge`, `BotLogin` |
| Retrying transport | `internal/githubapp/transport.go` | none | retries 5xx answers to GET and HEAD, never a write |
| Config | `internal/config` | none | defaults, validation, loading |
| Engine | `internal/engine` | none | `Decide`: guards, rules, globs, principals, change kinds of a patch |
| Caches | `internal/cache` | entries with a TTL and a capacity | `Get`, `Set` |
| main | `cmd/prove` | none | wiring, signal handling, 15 s shutdown |
| Metrics, logging | `internal/metrics`, `internal/logging`, `internal/events/processor.go` | counters | none that anything reads |

They interact by calls only: server → `Process` → `evaluate`, which calls the
client one request at a time and the engine once; the client's transport retries
reads. Goroutines share the
mutexes, the two caches and the `sync.Once` of their replica; replicas share
nothing but GitHub.

What is hard here:

* **Interleaving.** Between any two calls of an evaluation the branch may be
  pushed to, the config edited, a team changed, a review dismissed, and other
  evaluations of the same pull request (in another replica always, in the same
  one only outside the mutex) may write.
* **Ordering.** Webhooks arrive in any order, once, twice or never, and carry
  the head they were raised for; the file list is of the live head.
* **Partial failure.** Each call may fail, or succeed with its answer lost. Nothing
  is retried by prove, and an acknowledged webhook is not sent again.
* **Crashes.** A replica may stop between two calls; what it wrote stays.
* **Cached answers.** Config (60 s), team membership (10 min), bot login (for
  ever, an error too). Goroutines that miss load and store in any order.
* **Time.** A delivery's 30 s run while it waits for a mutex; retries, the 15 s
  of a shutdown and clients that never finish a request run beside them.
* **Pairing.** What a patch changes is read off by pairing its lines greedily.

What makes it correct: an approval rests on exactly the commit it is given to,
judged by a config prove loaded and by the author's own teams; when all is
quiet the approvals, the check run and the comment say what the decision on the
live head is; one comment and one standing approval per commit; every delivery
ends and frees its mutex; the decision itself is the policy that the
comments of the schema state, and the change kinds it looks at account for every
changed line; a cached answer is no older than its TTL and one call; and a
process told to stop does stop, in bounded time, without losing what it accepted.

## The modules

```
Config ──► Engine ──► PolicyCheck ──► MCPolicy, PolicyProofs     Change ──► MCChange, ChangeProofs
   │          └────────────────────────────┐
   ├────► GitHub ──► Approver ──► ApproverProperties ──► MCApprover
   │                                 ▲     └──► ApproverProofs ──► ApprovalProofs ──► LockProofs ──► SettleProofs
   └────► Ledger ── refined by ──────┘

Caches ──► MCCaches, CachesProofs                       Server ──► MCServer, ServerProofs
```

`Approver` is where the components meet; it takes the caches, the retries and the
passing of time as nondeterminism (an entry may be gone, a call may fail).
`Caches`, `Server` and `Change` look into what it leaves open, each with the
part of the caller that matters to it.

**Config** (`internal/config`). A parsed `prove.yml` is a record with the YAML
keys as fields. A `*bool` is `{}` when unset or the singleton of its value.
`Parse` is defaults, then validation; `Load` of no file is `Default`.

**Engine** (`internal/engine` but `change.go`). `Decide` and everything below it,
with the early returns and the order in which loops stop: a test with a Go
result `(bool, error)` answers "yes", "no" or "err", and `FirstHit` is a loop
that returns at the first answer other than "no". Paths are sequences of
segments, a glob element is the set of segments it matches or `**`;
`Glob`, doublestar's matcher, is external. A handle is an `@` or not, an organisation if it
has a slash, and a name; a team is the pair of organisation and slug that `SplitTeam` makes of it. A file carries the change kinds
`analyzeChange` would report.

**Change** (`change.go`). `analyzeChange` on the removed and added lines of a patch
that an author writes line by line. A line is what the regular expressions leave
of it: its skeleton `text`, its version tokens with the numbers semver parses
them to, its SHA tokens. `classify` is one turn of the loop, folded over the
removed lines; it takes the first added line not consumed. `Accounted` is the
reference: some one-to-one pairing, in any order, in which every change is permitted.

**GitHub** (external). The pull requests, branches, teams, reviews, check runs
and comments, and the log `evt` of the webhook deliveries raised so far. `Push`,
`ConvertToDraft`, `HumanDismiss`, `EditConfig`, `ChangeTeams`, `Redeliver` and
so on each spend a unit of a budget `left`, so a run explores a bounded number
of them in every order. A review also remembers, as history, the commits
whose files were listed for it and the config and teams it was decided with, and
`joined` and `lacked` are, as history too, the teams each author has ever been in and
has ever not been in.

**Approver** (`approver.go` with the client calls it makes). A delivery `d` of
`evt` is one goroutine; `pc[d]` names the call it makes next, `ev[d]` is what
its local variables hold, `at[d]` its replica. One action per call, named for
the Go function, so that anything may happen between two calls:

| Action | Code |
|---|---|
| `Receive` | `handleWebhook`, `Process`, the draft check |
| `lockPR` | `lockPR`; the unlock is in `Go`, with each way `evaluate` returns |
| `cachedBotLogin` | the `sync.Once`, with the error it remembers |
| `loadConfig`, `fetchConfig`, `setConfig` | cache `Get`, `config.Load`, cache `Set`: three steps, two goroutines may both miss |
| `reportBadConfig` | the neutral check run of a config that does not load |
| `ListChangedFiles` | one page, or two for the commits in `Large`; each page is of the head of that moment |
| `resolveAuthorTeams` | one handle per step: cached answer, or `IsTeamMember` and `Set` |
| `decide` | `engine.Decide`; pages of two different heads may decide any way |
| `UpsertCheck` | the check run on the event's head; a failure is logged only |
| `FindApproval`, `PullHeadSHA`, `Approve`, `EnableAutoMerge`, `DismissReview` | `act` |
| `ListComments`, `WriteComment` | `UpsertComment` |
| `Drop`, `Crash`, `ExpireConfig`, `ExpireTeam` | a lost webhook, a stopped replica, an entry that expires or is evicted |

`Fails` is a call that does nothing and returns an error; `Replies` is a write that
happened, with or without its answer. `Rest` is prove with nothing to do:
because it needs every delivery to have ended, TLC's deadlock check shows that
no reachable state is stuck with a delivery in flight. That includes the cap
`MaxDeliveries`, which would otherwise hide behaviours.

**ApproverProperties** states the properties and the inductive invariant;
**MCApprover** gives small repositories, in which the verdicts are `Engine`'s
`Decide` on real change lists (`A` changes one document, `B` two, `C` a document
and code).

**PolicyCheck** feeds `Config` and `Engine`: a maintainer adds rules and guards, an
author adds files, and `ListChangedFiles` stops after the page that exceeds the
cap. `Policy` says what the comments of the schema say, of the whole pull request,
without loops, early returns or errors, and the decision is held against it.

**Ledger** is what prove promises, with no deliveries, calls or replicas: a ledger
of approvals per pull request in which a new approval is one that the rules grant
for a single commit of the pull request (`Grant`), an old one may be withdrawn
and never comes back (`Withdraw`), and auto-merge is turned on only where an
approval asked for it (`Merge`). `Book` in `ApproverProperties` maps `Approver` to
it: the commits seen are the former heads and the head, the ledger is GitHub's
list of reviews, merging its auto-merge flag. `KeepsLedger` is that refinement.

**Caches** (`cache.go`, `loadConfig`). One TTL cache with a clock. The source of each key
is its history of versions with the time each began; a loader asks (`Get`), and on
a miss has GitHub read the source (`Fetch`) and later stores the reply (`Store`).
What ttlcache does on a hit (`Hit`: moves the item to the front, leaves its expiry)
and at capacity (`Set`: evicts the item at the back) is external and follows
from the options `NewTTL` passes. Answers record when they were asked and given.

**Server** (`internal/server`, `transport.go`, the shutdown in `main.go`). An HTTP
exchange is read as slowly as its client likes (`Connect`, `Refuse`, `Accept`); the
goroutine starts its context (`Start`), waits for the mutex (`Lock`), and makes the
calls of `Plan`; a call is sent, answered with success, a 5xx or an error, or
never (`Send`, `Answered`, `Cut`), and a read is retried after a doubling delay
(`Retry`). `Signal`, `EchoShutdown`, `Wait` and `Exit` are `main` and `Shutdown`,
`Fatal` the listener that breaks. Timers count down with `Tick`, which waits until no local step is due
(`Urgent`): time passes in calls, back-off, queues and slow clients, not in Go code.

## The runs

| Run | Question | Instance | States |
|---|---|---|---|
| `race` | Is every approval of inspected files, and does the live head end right, with two replicas? | 1 PR opened as draft or ready, 3 commits, 2 pushes, one commit of two pages | 44 k |
| `failing` | And when calls, webhooks and replicas fail while the config is edited? Is it still `Ledger`? | 2 replicas, 1 push, 1 failed or unanswered call or lost webhook, 1 crash, 1 expiry, 1 edit (to a config that is disabled, dry, broken or undecidable) | 127 k |
| `serial` | Does the mutex keep one replica to one comment and one approval per commit? | 1 push, 1 redelivery, 1 fault, 1 dismissal by hand, 1 crash | 1.5 M |
| `settles` | Do approvals, check run and comment say the decision on the live head at rest, and are good approvals of a new head safe from stale decisions? | 1 replica, 2 pushes which may return to a former head, a dismissal by hand, a draft toggle | 301 k |
| `ends` | Does every delivery end, and does the shared team cache keep authors apart? | 2 PRs of 2 authors under one mutex and cache, a membership change, an expiry, a fault; no default branch in the payload; `FairSpec` | 8.6 k |
| `policy` | Does the engine decide the stated policy, on a listing that may stop at the cap? | every config of up to 2 rules and 1 protected path, every PR of up to 3 files, pages of 1 file, caps of 1 and 3 | 1.15 M |
| `change` | Does a clean patch have every line accounted for, and what does greedy pairing cost? | every patch of up to 3 removed and 2 added lines out of 13, cap 2 | 435 k |
| `caches` | How old may a cached answer be; are errors kept; does the capacity hold? | 2 loaders, 2 keys of 2 versions, capacity 1, TTL 2, calls of 1, clock to 4 | 2.1 M |
| `server` | Does a shutdown end, when, and what does it lose; how often is a call sent? | 3 requests, a read and a write each, 1 retry, shutdown 1, context 3; `FairSpec` | 942 k |

`race` also checks `ApprovalInv`, the inductive invariant of the proof.
`HeadSettles`, `CheckSettles`, `ApprovalsSettle` and `CommentSettles` are stated for
states in which every delivery has ended, in runs with no lost webhooks, failed
calls or config edits: prove has no retry, so with those the next event has to
put things right. `ApprovalsSettle` (no approval of a superseded commit stands
either) and `CommentSettles` need one replica: two may each add a comment, or
dismiss the same review and leave another.

`policy` and `change` have no deadlock check: a config, a pull request or a patch at
its bounds is simply finished; nor has `caches`, whose clock stops at `MaxTime`.
`server` does check deadlock: only a process that is gone may stand still.

### Where code and documents differ

Each of these runs checks one property and ends in a counterexample.

| Run | Document | Code |
|---|---|---|
| `doc_guard` | `approver.go:234-237`: the guard keeps prove from blessing "code prove never inspected" | the guard compares SHAs: a branch pushed away and back while the files were listed passes it (`approver.go:163,238`) |
| `doc_error` | `README.md:36`: "any error during evaluation results in no approval" | an error returns before `act`, and an approval of an earlier head stands (`approver.go:164`) |
| `doc_glob` | `schema.go:145-146`: config errors are surfaced via the Check Run | `Validate` accepts globs that do not compile; each evaluation then fails silently (`match.go:49-51`) |

Other observations have no run. A `sync.Once` keeps an error too, so one failed
`BotLogin` call fails every later delivery of that process (`approver.go:360`),
where `actions.go:121-122` says "The result is stable". The pattern "/" compiles to the
empty glob and protects nothing (`match.go:60`), where `schema.go:54-55` says that a
trailing "/" means the subtree. A dry run posts a check run titled
"Auto-approved by prove" (`approver.go:182,368`), and its comment advises to set
`enabled: true`, which does not end a dry run (`approver.go:431`). A commit
that becomes head again is approved again although its first approval stands,
because `FindApproval` reports the last approval only (`actions.go:24-27`);
`OneApprovalPerCommit` is therefore checked without rewinds. Dismissal has no guard on the
head (`approver.go:265-268`): what it dismisses need not be the "now-stale approval" of
`approver.go:222`. A delivery that judged another commit does dismiss an approval of the live head that
its own config and teams would grant in two cases, and TLC finds each when `NeverDismissesGoodApproval` is
stated without its restriction to new heads: in `settles`, where one replica lists the files of `C`, a
force push brings the approved `A` back, and the approval of `A` is the review it
goes on to dismiss; and in `race`, where between one replica's listing and its
`FindApproval` the other approves the new head. Neither lasts: the dismissed review raises an event
that has the live head evaluated again (`approver.go:94-96`), which is what `HeadSettles` and
`ApprovalsSettle` say. The comments promise nothing of the time between, so these are no runs. When Echo's shutdown
reaches its 15 s with a request still being read, that request may yet be accepted,
and answered 202, after `wg.Wait` has returned: `GracefulLosesNothing` and
`DrainIsBounded` are therefore about shutdowns that Echo finished in time.

### Bounds

Two pushes give three heads: one an old delivery knows, one that is listed, one
that is live. One fault of each kind suffices for a step-by-step protocol
without retries, since a second fault meets the state the first one left only
through another delivery. Two replicas are enough for anything pairwise; symmetry
over replicas is sound because no property or constant names one, and the runs
with symmetry check no liveness. Each delivery dismisses at most one review and
so raises at most one event, and `MaxDeliveries` leaves room for all of them (if
it did not, a dismissal could not happen and the deadlock check would say so).

`serial` and `settles` share their repository and spend different budgets: `serial` has what
breaks a delivery between two calls, `settles` what moves the head under it.

In `policy` a cap of 1 ends the listing at the second of three files, so a decision is made on a
listing with a file missing, and also on one that ends exactly at the cap. A second rule, a
guard or a third file is enough for rules to overlap, for a guard to cut into them and for one file
to be judged after another.

In `change` three removed lines against two added ones already compete for a
partner and exceed the cap of two; its 13 lines have every kind of bump, a downgrade, a
token that does not parse, one version spelt in two ways, a pin, and prose. In
`caches` two loaders overtake each other, capacity 1 makes each miss of the other key
an eviction, and the clock runs past one TTL and one call. Its loaders and its
keys are symmetric: nothing names one. In `server` a third delivery
queues behind two, so that a queue that added its waits up would exceed the
bound; one retry has both a try that is repeated and one that is the last.

### Fairness

`FairSpec` has weak fairness on each delivery's own steps. The server starts a goroutine
per delivery and Go schedules it; each GitHub call ends within the 30 s of its
context, so a pending call is a step that happens; the only step that may be
disabled again is taking a mutex, and `sync.Mutex` hands over to waiters that
starve. That is modelled as weak, not strong, fairness: it suffices here, because the number of
deliveries that can overtake a waiter is bounded by the events GitHub raises. Nothing
is assumed of the environment.

`Server`'s `FairSpec` has weak fairness on each goroutine's own steps, on `main`'s
(`Leave`) and on the clock. Clients, GitHub's answers and the signal have none:
`ShutdownEnds` holds though a request is never finished and no call is answered,
because each wait has a timer, but for the mutex, whose holder has one. Weak fairness on
taking the mutex suffices: each of the finitely many requests can overtake once, and no
request begins after the signal.

## The proofs

| Module | Theorem | Says | If |
|---|---|---|---|
| `ApproverProofs` | `TypeCorrect` | `[]TypeOK` | |
| `ApprovalProofs` | `DecisionsAreSound`, `ApprovalsInspected` | `[]ApprovalInv`, `[]ApprovedWasInspected` | `~Rewind` |
| | `TeamsAreOwn` | `[]ApprovedByOwnTeams` | |
| | `ImplementsLedger`, `AutoMergeAfterApproval` | `KeepsLedger`, `[]AutoMergeWasApproved` | `~Rewind` |
| `LockProofs` | `EvaluationsExclude` | `[]MutualExclusion` | |
| | `OneCommentPerPR` | `[]OneStatusComment` | one replica |
| | `DismissalsAreSafe` | `NeverDismissesGoodApproval` | one replica |
| | `NoDoubleApproval` | `[]OneApprovalPerCommit` | one replica, `~Rewind` |
| `SettleProofs` | `HeadsSettle` | `[]HeadSettles` | `Calm`, `~Rewind` |
| | `ChecksSettle` | `[]CheckSettles` | `Calm`, `OwnCommits`, `~Rewind` |
| | `CheckComesToRest` | `[]CheckSettles` | `Calm`, `OwnCommits`, one replica |
| | `ApprovalsComeToRest`, `CommentComesToRest` | `[]ApprovalsSettle`, `[]CommentSettles` | `Calm`, one replica |
| `PolicyProofs` | `PolicyDecides`, `BadPatternWithholds` | `[]ApproveIffPolicy`, `[]BadPatternNeverGrants` | |
| | `GrowthNeverHelps`, `GuardsRestrict` | `GrowingThePRNeverHelps`, `GuardsOnlyRestrict` | |
| | `NamedTeamsDecide` | what `Approver` assumes of its engine | |
| `ChangeProofs` | `CleanCorrect`, `ExactCorrect`, `OrderCorrect` | `[]CleanIsAccounted`, `[]ExactWhenTextsDiffer`, `[]OrderOnlyWithholds` | |
| `CachesProofs` | `CachesInvariant`, `CachesAreFresh`, `ErrorsAreCurrent`, `CacheIsBounded` | `[]` of each property of `caches` | |
| `ServerProofs` | `ServerTypes`, `DrainBound`, `NothingLost`, `SendsAreCounted`, `RetriesAreUsedUp` | `[]` of each safety property of `server` | |

Each is `Spec => ...` of its module, but `NamedTeamsDecide`, which is about `Decide`
alone. So every safety property that a passing run checks is also a theorem.

Those on `Approver` are for every set of pull requests, commits, replicas, configs
and teams, every budget and every engine. Of `Verdict` two things are assumed: its range
(`VerdictType`), and that of the author's teams it uses only those that the rules
name (`VerdictTeams`), which `NamedTeamsDecide` proves of `Engine`. The other
assumptions are the types of the constants (`ConfigType`, `WorldType`, `ApproverType`,
`TeamHandlesType`). Those on `Caches` and `Server` are for every number of users and
requests, every `Plan` and every timeout, TTL and capacity (`CachesType`, `ServerType`);
those on the engine for configs, globs and pull requests of any size over any
alphabet (`PolicyType`), and those on `Change` for patches of any length (`LinesType`).

The premises are on constants, and each has instances among the runs:

* `~Rewind`: no push returns to a former head. `doc_guard` shows that inspection needs
  it. `HeadSettles` and `CheckSettles` with two replicas need it too: one
  replica may list a former head's files while another evaluates the live head, and
  after a rewind write last; TLC finds that in `race` with `Rewind` on.
* One replica, `Replicas = {r}`: the mutex is of one process.
* `Calm`: no failures, crashes or edits of configs and teams, that is, `Limit` is 0 for
  these. Pushes, draft toggles, dismissals by hand, redeliveries and cache expiry
  have any budget. prove has no retry, so after a fault only the next event helps.
* `OwnCommits`: no commit is on two pull requests. Two pull requests with one head
  commit have one check run between them, and the last to report wins.

The runs `race` and `settles` satisfy those of the settle theorems, `settles` that of
`DismissalsAreSafe`, `serial` all those of `LockProofs`. `NamedTeamsDecide` is for teams with an
organisation and a slug, which is all that `SplitTeam` yields.

*Types.* `TypeOK` alone is not inductive: `loadConfig` reads `configCache[at[d]]`, so
`at[d]` has to be a replica. `Placed` says that a delivery whose goroutine runs is
on one, and needs `Unraised`, that nothing happened to a delivery before it was
raised. `PlacedInv` is the three together.

*Inspection.* Why is the guard enough? A delivery compares two readings of the
head that say nothing of what was head when the files were listed. What
makes it right is history: `HeadsMoveOn` says that the live head is never one of
the former heads, and that each event's head is the live head or a former one.
`ListedLater` then says that, if the listing has files of any other commit than the
event's, the event's head is already history, and so it stays. The guard
finding the event's head live refutes that, and `GuardPassed` holds: the files
are those of the event's head and no others. `DecidedRight` carries the verdict
along. `ApprovalInv` conjoins these with the types; `EvaluateSound` has one
lemma per action that touches them, `SoundOn` says that steps of others
only add to the history, and `StepInspected` shows that the one new review is of a
delivery past the guard.

*The ledger.* That an approval is inspected is a fact about states; that steps are
ledger steps needs a little more. `AllowedInv` says which labels a delivery can reach
only with a config that is enabled, and which only with one that is not a dry run,
and so gives `Acts` for a `Grant`. `MergeInv` says that a delivery about to enable
auto-merge has left an approval that asked for it; reviews are never removed, so
it stays. `LedgerInv` is these and `ApprovalInv`; the step lemma then takes each
action that writes to GitHub to its action of `Ledger`, and every other to a stutter.

*Teams.* Memberships change while answers are cached, so what an approval rests on is true
of some moment, not of now. `HistoryInv` says that whoever is in a team has joined it, and
whoever is not has lacked it. `CachedTrue` carries that to the shared cache: what it holds for a team and
a user has been true of that user. `Membered` says that a delivery has `Resolved` the handles it has gone
through, all of them once it decides, and `OwnTeams` that so did every review; history only grows, so
changes of membership leave all of this alone. A config replaced half way is no danger: the handles are of
the config the delivery holds. While the budget for changes is untouched (`Steady`)
history is the present, and what is resolved is what the author is in (`ResolvedSteady`):
the settle theorems use that. How old an answer may be is `FreshEnough` of `Caches`.

*The mutex.* `LockInv`: a delivery past `lockPR` and not ended is the holder of its
replica's shard. It needs `PlacedInv`, and that a crash clears the replica's locks
with its deliveries. Two deliveries of a pull request share the shard, hence
`MutualExclusion`. With one replica, `CommentInv` adds that a delivery which listed no
comment and is about to create one finds none: nobody else was past the lock since.

*One after the other.* `NewestInv` says what the mutex protects, rewinds or not. A delivery lists
files under the mutex, so any review is of a head that was history by then or of the head whose
files it lists, and nobody else adds one until it is done: `Newest` says that every review is of a
former head or of a commit listed. When it comes to dismiss, an approval of a live head that was never
head before is then of a commit it listed, and judged by the engine not to be approved. Where the
branch has returned to a former head that argument fails, and so does the code. `SerialInv` says
that what `FindApproval` saw is still so when the delivery approves. Without rewinds
reviews come in the order of the heads (`InOrder`) and are of heads the pull request has had
(`InHistory`), so the last approval is on the newest commit approved; `FindUnapproved` concludes that
a delivery sent on to the guard has no approval of its event's head before it, or that head is
history and the guard stops it (`Unapproved`). Those who take reviews away only make it truer.

*Coming to rest.* The promise is about the end, so the invariants speak of what is still
*due*. `CalmInv` is what a quiet world gives: the caches hold what GitHub has, and each
delivery goes by the config in place and decides what is right for the files it listed.
`Announces` shows that whatever disturbs a pull request that is ready (a push, leaving the draft
state, a dismissal by a person or by another delivery) raises an event of the live
head, and `Walk` and `Resolves` that a delivery of the live head, once started, keeps going
until it has acted on that head's files. Hence `HeadDue`: the live head is
approved, if it should be, or a delivery of the live head has yet to act. Without
rewinds `ApprovalInv` stops the others from getting past the guard with the wrong files.
`CheckDue` is the same for the check run: only deliveries of that head write its
check run, and `OwnCommits` makes them deliveries of this pull request.

With one replica and rewinds allowed there is one more culprit, the delivery that holds
the files of another head though its event's head has become live again (`Out`). It may
approve, dismiss or report wrongly. (A delivery about to dismiss what is dismissed
already counts as out too: it will leave the wrong review standing.) `BehindInv` is why that does not last: while it
works it holds the mutex, the push that brought its head back raised an event,
and the delivery of that event is not yet past the mutex (`QueuedStays`). `SettleInv`
adds what is then due to approvals (`ApprovalsDue`) and the comment (`CommentDue`),
`CheckAloneInv` the check run.

*Caches.* `CachesInv` is inductive as checked: `Items` says that what an item holds was
current no earlier than its expiry less the TTL and a call, whoever stored it and
in which order, and `Requests` that what a loader was sent was current while it
waited. A hit leaves the expiry alone, so the bound carries over to the answer. That the
capacity holds is separate: the list of the items in use names each of them once (`FrontIs` says
what moving one to the front leaves), so its length is their number, and `Set` makes
room before it adds.

*The engine.* `FirstHitIs` reads a loop with early returns as a quantifier: it
says "no" exactly when all its elements do, and otherwise what one of them says. `Glob` runs along the
pattern keeping the set of positions reached; `MatchIsCover` shows that it accepts
exactly when the path can be cut into stretches, one per element (`Cuts`), by
following a cut through the turns and, backwards, reading one off them. On these stand
`GuardIs`, `RuleIs`, `AllowsIs` and `PathIs`, one per function of `decide.go`, and
`ListingEnough`: a listing that stops at the page that exceeds the cap decides as
the full one. `Approves` is what comes out, `Decided` says that the code computes it, and the
theorems follow from `Approves` by quantifier reasoning: `FewerFiles` and `FewerGuards` are the
two monotonicities, for one step of the people who write.

*The change analysis.* `LoopInv` is what the fold over the removed lines has established
after n turns: unless "unknown" is among the kinds collected, the first n removed lines are paired
one to one with the lines consumed, each with one that fits, and the kinds are those of the pairs. `CleanAccounted` is its last instance. Where
texts differ a line fits one partner at most, so the greedy choice is the only one
(`LoopFollows`, `ExactTexts`). Where they repeat, suppose that another pairing made do with
lower levels and take the line that the loop bumped too high. All lines with
partners within those levels map one to one into fewer places, which `NoRoom`, the
pigeonhole principle for finite sets of numbers, refutes.

Folds and recursive functions are reasoned about without the library's induction
theorems, which take an operator as a parameter: a set of counterexamples in `Nat` has a
least element (`Least`, from the well-foundedness of `<`), and the turn before it is
not one. `LoopSolves` and `ReachedSolves` show in that way that a function which satisfies the
recursive equation exists, and `Turns` and `ReachedTurns` unfold it.

*Server.* `ServerInv` adds to the types that the mutex is held by exactly the goroutine
that makes calls (`MutexInv`), how a goroutine's fields relate (`CallsInv`: a write that is
to be sent has not been sent, a read waits to be sent again at most `MaxRetries` times) and `ClockInv`: after the
signal the time spent and what is left of the shutdown add up to its timeout, and
once Echo is done the time spent and what is left of any goroutine's context add up to at
most both timeouts. A tick moves one to the other; `Urgent` makes sure that at the end
of its context a goroutine is either gone or next in the queue, which is why
waiting costs nothing: `SomeTimeLeft` shows that while time passes in a graceful
drain some goroutine has time left.

*Model-checked only.* Liveness (`EveryDeliveryEnds`, `ShutdownEnds`): the prover has no
rules for fairness and `ENABLED`. That a state at rest is reached is therefore TLC's result,
in `ends`; what holds there is proved. That no state is stuck is TLC's as well. `Precedes`
and the other orders on versions are proved about as they are defined; that they agree with semver is the
modeller's reading. The counterexamples of `doc_guard`, `doc_error` and `doc_glob` are runs.

## What is abstracted or left out

* `IsTeamMember` and the cache `Set` after it are one step. The call inside `sync.Once`
  is one step, so other goroutines do not wait for it visibly.
* Team handles are resolved in any order, the code goes in the order of the rules.
* Listing reviews and comments is one atomic read of all pages.
* A write whose answer is lost happens before the error is seen, never after.
* `InstallationClient` fails only for a key `New` has refused at start-up.
* The base of a pull request stays: changing it changes the file list at the same head, and its
  event (`edited`) is not one that `relevantPRAction` lets through. `Base` is a constant.
* Pull requests are not closed or merged, and only the author of a pull request
  matters, not its committers.
* An absent `prove.yml` is the file `Default`, which is what `Load` returns for it.
* In `Approver`, time: a cache entry may expire at any moment, and a call past its
  deadline is a call that fails. `Caches` and `Server` have clocks.
* `Caches` models one cache; `CallTime`, from a miss to the `Set`, is at most the 30 s of
  the delivery's context.
* What the three regular expressions of `change.go` match, and semver's parser: a line
  is given as tokens. `Precedes` takes prereleases as one number that orders them.
* The rate-limit library below the retries: its wait is part of waiting for an
  answer, its refusal an error.
* In `Server` all requests are about one pull request and have the same plan of calls.
* Not modelled at all: key parsing and installation tokens (`auth.go`; a library
  keeps them), the GraphQL request (`graphql.go`; one action of `Approver`), the
  environment parsing of `main`, the logging processor (not wired), logging and
  metrics (nothing reads them back), the health routes.

## Plan

1. What a fault leaves and the next event repairs: the settle theorems from the last
   failed call, crash or edit on, in place of `Calm`.
2. The pagination of reviews and comments as several reads, with the reviews
   changing between pages.
3. A composition of `Server` with the crash of `Approver`: what a shutdown that was
   not graceful leaves on GitHub.
4. The refinement from one cache of `Caches` to the entries of `Approver` that may be gone
   at any moment.
