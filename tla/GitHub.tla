------------------------------- MODULE GitHub -------------------------------
(***************************************************************************)
(* The part of GitHub that prove talks to, as the code under src/ uses it: *)
(* pull requests and their heads, the config file on each branch, team     *)
(* membership, the reviews, check runs and status comments prove writes,   *)
(* and the webhook deliveries GitHub raises.  None of this code is in the  *)
(* repository, so every definition here is external: it says what the      *)
(* REST calls of internal/githubapp and the webhooks of internal/server    *)
(* rely on, and nothing more.                                              *)
(*                                                                         *)
(* Each step nobody at prove controls (a push, a draft toggle, a review    *)
(* dismissed by hand, an edited config, a redelivered or lost webhook, a   *)
(* failed call, a crash) spends one unit of a budget, so that a model      *)
(* checker sees a bounded number of them in every order.                   *)
(***************************************************************************)
EXTENDS Config, FiniteSets

CONSTANTS
  PRs,           \* pull requests
  Commits,       \* head commits, each standing for the files it changes
  Series,        \* Series[p]: the commits the branch of PR p may point to
  Branches,      \* branches a PR may target
  Base,          \* Base[p]: the branch PR p targets
  DefaultBranch, \* the repository's default branch, as webhooks name it
  NoBranch,      \* ... or this, when the payload leaves it empty
  Authors,       \* people who open PRs
  Author,        \* Author[p]: who opened PR p
  Teams,         \* teams named in allow lists
  Configs,       \* the configs prove.yml files parse to, the default among them
  BadFile,       \* a prove.yml that does not parse or validate
  FirstFile,     \* FirstFile[b]: the prove.yml of branch b, Default for none
  FirstMembers,  \* FirstMembers[a]: the teams author a starts in
  Rewind,        \* may a force push return to a commit that was head before?
  MaxDeliveries, \* webhook deliveries the model has room for
  Limit          \* Limit[k]: how many steps of kind k may happen

(* What the environment may do a bounded number of times.                  *)
Kinds == {"push", "status", "dismiss", "edit", "team", "redeliver",
          "expire", "fault", "crash"}

ASSUME ConfigType ==
  /\ Default \in Configs
  /\ \A c \in Configs : /\ c.enabled \in SUBSET BOOLEAN
                        /\ c.dry_run \in BOOLEAN /\ c.comment \in BOOLEAN
                        /\ c.auto_merge.enabled \in BOOLEAN
ASSUME WorldType ==
  /\ Series \in [PRs -> SUBSET Commits]
  /\ Base \in [PRs -> Branches]
  /\ DefaultBranch \in Branches \union {NoBranch}
  /\ Author \in [PRs -> Authors]
  /\ FirstFile \in [Branches -> Configs \union {BadFile}]
  /\ FirstMembers \in [Authors -> SUBSET Teams]
  /\ Rewind \in BOOLEAN
  /\ MaxDeliveries \in Nat
  /\ Limit \in [Kinds -> Nat]

VARIABLES
  head,      \* head[p]: the live head commit of PR p
  past,      \* past[p]: commits that were head of p before (history)
  stage,     \* stage[p]: "unopened", "draft" or "ready"
  file,      \* file[b]: the prove.yml on branch b
  members,   \* members[a]: the teams author a is an active member of
  joined,    \* joined[a]: the teams a has been a member of (history)
  lacked,    \* lacked[a]: the teams a has not been a member of (history)
  reviews,   \* reviews[p]: the approving reviews prove left, oldest first
  checks,    \* checks[c]: conclusion of the latest prove check run on c
  comments,  \* comments[p]: what each prove status comment on p says
  autoMerge, \* autoMerge[p]: native auto-merge is on
  evt,       \* every webhook delivery raised so far; its index names it
  left       \* left[k]: what is left of Limit[k]

pulls  == <<head, past, stage>>
people == <<members, joined, lacked>>
repo   == <<file, people>>
traces == <<reviews, checks, comments, autoMerge>>
world  == <<head, past, stage, file, members, joined, lacked, reviews, checks,
            comments, autoMerge, evt, left>>

Stages      == {"unopened", "draft", "ready"}
Files       == Configs \union {BadFile}
Conclusions == {"none", "success", "neutral"}
Actions     == {"opened", "reopened", "synchronize", "ready_for_review",
                "converted_to_draft", "dismissed"}
Deliveries  == 1..MaxDeliveries
Event  == [action : Actions, pr : PRs, head : Commits, draft : BOOLEAN]

(* A review also remembers the evaluation behind it (history): the commits *)
(* whose files were listed, and the config and teams it was decided with.  *)
Review == [commit : Commits, state : {"APPROVED", "DISMISSED"},
           files : SUBSET Commits, cfg : Configs, teams : SUBSET Teams]

WorldOK ==
  /\ head \in [PRs -> Commits]
  /\ past \in [PRs -> SUBSET Commits]
  /\ stage \in [PRs -> Stages]
  /\ file \in [Branches -> Files]
  /\ members \in [Authors -> SUBSET Teams]
  /\ joined \in [Authors -> SUBSET Teams]
  /\ lacked \in [Authors -> SUBSET Teams]
  /\ reviews \in [PRs -> Seq(Review)]
  /\ checks \in [Commits -> Conclusions]
  /\ comments \in [PRs -> Seq(BOOLEAN)]
  /\ autoMerge \in [PRs -> BOOLEAN]
  /\ evt \in Seq(Event)
  /\ Len(evt) <= MaxDeliveries
  /\ left \in [Kinds -> Nat]

WorldInit ==
  /\ head \in [PRs -> Commits] /\ \A p \in PRs : head[p] \in Series[p]
  /\ past = [p \in PRs |-> {}]
  /\ stage = [p \in PRs |-> "unopened"]
  /\ file = FirstFile
  /\ members = FirstMembers
  /\ joined = FirstMembers
  /\ lacked = [a \in Authors |-> Teams \ FirstMembers[a]]
  /\ reviews = [p \in PRs |-> << >>]
  /\ checks = [c \in Commits |-> "none"]
  /\ comments = [p \in PRs |-> << >>]
  /\ autoMerge = [p \in PRs |-> FALSE]
  /\ evt = << >>
  /\ left = Limit

-----------------------------------------------------------------------------
Spend(k) == left[k] > 0 /\ left' = [left EXCEPT ![k] = @ - 1]

(* GitHub raises a webhook delivery.  Deliveries reach prove in any order. *)
Raise(e) == Len(evt) < MaxDeliveries /\ evt' = Append(evt, e)

(* The payload of a webhook about PR p raised in the new state.            *)
Payload(a, p) ==
  [action |-> a, pr |-> p, head |-> head'[p], draft |-> stage'[p] = "draft"]

Open(p) ==
  /\ stage[p] = "unopened"
  /\ \E s \in {"draft", "ready"} : stage' = [stage EXCEPT ![p] = s]
  /\ UNCHANGED <<head, past, repo, traces, left>>
  /\ Raise(Payload("opened", p))

(* A push or force push moves the head; the new commit raises its own      *)
(* synchronize event.                                                      *)
Push(p) ==
  /\ stage[p] # "unopened" /\ Spend("push")
  /\ \E c \in Series[p] \ {head[p]} :
       /\ Rewind \/ c \notin past[p]
       /\ head' = [head EXCEPT ![p] = c]
       /\ past' = [past EXCEPT ![p] = @ \union {head[p]}]
  /\ UNCHANGED <<stage, repo, traces>>
  /\ Raise(Payload("synchronize", p))

ConvertToDraft(p) ==
  /\ stage[p] = "ready" /\ Spend("status")
  /\ stage' = [stage EXCEPT ![p] = "draft"]
  /\ UNCHANGED <<head, past, repo, traces>>
  /\ Raise(Payload("converted_to_draft", p))

ReadyForReview(p) ==
  /\ stage[p] = "draft" /\ Spend("status")
  /\ stage' = [stage EXCEPT ![p] = "ready"]
  /\ UNCHANGED <<head, past, repo, traces>>
  /\ Raise(Payload("ready_for_review", p))

(* Somebody dismisses one of prove's approvals by hand.                    *)
HumanDismiss(p) ==
  /\ Spend("dismiss")
  /\ \E i \in DOMAIN reviews[p] :
       /\ reviews[p][i].state = "APPROVED"
       /\ reviews' = [reviews EXCEPT ![p][i].state = "DISMISSED"]
  /\ UNCHANGED <<pulls, repo, checks, comments, autoMerge>>
  /\ Raise(Payload("dismissed", p))

(* prove.yml changes on a branch.  No webhook prove listens to tells it.   *)
EditConfig ==
  /\ Spend("edit")
  /\ \E b \in Branches, f \in Files :
       f # file[b] /\ file' = [file EXCEPT ![b] = f]
  /\ UNCHANGED <<pulls, people, traces, evt>>

(* Somebody joins or leaves a team.                                        *)
ChangeTeams ==
  /\ Spend("team")
  /\ \E a \in Authors, t \in Teams :
       IF t \in members[a]
       THEN /\ members' = [members EXCEPT ![a] = @ \ {t}]
            /\ lacked' = [lacked EXCEPT ![a] = @ \union {t}]
            /\ joined' = joined
       ELSE /\ members' = [members EXCEPT ![a] = @ \union {t}]
            /\ joined' = [joined EXCEPT ![a] = @ \union {t}]
            /\ lacked' = lacked
  /\ UNCHANGED <<pulls, file, traces, evt>>

(* GitHub, or a person pressing Redeliver, sends an old payload again.     *)
Redeliver ==
  /\ Spend("redeliver")
  /\ \E d \in DOMAIN evt : Raise(evt[d])
  /\ UNCHANGED <<pulls, repo, traces>>

Outside ==
  \/ \E p \in PRs : \/ Open(p) \/ Push(p) \/ HumanDismiss(p)
                    \/ ConvertToDraft(p) \/ ReadyForReview(p)
  \/ EditConfig \/ ChangeTeams \/ Redeliver
=============================================================================
