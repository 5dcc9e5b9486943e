------------------------------- MODULE Ledger -------------------------------
(***************************************************************************)
(* What prove may do to pull requests, said without deliveries, calls or   *)
(* replicas: a ledger of approvals.  Approver is shown to implement it.    *)
(*                                                                         *)
(* A ledger only grows; the one thing that may change in an entry is that  *)
(* a standing approval is withdrawn.                                       *)
(***************************************************************************)
EXTENDS Config

CONSTANTS
  PRs, Commits,      \* pull requests; their head commits
  Authors, Author,   \* Author[p]: who opened p
  Entries,           \* approvals: commit, state, and what they were based on
  Verdict(_, _, _, _)\* the decision for a config, commit, author and teams

VARIABLES
  seen,   \* seen[p]: the commits that are or were head of p
  ledger, \* ledger[p]: the approvals given to p, oldest first
  merging \* merging[p]: p merges by itself once it may

vars == <<seen, ledger, merging>>

Init ==
  /\ seen \in [PRs -> {{c} : c \in Commits}]
  /\ ledger = [p \in PRs |-> << >>]
  /\ merging = [p \in PRs |-> FALSE]

(* The repository asked prove to act, not only to say what it would do.    *)
Acts(cfg) == IsEnabled(cfg) /\ ~cfg.dry_run

(* Approval v is what the rules grant for the one commit it is given to.   *)
Granted(p, v) ==
  /\ v.state = "APPROVED" /\ v.commit \in seen[p] /\ v.files = {v.commit}
  /\ Acts(v.cfg)
  /\ Verdict(v.cfg, v.commit, Author[p], v.teams) = "approve"

Move(p) ==
  /\ \E c \in Commits : seen' = [seen EXCEPT ![p] = @ \union {c}]
  /\ UNCHANGED <<ledger, merging>>

Grant(p) ==
  /\ \E v \in Entries :
       Granted(p, v) /\ ledger' = [ledger EXCEPT ![p] = Append(@, v)]
  /\ UNCHANGED <<seen, merging>>

Withdraw(p) ==
  /\ \E i \in DOMAIN ledger[p] :
       /\ ledger[p][i].state = "APPROVED"
       /\ ledger' = [ledger EXCEPT ![p][i].state = "DISMISSED"]
  /\ UNCHANGED <<seen, merging>>

Merge(p) ==
  /\ \E i \in DOMAIN ledger[p] : ledger[p][i].cfg.auto_merge.enabled
  /\ merging' = [merging EXCEPT ![p] = TRUE]
  /\ UNCHANGED <<seen, ledger>>

Next == \E p \in PRs : Move(p) \/ Grant(p) \/ Withdraw(p) \/ Merge(p)

Spec == Init /\ [][Next]_vars
=============================================================================
