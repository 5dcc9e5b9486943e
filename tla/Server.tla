------------------------------- MODULE Server -------------------------------
(***************************************************************************)
(* From webhook to exit: internal/server, the shutdown of cmd/prove, and   *)
(* the context under which a delivery's goroutine waits, calls GitHub and  *)
(* is retried by internal/githubapp/transport.go.  What the calls mean is  *)
(* Approver's; here each evaluation takes the mutex of one pull request,   *)
(* makes the calls of Plan, and ends at the first that fails.              *)
(*                                                                         *)
(* Timers count down.  A step that waits for nobody is taken before time   *)
(* passes: see Urgent.                                                     *)
(***************************************************************************)
EXTENDS Integers, Sequences, FiniteSets

CONSTANTS
  Requests,        \* webhook requests, all about one pull request
  Nobody,          \* no request: the mutex is free
  Plan,            \* the calls of an evaluation: "read" or "write" each
  ShutdownTimeout, \* 15 s
  ProcessTimeout,  \* 30 s
  MaxRetries,      \* 3
  BaseDelay        \* 250 ms

ASSUME ServerType ==
  /\ Nobody \notin Requests
  /\ Plan \in Seq({"read", "write"}) /\ Len(Plan) > 0
  /\ {ShutdownTimeout, ProcessTimeout, MaxRetries, BaseDelay} \subseteq Nat

VARIABLES
  main,     \* where the process stands
  graceful, \* did Echo's shutdown find every connection idle?
  shut,     \* what is left of the shutdown's context
  spent,    \* time since the signal, up to MaxSpent (history)
  conn,     \* conn[q]: the HTTP exchange of request q
  job,      \* job[q]: the goroutine of q
  mutex     \* who holds the pull request's mutex

vars == <<main, graceful, shut, spent, conn, job, mutex>>

MaxSpent == ShutdownTimeout + ProcessTimeout + 1

Stopped  == {"none", "ok", "gaveUp", "error"}
Statuses == {"spawned", "lock", "send", "sent", "backoff"} \union Stopped
Job   == [st : Statuses, ctx : Nat, call : Nat, sends : Nat,
          delay : Nat, wait : Nat]
NoJob == [st |-> "none", ctx |-> 0, call |-> 0, sends |-> 0,
          delay |-> 0, wait |-> 0]

TypeOK ==
  /\ main \in {"serving", "stopping", "draining", "leaving", "exited"}
  /\ graceful \in BOOLEAN
  /\ shut \in 0..ShutdownTimeout /\ spent \in 0..MaxSpent
  /\ conn \in [Requests -> {"none", "reading", "closed"}]
  /\ job \in [Requests -> Job]
  /\ mutex \in Requests \union {Nobody}

Init ==
  /\ main = "serving" /\ graceful = FALSE
  /\ shut = ShutdownTimeout /\ spent = 0
  /\ conn = [q \in Requests |-> "none"]
  /\ job = [q \in Requests |-> NoJob]
  /\ mutex = Nobody

Up        == main # "exited"
Running   == {q \in Requests : job[q].st \notin Stopped}
Listening == main = "serving"

-----------------------------------------------------------------------------
(* handleWebhook.  The body arrives as slowly as the client sends it.      *)
Connect(q) ==
  /\ Listening /\ conn[q] = "none"
  /\ conn' = [conn EXCEPT ![q] = "reading"]
  /\ UNCHANGED <<main, graceful, shut, spent, job, mutex>>

(* A bad signature, a body that does not parse, a client that goes away.   *)
Refuse(q) ==
  /\ Up /\ conn[q] = "reading"
  /\ conn' = [conn EXCEPT ![q] = "closed"]
  /\ UNCHANGED <<main, graceful, shut, spent, job, mutex>>

(* wg.Add, the goroutine, and the 202.                                     *)
Accept(q) ==
  /\ Up /\ conn[q] = "reading"
  /\ conn' = [conn EXCEPT ![q] = "closed"]
  /\ job' = [job EXCEPT ![q].st = "spawned"]
  /\ UNCHANGED <<main, graceful, shut, spent, mutex>>

(* The goroutine of q goes on as j, which gives the mutex back at its end. *)
Release(q, j) ==
  mutex' = IF j.st \in Stopped /\ mutex = q THEN Nobody ELSE mutex

GoOn(q, j) ==
  /\ job' = [job EXCEPT ![q] = j]
  /\ Release(q, j)
  /\ UNCHANGED <<main, graceful, shut, spent, conn>>

(* context.WithTimeout comes first, so the wait for the mutex is on it.    *)
Start(q) ==
  /\ Up /\ job[q].st = "spawned"
  /\ GoOn(q, [job[q] EXCEPT !.st = "lock", !.ctx = ProcessTimeout])

FirstCall(j) == [j EXCEPT !.st = "send", !.call = 1, !.delay = BaseDelay]

ContextPerHolder(q) == \* Mutant: the context starts with the mutex
  /\ Up /\ job[q].st = "lock" /\ mutex = Nobody
  /\ mutex' = q
  /\ job' = [job EXCEPT ![q] = [FirstCall(job[q]) EXCEPT !.ctx = ProcessTimeout]]
  /\ UNCHANGED <<main, graceful, shut, spent, conn>>

(* lockPR does not look at the context: a delivery whose time is over      *)
(* still waits, and its first call fails.                                  *)
Lock(q) ==
  /\ Up /\ job[q].st = "lock" /\ mutex = Nobody
  /\ mutex' = q
  /\ job' = [job EXCEPT ![q] = FirstCall(job[q])]
  /\ UNCHANGED <<main, graceful, shut, spent, conn>>

-----------------------------------------------------------------------------
(* retryTransport.RoundTrip.                                               *)
Retried(j) == TRUE \* Mutant: retry writes like reads
Idempotent(j) == Plan[j.call] = "read"

OneLess(j)  == j.sends < MaxRetries \* Mutant: one retry too few
TryAgain(j) == j.sends <= MaxRetries

NextCall(j) ==
  IF j.call = Len(Plan) THEN [j EXCEPT !.st = "ok"]
  ELSE [j EXCEPT !.st = "send", !.call = @ + 1, !.sends = 0,
                 !.delay = BaseDelay]

(* A request is not sent once its context is done.                         *)
Send(q) ==
  LET j == job[q] IN
    /\ Up /\ j.st = "send"
    /\ GoOn(q, IF j.ctx = 0 THEN [j EXCEPT !.st = "error"]
               ELSE [j EXCEPT !.st = "sent", !.sends = @ + 1])

(* GitHub answers, if it ever does: well, with a 5xx, or not at all, the   *)
(* connection lost or a rate limit in the way.                             *)
Answered(q) ==
  LET j == job[q] IN
    /\ Up /\ j.st = "sent"
    /\ \/ GoOn(q, NextCall(j))
       \/ /\ Idempotent(j) /\ TryAgain(j)
          /\ GoOn(q, [j EXCEPT !.st = "backoff", !.wait = j.delay,
                               !.delay = 2 * @])
       \/ /\ Idempotent(j) /\ ~TryAgain(j)
          /\ GoOn(q, [j EXCEPT !.st = "gaveUp"])
       \/ GoOn(q, [j EXCEPT !.st = "error"])

NoDeadline(q) == FALSE \* Mutant: calls without the delivery's context
Cut(q) ==
  /\ Up /\ job[q].st \in {"sent", "backoff"} /\ job[q].ctx = 0
  /\ GoOn(q, [job[q] EXCEPT !.st = "error"])

Retry(q) ==
  /\ Up /\ job[q].st = "backoff" /\ job[q].wait = 0
  /\ GoOn(q, [job[q] EXCEPT !.st = "send"])

-----------------------------------------------------------------------------
(* main and Server.Shutdown.                                               *)
Signal ==
  /\ main = "serving" /\ main' = "stopping"
  /\ UNCHANGED <<graceful, shut, spent, conn, job, mutex>>

(* Echo's Shutdown returns when no request is being read, or at its limit. *)
EchoShutdown ==
  /\ main = "stopping" /\ main' = "draining"
  /\ \/ (\A q \in Requests : conn[q] # "reading") /\ graceful' = TRUE
     \/ shut = 0 /\ graceful' = FALSE
  /\ UNCHANGED <<shut, spent, conn, job, mutex>>

AddInGoroutine == {q \in Running : job[q].st # "spawned"} \* Mutant
Counter        == Running

(* wg.Wait returns once the counter is zero, whatever is added after.      *)
Wait ==
  /\ main = "draining" /\ Counter = {} /\ main' = "leaving"
  /\ UNCHANGED <<graceful, shut, spent, conn, job, mutex>>

(* main returns, and what still runs is gone.                              *)
Exit ==
  /\ main = "leaving" /\ main' = "exited"
  /\ UNCHANGED <<graceful, shut, spent, conn, job, mutex>>

(* The listener breaks: fatal.                                             *)
Fatal ==
  /\ main = "serving" /\ main' = "exited"
  /\ UNCHANGED <<graceful, shut, spent, conn, job, mutex>>

-----------------------------------------------------------------------------
Work(q) == Start(q) \/ Lock(q) \/ Send(q) \/ Cut(q) \/ Retry(q)
Leave   == EchoShutdown \/ Wait \/ Exit

(* Local steps take no time that the timers could measure.                 *)
Urgent ==
  \/ \E q \in Requests : LET j == job[q] IN
       \/ j.st \in {"spawned", "send"}
       \/ j.st = "lock" /\ mutex = Nobody
       \/ j.st = "sent" /\ j.ctx = 0
       \/ j.st = "backoff" /\ (j.ctx = 0 \/ j.wait = 0)
  \/ main = "stopping" /\ (shut = 0 \/ \A q \in Requests : conn[q] # "reading")
  \/ main = "draining" /\ Running = {}
  \/ main = "leaving"

NoFloor(n) == n - 1 \* Mutant: a timer runs below zero
Less(n)    == IF n = 0 THEN 0 ELSE n - 1

Tick ==
  /\ Up /\ ~Urgent
  /\ job' = [q \in Requests |->
       [job[q] EXCEPT !.ctx = Less(@), !.wait = Less(@)]]
  /\ IF main = "serving" THEN UNCHANGED <<shut, spent>>
     ELSE /\ shut' = Less(shut)
          /\ spent' = IF spent < MaxSpent THEN spent + 1 ELSE spent
  /\ UNCHANGED <<main, graceful, conn, mutex>>

Over == ~Up /\ UNCHANGED vars

Next ==
  \/ \E q \in Requests : \/ Connect(q) \/ Refuse(q) \/ Accept(q)
                         \/ Work(q) \/ Answered(q)
  \/ Signal \/ Fatal \/ Leave \/ Tick \/ Over

Spec == Init /\ [][Next]_vars

(* Goroutines and main run, and time passes.  Nothing is asked of clients, *)
(* of GitHub or of whoever sends the signal.                               *)
FairSpec ==
  /\ Spec /\ WF_vars(Tick) /\ WF_vars(Leave)
  /\ \A q \in Requests : WF_vars(Work(q))

-----------------------------------------------------------------------------
(* A signal ends the process, though GitHub may never answer, a client may *)
(* never finish its request, deliveries may be in the queue of a mutex and *)
(* wg.Wait has no limit of its own (server.go:64-68; main.go:60-66).       *)
ShutdownEnds == main = "stopping" ~> main = "exited"

(* ... within the two timeouts, when Echo shut down in time: the queue for *)
(* the mutex adds nothing, as a waiter's context runs while it waits       *)
(* (webhook.go:14, 42-43; approver.go:80).                                 *)
DrainIsBounded ==
  graceful => spent <= ShutdownTimeout + ProcessTimeout

(* A shutdown in time loses no delivery that was accepted: each goroutine  *)
(* is counted before its request is answered (webhook.go:40-50;            *)
(* server.go:62-68).                                                       *)
GracefulLosesNothing == main = "exited" /\ graceful => Running = {}

(* A write goes out once, even when its answer is a 5xx or never comes     *)
(* (transport.go:32-34).                                                   *)
WriteSentOnce ==
  \A q \in Requests :
    job[q].st # "none" /\ job[q].call > 0 /\ Plan[job[q].call] = "write"
    => job[q].sends <= 1

(* A read fails on a 5xx only after all its retries (transport.go:41-62).  *)
GivesUpLast ==
  \A q \in Requests : job[q].st = "gaveUp" => job[q].sends = MaxRetries + 1
=============================================================================
