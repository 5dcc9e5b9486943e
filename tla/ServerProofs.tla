---------------------------- MODULE ServerProofs ----------------------------
(***************************************************************************)
(* The safety of Server for every number of requests, every plan of calls  *)
(* and all timeouts: what a graceful shutdown takes and loses, and how     *)
(* often a call is sent.                                                   *)
(***************************************************************************)
EXTENDS Server, TLAPS

Holding == {"send", "sent", "backoff"}

(* The mutex is held by the one goroutine that makes calls.                *)
MutexInv == \A q \in Requests : job[q].st \in Holding <=> mutex = q

(* What the fields of one goroutine have to do with each other.            *)
Called(j) ==
  /\ j.ctx <= ProcessTimeout
  /\ j.call \in 0..Len(Plan)
  /\ j.st \in {"none", "spawned", "lock"} => j.call = 0 /\ j.sends = 0
  /\ j.st \in Holding => j.call > 0
  /\ j.st = "send" => /\ j.sends <= MaxRetries
                      /\ Plan[j.call] = "write" => j.sends = 0
  /\ j.st = "sent" => j.sends <= MaxRetries + 1
  /\ j.st = "backoff" => Plan[j.call] = "read" /\ j.sends <= MaxRetries
  /\ j.st = "gaveUp" => j.sends = MaxRetries + 1
  /\ j.call > 0 /\ Plan[j.call] = "write" => j.sends <= 1

CallsInv == \A q \in Requests : /\ Called(job[q])
                                /\ conn[q] # "closed" => job[q] = NoJob

(* What a running goroutine may still take of the time after the signal.   *)
OnTime(j) ==
  /\ j.st = "spawned" => spent <= ShutdownTimeout
  /\ j.st # "spawned" => spent + j.ctx <= ShutdownTimeout + ProcessTimeout

ClockInv ==
  /\ main = "serving" => spent = 0 /\ shut = ShutdownTimeout
  /\ main = "stopping" => spent + shut = ShutdownTimeout
  /\ graceful => /\ main \in {"draining", "leaving", "exited"}
                 /\ spent <= ShutdownTimeout + ProcessTimeout
                 /\ \A q \in Requests : conn[q] # "reading"
  /\ graceful /\ main = "draining" => \A q \in Running : OnTime(job[q])
  /\ graceful /\ main \in {"leaving", "exited"} => Running = {}

ServerInv == TypeOK /\ MutexInv /\ CallsInv /\ ClockInv

-----------------------------------------------------------------------------
LEMMA PlanType ==
  /\ Len(Plan) \in Nat \ {0}
  /\ \A i \in 1..Len(Plan) : Plan[i] \in {"read", "write"}
  /\ ShutdownTimeout \in Nat /\ ProcessTimeout \in Nat
  /\ MaxRetries \in Nat /\ BaseDelay \in Nat
BY ServerType

(* A step of the goroutine of q.                                           *)
JobStep(q, j) ==
  /\ j \in Job /\ Called(j)
  /\ j.st \notin {"none", "spawned"} /\ job[q].st \notin Stopped
  /\ job[q].st # "spawned" => j.ctx = job[q].ctx
  /\ job' = [job EXCEPT ![q] = j]
  /\ UNCHANGED <<main, graceful, shut, spent, conn>>
  /\ \/ j.st \in Holding /\ mutex' = q
        /\ (mutex = q \/ mutex = Nobody)
     \/ /\ j.st \notin Holding
        /\ mutex' = IF mutex = q THEN Nobody ELSE mutex

LEMMA GoOnStep ==
  ASSUME ServerInv, NEW q \in Requests, NEW j \in Job, GoOn(q, j), Called(j),
         job[q].st \in Holding, j.st \in (Holding \union Stopped) \ {"none"},
         j.ctx = job[q].ctx
  PROVE  JobStep(q, j)
<1>1. mutex = q
  BY DEF ServerInv, MutexInv
<1> QED
  BY <1>1 DEF GoOn, Release, JobStep, Holding, Stopped

LEMMA StartStep ==
  ASSUME ServerInv, NEW q \in Requests, Start(q)
  PROVE  \E j : JobStep(q, j)
<1> DEFINE j == [job[q] EXCEPT !.st = "lock", !.ctx = ProcessTimeout]
<1>1. job[q] \in Job /\ Called(job[q]) /\ job[q].st = "spawned" /\ mutex # q
  BY DEF ServerInv, TypeOK, CallsInv, MutexInv, Holding, Start
<1>2. /\ j \in Job /\ j.st = "lock" /\ j.ctx = ProcessTimeout
      /\ j.call = job[q].call /\ j.sends = job[q].sends
  BY <1>1, PlanType DEF Job, Statuses
<1>3. Called(j)
  BY <1>1, <1>2, PlanType DEF Called, Holding
<1> QED
  BY <1>1, <1>2, <1>3 DEF Start, GoOn, Release, JobStep, Stopped, Holding

LEMMA LockStep ==
  ASSUME ServerInv, NEW q \in Requests, Lock(q)
  PROVE  \E j : JobStep(q, j)
<1> DEFINE j == FirstCall(job[q])
<1>1. job[q] \in Job /\ Called(job[q]) /\ job[q].st = "lock"
  BY DEF ServerInv, TypeOK, CallsInv, Lock
<1>2. /\ j \in Job /\ j.st = "send" /\ j.ctx = job[q].ctx
      /\ j.call = 1 /\ j.sends = job[q].sends
  BY <1>1, PlanType DEF FirstCall, Job, Statuses
<1>3. Called(j)
  BY <1>1, <1>2, PlanType DEF Called, Holding
<1> QED
  BY <1>1, <1>2, <1>3 DEF Lock, JobStep, Stopped, Holding

LEMMA SendStep ==
  ASSUME ServerInv, NEW q \in Requests, Send(q) \/ Cut(q) \/ Retry(q)
  PROVE  \E j : JobStep(q, j)
<1>1. job[q] \in Job /\ Called(job[q]) /\ job[q].st \in Holding
  BY DEF ServerInv, TypeOK, CallsInv, Send, Cut, Retry, Holding
<1> DEFINE Err   == [job[q] EXCEPT !.st = "error"]
           Sent  == [job[q] EXCEPT !.st = "sent", !.sends = @ + 1]
           Again == [job[q] EXCEPT !.st = "send"]
<1>2. CASE GoOn(q, Err)
  <2>1. /\ Err \in Job /\ Err.st = "error" /\ Err.ctx = job[q].ctx
        /\ Err.call = job[q].call /\ Err.sends = job[q].sends
    BY <1>1 DEF Job, Statuses, Stopped
  <2>2. Called(Err)
    BY <1>1, <2>1 DEF Called, Holding
  <2> QED
    BY <1>1, <1>2, <2>1, <2>2, GoOnStep DEF Stopped
<1>3. CASE GoOn(q, Sent) /\ job[q].st = "send"
  <2>1. /\ Sent \in Job /\ Sent.st = "sent" /\ Sent.ctx = job[q].ctx
        /\ Sent.call = job[q].call /\ Sent.sends = job[q].sends + 1
    <3> DEFINE k == [job[q] EXCEPT !.st = "sent"]
    <3>1. /\ k \in Job /\ k.st = "sent" /\ k.ctx = job[q].ctx
          /\ k.call = job[q].call /\ k.sends = job[q].sends
      BY <1>1 DEF Job, Statuses
    <3>2. Sent = [k EXCEPT !.sends = job[q].sends + 1]
      OBVIOUS
    <3>3. job[q].sends + 1 \in Nat
      BY <1>1 DEF Job
    <3> HIDE DEF k, Sent
    <3> QED
      BY <3>1, <3>2, <3>3 DEF Job, Statuses
  <2>2. /\ job[q].sends \in Nat /\ job[q].sends <= MaxRetries
        /\ Plan[job[q].call] = "write" => job[q].sends = 0
        /\ job[q].ctx <= ProcessTimeout /\ job[q].call \in 0..Len(Plan)
        /\ job[q].call > 0
    BY <1>1, <1>3 DEF Called, Job
  <2>3. Called(Sent)
    <3> HIDE DEF Sent
    <3> QED
      BY <2>1, <2>2, PlanType DEF Called, Holding
  <2> QED
    BY <1>1, <1>3, <2>1, <2>3, GoOnStep DEF Holding
<1>4. CASE GoOn(q, Again) /\ job[q].st = "backoff"
  <2>1. /\ Again \in Job /\ Again.st = "send" /\ Again.ctx = job[q].ctx
        /\ Again.call = job[q].call /\ Again.sends = job[q].sends
    BY <1>1 DEF Job, Statuses
  <2>2. Called(Again)
    BY <1>1, <1>4, <2>1, PlanType DEF Called, Holding, Job
  <2> QED
    BY <1>1, <1>4, <2>1, <2>2, GoOnStep DEF Holding
<1> QED
  BY <1>2, <1>3, <1>4 DEF Send, Cut, Retry

LEMMA AnswerStep ==
  ASSUME ServerInv, NEW q \in Requests, Answered(q)
  PROVE  \E j : JobStep(q, j)
<1>1. job[q] \in Job /\ Called(job[q]) /\ job[q].st = "sent"
  BY DEF ServerInv, TypeOK, CallsInv, Answered
<1>h. job[q].st \in Holding
  BY <1>1 DEF Holding
<1>c. job[q].call \in 1..Len(Plan) /\ Plan[job[q].call] \in {"read", "write"}
  BY <1>1, <1>h, PlanType DEF Called
<1>st. ASSUME NEW s \in {"gaveUp", "error", "ok"},
              GoOn(q, [job[q] EXCEPT !.st = s]),
              s = "gaveUp" => job[q].sends = MaxRetries + 1
       PROVE  \E j : JobStep(q, j)
  <2> DEFINE j == [job[q] EXCEPT !.st = s]
  <2>1. /\ j \in Job /\ j.st = s /\ j.ctx = job[q].ctx
        /\ j.call = job[q].call /\ j.sends = job[q].sends
    BY <1>1 DEF Job, Statuses, Stopped
  <2>2. Called(j)
    BY <1>1, <1>st, <2>1 DEF Called, Holding
  <2> QED
    BY <1>h, <1>st, <2>1, <2>2, GoOnStep DEF Stopped
<1>2. CASE GoOn(q, NextCall(job[q]))
  <2>1. CASE job[q].call = Len(Plan)
    BY <1>2, <1>st, <2>1 DEF NextCall
  <2>2. CASE job[q].call # Len(Plan)
    <3> DEFINE j == [job[q] EXCEPT !.st = "send", !.call = @ + 1,
                                   !.sends = 0, !.delay = BaseDelay]
    <3>1. /\ j \in Job /\ j.st = "send" /\ j.ctx = job[q].ctx
          /\ j.call = job[q].call + 1 /\ j.sends = 0
      <4> DEFINE k == [job[q] EXCEPT !.st = "send"]
                 l == [k EXCEPT !.call = job[q].call + 1]
                 m == [l EXCEPT !.sends = 0]
      <4>1. /\ k \in Job /\ k.st = "send" /\ k.ctx = job[q].ctx
            /\ k.call = job[q].call /\ k.sends = job[q].sends
        BY <1>1 DEF Job, Statuses
      <4>2. j = [m EXCEPT !.delay = BaseDelay]
        OBVIOUS
      <4>3. job[q].call + 1 \in Nat
        BY <1>1 DEF Job
      <4> HIDE DEF j, k
      <4>4. /\ l \in Job /\ l.st = "send" /\ l.ctx = job[q].ctx
            /\ l.call = job[q].call + 1
        BY <4>1, <4>3 DEF Job, Statuses
      <4> HIDE DEF l
      <4>5. /\ m \in Job /\ m.st = "send" /\ m.ctx = job[q].ctx
            /\ m.call = job[q].call + 1 /\ m.sends = 0
        BY <4>4 DEF Job, Statuses
      <4> HIDE DEF m
      <4> QED
        BY <4>2, <4>5, PlanType DEF Job, Statuses
    <3>2. job[q].ctx <= ProcessTimeout /\ job[q].call + 1 \in 1..Len(Plan)
      BY <1>1, <1>c, <2>2, PlanType DEF Called
    <3>3. Called(j)
      <4> HIDE DEF j
      <4> QED
        BY <3>1, <3>2, PlanType DEF Called, Holding
    <3> QED
      BY <1>2, <1>h, <2>2, <3>1, <3>3, GoOnStep DEF NextCall, Holding
  <2> QED
    BY <2>1, <2>2
<1>3. CASE /\ Idempotent(job[q]) /\ TryAgain(job[q])
           /\ GoOn(q, [job[q] EXCEPT !.st = "backoff", !.wait = job[q].delay,
                                     !.delay = 2 * @])
  <2> DEFINE j == [job[q] EXCEPT !.st = "backoff", !.wait = job[q].delay,
                                 !.delay = 2 * @]
  <2>1. /\ j \in Job /\ j.st = "backoff" /\ j.ctx = job[q].ctx
        /\ j.call = job[q].call /\ j.sends = job[q].sends
    <3> DEFINE k == [job[q] EXCEPT !.st = "backoff"]
               l == [k EXCEPT !.wait = job[q].delay]
    <3>1. /\ k \in Job /\ k.st = "backoff" /\ k.ctx = job[q].ctx
          /\ k.call = job[q].call /\ k.sends = job[q].sends
      BY <1>1 DEF Job, Statuses
    <3>2. j = [l EXCEPT !.delay = 2 * job[q].delay]
      OBVIOUS
    <3>3. job[q].delay \in Nat /\ 2 * job[q].delay \in Nat
      BY <1>1 DEF Job
    <3> HIDE DEF j, k
    <3>4. /\ l \in Job /\ l.st = "backoff" /\ l.ctx = job[q].ctx
          /\ l.call = job[q].call /\ l.sends = job[q].sends
      BY <3>1, <3>3 DEF Job, Statuses
    <3> HIDE DEF l
    <3> QED
      BY <3>2, <3>3, <3>4 DEF Job, Statuses
  <2>2. Plan[job[q].call] = "read" /\ job[q].sends <= MaxRetries
    BY <1>3 DEF Idempotent, TryAgain
  <2>3. Called(j)
    <3> HIDE DEF j
    <3> QED
      BY <1>1, <1>h, <2>1, <2>2, PlanType DEF Called, Holding
  <2> QED
    BY <1>3, <1>h, <2>1, <2>3, GoOnStep DEF Holding
<1>4. CASE ~TryAgain(job[q]) /\ GoOn(q, [job[q] EXCEPT !.st = "gaveUp"])
  <2>1. job[q].sends = MaxRetries + 1
    BY <1>1, <1>4, PlanType DEF Called, TryAgain, Job
  <2> QED
    BY <1>4, <1>st, <2>1
<1>5. CASE GoOn(q, [job[q] EXCEPT !.st = "error"])
  BY <1>5, <1>st
<1> QED
  BY <1>2, <1>3, <1>4, <1>5 DEF Answered

LEMMA WorkStep ==
  ASSUME ServerInv, NEW q \in Requests, Work(q) \/ Answered(q)
  PROVE  \E j : JobStep(q, j)
BY StartStep, LockStep, SendStep, AnswerStep DEF Work

-----------------------------------------------------------------------------
(* A goroutine's step keeps the invariant.                                 *)
LEMMA JobKeeps ==
  ASSUME ServerInv, NEW q \in Requests, NEW j, JobStep(q, j)
  PROVE  ServerInv'
<1>t. TypeOK /\ job \in [Requests -> Job] /\ Nobody \notin Requests
  BY ServerType DEF ServerInv, TypeOK
<1>1. TypeOK'
  BY <1>t DEF TypeOK, JobStep
<1>j. \A r \in Requests : job'[r] = IF r = q THEN j ELSE job[r]
  BY <1>t DEF JobStep
<1>2. MutexInv'
  BY <1>t, <1>j DEF ServerInv, MutexInv, JobStep
<1>3. CallsInv'
  <2>1. conn[q] = "closed"
    BY DEF ServerInv, CallsInv, JobStep, NoJob, Stopped
  <2> QED
    BY <1>j, <2>1 DEF ServerInv, CallsInv, JobStep
<1>4. ClockInv'
  <2>1. q \in Running
    BY DEF JobStep, Running
  <2>2. ASSUME NEW r \in Running', graceful, main = "draining"
        PROVE  OnTime(job[r])'
    <3>1. CASE r # q
      <4>1. r \in Running /\ job'[r] = job[r] /\ spent' = spent
        BY <1>j, <2>2, <3>1 DEF Running, JobStep
      <4> QED
        BY <2>2, <4>1 DEF ServerInv, ClockInv, OnTime
    <3>2. CASE r = q
      <4>1. OnTime(job[q])
        BY <2>1, <2>2 DEF ServerInv, ClockInv
      <4>2. job'[q] = j /\ spent' = spent /\ j.st # "spawned"
        BY <1>j DEF JobStep
      <4>3. CASE job[q].st # "spawned"
        BY <3>2, <4>1, <4>2, <4>3 DEF OnTime, JobStep
      <4>4. CASE job[q].st = "spawned"
        <5>1. spent \in Nat /\ spent <= ShutdownTimeout /\ j.ctx \in Nat
              /\ j.ctx <= ProcessTimeout
          BY <1>t, <4>1, <4>4, PlanType
          DEF OnTime, JobStep, Called, TypeOK, MaxSpent, Job
        <5>2. spent + j.ctx <= ShutdownTimeout + ProcessTimeout
          BY <5>1, PlanType
        <5> QED
          BY <3>2, <4>2, <5>2 DEF OnTime
      <4> QED
        BY <4>3, <4>4
    <3> QED
      BY <3>1, <3>2
  <2>3. graceful /\ main \in {"leaving", "exited"} => Running' = {}
    BY <2>1 DEF ServerInv, ClockInv
  <2> QED
    BY <2>2, <2>3 DEF ServerInv, ClockInv, JobStep
<1> QED
  BY <1>1, <1>2, <1>3, <1>4 DEF ServerInv

(* A request that comes, is refused or is accepted.                        *)
LEMMA RequestKeeps ==
  ASSUME ServerInv, NEW q \in Requests, Connect(q) \/ Refuse(q) \/ Accept(q)
  PROVE  ServerInv'
<1>t. /\ job \in [Requests -> Job]
      /\ conn \in [Requests -> {"none", "reading", "closed"}]
  BY DEF ServerInv, TypeOK
<1>g. ~graceful
  BY DEF ServerInv, ClockInv, Connect, Refuse, Accept, Listening
<1>1. CASE Connect(q) \/ Refuse(q)
  <2>1. UNCHANGED <<main, graceful, shut, spent, job, mutex>>
        /\ conn' \in [Requests -> {"none", "reading", "closed"}]
    BY <1>1, <1>t DEF Connect, Refuse
  <2>2. \A r \in Requests : conn'[r] # "closed" => conn[r] # "closed"
    BY <1>1, <1>t DEF Connect, Refuse
  <2> QED
    BY <1>g, <2>1, <2>2 DEF ServerInv, TypeOK, MaxSpent, MutexInv, CallsInv,
       ClockInv, Running
<1>2. CASE Accept(q)
  <2>1. job[q] = NoJob
    BY <1>2 DEF ServerInv, CallsInv, Accept
  <2>2. [NoJob EXCEPT !.st = "spawned"] \in Job
    BY DEF NoJob, Job, Statuses
  <2>3. Called([NoJob EXCEPT !.st = "spawned"])
    BY PlanType DEF NoJob, Called, Holding
  <2>4. \A r \in Requests :
          /\ job'[r] = IF r = q THEN [NoJob EXCEPT !.st = "spawned"] ELSE job[r]
          /\ conn'[r] = IF r = q THEN "closed" ELSE conn[r]
    BY <1>2, <1>t, <2>1 DEF Accept
  <2>5. TypeOK'
    BY <1>2, <1>t, <2>1, <2>2 DEF ServerInv, TypeOK, Accept, MaxSpent
  <2>6. MutexInv'
    <3>1. [NoJob EXCEPT !.st = "spawned"].st \notin Holding
          /\ NoJob.st \notin Holding
      BY DEF NoJob, Holding
    <3> QED
      BY <1>2, <2>1, <2>4, <3>1 DEF ServerInv, MutexInv, Accept
  <2>7. CallsInv'
    BY <2>3, <2>4 DEF ServerInv, CallsInv
  <2>8. ClockInv'
    BY <1>2, <1>g DEF ServerInv, ClockInv, Accept
  <2> QED
    BY <2>5, <2>6, <2>7, <2>8 DEF ServerInv
<1> QED
  BY <1>1, <1>2

(* main on its way out.                                                    *)
LEMMA MainKeeps ==
  ASSUME ServerInv, Signal \/ Fatal \/ Leave
  PROVE  ServerInv'
<1>1. /\ UNCHANGED <<shut, spent, conn, job, mutex>>
      /\ main' \in {"stopping", "draining", "leaving", "exited"}
      /\ graceful' \in BOOLEAN
  BY DEF Signal, Fatal, Leave, EchoShutdown, Wait, Exit, ServerInv, TypeOK
<1>2. TypeOK' /\ MutexInv' /\ CallsInv'
  BY <1>1 DEF ServerInv, TypeOK, MaxSpent, MutexInv, CallsInv
<1>3. Running' = Running /\ \A j : OnTime(j) <=> OnTime(j)'
  BY <1>1 DEF Running, OnTime
<1>4. CASE Signal \/ Fatal
  <2>1. main = "serving" /\ UNCHANGED graceful
    BY <1>4 DEF Signal, Fatal
  <2>2. spent = 0 /\ shut = ShutdownTimeout /\ ~graceful
    BY <2>1 DEF ServerInv, ClockInv
  <2>3. ~graceful'
    BY <2>1, <2>2
  <2>4. main' # "serving" /\ spent' + shut' = ShutdownTimeout
    BY <1>1, <2>2, PlanType
  <2>5. ClockInv'
    BY <2>3, <2>4 DEF ClockInv
  <2> QED
    BY <1>2, <2>5 DEF ServerInv
<1>6. CASE EchoShutdown
  <2>1. spent \in Nat /\ shut \in Nat /\ spent <= ShutdownTimeout
    BY <1>6, PlanType DEF EchoShutdown, ServerInv, ClockInv, TypeOK, MaxSpent
  <2>2. \A q \in Requests : job[q].ctx \in Nat /\ job[q].ctx <= ProcessTimeout
    BY DEF ServerInv, TypeOK, CallsInv, Called, Job
  <2>3. \A q \in Requests : OnTime(job[q])
    BY <2>1, <2>2, PlanType DEF OnTime
  <2>4. /\ main' = "draining"
        /\ graceful' => \A q \in Requests : conn[q] # "reading"
    BY <1>6 DEF EchoShutdown
  <2> QED
    BY <1>1, <1>2, <1>3, <2>1, <2>3, <2>4, PlanType
    DEF ServerInv, ClockInv, Running, OnTime
<1>7. CASE Wait \/ Exit
  BY <1>1, <1>2, <1>3, <1>7 DEF Wait, Exit, Counter, ServerInv, ClockInv
<1> QED
  BY <1>2, <1>4, <1>6, <1>7 DEF Leave, ServerInv

(* Time passes only when nobody can move: a goroutine that has used up its *)
(* context then waits for one that has not.                                *)
LEMMA SomeTimeLeft ==
  ASSUME ServerInv, ~Urgent, NEW q \in Running
  PROVE  \E r \in Running : job[r].ctx > 0 /\ job[r].st # "spawned"
<1>t. q \in Requests /\ job[q] \in Job /\ job[q].st # "spawned"
  BY DEF Running, ServerInv, TypeOK, Urgent
<1>1. CASE job[q].st = "lock"
  <2>1. mutex \in Requests
    BY <1>t, <1>1 DEF Urgent, ServerInv, TypeOK
  <2>2. job[mutex].st \in Holding /\ job[mutex] \in Job
    BY <2>1 DEF ServerInv, MutexInv, TypeOK
  <2>3. job[mutex].ctx # 0 /\ job[mutex].ctx \in Nat
    BY <2>1, <2>2 DEF Urgent, Holding, Job
  <2> QED
    BY <2>1, <2>2, <2>3 DEF Running, Holding, Stopped
<1>2. CASE job[q].st # "lock"
  <2>1. job[q].st \in {"sent", "backoff"}
    BY <1>t, <1>2 DEF Urgent, Job, Statuses, Running
  <2>2. job[q].ctx # 0 /\ job[q].ctx \in Nat
    BY <1>t, <2>1 DEF Urgent, Job
  <2> QED
    BY <1>t, <2>2
<1> QED
  BY <1>1, <1>2

LEMMA LessType ==
  ASSUME NEW n \in Nat
  PROVE  /\ Less(n) \in Nat /\ Less(n) <= n
         /\ n > 0 => Less(n) = n - 1
BY DEF Less

LEMMA TickKeeps ==
  ASSUME ServerInv, Tick
  PROVE  ServerInv'
<1>t. /\ TypeOK /\ job \in [Requests -> Job]
      /\ spent \in Nat /\ spent <= MaxSpent /\ shut \in Nat
      /\ shut <= ShutdownTimeout /\ MaxSpent \in Nat
      /\ MaxSpent > ShutdownTimeout + ProcessTimeout
  BY PlanType DEF ServerInv, TypeOK, MaxSpent
<1>u. UNCHANGED <<main, graceful, conn, mutex>> /\ ~Urgent /\ Up
  BY DEF Tick
<1>s. ASSUME main # "serving"
      PROVE  /\ shut' = Less(shut)
             /\ spent' = IF spent < MaxSpent THEN spent + 1 ELSE spent
  BY <1>s DEF Tick
<1>j. ASSUME NEW q \in Requests
      PROVE  /\ job'[q] \in Job /\ job'[q].st = job[q].st
             /\ job'[q].call = job[q].call /\ job'[q].sends = job[q].sends
             /\ job'[q].ctx = Less(job[q].ctx)
             /\ job[q] = NoJob => job'[q] = NoJob
  <2>1. job[q] \in Job /\ job[q].ctx \in Nat /\ job[q].wait \in Nat
    BY <1>t DEF Job
  <2>2. job'[q] = [job[q] EXCEPT !.ctx = Less(job[q].ctx),
                                 !.wait = Less(job[q].wait)]
    BY DEF Tick
  <2>3. Less(job[q].ctx) \in Nat /\ Less(job[q].wait) \in Nat
    BY <2>1, LessType
  <2>4. job[q] = NoJob => job'[q] = NoJob
    <3> SUFFICES ASSUME job[q] = NoJob PROVE job'[q] = NoJob
      OBVIOUS
    <3>1. Less(job[q].ctx) = 0 /\ Less(job[q].wait) = 0
      BY DEF NoJob, Less
    <3>2. job'[q] = [NoJob EXCEPT !.ctx = 0, !.wait = 0]
      BY <2>2, <3>1
    <3> QED
      BY <3>2 DEF NoJob
  <2> HIDE DEF Less
  <2> QED
    BY <2>1, <2>2, <2>3, <2>4 DEF Job
<1>1. TypeOK'
  <2>1. job' \in [Requests -> Job]
    <3>1. job' = [q \in Requests |-> job'[q]]
      BY DEF Tick
    <3> QED
      BY <1>j, <3>1
  <2>2. shut' \in 0..ShutdownTimeout /\ spent' \in 0..MaxSpent
    <3>1. CASE main = "serving"
      <4>1. shut' = shut /\ spent' = spent
        BY <3>1 DEF Tick
      <4> QED
        BY <1>t, <4>1, PlanType
    <3>2. CASE main # "serving"
      <4>1. shut' = Less(shut) /\ Less(shut) \in Nat /\ Less(shut) <= shut
        BY <1>s, <1>t, <3>2, LessType
      <4>2. spent' \in 0..MaxSpent
        BY <1>s, <1>t, <3>2
      <4> QED
        BY <1>t, <4>1, <4>2, PlanType
    <3> QED
      BY <3>1, <3>2
  <2> QED
    BY <1>t, <1>u, <2>1, <2>2 DEF TypeOK, MaxSpent
<1>2. MutexInv'
  BY <1>j, <1>u DEF ServerInv, MutexInv
<1>3. CallsInv'
  <2>1. ASSUME NEW q \in Requests
        PROVE  Called(job'[q])
    <3>1. Called(job[q]) /\ job[q].ctx \in Nat /\ Less(job[q].ctx) \in Nat
          /\ Less(job[q].ctx) <= job[q].ctx
      BY <1>t, LessType DEF ServerInv, CallsInv, Job
    <3>2. Less(job[q].ctx) <= ProcessTimeout
      BY <3>1, PlanType DEF Called
    <3> QED
      BY <1>j, <3>1, <3>2 DEF Called
  <2> QED
    BY <1>j, <1>u, <2>1 DEF ServerInv, CallsInv
<1>4. ClockInv'
  <2>1. CASE main = "serving"
    <3>1. spent' = 0 /\ shut' = ShutdownTimeout /\ ~graceful
      BY <2>1 DEF Tick, ServerInv, ClockInv
    <3>2. ~graceful'
      BY <1>u, <3>1
    <3> QED
      BY <1>u, <2>1, <3>1, <3>2 DEF ClockInv
  <2>2. CASE main = "stopping"
    <3>1. shut > 0
      BY <1>t, <1>u, <2>2 DEF Urgent
    <3>2. shut' = shut - 1 /\ spent' = spent + 1
      BY <1>s, <1>t, <2>2, <3>1, LessType, PlanType DEF ServerInv, ClockInv
    <3> QED
      BY <1>t, <1>u, <2>2, <3>2, PlanType DEF ServerInv, ClockInv
  <2>3. CASE main = "draining" /\ graceful
    <3>1. Running # {}
      BY <1>u, <2>3 DEF Urgent
    <3>2. PICK r \in Running : job[r].ctx > 0 /\ job[r].st # "spawned"
      BY <1>u, <3>1, SomeTimeLeft
    <3>3. spent + job[r].ctx <= ShutdownTimeout + ProcessTimeout
      BY <2>3, <3>2 DEF ServerInv, ClockInv, OnTime
    <3>4. job[r].ctx \in Nat
      BY <1>t DEF Running, Job
    <3>5. spent' = spent + 1 /\ spent + 1 <= ShutdownTimeout + ProcessTimeout
      BY <1>s, <1>t, <2>3, <3>2, <3>3, <3>4, PlanType
    <3>6. ASSUME NEW q \in Running'
          PROVE  OnTime(job[q])'
      <4>1. q \in Running /\ q \in Requests /\ job'[q].st = job[q].st
            /\ job[q].st # "spawned"
        BY <1>j, <1>u DEF Running, Urgent
      <4>2. spent + job[q].ctx <= ShutdownTimeout + ProcessTimeout
        BY <2>3, <4>1 DEF ServerInv, ClockInv, OnTime
      <4>3. job[q].ctx \in Nat /\ job'[q].ctx = Less(job[q].ctx)
        BY <1>j, <1>t, <4>1 DEF Job
      <4>4. spent' + job'[q].ctx <= ShutdownTimeout + ProcessTimeout
        BY <1>t, <3>5, <4>2, <4>3, PlanType DEF Less
      <4> QED
        BY <4>1, <4>4 DEF OnTime
    <3> QED
      BY <1>u, <2>3, <3>5, <3>6 DEF ServerInv, ClockInv
  <2>4. CASE main \notin {"serving", "stopping"} /\ ~graceful
    BY <1>u, <2>4 DEF ClockInv
  <2>5. main \notin {"leaving", "exited"}
    BY <1>u DEF Urgent, Up
  <2> QED
    BY <1>t, <2>1, <2>2, <2>3, <2>4, <2>5 DEF TypeOK
<1> QED
  BY <1>1, <1>2, <1>3, <1>4 DEF ServerInv

-----------------------------------------------------------------------------
LEMMA ServerInvInit == Init => ServerInv
<1> SUFFICES ASSUME Init PROVE ServerInv
  OBVIOUS
<1>1. NoJob \in Job /\ Called(NoJob) /\ NoJob.st \notin Holding
  BY PlanType DEF NoJob, Job, Statuses, Stopped, Called, Holding
<1>2. TypeOK
  <2>1. job \in [Requests -> Job]
    BY <1>1 DEF Init
  <2>2. shut \in 0..ShutdownTimeout /\ spent \in 0..MaxSpent
    BY PlanType DEF Init, MaxSpent
  <2> QED
    BY <2>1, <2>2 DEF Init, TypeOK
<1>3. MutexInv
  BY <1>1, ServerType DEF Init, MutexInv
<1>4. CallsInv /\ ClockInv
  BY <1>1 DEF Init, CallsInv, ClockInv
<1> QED
  BY <1>2, <1>3, <1>4 DEF ServerInv

LEMMA ServerInvStep == ServerInv /\ [Next]_vars => ServerInv'
<1> SUFFICES ASSUME ServerInv, [Next]_vars
             PROVE  ServerInv'
  OBVIOUS
<1>1. ASSUME NEW q \in Requests, Work(q) \/ Answered(q)
      PROVE  ServerInv'
  BY <1>1, WorkStep, JobKeeps
<1>2. CASE UNCHANGED vars
  BY <1>2 DEF vars, ServerInv, TypeOK, MaxSpent, MutexInv, CallsInv, ClockInv,
     Running, OnTime
<1> QED
  BY <1>1, <1>2, RequestKeeps, MainKeeps, TickKeeps DEF Next, Over

(* Every variable keeps its type.                                          *)
THEOREM ServerTypes == Spec => []TypeOK
<1>1. ServerInv => TypeOK
  BY DEF ServerInv
<1> QED
  BY <1>1, ServerInvInit, ServerInvStep, PTL DEF Spec

(* After Echo shut down in time, the process is gone within the two        *)
(* timeouts, however many deliveries queue for the mutex of one pull       *)
(* request: their contexts run while they wait (server.go:64-68;           *)
(* webhook.go:42-43; approver.go:80).                                      *)
THEOREM DrainBound == Spec => []DrainIsBounded
<1>1. ServerInv => DrainIsBounded
  BY DEF ServerInv, ClockInv, DrainIsBounded
<1> QED
  BY <1>1, ServerInvInit, ServerInvStep, PTL DEF Spec

(* ... and takes no accepted delivery with it (webhook.go:40-50).          *)
THEOREM NothingLost == Spec => []GracefulLosesNothing
<1>1. ServerInv => GracefulLosesNothing
  BY DEF ServerInv, ClockInv, GracefulLosesNothing
<1> QED
  BY <1>1, ServerInvInit, ServerInvStep, PTL DEF Spec

(* Whatever the plan of calls, no write is sent twice (transport.go:32-40, *)
(* where only GET and HEAD get to the loop).                               *)
THEOREM SendsAreCounted == Spec => []WriteSentOnce
<1>1. ServerInv => WriteSentOnce
  BY DEF ServerInv, CallsInv, Called, WriteSentOnce
<1> QED
  BY <1>1, ServerInvInit, ServerInvStep, PTL DEF Spec

(* For every MaxRetries, a read is given up after its last retry and never *)
(* before (transport.go:42-48).                                            *)
THEOREM RetriesAreUsedUp == Spec => []GivesUpLast
<1>1. ServerInv => GivesUpLast
  BY DEF ServerInv, CallsInv, Called, GivesUpLast
<1> QED
  BY <1>1, ServerInvInit, ServerInvStep, PTL DEF Spec
=============================================================================
