----------------------------- MODULE SystemTask -----------------------------
(***************************************************************************)
(* Background tasks under a database lease: model/system_task.go and the   *)
(* runner of service/system_task.go, for one task type.  (Types share      *)
(* nothing: active_key and the lock row are per type.)                     *)
(*                                                                         *)
(* Every master node runs a runner.  A pass of it fails the tasks whose    *)
(* lease has lapsed and claims the pending task; a claimed task runs in a  *)
(* goroutine of its own, next to a heartbeat that renews the lease.  Each  *)
(* statement is a step, so passes, heartbeats and handlers of all nodes    *)
(* interleave, and the time a statement compares with may be old.  All     *)
(* clocks agree.                                                           *)
(***************************************************************************)
EXTENDS Integers, FiniteSets

CONSTANTS
  Runners,       \* runner ids: one per process start, never used again
  None,          \* no runner
  MaxTasks,      \* bound: task rows, numbered in order of creation
  TTL,           \* systemTaskLockTTL
  MaxTime,       \* bound: heartbeats renew a lease up to this time
  EndOfTime,     \* bound: the clock stops here
  MaxFaults,     \* bound: crashes and failed statements
  TimelyClaims,  \* a claim is through before the lease it takes lapses
  LostReplies    \* a statement that failed may have run

ASSUME SystemTaskAssumption ==
  /\ None \notin Runners
  /\ MaxTasks \in Nat /\ TTL \in Nat \ {0} /\ MaxTime \in Nat /\ EndOfTime \in Nat
  /\ MaxFaults \in Nat
  /\ TimelyClaims \in BOOLEAN /\ LostReplies \in BOOLEAN

Tasks == 1 .. MaxTasks
Active == {"pending", "running"}
Ended == {"succeeded", "failed"}

\* system_tasks and the row of system_task_locks (task 0: there is none).
TaskRow == [status: {"none"} \cup Active \cup Ended, key: BOOLEAN, by: Runners \cup {None},
            expired: BOOLEAN]
LockRow == [task: Tasks \cup {0}, by: Runners \cup {None}, until: Nat]

NoTask == [status |-> "none", key |-> FALSE, by |-> None, expired |-> FALSE]
NoLock == [task |-> 0, by |-> None, until |-> 0]

\* The pass of a runner: what it does next and the values it read before.
Pass == [pc: {"idle", "expire", "unlock", "acquire", "held", "takeover", "mark", "run",
              "giveup", "dead"},
         now: Nat, until: Nat, task: Tasks \cup {0}, old: LockRow]
Resting == [pc |-> "idle", now |-> 0, until |-> 0, task |-> 0, old |-> NoLock]

\* The execution of a task: its handler, the heartbeat's and the handler's
\* reading of the clock, and the end of the lease it last wrote.
Exec == [pc: {"none", "running", "finish", "release", "over"}, by: Runners \cup {None},
         lease: Nat, beat: {"rest", "renew", "stopped"}, beatNow: Nat, now: Nat]
NoExec == [pc |-> "none", by |-> None, lease |-> 0, beat |-> "rest", beatNow |-> 0,
           now |-> 0]

VARIABLES
  task,    \* system_tasks
  lock,    \* system_task_locks
  pass,    \* the runner goroutine of each node
  exec,    \* the goroutines running each task
  starts,  \* how often each task was dispatched
  clock, faults

vars == <<task, lock, pass, exec, starts, clock, faults>>

Init ==
  /\ task = [t \in Tasks |-> NoTask] /\ lock = NoLock
  /\ pass = [r \in Runners |-> Resting]
  /\ exec = [t \in Tasks |-> NoExec] /\ starts = [t \in Tasks |-> 0]
  /\ clock = 0 /\ faults = 0

-----------------------------------------------------------------------------
(* Statements *)

\* Mutant of UniqueActive: active_key is not unique.
NotUnique == task \in [Tasks -> TaskRow]

\* The unique index on active_key.
UniqueActive == \A t \in Tasks : ~task[t].key

\* CreateSystemTask, by the scheduler of a runner or on demand
\* (EnqueueSystemTask, StartLogCleanupTask).  Their look at the active task
\* beforehand saves them an insert the index would refuse, and whether a
\* scheduled task is due is left open.
CreateSystemTask(t) ==
  /\ task[t].status = "none" /\ \A s \in 1 .. t - 1 : task[s].status # "none"
  /\ UniqueActive
  /\ task' = [task EXCEPT ![t] = [NoTask EXCEPT !.status = "pending", !.key = TRUE]]
  /\ UNCHANGED <<lock, pass, exec, starts, clock, faults>>

\* Mutants of Expired: a task is failed whatever its status, or never.
ExpiredAnyStatus(t) ==
  IF t \in Tasks
  THEN [task EXCEPT ![t] = [@ EXCEPT !.status = "failed", !.key = FALSE, !.expired = TRUE]]
  ELSE task
ExpiredNever(t) == IF t \in Tasks THEN task ELSE task

\* MarkSystemTaskLeaseExpired.
Expired(t) ==
  IF t \in Tasks /\ task[t].status = "running"
  THEN [task EXCEPT ![t] = [@ EXCEPT !.status = "failed", !.key = FALSE, !.expired = TRUE]]
  ELSE task

\* ReleaseSystemTaskLock.
Released(t, r) == IF lock.task = t /\ lock.by = r THEN NoLock ELSE lock

\* The lock condition of RenewSystemTaskLock, UpdateSystemTaskState and
\* FinishSystemTask.
Holds(t, r, now) == lock.task = t /\ lock.by = r /\ lock.until >= now

\* systemTaskLockUntil.
SystemTaskLockUntil(now) == now + TTL

\* Mutant of Lapsed: a lease still valid counts as lapsed.
LapsedEarly(l, now) == l.task # 0 /\ l.until <= now

Lapsed(l, now) == l.task # 0 /\ l.until < now

-----------------------------------------------------------------------------
(* A pass of the runner *)

SetPass(r, p) == pass' = [pass EXCEPT ![r] = p] /\ UNCHANGED <<clock, faults>>

\* ExpireStaleSystemTaskLocks lists the lapsed lock, ...
ListStaleLock(r) ==
  /\ pass[r].pc = "idle" /\ Lapsed(lock, clock)
  /\ SetPass(r, [pc |-> "expire", now |-> clock, until |-> 0, task |-> 0, old |-> lock])
  /\ UNCHANGED <<task, lock, exec, starts>>

\* ... fails its task if that is running ...
ExpireTask(r) ==
  /\ pass[r].pc = "expire"
  /\ task' = Expired(pass[r].old.task)
  /\ SetPass(r, [pass[r] EXCEPT !.pc = "unlock"])
  /\ UNCHANGED <<lock, exec, starts>>

\* ... and deletes the lock if it has not been taken or renewed since.
Unlocked(r) ==
  LET old == pass[r].old
  IN IF lock.task = old.task /\ lock.by = old.by /\ Lapsed(lock, pass[r].now)
     THEN NoLock ELSE lock

DeleteStaleLock(r) ==
  /\ pass[r].pc = "unlock"
  /\ lock' = Unlocked(r)
  /\ SetPass(r, Resting)
  /\ UNCHANGED <<task, exec, starts>>

\* runSystemTaskClaimPass finds the earliest pending task and ClaimSystemTask
\* reads it.
ClaimSystemTask(r, t) ==
  /\ pass[r].pc = "idle"
  /\ task[t].status = "pending" /\ \A s \in 1 .. t - 1 : task[s].status # "pending"
  /\ SetPass(r, [pc |-> "acquire", now |-> clock, until |-> SystemTaskLockUntil(clock),
                 task |-> t, old |-> NoLock])
  /\ UNCHANGED <<task, lock, exec, starts>>

MyLock(r) == [task |-> pass[r].task, by |-> r, until |-> pass[r].until]

\* acquireSystemTaskLock inserts the lock, ...
InsertLock(r) ==
  /\ pass[r].pc = "acquire"
  /\ IF lock = NoLock
     THEN lock' = MyLock(r) /\ SetPass(r, [pass[r] EXCEPT !.pc = "run"])
     ELSE UNCHANGED lock /\ SetPass(r, [pass[r] EXCEPT !.pc = "held"])
  /\ UNCHANGED <<task, exec, starts>>

\* ... or looks at the one there is and gives up on a valid one ...
ReadLock(r) ==
  /\ pass[r].pc = "held"
  /\ SetPass(r, IF Lapsed(lock, pass[r].now)
                THEN [pass[r] EXCEPT !.pc = "takeover", !.old = lock] ELSE Resting)
  /\ UNCHANGED <<task, lock, exec, starts>>

\* ... or takes over one that is still lapsed.
TakeOverLock(r) ==
  /\ pass[r].pc = "takeover"
  /\ IF Lapsed(lock, pass[r].now)
     THEN /\ lock' = MyLock(r)
          /\ SetPass(r, [pass[r] EXCEPT
                !.pc = IF pass[r].old.task # pass[r].task THEN "mark" ELSE "run"])
     ELSE UNCHANGED lock /\ SetPass(r, Resting)
  /\ UNCHANGED <<task, exec, starts>>

\* The task of the lock that was taken over is failed.
MarkExpired(r) ==
  /\ pass[r].pc = "mark"
  /\ task' = Expired(pass[r].old.task)
  /\ SetPass(r, [pass[r] EXCEPT !.pc = "run"])
  /\ UNCHANGED <<lock, exec, starts>>

\* Mutant of Claimable: the task is not required to be pending still.
ClaimableAnyway(t) == task[t].status \in Active

\* The task is still pending: the condition of the update that claims it.
Claimable(t) == task[t].status = "pending"

Claimed(r) ==
  LET t == pass[r].task
  IN IF Claimable(t) THEN [task EXCEPT ![t] = [@ EXCEPT !.status = "running", !.by = r]]
     ELSE task

\* The task is marked running and dispatched, unless it is pending no more.
RunTask(r) ==
  LET t == pass[r].task
  IN /\ pass[r].pc = "run"
     /\ task' = Claimed(r)
     /\ IF Claimable(t)
        THEN /\ exec' = [exec EXCEPT ![t] =
                [pc |-> "running", by |-> r, lease |-> pass[r].until, beat |-> "rest",
                 beatNow |-> 0, now |-> 0]]
             /\ starts' = [starts EXCEPT ![t] = @ + 1]
             /\ SetPass(r, Resting)
        ELSE SetPass(r, [pass[r] EXCEPT !.pc = "giveup"]) /\ UNCHANGED <<exec, starts>>
     /\ UNCHANGED lock

\* A claim that failed lets go of the lock.
GiveUp(r) ==
  /\ pass[r].pc = "giveup"
  /\ lock' = Released(pass[r].task, r)
  /\ SetPass(r, Resting)
  /\ UNCHANGED <<task, exec, starts>>

\* What the statement a pass is at does to the two tables.
TaskAfter(r) ==
  IF pass[r].pc \in {"expire", "mark"} THEN Expired(pass[r].old.task)
  ELSE IF pass[r].pc = "run" THEN Claimed(r) ELSE task

LockAfter(r) ==
  IF \/ pass[r].pc = "acquire" /\ lock = NoLock
     \/ pass[r].pc = "takeover" /\ Lapsed(lock, pass[r].now) THEN MyLock(r)
  ELSE IF pass[r].pc = "unlock" THEN Unlocked(r)
  ELSE IF pass[r].pc = "giveup" THEN Released(pass[r].task, r) ELSE lock

\* Where a pass goes on when a statement fails: an insert that failed counts as
\* refused, and a claim lets go of the lock it has.
AfterFailure(p) ==
  IF p.pc = "acquire" THEN [p EXCEPT !.pc = "held"]
  ELSE IF p.pc \in {"mark", "run"} THEN [p EXCEPT !.pc = "giveup"] ELSE Resting

\* A statement of the pass fails and may have run all the same.
StatementFails(r) ==
  /\ faults < MaxFaults /\ faults' = faults + 1
  /\ pass[r].pc \notin {"idle", "dead"}
  /\ pass' = [pass EXCEPT ![r] = AfterFailure(pass[r])]
  /\ \/ UNCHANGED <<task, lock>>
     \/ LostReplies /\ task' = TaskAfter(r) /\ lock' = LockAfter(r)
  /\ UNCHANGED <<exec, starts, clock>>

\* The task is claimed but cannot be read back: it is not dispatched, and the
\* lock stays.
ReadBackFails(r) ==
  /\ faults < MaxFaults /\ faults' = faults + 1
  /\ pass[r].pc = "run" /\ Claimable(pass[r].task)
  /\ task' = Claimed(r)
  /\ pass' = [pass EXCEPT ![r] = Resting]
  /\ UNCHANGED <<lock, exec, starts, clock>>

-----------------------------------------------------------------------------
(* The goroutines of a task *)

SetExec(t, e) == exec' = [exec EXCEPT ![t] = e] /\ UNCHANGED <<pass, starts, clock, faults>>

\* The handler has returned; a renewal under way is still carried out.
Over(e) ==
  IF e.beat = "renew" THEN [e EXCEPT !.pc = "over", !.lease = 0, !.now = 0]
  ELSE [NoExec EXCEPT !.pc = "over", !.beat = "stopped"]

\* runWithLeaseHeartbeat: the ticker fires and RenewSystemTaskLock reads the
\* clock ...
HeartbeatTick(t) ==
  /\ exec[t].pc \in {"running", "finish", "release"}
  /\ exec[t].beat = "rest" /\ clock <= MaxTime
  /\ SetExec(t, [exec[t] EXCEPT !.beat = "renew", !.beatNow = clock])
  /\ UNCHANGED <<task, lock>>

\* The heartbeat goes on or stops, and knows the lease it has written.
BeatEnds(e, beat, lease) ==
  IF e.pc = "over" THEN Over([e EXCEPT !.beat = beat])
  ELSE [e EXCEPT !.beat = beat, !.beatNow = 0, !.lease = lease]

\* ... and renews the lease, or finds it lost and cancels the handler.
RenewSystemTaskLock(t) ==
  LET e == exec[t]
      until == SystemTaskLockUntil(e.beatNow)
  IN /\ e.beat = "renew"
     /\ IF Holds(t, e.by, e.beatNow)
        THEN lock' = [lock EXCEPT !.until = until] /\ SetExec(t, BeatEnds(e, "rest", until))
        ELSE UNCHANGED lock /\ SetExec(t, BeatEnds(e, "stopped", e.lease))
     /\ UNCHANGED task

\* A renewal that fails, and may have run, stops the heartbeat too.
RenewFails(t) ==
  LET e == exec[t]
      until == SystemTaskLockUntil(e.beatNow)
  IN /\ faults < MaxFaults /\ faults' = faults + 1
     /\ e.beat = "renew"
     /\ \/ UNCHANGED lock /\ exec' = [exec EXCEPT ![t] = BeatEnds(e, "stopped", e.lease)]
        \/ /\ LostReplies /\ Holds(t, e.by, e.beatNow)
           /\ lock' = [lock EXCEPT !.until = until]
           /\ exec' = [exec EXCEPT ![t] = BeatEnds(e, "stopped", until)]
     /\ UNCHANGED <<task, pass, starts, clock>>

\* The handler is done and calls FinishSystemTask ...
HandlerDone(t) ==
  /\ exec[t].pc = "running"
  /\ SetExec(t, [exec[t] EXCEPT !.pc = "finish", !.now = clock])
  /\ UNCHANGED <<task, lock>>

\* ... or returns without, on a lost lock, a database error or a panic.
HandlerQuits(t) ==
  /\ exec[t].pc = "running"
  /\ SetExec(t, Over(exec[t]))
  /\ UNCHANGED <<task, lock>>

\* FinishSystemTask ends the task if it is still this runner's ...
Finishable(t) ==
  task[t].status = "running" /\ task[t].by = exec[t].by /\ Holds(t, exec[t].by, exec[t].now)

Finish(t) ==
  IF Finishable(t)
  THEN \E outcome \in Ended :
         task' = [task EXCEPT ![t] = [@ EXCEPT !.status = outcome, !.key = FALSE]]
  ELSE UNCHANGED task

FinishSystemTask(t) ==
  /\ exec[t].pc = "finish"
  /\ Finish(t)
  /\ SetExec(t, IF Finishable(t) THEN [exec[t] EXCEPT !.pc = "release", !.now = 0]
                ELSE Over(exec[t]))
  /\ UNCHANGED lock

\* ... and releases the lock.
FinishReleases(t) ==
  /\ exec[t].pc = "release"
  /\ lock' = Released(t, exec[t].by)
  /\ SetExec(t, Over(exec[t]))
  /\ UNCHANGED task

\* A statement of FinishSystemTask fails, and may have run; the handler returns.
FinishFails(t) ==
  /\ faults < MaxFaults /\ faults' = faults + 1
  /\ \/ exec[t].pc = "finish" /\ (UNCHANGED task \/ (LostReplies /\ Finish(t)))
     \/ exec[t].pc = "release" /\ UNCHANGED task
  /\ exec' = [exec EXCEPT ![t] = Over(exec[t])]
  /\ UNCHANGED <<lock, pass, starts, clock>>

-----------------------------------------------------------------------------
(* The surroundings *)

\* The process of a runner is killed, with every goroutine it has.
Crash(r) ==
  /\ faults < MaxFaults /\ faults' = faults + 1
  /\ pass[r].pc # "dead"
  /\ pass' = [pass EXCEPT ![r] = [Resting EXCEPT !.pc = "dead"]]
  /\ exec' = [t \in Tasks |-> IF exec[t].by = r
                              THEN Over([exec[t] EXCEPT !.beat = "stopped"])
                              ELSE exec[t]]
  /\ UNCHANGED <<task, lock, starts, clock>>

Claiming(r) == pass[r].pc \in {"acquire", "held", "takeover", "mark", "run"}

\* Time passes, after MaxTime only until the last lease has lapsed.
Tick ==
  /\ clock < EndOfTime
  /\ clock < MaxTime \/ (lock # NoLock /\ lock.until >= clock)
  /\ TimelyClaims => \A r \in Runners : Claiming(r) => clock < pass[r].until
  /\ clock' = clock + 1
  /\ UNCHANGED <<task, lock, pass, exec, starts, faults>>

-----------------------------------------------------------------------------
\* The steps that end a pass once it has begun.
PassStep(r) ==
  \/ ExpireTask(r) \/ DeleteStaleLock(r)
  \/ InsertLock(r) \/ ReadLock(r) \/ TakeOverLock(r) \/ MarkExpired(r) \/ RunTask(r)
  \/ GiveUp(r)

HandlerEnds(t) == HandlerQuits(t) \/ HandlerDone(t)

Finishing(t) == FinishSystemTask(t) \/ FinishReleases(t)

Next ==
  \/ \E t \in Tasks : CreateSystemTask(t) \/ HeartbeatTick(t) \/ RenewSystemTaskLock(t)
                        \/ RenewFails(t) \/ HandlerEnds(t) \/ Finishing(t) \/ FinishFails(t)
  \/ \E r \in Runners : ListStaleLock(r) \/ PassStep(r) \/ StatementFails(r)
                          \/ ReadBackFails(r) \/ Crash(r)
                          \/ \E t \in Tasks : ClaimSystemTask(r, t)
  \/ Tick

Spec == Init /\ [][Next]_vars

\* Every live runner goes on passing, with the stale locks every 30 s and the
\* pending task every 15 s, handlers return and time passes.
FairSpec ==
  /\ Spec /\ WF_vars(Tick)
  /\ \A r \in Runners :
       /\ WF_vars(PassStep(r)) /\ SF_vars(ListStaleLock(r))
       /\ SF_vars(\E t \in Tasks : ClaimSystemTask(r, t))
  /\ \A t \in Tasks :
       WF_vars(RenewSystemTaskLock(t)) /\ WF_vars(HandlerEnds(t)) /\ WF_vars(Finishing(t))

-----------------------------------------------------------------------------
(* Properties *)

\* Every row, goroutine and counter has its type.
TypeOK ==
  /\ task \in [Tasks -> TaskRow] /\ lock \in LockRow
  /\ pass \in [Runners -> Pass] /\ exec \in [Tasks -> Exec]
  /\ starts \in [Tasks -> Nat] /\ clock \in Nat /\ faults \in Nat

\* The index on active_key does its work only if the key goes with the status
\* through claims, takeovers, lapsed leases and finishes: there is at most one
\* task to do or being done, and a task that ended never blocks the type.
OneActiveTask ==
  /\ \A t \in Tasks : task[t].key <=> task[t].status \in Active
  /\ \A s, t \in Tasks : task[s].status \in Active /\ task[t].status \in Active => s = t

\* However many runners see a task pending, and however their claims, takeovers
\* and crashes interleave, its handler is started once at most.
StartedOnce == \A t \in Tasks : starts[t] <= 1

Running(t) == exec[t].pc \in {"running", "finish"}

\* A lease is honoured for its whole length: while the lease a handler last
\* wrote runs, the lock row is its own, whatever stale clocks other runners
\* compare it with.
LeaseHonoured ==
  \A t \in Tasks : Running(t) /\ exec[t].lease >= clock =>
    lock = [task |-> t, by |-> exec[t].by, until |-> exec[t].lease]

\* A task ends once: no late finish, lapse or takeover changes the outcome, and
\* none ends a task that was not running.
OutcomeFinal ==
  [][\A t \in Tasks :
       /\ task[t].status \in Ended => task'[t] = task[t]
       /\ task[t].status = "pending" => task'[t].status \in Active]_vars

\* A task that is created ends, so the type is never blocked for good: it is
\* claimed, and if its runner dies or loses the lease another one fails it.
TasksEnd == \A t \in Tasks : (task[t].status \in Active) ~> (task[t].status \in Ended)
=============================================================================
