-------------------------- MODULE SystemTaskProofs --------------------------
(* The lease argument of the system tasks, for every number of runners and *)
(* tasks, every TTL, and every schedule of crashes, failed statements,     *)
(* lost replies and claims slower than the lease.                          *)
EXTENDS SystemTask, TLAPS

Claims == {"acquire", "held", "takeover", "mark", "run", "giveup"}

\* A pass compares with a time that has been, claims a task that exists and is
\* not one its own process runs, and owns the lock from taking it until the
\* lease lapses.
PassOK(r) ==
  /\ pass[r].now <= clock
  /\ pass[r].pc \in Claims =>
       /\ pass[r].task \in Tasks
       /\ task[pass[r].task].status # "none"
       /\ exec[pass[r].task].by # r
  /\ pass[r].pc \in {"mark", "run"} /\ pass[r].until >= clock => lock = MyLock(r)

\* A task is started when it stops being pending, never again.
ExecOK(t) ==
  /\ starts[t] = IF exec[t].pc = "none" THEN 0 ELSE 1
  /\ exec[t].pc = "none" => exec[t].by = None /\ exec[t].beat = "rest"
  /\ exec[t].pc # "none" => task[t].status \notin {"none", "pending"}

PassesOK == \A r \in Runners : PassOK(r)
ExecsOK == \A t \in Tasks : ExecOK(t)

IInv == TypeOK /\ OneActiveTask /\ PassesOK /\ ExecsOK /\ LeaseHonoured

-----------------------------------------------------------------------------
(* What a statement does to the task rows *)

\* A row stays, is claimed, or ends.
RowMoves(t) ==
  \/ task'[t] = task[t]
  \/ task[t].status = "pending" /\ task'[t].status = "running" /\ task'[t].key
  \/ task[t].status = "running" /\ task'[t].status \in Ended /\ ~task'[t].key

RowsMove == task' \in [Tasks -> TaskRow] /\ \A t \in Tasks : RowMoves(t)

\* One row is claimed or ends, the others stay.
LEMMA RowReplaced ==
  ASSUME TypeOK, NEW u \in Tasks, NEW row \in TaskRow, task' = [task EXCEPT ![u] = row],
         \/ task[u].status = "pending" /\ row.status = "running" /\ row.key
         \/ task[u].status = "running" /\ row.status \in Ended /\ ~row.key
  PROVE  RowsMove
<1>1. task' \in [Tasks -> TaskRow] /\ task'[u] = row
  BY DEF TypeOK
<1>2. \A t \in Tasks : t # u => task'[t] = task[t]
  BY DEF TypeOK
<1>3. \A t \in Tasks : RowMoves(t)
  <2> TAKE t \in Tasks
  <2>1. CASE t = u
    BY <1>1, <2>1 DEF RowMoves
  <2>2. CASE t # u
    BY <1>2, <2>2 DEF RowMoves
  <2> QED BY <2>1, <2>2
<1> QED BY <1>1, <1>3 DEF RowsMove

\* Failing a task whose lease has lapsed is such a move.
LEMMA ExpiredMoves ==
  ASSUME TypeOK, NEW u, task' = Expired(u)
  PROVE  RowsMove
<1>1. CASE u \in Tasks /\ task[u].status = "running"
  <2> DEFINE row == [task[u] EXCEPT !.status = "failed", !.key = FALSE, !.expired = TRUE]
  <2>1. task' = [task EXCEPT ![u] = row]
    BY <1>1 DEF Expired
  <2>2. row \in TaskRow /\ row.status \in Ended /\ ~row.key
    BY <1>1 DEF TypeOK, TaskRow, Ended
  <2> QED BY <1>1, <2>1, <2>2, RowReplaced DEF RowMoves
<1>2. CASE ~(u \in Tasks /\ task[u].status = "running")
  BY <1>2 DEF Expired, TypeOK, RowsMove, RowMoves
<1> QED BY <1>1, <1>2

\* So is claiming it.
LEMMA ClaimedMoves ==
  ASSUME TypeOK, OneActiveTask, NEW r \in Runners, pass[r].task \in Tasks, task' = Claimed(r)
  PROVE  RowsMove
<1> DEFINE u == pass[r].task
<1>1. CASE Claimable(u)
  <2> DEFINE row == [task[u] EXCEPT !.status = "running", !.by = r]
  <2>1. task' = [task EXCEPT ![u] = row]
    BY <1>1 DEF Claimed
  <2>2. task[u].key
    BY <1>1 DEF OneActiveTask, Claimable, Active
  <2>3. row \in TaskRow /\ row.status = "running" /\ row.key
    BY <2>2 DEF TypeOK, TaskRow, Active
  <2> QED BY <1>1, <2>1, <2>3, RowReplaced DEF Claimable
<1>2. CASE ~Claimable(u)
  BY <1>2 DEF Claimed, TypeOK, RowsMove, RowMoves
<1> QED BY <1>1, <1>2

\* And ending it.
LEMMA FinishMoves ==
  ASSUME TypeOK, NEW u \in Tasks, Finish(u)
  PROVE  RowsMove
<1>1. CASE Finishable(u)
  <2>1. PICK outcome \in Ended :
           task' = [task EXCEPT ![u] = [task[u] EXCEPT !.status = outcome, !.key = FALSE]]
    BY <1>1 DEF Finish
  <2> DEFINE row == [task[u] EXCEPT !.status = outcome, !.key = FALSE]
  <2>2. row \in TaskRow /\ row.status \in Ended /\ ~row.key
    BY DEF TypeOK, TaskRow, Ended
  <2> QED BY <1>1, <2>1, <2>2, RowReplaced DEF Finishable
<1>2. CASE ~Finishable(u)
  BY <1>2 DEF Finish, TypeOK, RowsMove, RowMoves
<1> QED BY <1>1, <1>2

\* Such moves keep at most one task active, and a started task started.
LEMMA RowsKept ==
  ASSUME TypeOK, OneActiveTask, RowsMove
  PROVE  /\ OneActiveTask'
         /\ \A t \in Tasks : /\ task[t].status # "none" => task'[t].status # "none"
                             /\ task[t].status \notin {"none", "pending"}
                                  => task'[t].status \notin {"none", "pending"}
<1>1. \A t \in Tasks : task'[t].status \in Active => task[t].status \in Active
  BY DEF RowsMove, RowMoves, Active, Ended
<1>2. \A t \in Tasks : task'[t].key <=> task'[t].status \in Active
  BY DEF RowsMove, RowMoves, Active, Ended, OneActiveTask
<1>3. OneActiveTask'
  BY <1>1, <1>2 DEF OneActiveTask
<1> QED BY <1>3 DEF RowsMove, RowMoves, Ended

-----------------------------------------------------------------------------
(* Who may write the lock *)

\* A lock that is in use: its lease runs, and a claim or a handler stands on it.
InUse == lock # NoLock /\ lock.until >= clock

\* A statement of a pass leaves a lock in use alone, unless the pass gives up
\* a lock of its own.
LEMMA LockSpared ==
  ASSUME TypeOK, NEW r \in Runners, PassOK(r), InUse
  PROVE  LockAfter(r) = lock
         \/ (pass[r].pc = "giveup" /\ lock.by = r /\ lock.task = pass[r].task)
<1>1. ~Lapsed(lock, pass[r].now)
  BY DEF PassOK, InUse, Lapsed, TypeOK, LockRow, Pass
<1>2. Unlocked(r) = lock
  BY <1>1 DEF Unlocked
<1> QED BY <1>1, <1>2 DEF LockAfter, InUse, Released

\* What a pass writes into the lock row is well typed.
LEMMA LockAfterType ==
  ASSUME TypeOK, NEW r \in Runners
  PROVE  LockAfter(r) \in LockRow
<1>1. MyLock(r) \in LockRow
  BY DEF MyLock, LockRow, TypeOK, Pass
<1>2. NoLock \in LockRow
  BY DEF NoLock, LockRow
<1> QED BY <1>1, <1>2 DEF LockAfter, Unlocked, Released, TypeOK

\* A claim or a handler whose lease runs has the lock in use.
LEMMA LeasesInUse ==
  ASSUME IInv
  PROVE  /\ \A r \in Runners : pass[r].pc \in {"mark", "run"} /\ pass[r].until >= clock =>
                               InUse /\ lock.by = r /\ lock.task = pass[r].task
         /\ \A t \in Tasks : Running(t) /\ exec[t].lease >= clock =>
                               InUse /\ lock.by = exec[t].by /\ lock.task = t
<1>1. ASSUME NEW r \in Runners, pass[r].pc \in {"mark", "run"}, pass[r].until >= clock
      PROVE  InUse /\ lock.by = r /\ lock.task = pass[r].task
  <2>1. lock = MyLock(r) /\ pass[r].task \in Tasks
    BY <1>1 DEF IInv, PassesOK, PassOK, Claims
  <2>2. lock.task # NoLock.task
    BY <2>1, SystemTaskAssumption DEF MyLock, NoLock, Tasks
  <2> QED BY <1>1, <2>1, <2>2 DEF MyLock, InUse
<1>2. ASSUME NEW t \in Tasks, Running(t), exec[t].lease >= clock
      PROVE  InUse /\ lock.by = exec[t].by /\ lock.task = t
  <2>1. lock = [task |-> t, by |-> exec[t].by, until |-> exec[t].lease]
    BY <1>2 DEF IInv, LeaseHonoured
  <2>2. lock.task # NoLock.task
    BY <2>1, SystemTaskAssumption DEF NoLock, Tasks
  <2> QED BY <1>2, <2>1, <2>2 DEF InUse
<1> QED BY <1>1, <1>2

-----------------------------------------------------------------------------
(* The steps of a pass *)

\* A statement of runner r's pass, run or not, with the pass going on as p.
LEMMA PassKeeps ==
  ASSUME IInv, NEW r \in Runners, NEW p \in Pass, pass' = [pass EXCEPT ![r] = p],
         p.now <= clock,
         p.pc \in Claims => /\ p.task \in Tasks /\ task[p.task].status # "none"
                            /\ exec[p.task].by # r,
         p.pc \in {"mark", "run"} /\ p.until >= clock =>
           lock' = [task |-> p.task, by |-> r, until |-> p.until],
         RowsMove, lock' \in {lock, LockAfter(r)},
         UNCHANGED <<exec, starts, clock>>, faults' \in Nat
  PROVE  IInv'
<1>0. /\ \A q \in Runners : pass[q].pc \in {"mark", "run"} /\ pass[q].until >= clock =>
                            InUse /\ lock.by = q
      /\ \A t \in Tasks : Running(t) /\ exec[t].lease >= clock =>
                            InUse /\ lock.by = exec[t].by /\ lock.task = t
  BY LeasesInUse
<1> USE DEF IInv
<1>1. lock' \in LockRow
  BY LockAfterType DEF TypeOK
<1>2. pass' \in [Runners -> Pass] /\ pass'[r] = p
  BY DEF TypeOK
<1>3. TypeOK'
  BY <1>1, <1>2 DEF TypeOK, RowsMove
<1>4. OneActiveTask'
  BY RowsKept
<1>5. /\ InUse /\ lock.by # r => lock' = lock
      /\ \A t \in Tasks : InUse /\ lock.task = t /\ lock.by = exec[t].by => lock' = lock
  <2>1. PassOK(r)
    BY DEF PassesOK
  <2>2. pass[r].pc = "giveup" => exec[pass[r].task].by # r
    BY <2>1 DEF PassOK, Claims
  <2>3. InUse => LockAfter(r) = lock
                 \/ (pass[r].pc = "giveup" /\ lock.by = r /\ lock.task = pass[r].task)
    BY <2>1, LockSpared
  <2> QED BY <2>2, <2>3
<1>6. PassesOK'
  <2> SUFFICES ASSUME NEW q \in Runners PROVE PassOK(q)'
    BY DEF PassesOK
  <2>1. CASE q = r
    <3>1. p.pc \in Claims => task'[p.task].status # "none"
      BY RowsKept
    <3>2. (pass[q] = p)'
      BY <1>2, <2>1
    <3> QED BY <2>1, <3>1, <3>2 DEF PassOK, MyLock
  <2>2. CASE q # r
    <3>1. pass'[q] = pass[q] /\ PassOK(q)
      BY <2>2 DEF TypeOK, PassesOK
    <3>2. pass[q].pc \in Claims => task'[pass[q].task].status # "none"
      BY <3>1, RowsKept DEF PassOK
    <3>3. ASSUME pass[q].pc \in {"mark", "run"}, pass[q].until >= clock
          PROVE  lock' = lock /\ lock = MyLock(q)
      <4>1. InUse /\ lock.by = q
        BY <3>3, <1>0
      <4>2. lock' = lock
        BY <2>2, <4>1, <1>5
      <4> QED BY <3>1, <3>3, <4>2 DEF PassOK
    <3>4. MyLock(q)' = MyLock(q)
      BY <3>1 DEF MyLock
    <3>5. pass[q].pc \in Claims => exec'[pass[q].task].by # q /\ pass[q].task \in Tasks
      BY <3>1 DEF PassOK
    <3>6. pass'[q].now <= clock'
      BY <3>1 DEF PassOK
    <3> QED BY <3>1, <3>2, <3>3, <3>4, <3>5, <3>6 DEF PassOK
  <2> QED BY <2>1, <2>2
<1>7. ExecsOK'
  BY RowsKept DEF ExecsOK, ExecOK
<1>8. LeaseHonoured'
  <2> SUFFICES ASSUME NEW t \in Tasks, Running(t), exec[t].lease >= clock
               PROVE  lock' = [task |-> t, by |-> exec[t].by, until |-> exec[t].lease]
    BY DEF LeaseHonoured, Running
  <2>1. InUse /\ lock.by = exec[t].by /\ lock.task = t
    BY <1>0
  <2>2. lock' = lock
    BY <2>1, <1>5
  <2> QED BY <2>2 DEF LeaseHonoured
<1> QED BY <1>3, <1>4, <1>6, <1>7, <1>8

\* Whatever statement a pass is at, it moves the rows in order.
LEMMA TaskAfterMoves ==
  ASSUME IInv, NEW r \in Runners, task' \in {task, TaskAfter(r)}
  PROVE  RowsMove
<1> USE DEF IInv
<1>1. CASE task' = task
  BY <1>1 DEF TypeOK, RowsMove, RowMoves
<1>2. CASE pass[r].pc \in {"expire", "mark"} /\ task' = TaskAfter(r)
  BY <1>2, ExpiredMoves DEF TaskAfter
<1>3. CASE pass[r].pc = "run" /\ task' = TaskAfter(r)
  <2>1. pass[r].task \in Tasks
    BY <1>3 DEF PassesOK, PassOK, Claims
  <2> QED BY <1>3, <2>1, ClaimedMoves DEF TaskAfter
<1> QED BY <1>1, <1>2, <1>3 DEF TaskAfter

\* A pass goes on with its claim, or with its clearing of a lapsed lock.
LEMMA GoesOnKeeps ==
  ASSUME IInv, NEW r \in Runners, NEW p \in Pass, pass' = [pass EXCEPT ![r] = p],
         p.now = pass[r].now, p.task = pass[r].task,
         p.pc \in Claims => pass[r].pc \in Claims,
         p.pc \in {"mark", "run"} /\ p.until >= clock =>
           lock' = [task |-> p.task, by |-> r, until |-> p.until],
         task' \in {task, TaskAfter(r)}, lock' \in {lock, LockAfter(r)},
         UNCHANGED <<exec, starts, clock>>, faults' \in Nat
  PROVE  IInv'
<1>1. PassOK(r)
  BY DEF IInv, PassesOK
<1>2. p.now <= clock
  BY <1>1 DEF PassOK
<1>3. p.pc \in Claims => /\ p.task \in Tasks /\ task[p.task].status # "none"
                         /\ exec[p.task].by # r
  BY <1>1 DEF PassOK
<1>4. RowsMove
  BY TaskAfterMoves
<1> QED BY <1>2, <1>3, <1>4, PassKeeps

\* A pass ends.
LEMMA RestKeeps ==
  ASSUME IInv, NEW r \in Runners, NEW p \in {Resting, [Resting EXCEPT !.pc = "dead"]},
         pass' = [pass EXCEPT ![r] = p],
         task' \in {task, TaskAfter(r)}, lock' \in {lock, LockAfter(r)},
         UNCHANGED <<exec, starts, clock>>, faults' \in Nat
  PROVE  IInv'
<1>1. p \in Pass /\ p.now = 0 /\ p.pc \in {"idle", "dead"}
  BY DEF Resting, Pass, NoLock, LockRow
<1>2. clock \in Nat
  BY DEF IInv, TypeOK
<1>3. p.now <= clock
  BY <1>1, <1>2
<1>4. p.pc \notin Claims /\ p.pc \notin {"mark", "run"}
  BY <1>1 DEF Claims
<1>5. RowsMove
  BY TaskAfterMoves
<1> QED BY <1>1, <1>3, <1>4, <1>5, PassKeeps

\* What the steps of a pass know of it.
LEMMA PassFacts ==
  ASSUME IInv, NEW r \in Runners
  PROVE  /\ PassOK(r) /\ clock \in Nat /\ faults \in Nat /\ lock \in LockRow
         /\ pass[r] \in Pass /\ pass[r].old \in LockRow
  BY DEF IInv, PassesOK, TypeOK, Pass

LEMMA ExpireTaskKeeps ==
  ASSUME IInv, NEW r \in Runners, ExpireTask(r)
  PROVE  IInv'
<1> DEFINE p == [pass[r] EXCEPT !.pc = "unlock"]
<1>1. /\ pass' = [pass EXCEPT ![r] = p] /\ task' = TaskAfter(r)
      /\ UNCHANGED <<lock, exec, starts, clock, faults>>
  BY DEF ExpireTask, SetPass, TaskAfter
<1>2. p \in Pass /\ p.now = pass[r].now /\ p.task = pass[r].task /\ p.pc = "unlock"
  BY PassFacts DEF Pass
<1>3. faults' \in Nat
  BY <1>1, PassFacts
<1> HIDE DEF p
<1>4. p.pc \notin Claims
  BY <1>2 DEF Claims
<1> QED BY <1>1, <1>2, <1>3, <1>4, GoesOnKeeps

LEMMA DeleteStaleLockKeeps ==
  ASSUME IInv, NEW r \in Runners, DeleteStaleLock(r)
  PROVE  IInv'
<1>1. /\ pass' = [pass EXCEPT ![r] = Resting] /\ lock' = LockAfter(r)
      /\ UNCHANGED <<task, exec, starts, clock, faults>>
  BY DEF DeleteStaleLock, SetPass, LockAfter
<1> QED BY <1>1, PassFacts, RestKeeps

LEMMA GiveUpKeeps ==
  ASSUME IInv, NEW r \in Runners, GiveUp(r)
  PROVE  IInv'
<1>1. /\ pass' = [pass EXCEPT ![r] = Resting] /\ lock' = LockAfter(r)
      /\ UNCHANGED <<task, exec, starts, clock, faults>>
  BY DEF GiveUp, SetPass, LockAfter
<1> QED BY <1>1, PassFacts, RestKeeps

LEMMA InsertLockKeeps ==
  ASSUME IInv, NEW r \in Runners, InsertLock(r)
  PROVE  IInv'
<1>1. CASE lock = NoLock
  <2> DEFINE p == [pass[r] EXCEPT !.pc = "run"]
  <2>1. /\ pass' = [pass EXCEPT ![r] = p] /\ lock' = MyLock(r) /\ lock' = LockAfter(r)
        /\ UNCHANGED <<task, exec, starts, clock, faults>>
    BY <1>1 DEF InsertLock, SetPass, LockAfter
  <2>2. /\ p \in Pass /\ p.now = pass[r].now /\ p.task = pass[r].task
        /\ p.until = pass[r].until
    BY PassFacts DEF Pass
  <2>3. pass[r].pc \in Claims
    BY DEF InsertLock, Claims
  <2> HIDE DEF p
  <2>4. lock' = [task |-> p.task, by |-> r, until |-> p.until]
    BY <2>1, <2>2 DEF MyLock
  <2>5. faults' \in Nat
    BY <2>1, PassFacts
  <2> QED BY <2>1, <2>2, <2>3, <2>4, <2>5, GoesOnKeeps
<1>2. CASE lock # NoLock
  <2> DEFINE p == [pass[r] EXCEPT !.pc = "held"]
  <2>1. /\ pass' = [pass EXCEPT ![r] = p]
        /\ UNCHANGED <<task, lock, exec, starts, clock, faults>>
    BY <1>2 DEF InsertLock, SetPass
  <2>2. p \in Pass /\ p.now = pass[r].now /\ p.task = pass[r].task /\ p.pc = "held"
    BY PassFacts DEF Pass
  <2>3. pass[r].pc \in Claims
    BY DEF InsertLock, Claims
  <2> HIDE DEF p
  <2>4. faults' \in Nat
    BY <2>1, PassFacts
  <2> QED BY <2>1, <2>2, <2>3, <2>4, GoesOnKeeps
<1> QED BY <1>1, <1>2

LEMMA ReadLockKeeps ==
  ASSUME IInv, NEW r \in Runners, ReadLock(r)
  PROVE  IInv'
<1>1. CASE Lapsed(lock, pass[r].now)
  <2> DEFINE p == [pass[r] EXCEPT !.pc = "takeover", !.old = lock]
  <2>1. /\ pass' = [pass EXCEPT ![r] = p]
        /\ UNCHANGED <<task, lock, exec, starts, clock, faults>>
    BY <1>1 DEF ReadLock, SetPass
  <2>2. p \in Pass /\ p.now = pass[r].now /\ p.task = pass[r].task /\ p.pc = "takeover"
    BY PassFacts DEF Pass
  <2>3. pass[r].pc \in Claims
    BY DEF ReadLock, Claims
  <2> HIDE DEF p
  <2>4. faults' \in Nat
    BY <2>1, PassFacts
  <2> QED BY <2>1, <2>2, <2>3, <2>4, GoesOnKeeps
<1>2. CASE ~Lapsed(lock, pass[r].now)
  <2>1. /\ pass' = [pass EXCEPT ![r] = Resting]
        /\ UNCHANGED <<task, lock, exec, starts, clock, faults>>
    BY <1>2 DEF ReadLock, SetPass
  <2> QED BY <2>1, PassFacts, RestKeeps
<1> QED BY <1>1, <1>2

LEMMA TakeOverLockKeeps ==
  ASSUME IInv, NEW r \in Runners, TakeOverLock(r)
  PROVE  IInv'
<1>1. CASE Lapsed(lock, pass[r].now)
  <2> DEFINE pc == IF pass[r].old.task # pass[r].task THEN "mark" ELSE "run"
             p == [pass[r] EXCEPT !.pc = pc]
  <2>1. /\ pass' = [pass EXCEPT ![r] = p] /\ lock' = MyLock(r) /\ lock' = LockAfter(r)
        /\ UNCHANGED <<task, exec, starts, clock, faults>>
    BY <1>1 DEF TakeOverLock, SetPass, LockAfter
  <2>2. pc \in {"mark", "run"}
    OBVIOUS
  <2> HIDE DEF pc
  <2>3. /\ p \in Pass /\ p.now = pass[r].now /\ p.task = pass[r].task
        /\ p.until = pass[r].until
    BY <2>2, PassFacts DEF Pass
  <2>4. pass[r].pc \in Claims
    BY DEF TakeOverLock, Claims
  <2> HIDE DEF p
  <2>5. lock' = [task |-> p.task, by |-> r, until |-> p.until]
    BY <2>1, <2>3 DEF MyLock
  <2>6. faults' \in Nat
    BY <2>1, PassFacts
  <2> QED BY <2>1, <2>3, <2>4, <2>5, <2>6, GoesOnKeeps
<1>2. CASE ~Lapsed(lock, pass[r].now)
  <2>1. /\ pass' = [pass EXCEPT ![r] = Resting]
        /\ UNCHANGED <<task, lock, exec, starts, clock, faults>>
    BY <1>2 DEF TakeOverLock, SetPass
  <2> QED BY <2>1, PassFacts, RestKeeps
<1> QED BY <1>1, <1>2

LEMMA MarkExpiredKeeps ==
  ASSUME IInv, NEW r \in Runners, MarkExpired(r)
  PROVE  IInv'
<1> DEFINE p == [pass[r] EXCEPT !.pc = "run"]
<1>1. /\ pass' = [pass EXCEPT ![r] = p] /\ task' = TaskAfter(r) /\ pass[r].pc = "mark"
      /\ UNCHANGED <<lock, exec, starts, clock, faults>>
  BY DEF MarkExpired, SetPass, TaskAfter
<1>2. /\ p \in Pass /\ p.now = pass[r].now /\ p.task = pass[r].task
      /\ p.until = pass[r].until
  BY PassFacts DEF Pass
<1>3. pass[r].pc \in Claims
  BY <1>1 DEF Claims
<1>4. pass[r].until >= clock => lock = MyLock(r)
  BY <1>1, PassFacts DEF PassOK
<1> HIDE DEF p
<1>5. p.until >= clock => lock' = [task |-> p.task, by |-> r, until |-> p.until]
  BY <1>1, <1>2, <1>4 DEF MyLock
<1>6. faults' \in Nat
  BY <1>1, PassFacts
<1> QED BY <1>1, <1>2, <1>3, <1>5, <1>6, GoesOnKeeps

\* A statement that fails.
LEMMA StatementFailsKeeps ==
  ASSUME IInv, NEW r \in Runners, StatementFails(r)
  PROVE  IInv'
<1>1. /\ pass' = [pass EXCEPT ![r] = AfterFailure(pass[r])]
      /\ task' \in {task, TaskAfter(r)} /\ lock' \in {lock, LockAfter(r)}
      /\ UNCHANGED <<exec, starts, clock>> /\ faults' = faults + 1
  BY DEF StatementFails
<1>2. faults' \in Nat
  BY <1>1, PassFacts
<1>3. CASE pass[r].pc = "acquire"
  <2> DEFINE p == [pass[r] EXCEPT !.pc = "held"]
  <2>1. AfterFailure(pass[r]) = p
    BY <1>3 DEF AfterFailure
  <2>2. p \in Pass /\ p.now = pass[r].now /\ p.task = pass[r].task /\ p.pc = "held"
    BY PassFacts DEF Pass
  <2>3. pass[r].pc \in Claims
    BY <1>3 DEF Claims
  <2> HIDE DEF p
  <2> QED BY <1>1, <1>2, <2>1, <2>2, <2>3, GoesOnKeeps
<1>4. CASE pass[r].pc \in {"mark", "run"}
  <2> DEFINE p == [pass[r] EXCEPT !.pc = "giveup"]
  <2>1. AfterFailure(pass[r]) = p
    BY <1>4 DEF AfterFailure
  <2>2. p \in Pass /\ p.now = pass[r].now /\ p.task = pass[r].task /\ p.pc = "giveup"
    BY PassFacts DEF Pass
  <2>3. pass[r].pc \in Claims
    BY <1>4 DEF Claims
  <2> HIDE DEF p
  <2> QED BY <1>1, <1>2, <2>1, <2>2, <2>3, GoesOnKeeps
<1>5. CASE pass[r].pc \notin {"acquire", "mark", "run"}
  <2>1. AfterFailure(pass[r]) = Resting
    BY <1>5 DEF AfterFailure
  <2> QED BY <1>1, <1>2, <2>1, RestKeeps
<1> QED BY <1>3, <1>4, <1>5

LEMMA ReadBackFailsKeeps ==
  ASSUME IInv, NEW r \in Runners, ReadBackFails(r)
  PROVE  IInv'
<1>1. /\ pass' = [pass EXCEPT ![r] = Resting] /\ task' = TaskAfter(r)
      /\ faults' = faults + 1 /\ UNCHANGED <<lock, exec, starts, clock>>
  BY DEF ReadBackFails, TaskAfter
<1>2. faults' \in Nat
  BY <1>1, PassFacts
<1> QED BY <1>1, <1>2, RestKeeps

\* A pass begins.
LEMMA ListStaleLockKeeps ==
  ASSUME IInv, NEW r \in Runners, ListStaleLock(r)
  PROVE  IInv'
<1> DEFINE p == [pc |-> "expire", now |-> clock, until |-> 0, task |-> 0, old |-> lock]
<1>1. /\ pass' = [pass EXCEPT ![r] = p]
      /\ UNCHANGED <<task, lock, exec, starts, clock, faults>>
  BY DEF ListStaleLock, SetPass
<1>2. p \in Pass /\ p.now <= clock /\ p.pc = "expire"
  BY PassFacts DEF Pass
<1> HIDE DEF p
<1>3. RowsMove /\ faults' \in Nat
  BY <1>1, TaskAfterMoves, PassFacts
<1>4. p.pc \notin Claims
  BY <1>2 DEF Claims
<1> QED BY <1>1, <1>2, <1>3, <1>4, PassKeeps

LEMMA ClaimSystemTaskKeeps ==
  ASSUME IInv, NEW r \in Runners, NEW t \in Tasks, ClaimSystemTask(r, t)
  PROVE  IInv'
<1> DEFINE p == [pc |-> "acquire", now |-> clock, until |-> SystemTaskLockUntil(clock),
                 task |-> t, old |-> NoLock]
<1>1. /\ pass' = [pass EXCEPT ![r] = p] /\ task[t].status = "pending"
      /\ UNCHANGED <<task, lock, exec, starts, clock, faults>>
  BY DEF ClaimSystemTask, SetPass
<1>2. SystemTaskLockUntil(clock) \in Nat /\ NoLock \in LockRow
  BY PassFacts, SystemTaskAssumption DEF SystemTaskLockUntil, NoLock, LockRow
<1>3. p \in Pass /\ p.now <= clock /\ p.pc = "acquire" /\ p.task = t
  BY <1>2, PassFacts DEF Pass
<1>4. exec[t].by # r
  <2>1. ExecOK(t)
    BY DEF IInv, ExecsOK
  <2>2. exec[t].by = None
    BY <1>1, <2>1 DEF ExecOK
  <2> QED BY <2>2, SystemTaskAssumption
<1> HIDE DEF p
<1>5. RowsMove /\ faults' \in Nat
  BY <1>1, TaskAfterMoves, PassFacts
<1>6. p.task \in Tasks /\ task[p.task].status # "none" /\ exec[p.task].by # r
  BY <1>1, <1>3, <1>4
<1> QED BY <1>1, <1>3, <1>5, <1>6, PassKeeps

\* The task is dispatched under the lease its claim has taken.
LEMMA RunTaskKeeps ==
  ASSUME IInv, NEW r \in Runners, RunTask(r)
  PROVE  IInv'
<1> DEFINE u == pass[r].task
<1>0. /\ pass[r].pc = "run" /\ task' = TaskAfter(r)
      /\ UNCHANGED <<lock, clock, faults>>
  BY DEF RunTask, SetPass, TaskAfter
<1>1. faults' \in Nat /\ RowsMove
  BY <1>0, PassFacts, TaskAfterMoves
<1>2. pass[r].pc \in Claims
  BY <1>0 DEF Claims
<1>3. CASE ~Claimable(u)
  <2> DEFINE p == [pass[r] EXCEPT !.pc = "giveup"]
  <2>1. pass' = [pass EXCEPT ![r] = p] /\ UNCHANGED <<exec, starts>>
    BY <1>3 DEF RunTask, SetPass
  <2>2. p \in Pass /\ p.now = pass[r].now /\ p.task = pass[r].task /\ p.pc = "giveup"
    BY PassFacts DEF Pass
  <2> HIDE DEF p, u
  <2> QED BY <1>0, <1>1, <1>2, <2>1, <2>2, GoesOnKeeps
<1>4. CASE Claimable(u)
  <2> DEFINE e == [pc |-> "running", by |-> r, lease |-> pass[r].until, beat |-> "rest",
                   beatNow |-> 0, now |-> 0]
  <2>1. /\ exec' = [exec EXCEPT ![u] = e] /\ starts' = [starts EXCEPT ![u] = starts[u] + 1]
        /\ pass' = [pass EXCEPT ![r] = Resting]
    BY <1>4 DEF RunTask, SetPass
  <2>2. /\ u \in Tasks /\ PassOK(r) /\ clock \in Nat
    BY <1>2, PassFacts DEF PassOK
  <2>3. e \in Exec /\ Resting \in Pass /\ Resting.now = 0 /\ Resting.pc = "idle"
    BY PassFacts DEF Exec, Pass, Resting, NoLock, LockRow
  <2>4. exec[u].pc = "none" /\ starts[u] = 0
    BY <1>4, <2>2 DEF IInv, ExecsOK, ExecOK, Claimable
  <2>5. task'[u].status = "running"
    BY <1>0, <1>4, <2>2 DEF TaskAfter, Claimed, IInv, TypeOK
  <2>6. TypeOK'
    BY <1>0, <1>1, <2>1, <2>2, <2>3, <2>4 DEF IInv, TypeOK, RowsMove
  <2>7. OneActiveTask'
    BY <1>1, RowsKept DEF IInv
  <2>8. /\ exec'[u] = e /\ \A t \in Tasks : t # u => exec'[t] = exec[t]
        /\ starts'[u] = 1 /\ \A t \in Tasks : t # u => starts'[t] = starts[t]
    BY <2>1, <2>2, <2>4 DEF IInv, TypeOK
  <2>9. e.by = r /\ e.pc = "running" /\ e.lease = pass[r].until
    OBVIOUS
  <2> HIDE DEF e
  <2>10. ExecsOK'
    <3> SUFFICES ASSUME NEW t \in Tasks PROVE ExecOK(t)'
      BY DEF ExecsOK
    <3>1. CASE t = u
      BY <3>1, <2>5, <2>8, <2>9 DEF ExecOK
    <3>2. CASE t # u
      <4>1. ExecOK(t)
        BY DEF IInv, ExecsOK
      <4>2. task[t].status \notin {"none", "pending"} => task'[t].status \notin {"none", "pending"}
        BY <1>1, RowsKept DEF IInv
      <4> QED BY <3>2, <4>1, <4>2, <2>8 DEF ExecOK
    <3> QED BY <3>1, <3>2
  <2>11. PassesOK'
    <3> SUFFICES ASSUME NEW q \in Runners PROVE PassOK(q)'
      BY DEF PassesOK
    <3>1. CASE q = r
      <4>1. pass'[q] = Resting
        BY <3>1, <2>1 DEF IInv, TypeOK
      <4> QED BY <4>1, <1>0, <2>2, <2>3 DEF PassOK, Claims
    <3>2. CASE q # r
      <4>1. pass'[q] = pass[q] /\ PassOK(q)
        BY <3>2, <2>1 DEF IInv, TypeOK, PassesOK
      <4>2. pass[q].pc \in Claims => task'[pass[q].task].status # "none"
        BY <4>1, <1>1, RowsKept DEF PassOK, IInv
      <4>3. pass[q].pc \in Claims => pass[q].task \in Tasks /\ exec'[pass[q].task].by # q
        BY <3>2, <4>1, <2>8, <2>9 DEF PassOK
      <4>4. MyLock(q)' = MyLock(q)
        BY <4>1 DEF MyLock
      <4> QED BY <1>0, <4>1, <4>2, <4>3, <4>4 DEF PassOK
    <3> QED BY <3>1, <3>2
  <2>12. LeaseHonoured'
    <3> SUFFICES ASSUME NEW t \in Tasks, Running(t)', exec'[t].lease >= clock
                 PROVE  lock = [task |-> t, by |-> exec'[t].by, until |-> exec'[t].lease]
      BY <1>0 DEF LeaseHonoured
    <3>1. CASE t = u
      <4>1. lock = MyLock(r)
        BY <1>0, <3>1, <2>2, <2>8, <2>9 DEF PassOK
      <4> QED BY <4>1, <3>1, <2>8, <2>9 DEF MyLock
    <3>2. CASE t # u
      BY <3>2, <2>8 DEF IInv, LeaseHonoured, Running
    <3> QED BY <3>1, <3>2
  <2> QED BY <2>6, <2>7, <2>10, <2>11, <2>12 DEF IInv
<1> QED BY <1>3, <1>4

-----------------------------------------------------------------------------
(* The steps of a task's goroutines *)

\* A step of the goroutines of task t, which go on as e: they write the lock
\* row only if it is theirs.
LEMMA ExecKeeps ==
  ASSUME IInv, NEW t \in Tasks, NEW e \in Exec, exec' = [exec EXCEPT ![t] = e],
         exec[t].pc # "none", e.pc # "none", e.by \in {exec[t].by, None},
         RowsMove, lock' \in LockRow,
         lock' = lock \/ (lock.task = t /\ lock.by = exec[t].by),
         e.pc \in {"running", "finish"} /\ e.lease >= clock =>
           lock' = [task |-> t, by |-> e.by, until |-> e.lease],
         UNCHANGED <<pass, starts, clock>>, faults' \in Nat
  PROVE  IInv'
<1>1. exec' \in [Tasks -> Exec] /\ exec'[t] = e /\ \A s \in Tasks : s # t => exec'[s] = exec[s]
  BY DEF IInv, TypeOK
<1>2. TypeOK'
  BY <1>1 DEF IInv, TypeOK, RowsMove
<1>3. OneActiveTask'
  BY RowsKept DEF IInv
<1>4. PassesOK'
  <2> SUFFICES ASSUME NEW q \in Runners PROVE PassOK(q)'
    BY DEF PassesOK
  <2>1. PassOK(q)
    BY DEF IInv, PassesOK
  <2>2. pass[q].pc \in Claims => task'[pass[q].task].status # "none"
    BY <2>1, RowsKept DEF PassOK, IInv
  <2>3. pass[q].pc \in Claims => exec'[pass[q].task].by # q
    BY <1>1, <2>1, SystemTaskAssumption DEF PassOK
  <2>4. pass[q].pc \in {"mark", "run"} /\ pass[q].until >= clock => lock' = lock
    <3>1. pass[q].pc \in {"mark", "run"} => exec[pass[q].task].by # q
      BY <2>1 DEF PassOK, Claims
    <3>2. pass[q].pc \in {"mark", "run"} /\ pass[q].until >= clock =>
            lock.by = q /\ lock.task = pass[q].task
      BY LeasesInUse
    <3> QED BY <3>1, <3>2
  <2>5. MyLock(q)' = MyLock(q)
    BY DEF MyLock
  <2> QED BY <2>1, <2>2, <2>3, <2>4, <2>5 DEF PassOK
<1>5. ExecsOK'
  <2> SUFFICES ASSUME NEW s \in Tasks PROVE ExecOK(s)'
    BY DEF ExecsOK
  <2>1. ExecOK(s)
    BY DEF IInv, ExecsOK
  <2>2. task[s].status \notin {"none", "pending"} => task'[s].status \notin {"none", "pending"}
    BY RowsKept DEF IInv
  <2> QED BY <1>1, <2>1, <2>2 DEF ExecOK
<1>6. LeaseHonoured'
  <2> SUFFICES ASSUME NEW s \in Tasks, Running(s)', exec'[s].lease >= clock
               PROVE  lock' = [task |-> s, by |-> exec'[s].by, until |-> exec'[s].lease]
    BY DEF LeaseHonoured
  <2>1. CASE s = t
    BY <1>1, <2>1 DEF Running
  <2>2. CASE s # t
    <3>1. Running(s) /\ exec[s].lease >= clock /\ exec'[s] = exec[s]
      BY <1>1, <2>2 DEF Running
    <3>2. lock = [task |-> s, by |-> exec[s].by, until |-> exec[s].lease]
      BY <3>1 DEF IInv, LeaseHonoured
    <3>3. lock.task = s
      BY <3>2
    <3> QED BY <3>1, <3>2, <3>3, <2>2
  <2> QED BY <2>1, <2>2
<1> QED BY <1>2, <1>3, <1>4, <1>5, <1>6 DEF IInv

\* What the steps of the goroutines of a task know of them.
LEMMA ExecFacts ==
  ASSUME IInv, NEW t \in Tasks
  PROVE  /\ ExecOK(t) /\ clock \in Nat /\ faults \in Nat /\ lock \in LockRow
         /\ exec[t] \in Exec
         /\ Running(t) /\ exec[t].lease >= clock =>
              lock = [task |-> t, by |-> exec[t].by, until |-> exec[t].lease]
  BY DEF IInv, ExecsOK, TypeOK, LeaseHonoured

\* A handler that has returned leaves at most a heartbeat behind.
LEMMA OverFacts ==
  ASSUME NEW e \in Exec
  PROVE  Over(e) \in Exec /\ Over(e).pc = "over" /\ Over(e).by \in {e.by, None}
<1>1. CASE e.beat = "renew"
  <2> DEFINE o == [e EXCEPT !.pc = "over", !.lease = 0, !.now = 0]
  <2>1. o \in Exec /\ o.pc = "over" /\ o.by = e.by
    BY DEF Exec
  <2> QED BY <1>1, <2>1 DEF Over
<1>2. CASE e.beat # "renew"
  <2> DEFINE o == [NoExec EXCEPT !.pc = "over", !.beat = "stopped"]
  <2>1. o \in Exec /\ o.pc = "over" /\ o.by = None
    BY DEF Exec, NoExec
  <2> QED BY <1>2, <2>1 DEF Over
<1> QED BY <1>1, <1>2

\* The handler returns.
LEMMA OverKeeps ==
  ASSUME IInv, NEW t \in Tasks, NEW b \in Exec, b.by = exec[t].by,
         exec' = [exec EXCEPT ![t] = Over(b)], exec[t].pc # "none",
         RowsMove, lock' \in {lock, NoLock},
         lock' = lock \/ (lock.task = t /\ lock.by = exec[t].by),
         UNCHANGED <<pass, starts, clock>>, faults' \in Nat
  PROVE  IInv'
<1>1. Over(b) \in Exec /\ Over(b).pc = "over" /\ Over(b).by \in {exec[t].by, None}
  BY OverFacts
<1>2. lock' \in LockRow
  BY ExecFacts DEF NoLock, LockRow
<1> QED BY <1>1, <1>2, ExecKeeps

LEMMA HeartbeatTickKeeps ==
  ASSUME IInv, NEW t \in Tasks, HeartbeatTick(t)
  PROVE  IInv'
<1> DEFINE e == [exec[t] EXCEPT !.beat = "renew", !.beatNow = clock]
<1>1. /\ exec' = [exec EXCEPT ![t] = e] /\ exec[t].pc # "none"
      /\ UNCHANGED <<task, lock, pass, starts, clock, faults>>
  BY DEF HeartbeatTick, SetExec
<1>2. /\ e \in Exec /\ e.pc = exec[t].pc /\ e.by = exec[t].by /\ e.lease = exec[t].lease
  BY ExecFacts DEF Exec
<1> HIDE DEF e
<1>3. e.pc \in {"running", "finish"} /\ e.lease >= clock =>
        lock' = [task |-> t, by |-> e.by, until |-> e.lease]
  BY <1>1, <1>2, ExecFacts DEF Running
<1>4. RowsMove /\ faults' \in Nat /\ lock' \in LockRow
  BY <1>1, ExecFacts DEF RowsMove, RowMoves, IInv, TypeOK
<1> QED BY <1>1, <1>2, <1>3, <1>4, ExecKeeps

LEMMA HandlerDoneKeeps ==
  ASSUME IInv, NEW t \in Tasks, HandlerDone(t)
  PROVE  IInv'
<1> DEFINE e == [exec[t] EXCEPT !.pc = "finish", !.now = clock]
<1>1. /\ exec' = [exec EXCEPT ![t] = e] /\ exec[t].pc = "running"
      /\ UNCHANGED <<task, lock, pass, starts, clock, faults>>
  BY DEF HandlerDone, SetExec
<1>2. /\ e \in Exec /\ e.pc = "finish" /\ e.by = exec[t].by /\ e.lease = exec[t].lease
  BY ExecFacts DEF Exec
<1> HIDE DEF e
<1>3. e.lease >= clock => lock' = [task |-> t, by |-> e.by, until |-> e.lease]
  BY <1>1, <1>2, ExecFacts DEF Running
<1>4. RowsMove /\ faults' \in Nat /\ lock' \in LockRow
  BY <1>1, ExecFacts DEF RowsMove, RowMoves, IInv, TypeOK
<1> QED BY <1>1, <1>2, <1>3, <1>4, ExecKeeps

LEMMA HandlerQuitsKeeps ==
  ASSUME IInv, NEW t \in Tasks, HandlerQuits(t)
  PROVE  IInv'
<1>1. /\ exec' = [exec EXCEPT ![t] = Over(exec[t])] /\ exec[t].pc = "running"
      /\ UNCHANGED <<task, lock, pass, starts, clock, faults>>
  BY DEF HandlerQuits, SetExec
<1>2. RowsMove /\ faults' \in Nat /\ exec[t] \in Exec
  BY <1>1, ExecFacts DEF RowsMove, RowMoves, IInv, TypeOK
<1> QED BY <1>1, <1>2, OverKeeps

\* A renewal, run or not, or the discovery that the lease is lost.
LEMMA BeatKeeps ==
  ASSUME IInv, NEW t \in Tasks, NEW beat \in {"rest", "stopped"}, NEW lease \in Nat,
         exec[t].beat = "renew", exec' = [exec EXCEPT ![t] = BeatEnds(exec[t], beat, lease)],
         \/ lock' = lock /\ lease = exec[t].lease
         \/ Holds(t, exec[t].by, exec[t].beatNow) /\ lock' = [lock EXCEPT !.until = lease],
         UNCHANGED <<task, pass, starts, clock>>, faults' \in Nat
  PROVE  IInv'
<1>1. exec[t].pc # "none"
  BY ExecFacts DEF ExecOK
<1>2. RowsMove
  BY DEF RowsMove, RowMoves, IInv, TypeOK
<1>3. \/ lock' = lock /\ lease = exec[t].lease
      \/ /\ lock' = [task |-> t, by |-> exec[t].by, until |-> lease]
         /\ lock.task = t /\ lock.by = exec[t].by
  BY ExecFacts DEF Holds, LockRow
<1>4. lock' \in LockRow
  <2>1. [task |-> t, by |-> exec[t].by, until |-> lease] \in LockRow
    BY ExecFacts DEF LockRow, Exec
  <2> QED BY <1>3, <2>1, ExecFacts
<1>5. CASE exec[t].pc = "over"
  <2> DEFINE b == [exec[t] EXCEPT !.beat = beat]
  <2>1. b \in Exec /\ b.by = exec[t].by
    BY ExecFacts DEF Exec
  <2>2. exec' = [exec EXCEPT ![t] = Over(b)]
    BY <1>5 DEF BeatEnds
  <2> HIDE DEF b
  <2>3. Over(b) \in Exec /\ Over(b).pc = "over" /\ Over(b).by \in {exec[t].by, None}
    BY <2>1, OverFacts
  <2> QED BY <1>1, <1>2, <1>3, <1>4, <2>2, <2>3, ExecKeeps
<1>6. CASE exec[t].pc # "over"
  <2> DEFINE e == [exec[t] EXCEPT !.beat = beat, !.beatNow = 0, !.lease = lease]
  <2>1. exec' = [exec EXCEPT ![t] = e]
    BY <1>6 DEF BeatEnds
  <2>2. /\ e \in Exec /\ e.pc = exec[t].pc /\ e.by = exec[t].by /\ e.lease = lease
    BY ExecFacts DEF Exec
  <2> HIDE DEF e
  <2>3. e.pc \in {"running", "finish"} /\ e.lease >= clock =>
          lock' = [task |-> t, by |-> e.by, until |-> e.lease]
    BY <1>3, <2>2, ExecFacts DEF Running
  <2> QED BY <1>1, <1>2, <1>3, <1>4, <2>1, <2>2, <2>3, ExecKeeps
<1> QED BY <1>5, <1>6

LEMMA RenewKeeps ==
  ASSUME IInv, NEW t \in Tasks, RenewSystemTaskLock(t) \/ RenewFails(t)
  PROVE  IInv'
<1> DEFINE until == SystemTaskLockUntil(exec[t].beatNow)
<1>1. until \in Nat /\ exec[t].lease \in Nat
  BY ExecFacts, SystemTaskAssumption DEF SystemTaskLockUntil, Exec
<1>2. faults' \in Nat
  BY ExecFacts DEF RenewSystemTaskLock, RenewFails, SetExec
<1>3. exec[t].beat = "renew" /\ UNCHANGED <<task, pass, starts, clock>>
  BY DEF RenewSystemTaskLock, RenewFails, SetExec
<1>4. PICK beat \in {"rest", "stopped"}, lease \in {until, exec[t].lease} :
        /\ exec' = [exec EXCEPT ![t] = BeatEnds(exec[t], beat, lease)]
        /\ \/ lock' = lock /\ lease = exec[t].lease
           \/ Holds(t, exec[t].by, exec[t].beatNow) /\ lock' = [lock EXCEPT !.until = lease]
  BY DEF RenewSystemTaskLock, RenewFails, SetExec
<1> HIDE DEF until
<1> QED BY <1>1, <1>2, <1>3, <1>4, BeatKeeps

\* The end of a task.
LEMMA FinishSystemTaskKeeps ==
  ASSUME IInv, NEW t \in Tasks, FinishSystemTask(t)
  PROVE  IInv'
<1>1. /\ exec[t].pc = "finish" /\ Finish(t) /\ UNCHANGED <<lock, pass, starts, clock, faults>>
  BY DEF FinishSystemTask, SetExec
<1>2. RowsMove /\ faults' \in Nat /\ exec[t] \in Exec /\ lock' \in LockRow
  BY <1>1, ExecFacts, FinishMoves DEF IInv
<1>3. CASE Finishable(t)
  <2> DEFINE e == [exec[t] EXCEPT !.pc = "release", !.now = 0]
  <2>1. exec' = [exec EXCEPT ![t] = e]
    BY <1>3 DEF FinishSystemTask, SetExec
  <2>2. e \in Exec /\ e.pc = "release" /\ e.by = exec[t].by
    BY <1>2 DEF Exec
  <2> HIDE DEF e
  <2> QED BY <1>1, <1>2, <2>1, <2>2, ExecKeeps
<1>4. CASE ~Finishable(t)
  <2>1. exec' = [exec EXCEPT ![t] = Over(exec[t])]
    BY <1>4 DEF FinishSystemTask, SetExec
  <2> QED BY <1>1, <1>2, <2>1, OverKeeps
<1> QED BY <1>3, <1>4

LEMMA FinishReleasesKeeps ==
  ASSUME IInv, NEW t \in Tasks, FinishReleases(t)
  PROVE  IInv'
<1>1. /\ exec[t].pc = "release" /\ lock' = Released(t, exec[t].by)
      /\ exec' = [exec EXCEPT ![t] = Over(exec[t])]
      /\ UNCHANGED <<task, pass, starts, clock, faults>>
  BY DEF FinishReleases, SetExec
<1>2. RowsMove /\ faults' \in Nat /\ exec[t] \in Exec
  BY <1>1, ExecFacts DEF RowsMove, RowMoves, IInv, TypeOK
<1>3. /\ lock' \in {lock, NoLock}
      /\ lock' = lock \/ (lock.task = t /\ lock.by = exec[t].by)
  BY <1>1 DEF Released
<1> QED BY <1>1, <1>2, <1>3, OverKeeps

LEMMA FinishFailsKeeps ==
  ASSUME IInv, NEW t \in Tasks, FinishFails(t)
  PROVE  IInv'
<1>1. /\ exec[t].pc # "none" /\ (UNCHANGED task \/ Finish(t)) /\ faults' = faults + 1
      /\ exec' = [exec EXCEPT ![t] = Over(exec[t])]
      /\ UNCHANGED <<lock, pass, starts, clock>>
  BY DEF FinishFails
<1>2. faults' \in Nat /\ exec[t] \in Exec
  BY <1>1, ExecFacts
<1>3. RowsMove
  <2>1. CASE UNCHANGED task
    BY <2>1 DEF RowsMove, RowMoves, IInv, TypeOK
  <2>2. CASE Finish(t)
    BY <2>2, FinishMoves DEF IInv
  <2> QED BY <1>1, <2>1, <2>2
<1> QED BY <1>1, <1>2, <1>3, OverKeeps

-----------------------------------------------------------------------------
(* The surroundings *)

\* A new task is nobody's, and there is no other active one.
LEMMA CreateKeeps ==
  ASSUME IInv, NEW t \in Tasks, CreateSystemTask(t)
  PROVE  IInv'
<1> DEFINE row == [NoTask EXCEPT !.status = "pending", !.key = TRUE]
<1>1. /\ task[t].status = "none" /\ UniqueActive /\ task' = [task EXCEPT ![t] = row]
      /\ UNCHANGED <<lock, pass, exec, starts, clock, faults>>
  BY DEF CreateSystemTask
<1>2. row \in TaskRow /\ row.status = "pending" /\ row.key
  BY DEF NoTask, TaskRow, Active
<1> HIDE DEF row
<1>3. /\ task' \in [Tasks -> TaskRow] /\ task'[t] = row
      /\ \A s \in Tasks : s # t => task'[s] = task[s]
  BY <1>1, <1>2 DEF IInv, TypeOK
<1>4. TypeOK'
  BY <1>1, <1>3 DEF IInv, TypeOK
<1>5. OneActiveTask'
  <2>1. \A s \in Tasks : task[s].status \notin Active
    BY <1>1 DEF UniqueActive, OneActiveTask, IInv
  <2>2. \A s \in Tasks : task'[s].status \in Active => s = t
    BY <2>1, <1>3
  <2>3. \A s \in Tasks : task'[s].key <=> task'[s].status \in Active
    BY <1>2, <1>3 DEF Active, OneActiveTask, IInv
  <2> QED BY <2>2, <2>3 DEF OneActiveTask
<1>6. PassesOK'
  BY <1>1, <1>2, <1>3 DEF IInv, PassesOK, PassOK, MyLock
<1>7. ExecsOK'
  BY <1>1, <1>2, <1>3 DEF IInv, ExecsOK, ExecOK
<1>8. LeaseHonoured'
  BY <1>1 DEF IInv, LeaseHonoured, Running
<1> QED BY <1>4, <1>5, <1>6, <1>7, <1>8 DEF IInv

\* Nothing a dead process had goes on.
LEMMA CrashKeeps ==
  ASSUME IInv, NEW r \in Runners, Crash(r)
  PROVE  IInv'
<1> DEFINE dead == [Resting EXCEPT !.pc = "dead"]
           Stop(t) == [exec[t] EXCEPT !.beat = "stopped"]
<1>1. /\ pass' = [pass EXCEPT ![r] = dead] /\ faults' = faults + 1
      /\ exec' = [t \in Tasks |-> IF exec[t].by = r THEN Over(Stop(t)) ELSE exec[t]]
      /\ UNCHANGED <<task, lock, starts, clock>>
  BY DEF Crash
<1>2. dead \in Pass /\ dead.now = 0 /\ dead.pc = "dead"
  BY DEF Resting, Pass, NoLock, LockRow
<1>3. \A t \in Tasks : Stop(t) \in Exec /\ Stop(t).by = exec[t].by
  BY DEF IInv, TypeOK, Exec
<1> HIDE DEF dead, Stop
<1>4. \A t \in Tasks : /\ exec'[t] \in Exec /\ exec'[t].by \in {exec[t].by, None}
                       /\ exec'[t] = exec[t] \/ (exec[t].by = r /\ exec'[t].pc = "over")
  <2> TAKE t \in Tasks
  <2>1. /\ Over(Stop(t)) \in Exec /\ Over(Stop(t)).pc = "over"
        /\ Over(Stop(t)).by \in {exec[t].by, None}
    BY <1>3, OverFacts
  <2>2. exec[t] \in Exec
    BY DEF IInv, TypeOK
  <2> QED BY <1>1, <2>1, <2>2
<1>5. TypeOK'
  <2>1. exec' \in [Tasks -> Exec]
    BY <1>1, <1>4
  <2> QED BY <1>1, <1>2, <2>1 DEF IInv, TypeOK
<1>6. OneActiveTask'
  BY <1>1 DEF IInv, OneActiveTask
<1>7. PassesOK'
  <2> SUFFICES ASSUME NEW q \in Runners PROVE PassOK(q)'
    BY DEF PassesOK
  <2>1. PassOK(q) /\ clock \in Nat /\ pass'[r] = dead /\ (q # r => pass'[q] = pass[q])
    BY <1>1 DEF IInv, PassesOK, TypeOK
  <2>2. pass[q].pc \in Claims => exec'[pass[q].task].by # q
    BY <2>1, <1>4, SystemTaskAssumption DEF PassOK
  <2>3. CASE q = r
    BY <1>1, <1>2, <2>1, <2>3 DEF PassOK, Claims
  <2>4. CASE q # r
    <3>1. MyLock(q)' = MyLock(q)
      BY <2>1, <2>4 DEF MyLock
    <3> QED BY <1>1, <2>1, <2>2, <2>4, <3>1 DEF PassOK
  <2> QED BY <2>3, <2>4
<1>8. ExecsOK'
  <2> SUFFICES ASSUME NEW t \in Tasks PROVE ExecOK(t)'
    BY DEF ExecsOK
  <2>1. ExecOK(t)
    BY DEF IInv, ExecsOK
  <2>2. exec[t].by = r => exec[t].pc # "none"
    BY <2>1, SystemTaskAssumption DEF ExecOK
  <2>3. CASE exec'[t] = exec[t]
    BY <1>1, <2>1, <2>3 DEF ExecOK
  <2>4. CASE exec'[t] # exec[t]
    <3>1. exec'[t].pc = "over" /\ exec[t].pc # "none"
      BY <1>4, <2>2, <2>4
    <3> QED BY <1>1, <2>1, <3>1 DEF ExecOK
  <2> QED BY <2>3, <2>4
<1>9. LeaseHonoured'
  <2> SUFFICES ASSUME NEW t \in Tasks, Running(t)', exec'[t].lease >= clock
               PROVE  lock = [task |-> t, by |-> exec'[t].by, until |-> exec'[t].lease]
    BY <1>1 DEF LeaseHonoured
  <2>1. exec'[t] = exec[t]
    BY <1>4 DEF Running
  <2> QED BY <2>1 DEF IInv, LeaseHonoured, Running
<1> QED BY <1>5, <1>6, <1>7, <1>8, <1>9 DEF IInv

LEMMA TickKeeps ==
  ASSUME IInv, Tick
  PROVE  IInv'
<1>1. clock' = clock + 1 /\ clock \in Nat /\ UNCHANGED <<task, lock, pass, exec, starts, faults>>
  BY DEF Tick, IInv, TypeOK
<1>2. TypeOK' /\ OneActiveTask' /\ ExecsOK'
  BY <1>1 DEF IInv, TypeOK, OneActiveTask, ExecsOK, ExecOK
<1>3. PassesOK'
  <2> SUFFICES ASSUME NEW q \in Runners PROVE PassOK(q)'
    BY DEF PassesOK
  <2>1. PassOK(q) /\ pass[q] \in Pass
    BY DEF IInv, PassesOK, TypeOK
  <2>2. pass[q].now \in Nat /\ pass[q].until \in Nat
    BY <2>1 DEF Pass
  <2>3. MyLock(q)' = MyLock(q)
    BY <1>1 DEF MyLock
  <2>4. pass[q].now <= clock' /\ (pass[q].until >= clock' => pass[q].until >= clock)
    BY <1>1, <2>1, <2>2 DEF PassOK
  <2> QED BY <1>1, <2>1, <2>3, <2>4 DEF PassOK
<1>4. LeaseHonoured'
  <2> SUFFICES ASSUME NEW t \in Tasks, Running(t), exec[t].lease >= clock'
               PROVE  lock = [task |-> t, by |-> exec[t].by, until |-> exec[t].lease]
    BY <1>1 DEF LeaseHonoured, Running
  <2>1. exec[t].lease \in Nat
    BY DEF IInv, TypeOK, Exec
  <2>2. exec[t].lease >= clock
    BY <1>1, <2>1
  <2> QED BY <2>2 DEF IInv, LeaseHonoured
<1> QED BY <1>2, <1>3, <1>4 DEF IInv

-----------------------------------------------------------------------------
(* The results *)

LEMMA InitOK == Init => IInv
<1> SUFFICES ASSUME Init PROVE IInv
  OBVIOUS
<1>1. NoTask \in TaskRow /\ NoLock \in LockRow /\ Resting \in Pass /\ NoExec \in Exec
  BY DEF NoTask, NoLock, Resting, NoExec, TaskRow, LockRow, Pass, Exec
<1>2. TypeOK
  BY <1>1 DEF Init, TypeOK
<1>3. OneActiveTask
  BY DEF Init, OneActiveTask, NoTask, Active
<1>4. PassesOK
  BY DEF Init, PassesOK, PassOK, Resting, Claims
<1>5. ExecsOK
  BY DEF Init, ExecsOK, ExecOK, NoExec
<1>6. LeaseHonoured
  BY DEF Init, LeaseHonoured, Running, NoExec
<1> QED BY <1>2, <1>3, <1>4, <1>5, <1>6 DEF IInv

LEMMA NextOK == IInv /\ [Next]_vars => IInv'
<1> SUFFICES ASSUME IInv, [Next]_vars PROVE IInv'
  OBVIOUS
<1>1. ASSUME NEW t \in Tasks,
             CreateSystemTask(t) \/ HeartbeatTick(t) \/ RenewSystemTaskLock(t)
               \/ RenewFails(t) \/ HandlerEnds(t) \/ Finishing(t) \/ FinishFails(t)
      PROVE  IInv'
  BY <1>1, CreateKeeps, HeartbeatTickKeeps, RenewKeeps, HandlerDoneKeeps, HandlerQuitsKeeps,
     FinishSystemTaskKeeps, FinishReleasesKeeps, FinishFailsKeeps DEF HandlerEnds, Finishing
<1>2. ASSUME NEW r \in Runners, PassStep(r)
      PROVE  IInv'
  BY <1>2, ExpireTaskKeeps, DeleteStaleLockKeeps, InsertLockKeeps, ReadLockKeeps,
     TakeOverLockKeeps, MarkExpiredKeeps, RunTaskKeeps, GiveUpKeeps DEF PassStep
<1>3. ASSUME NEW r \in Runners,
             \/ ListStaleLock(r) \/ StatementFails(r) \/ ReadBackFails(r) \/ Crash(r)
             \/ \E t \in Tasks : ClaimSystemTask(r, t)
      PROVE  IInv'
  BY <1>3, ListStaleLockKeeps, StatementFailsKeeps, ReadBackFailsKeeps, CrashKeeps,
     ClaimSystemTaskKeeps
<1>4. CASE UNCHANGED vars
  BY <1>4 DEF vars, IInv, TypeOK, OneActiveTask, PassesOK, PassOK, MyLock, ExecsOK, ExecOK,
              LeaseHonoured, Running
<1> QED BY <1>1, <1>2, <1>3, <1>4, TickKeeps DEF Next

\* The inductive invariant holds in every reachable state.
THEOREM LeaseInvariant == Spec => []IInv
  BY InitOK, NextOK, PTL DEF Spec

\* Every row, goroutine and counter keeps its type.
THEOREM TaskTypes == Spec => []TypeOK
<1>1. IInv => TypeOK
  BY DEF IInv
<1> QED BY <1>1, LeaseInvariant, PTL

\* At most one task of the type is pending or running, and its row alone has
\* the active key, through every claim, takeover, lapse and finish.
THEOREM OneActive == Spec => []OneActiveTask
<1>1. IInv => OneActiveTask
  BY DEF IInv
<1> QED BY <1>1, LeaseInvariant, PTL

\* The handler of a task is started once at most, even if claims outlast the
\* lease, runners crash and statements report errors although they ran.
THEOREM StartsOnce == Spec => []StartedOnce
<1>1. IInv => StartedOnce
  BY DEF IInv, ExecsOK, ExecOK, StartedOnce
<1> QED BY <1>1, LeaseInvariant, PTL

\* No runner takes, deletes or overwrites a lock whose owner's lease runs,
\* however old the time it compares with.
THEOREM LeasesHold == Spec => []LeaseHonoured
<1>1. IInv => LeaseHonoured
  BY DEF IInv
<1> QED BY <1>1, LeaseInvariant, PTL

\* Every step of the system moves the rows in order or creates a task.
LEMMA NextMoves ==
  ASSUME IInv, Next
  PROVE  RowsMove \/ \E t \in Tasks : CreateSystemTask(t)
<1>0. task' = task => RowsMove
  BY DEF IInv, TypeOK, RowsMove, RowMoves
<1>1. ASSUME NEW r \in Runners,
             \/ ListStaleLock(r) \/ PassStep(r) \/ StatementFails(r) \/ ReadBackFails(r)
             \/ Crash(r) \/ \E t \in Tasks : ClaimSystemTask(r, t)
      PROVE  RowsMove
  <2>1. CASE ListStaleLock(r) \/ DeleteStaleLock(r) \/ InsertLock(r) \/ ReadLock(r)
               \/ TakeOverLock(r) \/ GiveUp(r) \/ Crash(r)
    BY <2>1, <1>0 DEF ListStaleLock, DeleteStaleLock, InsertLock, ReadLock, TakeOverLock,
                      GiveUp, Crash
  <2>2. CASE \E t \in Tasks : ClaimSystemTask(r, t)
    BY <2>2, <1>0 DEF ClaimSystemTask
  <2>3. CASE ExpireTask(r) \/ MarkExpired(r) \/ RunTask(r) \/ ReadBackFails(r)
    <3>1. task' = TaskAfter(r)
      BY <2>3 DEF ExpireTask, MarkExpired, RunTask, ReadBackFails, TaskAfter
    <3> QED BY <3>1, TaskAfterMoves
  <2>4. CASE StatementFails(r)
    <3>1. task' \in {task, TaskAfter(r)}
      BY <2>4 DEF StatementFails
    <3> QED BY <3>1, TaskAfterMoves
  <2> QED BY <1>1, <2>1, <2>2, <2>3, <2>4 DEF PassStep
<1>2. ASSUME NEW t \in Tasks,
             HeartbeatTick(t) \/ RenewSystemTaskLock(t) \/ RenewFails(t)
               \/ HandlerEnds(t) \/ Finishing(t) \/ FinishFails(t)
      PROVE  RowsMove
  <2>1. CASE HeartbeatTick(t) \/ HandlerEnds(t) \/ FinishReleases(t)
    BY <2>1, <1>0 DEF HeartbeatTick, HandlerEnds, HandlerDone, HandlerQuits, FinishReleases
  <2>2. CASE RenewSystemTaskLock(t) \/ RenewFails(t)
    BY <2>2, <1>0 DEF RenewSystemTaskLock, RenewFails
  <2>3. CASE FinishSystemTask(t) \/ FinishFails(t)
    <3>1. task' = task \/ Finish(t)
      BY <2>3 DEF FinishSystemTask, FinishFails
    <3> QED BY <3>1, <1>0, FinishMoves DEF IInv
  <2> QED BY <1>2, <2>1, <2>2, <2>3 DEF Finishing
<1>3. CASE Tick
  BY <1>3, <1>0 DEF Tick
<1> QED BY <1>1, <1>2, <1>3 DEF Next

\* A task ends once, from running, and what it ended with stays.
THEOREM OutcomesFinal == Spec => OutcomeFinal
<1> DEFINE Kept == \A t \in Tasks :
                     /\ task[t].status \in Ended => task'[t] = task[t]
                     /\ task[t].status = "pending" => task'[t].status \in Active
<1>1. IInv /\ [Next]_vars => [Kept]_vars
  <2> SUFFICES ASSUME IInv, Next PROVE Kept
    OBVIOUS
  <2>1. CASE RowsMove
    BY <2>1 DEF RowsMove, RowMoves, Ended, Active
  <2>2. ASSUME NEW u \in Tasks, CreateSystemTask(u) PROVE Kept
    <3>1. \A t \in Tasks : t # u => task'[t] = task[t]
      BY <2>2 DEF CreateSystemTask, IInv, TypeOK
    <3>2. task[u].status = "none"
      BY <2>2 DEF CreateSystemTask
    <3> QED BY <3>1, <3>2 DEF Ended, Active
  <2> QED BY <2>1, <2>2, NextMoves
<1> QED BY <1>1, LeaseInvariant, PTL DEF Spec, OutcomeFinal

=============================================================================
