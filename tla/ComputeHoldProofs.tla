-------------------------- MODULE ComputeHoldProofs --------------------------
(* What holds of the compute bridge for every number of logins, wallets,   *)
(* holds and request processes, and for every amount.                      *)
EXTENDS ComputeHold, SumTheorems, TLAPS

IInv == TypeOK /\ HoldAccounting /\ JobsGrounded /\ WalletNotOverdrawn

\* What HoldAccounting and JobsGrounded ask of one stored row.
RowOK(r) ==
  /\ r \in Row /\ r.user \in Users /\ r.status # "none"
  /\ r.quota <= MaxComputeQuota /\ r.settled <= r.quota
  /\ r.status = "active" => r.released = 0
  /\ r.status \in {"settled", "released", "expired"} => r.settled + r.released = r.quota

\* The jobs a process can be started with or left in.
LEMMA IdleJobGrounded ==
  ASSUME NEW rows
  PROVE  IdleJob \in Job /\ Grounded(rows, IdleJob)
  BY DEF IdleJob, Job, NoRow, Row, Status, Ops, Grounded

\* What a committed transaction leaves to do is a grounded job.
LEMMA AfterGrounded ==
  ASSUME NEW rows, NEW j \in Job, j.hold \in Holds, rows[j.hold].status # "none",
         NEW t \in Int, NEW l \in Nat
  PROVE  After(j, t, l) \in Job /\ Grounded(rows, After(j, t, l))
<1> DEFINE k == [IdleJob EXCEPT !.pc = "after", !.hold = j.hold, !.token = t, !.log = l]
<1>1. After(j, t, l) = IdleJob \/ After(j, t, l) = k
  BY DEF After
<1>2. /\ k.pc = "after" /\ k.op = "none" /\ k.hold = j.hold
      /\ k \in Job
  BY DEF IdleJob, Job, NoRow, Row, Status, Ops
<1>3. Grounded(rows, k)
  BY <1>2 DEF Grounded
<1> QED BY <1>1, <1>2, <1>3, IdleJobGrounded

\* A step of one process that leaves rows and wallets alone keeps the invariant
\* if the process is left with a grounded job.
LEMMA JobStep ==
  ASSUME IInv, NEW p \in Procs, NEW j \in Job, Grounded(hold, j),
         job' = [job EXCEPT ![p] = j],
         UNCHANGED <<hold, settlements, extensions, wallet>>,
         member' \in [Users -> Wallets], deleted' \subseteq Users,
         token' \in [Users -> Int], logged' \in [Holds -> Nat],
         sweep' \in [now: Nat, batch: SUBSET Holds],
         sweep'.batch \subseteq sweep.batch,
         clock' \in Nat, faults' \in Nat, moves' \in Nat
  PROVE  IInv'
<1>1. TypeOK'
  BY DEF IInv, TypeOK
<1>2. HoldAccounting' /\ WalletNotOverdrawn'
  BY DEF IInv, HoldAccounting, WalletNotOverdrawn
<1>3. JobsGrounded'
  BY DEF IInv, JobsGrounded, TypeOK
<1> QED BY <1>1, <1>2, <1>3 DEF IInv

\* A commit stores a sound row, keeps the wallets covered, and leaves the
\* process with what is owed after it.
LEMMA CommitStep ==
  ASSUME IInv, NEW p \in Procs, job[p].hold \in Holds,
         hold' \in [Holds -> Row], RowOK(hold'[job[p].hold]),
         \A g \in Holds \ {job[p].hold} : hold'[g] = hold[g],
         \E t \in Int, l \in Nat : SetJob(p, After(job[p], t, l)),
         wallet' \in [Wallets -> Int], \A w \in Wallets : wallet'[w] >= 0,
         settlements' \subseteq Settlement, extensions' \subseteq Extension
  PROVE  IInv'
<1> DEFINE j == job[p]
           h == job[p].hold
<1>0. PICK t \in Int, l \in Nat : SetJob(p, After(j, t, l))
  OBVIOUS
<1>1. \A g \in Holds : hold[g].status # "none" => hold'[g].status # "none"
  BY DEF IInv, TypeOK, RowOK
<1>2. hold'[h].status # "none"
  BY DEF IInv, TypeOK, RowOK
<1>3. After(j, t, l) \in Job /\ Grounded(hold', After(j, t, l))
  BY <1>2, AfterGrounded DEF IInv, TypeOK
<1>4. TypeOK'
  BY <1>0, <1>3 DEF IInv, TypeOK, SetJob
<1>5. HoldAccounting'
  BY DEF IInv, TypeOK, HoldAccounting, RowOK
<1>6. JobsGrounded'
  <2>1. \A q \in Procs : Grounded(hold', job'[q])
    <3> TAKE q \in Procs
    <3>1. CASE q = p
      BY <3>1, <1>0, <1>3 DEF IInv, TypeOK, SetJob
    <3>2. CASE q # p
      <4>1. job[q] \in Job /\ Grounded(hold, job[q]) /\ job'[q] = job[q]
        BY <3>2, <1>0 DEF IInv, TypeOK, JobsGrounded, SetJob
      <4> QED BY <4>1, <1>1 DEF Grounded
    <3> QED BY <3>1, <3>2
  <2>2. \A g \in sweep'.batch : hold'[g].status # "none"
    BY <1>0, <1>1 DEF IInv, TypeOK, JobsGrounded, SetJob
  <2>3. \A g \in Holds : hold'[g].status # "none" => hold'[g].user \in Users
    BY DEF IInv, TypeOK, JobsGrounded, RowOK
  <2> QED BY <2>1, <2>2, <2>3 DEF JobsGrounded
<1>7. WalletNotOverdrawn'
  BY DEF WalletNotOverdrawn
<1> QED BY <1>4, <1>5, <1>6, <1>7 DEF IInv

\* A request that passed its checks starts with a grounded job.
LEMMA StartStep ==
  ASSUME IInv, NEW p \in Procs, NEW j \in Job, Grounded(hold, j), Start(p, j)
  PROVE  IInv'
  BY JobStep DEF Start, dbVars, IInv, TypeOK

LEMMA RequestStep ==
  ASSUME IInv, ComputeHoldAssumption, NEW p \in Procs, Request(p)
  PROVE  IInv'
<1> USE DEF IInv
<1>0. PICK h \in Holds :
        \/ \E u \in Users, q \in 1 .. MaxComputeQuota, e \in 1 .. MaxTime :
             ComputeCreateHold(p, h, u, q, e)
        \/ \E id \in Events, c \in 0 .. MaxComputeQuota, f \in BOOLEAN :
             ComputeSettleHold(p, h, id, c, f)
        \/ \E id \in Extends, q \in 1 .. MaxComputeQuota : ComputeExtendHold(p, h, id, q)
        \/ ComputeReleaseHold(p, h)
  BY DEF Request
<1>a. clock \in Nat /\ MaxComputeQuota \in Nat /\ MaxTime \in Nat
  BY DEF TypeOK, ComputeHoldAssumption
<1>1. ASSUME NEW u \in Users, NEW q \in 1 .. MaxComputeQuota, NEW e \in 1 .. MaxTime,
             ComputeCreateHold(p, h, u, q, e)
      PROVE  IInv'
  <2> DEFINE j == [IdleJob EXCEPT !.pc = "read", !.op = "create", !.hold = h,
                                  !.now = clock, !.row = NewHold(u, q, e)]
  <2>0. NewHold(u, q, e) \in Row
    BY <1>a DEF NewHold, Row, Status
  <2>1. j \in Job
    BY <1>a, <2>0, IdleJobGrounded DEF Job, Ops
  <2>2. Grounded(hold, j)
    BY <1>a DEF Grounded, IdleJob, NewHold
  <2>3. Start(p, j)
    BY <1>1 DEF ComputeCreateHold
  <2> HIDE DEF j
  <2> QED BY <2>1, <2>2, <2>3, StartStep
<1>2. ASSUME NEW id \in Events, NEW c \in 0 .. MaxComputeQuota, NEW f \in BOOLEAN,
             ComputeSettleHold(p, h, id, c, f)
      PROVE  IInv'
  <2> DEFINE j == [IdleJob EXCEPT !.pc = "read", !.op = "settle", !.hold = h, !.id = id,
                                  !.amount = c, !.final = f, !.now = clock]
  <2>0. c \in Nat /\ id \in Events \cup Extends \cup {NoId}
    BY <1>a
  <2>1. j \in Job
    BY <1>a, <2>0, IdleJobGrounded DEF Job, Ops
  <2>2. Grounded(hold, j)
    BY <1>2 DEF Grounded, IdleJob, ComputeSettleHold
  <2>3. Start(p, j)
    BY <1>2 DEF ComputeSettleHold
  <2> HIDE DEF j
  <2> QED BY <2>1, <2>2, <2>3, StartStep
<1>3. ASSUME NEW id \in Extends, NEW q \in 1 .. MaxComputeQuota, ComputeExtendHold(p, h, id, q)
      PROVE  IInv'
  <2> DEFINE j == [IdleJob EXCEPT !.pc = "read", !.op = "extend", !.hold = h, !.id = id,
                                  !.amount = q, !.now = clock]
  <2>0. q \in Nat /\ id \in Events \cup Extends \cup {NoId}
    BY <1>a
  <2>1. j \in Job
    BY <1>a, <2>0, IdleJobGrounded DEF Job, Ops
  <2>2. Grounded(hold, j)
    BY <1>3, <1>a DEF Grounded, IdleJob, ComputeExtendHold
  <2>3. Start(p, j)
    BY <1>3 DEF ComputeExtendHold
  <2> HIDE DEF j
  <2> QED BY <2>1, <2>2, <2>3, StartStep
<1>4. ASSUME ComputeReleaseHold(p, h)
      PROVE  IInv'
  <2> DEFINE j == [IdleJob EXCEPT !.pc = "read", !.op = "release", !.hold = h, !.now = clock]
  <2>1. j \in Job
    BY <1>a, IdleJobGrounded DEF Job, Ops
  <2>2. Grounded(hold, j)
    BY <1>4 DEF Grounded, IdleJob, ComputeReleaseHold
  <2>3. Start(p, j)
    BY <1>4 DEF ComputeReleaseHold
  <2> HIDE DEF j
  <2> QED BY <2>1, <2>2, <2>3, StartStep
<1> QED BY <1>0, <1>1, <1>2, <1>3, <1>4

\* The sweeper plucks and visits holds that exist.
LEMMA SweepInv ==
  ASSUME IInv, ComputeHoldAssumption, SweepStep
  PROVE  IInv'
<1>0. Sweeper \in Procs
  BY DEF Procs
<1>1. CASE SweepExpiredComputeHolds
  <2>1. PICK batch \in SUBSET {h \in Holds : Lapsed(hold[h], clock)} :
          sweep' = [now |-> clock, batch |-> batch]
    BY <1>1 DEF SweepExpiredComputeHolds
  <2>2. /\ sweep' \in [now: Nat, batch: SUBSET Holds]
        /\ \A h \in sweep'.batch : hold[h].status # "none"
    BY <2>1 DEF IInv, TypeOK, Lapsed
  <2>3. UNCHANGED <<hold, settlements, extensions, wallet, member, deleted, token,
                    logged, job, clock, faults, moves>>
    BY <1>1 DEF SweepExpiredComputeHolds, dbVars
  <2>4. TypeOK'
    BY <2>2, <2>3 DEF IInv, TypeOK
  <2>5. HoldAccounting' /\ WalletNotOverdrawn' /\ JobsGrounded'
    BY <2>2, <2>3 DEF IInv, HoldAccounting, WalletNotOverdrawn, JobsGrounded
  <2> QED BY <2>4, <2>5 DEF IInv
<1>2. ASSUME NEW h \in Holds, SweepNext(h)
      PROVE  IInv'
  <2> DEFINE j == [IdleJob EXCEPT !.pc = "read", !.op = "expire", !.hold = h,
                                  !.now = sweep.now]
  <2>1. j \in Job
    BY IdleJobGrounded DEF Job, Ops, IInv, TypeOK
  <2>2. Grounded(hold, j)
    BY <1>2 DEF Grounded, IdleJob, SweepNext, IInv, JobsGrounded
  <2>3. /\ job' = [job EXCEPT ![Sweeper] = j]
        /\ sweep' = NoSweep \/ sweep' = [sweep EXCEPT !.batch = @ \ {h}]
        /\ UNCHANGED <<hold, settlements, extensions, wallet, member, deleted, token,
                       logged, clock, faults, moves>>
    BY <1>2 DEF SweepNext, dbVars
  <2>4. sweep' \in [now: Nat, batch: SUBSET Holds] /\ sweep'.batch \subseteq sweep.batch
    BY <2>3 DEF IInv, TypeOK, NoSweep
  <2> HIDE DEF j
  <2> QED BY <1>0, <2>1, <2>2, <2>3, <2>4, JobStep DEF IInv, TypeOK
<1> QED BY <1>1, <1>2 DEF SweepStep

\* Giving up leaves the database as it was.
LEMMA FailStep ==
  ASSUME IInv, NEW p \in Procs, Fail(p)
  PROVE  IInv'
  BY IdleJobGrounded, JobStep DEF Fail, SetJob, dbVars, IInv, TypeOK

\* Reading the row and resolving the wallet grounds the write that follows.
LEMMA ReadStep ==
  ASSUME IInv, NEW p \in Procs, ResolveForCreate(p) \/ LockComputeHold(p)
  PROVE  IInv'
<1> DEFINE j == job[p]
           r == hold[j.hold]
<1>0. j \in Job /\ Grounded(hold, j)
  BY DEF IInv, TypeOK, JobsGrounded
<1>1. ASSUME NEW k \in Job, Grounded(hold, k), SetJob(p, k), UNCHANGED dbVars
      PROVE  IInv'
  BY <1>1, JobStep DEF SetJob, dbVars, IInv, TypeOK
<1>2. CASE ResolveForCreate(p) /\ Resolves(j, j.row)
  <2> DEFINE k == [j EXCEPT !.pc = "write", !.entity = member[j.row.user]]
  <2>1. j.pc = "read" /\ j.op = "create" /\ SetJob(p, k) /\ UNCHANGED dbVars
    BY <1>2 DEF ResolveForCreate
  <2>2. member[j.row.user] \in Wallets
    BY <1>0, <2>1 DEF Grounded, IInv, TypeOK
  <2>3. k \in Job
    BY <1>0, <2>2 DEF Job
  <2>4. /\ k.pc = "write" /\ k.op = "create" /\ k.hold = j.hold /\ k.row = j.row
        /\ k.entity \in Wallets
    BY <1>0, <2>1, <2>2 DEF Job
  <2>5. Grounded(hold, k)
    BY <1>0, <2>1, <2>4 DEF Grounded
  <2> HIDE DEF k
  <2> QED BY <1>1, <2>1, <2>3, <2>5
<1>3. CASE ResolveForCreate(p) /\ ~Resolves(j, j.row)
  BY <1>3, FailStep DEF ResolveForCreate
<1>4. CASE LockComputeHold(p)
  <2>0. j.pc = "read" /\ j.op # "create" /\ j.hold \in Holds /\ r.status # "none"
    BY <1>0, <1>4 DEF LockComputeHold, Grounded
  <2>1. CASE Admits(j, r) /\ SetJob(p, [j EXCEPT !.pc = "write", !.row = r,
                                                 !.entity = member[r.user]])
             /\ UNCHANGED dbVars
    <3> DEFINE k == [j EXCEPT !.pc = "write", !.row = r, !.entity = member[r.user]]
    <3>1. r \in Row /\ member[r.user] \in Wallets /\ r.settled <= r.quota
          /\ r.quota <= MaxComputeQuota /\ (r.status = "active" => r.released = 0)
      BY <2>0 DEF IInv, TypeOK, JobsGrounded, HoldAccounting
    <3>2. k \in Job
      BY <1>0, <3>1 DEF Job
    <3>3. /\ k.pc = "write" /\ k.op = j.op /\ k.hold = j.hold /\ k.row = r
          /\ k.entity \in Wallets /\ k.id = j.id /\ k.amount = j.amount /\ k.now = j.now
      BY <1>0, <3>1 DEF Job
    <3>4. Admits(k, r) /\ r.status = "active"
      BY <2>1, <3>3 DEF Admits, ActiveComputeHold, Lapsed
    <3>5. Grounded(hold, k)
      BY <1>0, <2>0, <3>1, <3>3, <3>4 DEF Grounded
    <3> HIDE DEF k
    <3> QED BY <1>1, <2>1, <3>2, <3>5 DEF k
  <2>2. CASE SetJob(p, [j EXCEPT !.op = "expire"]) /\ UNCHANGED dbVars
    <3> DEFINE k == [j EXCEPT !.op = "expire"]
    <3>1. k \in Job /\ k.pc = "read" /\ k.op = "expire" /\ k.hold = j.hold
      BY <1>0, <2>0 DEF Job, Ops
    <3>2. Grounded(hold, k)
      BY <2>0, <3>1 DEF Grounded
    <3> HIDE DEF k
    <3> QED BY <1>1, <2>2, <3>1, <3>2 DEF k
  <2>3. CASE Fail(p)
    BY <2>3, FailStep
  <2> QED BY <1>4, <2>1, <2>2, <2>3 DEF LockComputeHold
<1> QED BY <1>2, <1>3, <1>4

\* What a transaction that reaches its commit knows of the stored row: the
\* compare-and-set carries the checks made on the row it read over to it.
LEMMA CasCarries ==
  ASSUME IInv, NEW p \in Procs, job[p].pc = "write", job[p].op # "create",
         CasComputeHold(job[p])
  PROVE  LET j == job[p]  r == hold[j.hold]
         IN /\ j \in Job /\ j.hold \in Holds /\ j.entity \in Wallets /\ RowOK(r)
            /\ r.status = "active" /\ r.released = 0
            /\ r.quota = j.row.quota /\ r.settled = j.row.settled
            /\ Admits(j, j.row)
<1> DEFINE j == job[p]
           r == hold[j.hold]
<1>1. j \in Job /\ Grounded(hold, j)
  BY DEF IInv, TypeOK, JobsGrounded
<1>2. /\ j.hold \in Holds /\ j.entity \in Wallets /\ Admits(j, j.row)
      /\ r.status # "none"
  BY <1>1 DEF Grounded
<1>3. j.row.status = "active"
  BY <1>2 DEF Admits, ActiveComputeHold, Lapsed
<1>4. r.status = "active" /\ r.quota = j.row.quota /\ r.settled = j.row.settled
  BY <1>3 DEF CasComputeHold
<1>5. RowOK(r) /\ r.released = 0
  BY <1>2, <1>4 DEF IInv, TypeOK, HoldAccounting, JobsGrounded, RowOK
<1> QED BY <1>1, <1>2, <1>4, <1>5

LEMMA CreateStep ==
  ASSUME IInv, NEW p \in Procs, CreateTx(p)
  PROVE  IInv'
<1> DEFINE j == job[p]
<1>1. j \in Job /\ Grounded(hold, j) /\ j.pc = "write" /\ j.op = "create" /\ Committable(j)
  BY DEF IInv, TypeOK, JobsGrounded, CreateTx
<1>2. /\ j.hold \in Holds /\ j.entity \in Wallets /\ wallet[j.entity] >= j.row.quota
      /\ j.row = NewHold(j.row.user, j.row.quota, j.row.expires)
      /\ j.row.user \in Users /\ j.row.quota \in 1 .. MaxComputeQuota /\ j.row \in Row
  BY <1>1 DEF Grounded, Committable, Affords, Job
<1>3. RowOK(j.row)
  BY <1>2 DEF NewHold, RowOK, Row
<1>4. /\ hold' = [hold EXCEPT ![j.hold] = j.row]
      /\ SetJob(p, After(j, -j.row.quota, 0))
      /\ wallet' = [wallet EXCEPT ![j.entity] = @ - j.row.quota]
      /\ UNCHANGED <<settlements, extensions>>
  BY DEF CreateTx
<1>5. wallet' \in [Wallets -> Int] /\ \A w \in Wallets : wallet'[w] >= 0
  BY <1>2, <1>4 DEF IInv, TypeOK, WalletNotOverdrawn, Row
<1>6. -j.row.quota \in Int
  BY <1>2
<1>7. settlements' \subseteq Settlement /\ extensions' \subseteq Extension
  BY <1>4 DEF IInv, TypeOK
<1>8. /\ hold' \in [Holds -> Row] /\ RowOK(hold'[job[p].hold])
      /\ \A g \in Holds \ {job[p].hold} : hold'[g] = hold[g]
  BY <1>2, <1>3, <1>4 DEF IInv, TypeOK, RowOK
<1>9. \E t \in Int, l \in Nat : SetJob(p, After(job[p], t, l))
  BY <1>4, <1>6
<1> QED BY <1>2, <1>5, <1>7, <1>8, <1>9, CommitStep

LEMMA SettleStep ==
  ASSUME IInv, NEW p \in Procs, SettleTx(p)
  PROVE  IInv'
<1> DEFINE j == job[p]
           r == hold[j.hold]
           delta == j.amount - j.row.settled
           back == Released(j, j.row)
           new == [r EXCEPT !.settled = j.amount,
                            !.status = IF j.final THEN "settled" ELSE @,
                            !.released = IF j.final THEN back ELSE @]
<1>1. /\ j.pc = "write" /\ j.op = "settle" /\ Committable(j)
      /\ hold' = [hold EXCEPT ![j.hold] = new]
      /\ settlements' = settlements \cup
           {[event |-> j.id, hold |-> j.hold, cumulative |-> j.amount,
             delta |-> delta, final |-> j.final]}
      /\ wallet' = [wallet EXCEPT ![j.entity] = @ + back]
      /\ SetJob(p, After(j, back, delta))
      /\ UNCHANGED extensions
  BY DEF SettleTx, IInv, TypeOK
<1>2. /\ j \in Job /\ j.hold \in Holds /\ j.entity \in Wallets /\ RowOK(r)
      /\ r.status = "active" /\ r.released = 0
      /\ r.quota = j.row.quota /\ r.settled = j.row.settled /\ Admits(j, j.row)
  BY <1>1, CasCarries DEF Committable
<1>3. j.row.settled <= j.amount /\ j.amount <= j.row.quota /\ j.id \in Events
      /\ j.amount \in Nat /\ j.final \in BOOLEAN /\ j.row \in Row
  BY <1>1, <1>2 DEF Admits, Grounded, IInv, JobsGrounded, Job
<1>4. delta \in Nat /\ back \in Nat /\ back = IF j.final THEN r.quota - j.amount ELSE 0
  BY <1>1, <1>2, <1>3 DEF Released, Row
<1>5. RowOK(new)
  <2>1. CASE j.final
    <3>1. /\ new \in Row /\ new.status = "settled" /\ new.quota = r.quota
          /\ new.settled = j.amount /\ new.released = back /\ new.user = r.user
      BY <1>2, <1>3, <1>4, <2>1 DEF RowOK, Row, Status
    <3> QED BY <1>2, <1>3, <1>4, <2>1, <3>1 DEF RowOK, Row
  <2>2. CASE ~j.final
    <3>1. /\ new \in Row /\ new.status = "active" /\ new.quota = r.quota
          /\ new.settled = j.amount /\ new.released = 0 /\ new.user = r.user
      BY <1>2, <1>3, <2>2 DEF RowOK, Row, Status
    <3> QED BY <1>2, <1>3, <2>2, <3>1 DEF RowOK, Row
  <2> QED BY <2>1, <2>2
<1>6. wallet' \in [Wallets -> Int] /\ \A w \in Wallets : wallet'[w] >= 0
  BY <1>1, <1>2, <1>4 DEF IInv, TypeOK, WalletNotOverdrawn
<1>7. settlements' \subseteq Settlement /\ extensions' \subseteq Extension
  BY <1>1, <1>2, <1>3, <1>4 DEF IInv, TypeOK, Settlement
<1> HIDE DEF new, back, delta
<1>8. /\ hold' \in [Holds -> Row] /\ RowOK(hold'[job[p].hold])
      /\ \A g \in Holds \ {job[p].hold} : hold'[g] = hold[g]
  BY <1>1, <1>2, <1>5 DEF IInv, TypeOK, RowOK
<1>9. \E t \in Int, l \in Nat : SetJob(p, After(job[p], t, l))
  BY <1>1, <1>4
<1> QED BY <1>2, <1>6, <1>7, <1>8, <1>9, CommitStep

LEMMA ExtendStep ==
  ASSUME IInv, NEW p \in Procs, ExtendTx(p)
  PROVE  IInv'
<1> DEFINE j == job[p]
           r == hold[j.hold]
           new == [r EXCEPT !.quota = j.row.quota + j.amount]
<1>1. /\ j.pc = "write" /\ j.op = "extend" /\ Committable(j)
      /\ hold' = [hold EXCEPT ![j.hold] = new]
      /\ extensions' = extensions \cup
           {[id |-> j.id, hold |-> j.hold, additional |-> j.amount,
             after |-> j.row.quota + j.amount]}
      /\ wallet' = [wallet EXCEPT ![j.entity] = @ - j.amount]
      /\ SetJob(p, After(j, -j.amount, 0))
      /\ UNCHANGED settlements
  BY DEF ExtendTx, IInv, TypeOK
<1>2. /\ j \in Job /\ j.hold \in Holds /\ j.entity \in Wallets /\ RowOK(r)
      /\ r.status = "active" /\ r.released = 0
      /\ r.quota = j.row.quota /\ r.settled = j.row.settled /\ Admits(j, j.row)
  BY <1>1, CasCarries DEF Committable
<1>3. j.row.quota + j.amount <= MaxComputeQuota /\ j.id \in Extends
      /\ j.amount \in Nat /\ j.row \in Row /\ wallet[j.entity] >= j.amount
  BY <1>1, <1>2 DEF Admits, Grounded, IInv, JobsGrounded, Job, Committable, Affords
<1>4. RowOK(new)
  BY <1>2, <1>3 DEF RowOK, Row
<1>5. wallet' \in [Wallets -> Int] /\ \A w \in Wallets : wallet'[w] >= 0
  BY <1>1, <1>2, <1>3 DEF IInv, TypeOK, WalletNotOverdrawn
<1>6. settlements' \subseteq Settlement /\ extensions' \subseteq Extension
  BY <1>1, <1>2, <1>3 DEF IInv, TypeOK, Extension, Row
<1>7. -j.amount \in Int
  BY <1>3
<1> HIDE DEF new
<1>8. /\ hold' \in [Holds -> Row] /\ RowOK(hold'[job[p].hold])
      /\ \A g \in Holds \ {job[p].hold} : hold'[g] = hold[g]
  BY <1>1, <1>2, <1>4 DEF IInv, TypeOK, RowOK
<1>9. \E t \in Int, l \in Nat : SetJob(p, After(job[p], t, l))
  BY <1>1, <1>7
<1> QED BY <1>2, <1>5, <1>6, <1>8, <1>9, CommitStep

LEMMA CloseStep ==
  ASSUME IInv, NEW p \in Procs, NEW status \in {"released", "expired"},
         job[p].pc = "write", job[p].op \in {"release", "expire"}, CloseTx(p, status)
  PROVE  IInv'
<1> DEFINE j == job[p]
           r == hold[j.hold]
           back == Released(j, j.row)
           new == [r EXCEPT !.status = status, !.released = back]
<1>1. /\ Committable(j)
      /\ hold' = [hold EXCEPT ![j.hold] = new]
      /\ wallet' = [wallet EXCEPT ![j.entity] = @ + back]
      /\ SetJob(p, After(j, back, 0))
      /\ UNCHANGED <<settlements, extensions>>
  BY DEF CloseTx, IInv, TypeOK
<1>2. /\ j \in Job /\ j.hold \in Holds /\ j.entity \in Wallets /\ RowOK(r)
      /\ r.status = "active" /\ r.released = 0
      /\ r.quota = j.row.quota /\ r.settled = j.row.settled /\ Admits(j, j.row)
  BY <1>1, CasCarries DEF Committable
<1>3. back \in Nat /\ back = r.quota - r.settled
  BY <1>2 DEF Released, Remaining, RowOK, Row
<1>4. RowOK(new)
  <2>1. /\ new \in Row /\ new.status = status /\ new.quota = r.quota
        /\ new.settled = r.settled /\ new.released = back /\ new.user = r.user
    BY <1>2, <1>3 DEF RowOK, Row, Status
  <2> QED BY <1>2, <1>3, <2>1 DEF RowOK, Row
<1>5. wallet' \in [Wallets -> Int] /\ \A w \in Wallets : wallet'[w] >= 0
  BY <1>1, <1>2, <1>3 DEF IInv, TypeOK, WalletNotOverdrawn
<1>6. settlements' \subseteq Settlement /\ extensions' \subseteq Extension
  BY <1>1 DEF IInv, TypeOK
<1> HIDE DEF new, back
<1>8. /\ hold' \in [Holds -> Row] /\ RowOK(hold'[job[p].hold])
      /\ \A g \in Holds \ {job[p].hold} : hold'[g] = hold[g]
  BY <1>1, <1>2, <1>4 DEF IInv, TypeOK, RowOK
<1>9. \E t \in Int, l \in Nat : SetJob(p, After(job[p], t, l))
  BY <1>1, <1>3
<1> QED BY <1>2, <1>5, <1>6, <1>8, <1>9, CommitStep

LEMMA AfterStep ==
  ASSUME IInv, NEW p \in Procs,
         AdjustComputeTokenQuota(p) \/ TokenQuotaNotAdjusted(p) \/ RecordComputeConsumption(p)
  PROVE  IInv'
<1> DEFINE j == job[p]
<1>1. /\ j \in Job /\ Grounded(hold, j) /\ j.pc = "after"
      /\ UNCHANGED <<hold, settlements, extensions, wallet>>
      /\ UNCHANGED <<member, deleted, sweep, clock, moves>>
  BY DEF IInv, TypeOK, JobsGrounded, AdjustComputeTokenQuota, TokenQuotaNotAdjusted,
         RecordComputeConsumption, dbVars
<1>2. j.hold \in Holds /\ j.token \in Int /\ j.log \in Nat
  BY <1>1 DEF Job, Grounded
<1>3. token' \in [Users -> Int] /\ logged' \in [Holds -> Nat] /\ faults' \in Nat
  BY <1>2 DEF IInv, TypeOK, AdjustComputeTokenQuota, TokenQuotaNotAdjusted,
              RecordComputeConsumption
<1>4. \/ job' = [job EXCEPT ![p] = IdleJob]
      \/ job' = [job EXCEPT ![p] = After(j, 0, j.log)]
  BY DEF AdjustComputeTokenQuota, TokenQuotaNotAdjusted, RecordComputeConsumption
<1>5. IdleJob \in Job /\ Grounded(hold, IdleJob)
  BY IdleJobGrounded
<1>6. CASE job' = [job EXCEPT ![p] = IdleJob]
  BY <1>1, <1>3, <1>5, <1>6, JobStep DEF IInv, TypeOK
<1>7. CASE job' = [job EXCEPT ![p] = After(j, 0, j.log)]
  <2>1. hold[j.hold].status # "none"
    BY <1>1 DEF Grounded
  <2> DEFINE k == After(j, 0, j.log)
  <2>2. k \in Job /\ Grounded(hold, k)
    BY <1>1, <1>2, <2>1, AfterGrounded
  <2> HIDE DEF k
  <2> QED BY <1>1, <1>3, <1>7, <2>2, JobStep DEF IInv, TypeOK, k
<1> QED BY <1>4, <1>6, <1>7

\* Crashes, time, moves and deletions.
LEMMA SurroundingsStep ==
  ASSUME IInv, \/ \E p \in Procs : Crash(p)
               \/ Tick
               \/ \E u \in Users : DeleteUser(u) \/ \E w \in Wallets : ReattachWallet(u, w)
  PROVE  IInv'
<1>1. ASSUME NEW p \in Procs, Crash(p)
      PROVE  IInv'
  <2>1. /\ job' = [job EXCEPT ![p] = IdleJob] /\ faults' \in Nat
        /\ UNCHANGED <<hold, settlements, extensions, wallet>>
        /\ UNCHANGED <<member, deleted, token, logged, clock, moves>>
    BY <1>1 DEF Crash, dbVars, IInv, TypeOK
  <2>2. sweep' \in [now: Nat, batch: SUBSET Holds] /\ sweep'.batch \subseteq sweep.batch
    BY <1>1 DEF Crash, IInv, TypeOK, NoSweep
  <2>3. IdleJob \in Job /\ Grounded(hold, IdleJob)
    BY IdleJobGrounded
  <2> QED BY <2>1, <2>2, <2>3, JobStep DEF IInv, TypeOK
<1>2. CASE Tick
  <2>1. clock' \in Nat
    BY <1>2 DEF Tick, IInv, TypeOK
  <2> QED BY <1>2, <2>1 DEF Tick, dbVars, IInv, TypeOK, HoldAccounting, JobsGrounded,
                            WalletNotOverdrawn
<1>3. ASSUME NEW u \in Users, DeleteUser(u)
      PROVE  IInv'
  BY <1>3 DEF DeleteUser, dbVars, IInv, TypeOK, HoldAccounting, JobsGrounded,
              WalletNotOverdrawn
<1>4. ASSUME NEW u \in Users, NEW w \in Wallets, ReattachWallet(u, w)
      PROVE  IInv'
  <2>1. /\ UNCHANGED <<hold, settlements, extensions, deleted, token, logged, job, sweep,
                       clock, faults>>
        /\ moves' \in Nat /\ member' \in [Users -> Wallets]
    BY <1>4 DEF ReattachWallet, IInv, TypeOK
  <2>2. wallet' \in [Wallets -> Int] /\ \A v \in Wallets : wallet'[v] >= 0
    <3> DEFINE from == member[u]
               carried == IF Alone(u) THEN wallet[from] ELSE 0
    <3>1. /\ from \in Wallets /\ w # from
          /\ wallet' = [wallet EXCEPT ![from] = @ - carried, ![w] = @ + carried]
      BY <1>4 DEF ReattachWallet, IInv, TypeOK
    <3>2. carried \in Int /\ 0 <= carried /\ carried <= wallet[from]
      BY <3>1 DEF IInv, TypeOK, WalletNotOverdrawn
    <3> HIDE DEF carried, from
    <3> QED BY <3>1, <3>2 DEF IInv, TypeOK, WalletNotOverdrawn
  <2> QED BY <2>1, <2>2 DEF IInv, TypeOK, HoldAccounting, JobsGrounded, WalletNotOverdrawn
<1> QED BY <1>1, <1>2, <1>3, <1>4

LEMMA InitHolds ==
  ASSUME ComputeHoldAssumption, Init
  PROVE  IInv
<1>1. NoRow \in Row /\ NoRow.status = "none" /\ NoRow.quota = 0 /\ NoRow.settled = 0
      /\ IdleJob \in Job /\ Grounded(hold, IdleJob)
  BY IdleJobGrounded DEF NoRow, Row, Status
<1>2. TypeOK
  BY <1>1 DEF Init, NoSweep, TypeOK, ComputeHoldAssumption
<1>3. HoldAccounting /\ JobsGrounded /\ WalletNotOverdrawn
  BY <1>1 DEF Init, NoSweep, HoldAccounting, JobsGrounded, WalletNotOverdrawn, ComputeHoldAssumption
<1> QED BY <1>2, <1>3 DEF IInv

LEMMA StepHolds ==
  ASSUME ComputeHoldAssumption, IInv, [Next]_vars
  PROVE  IInv'
<1>1. ASSUME NEW p \in Procs, Step(p)
      PROVE  IInv'
  <2>1. CASE ResolveForCreate(p) \/ LockComputeHold(p)
    BY <2>1, ReadStep
  <2>2. CASE CreateTx(p) \/ SettleTx(p) \/ ExtendTx(p)
    BY <2>2, CreateStep, SettleStep, ExtendStep
  <2>3. CASE ReleaseTx(p) \/ ExpireTx(p)
    BY <2>3, CloseStep DEF ReleaseTx, ExpireTx
  <2>4. CASE Rollback(p)
    BY <2>4, FailStep DEF Rollback
  <2>5. CASE AdjustComputeTokenQuota(p) \/ RecordComputeConsumption(p)
    BY <2>5, AfterStep
  <2> QED BY <1>1, <2>1, <2>2, <2>3, <2>4, <2>5 DEF Step
<1>2. CASE \E p \in Handlers : Request(p)
  BY <1>2, RequestStep DEF Procs
<1>3. CASE SweepStep
  BY <1>3, SweepInv
<1>4. CASE \E p \in Procs : TokenQuotaNotAdjusted(p)
  BY <1>4, AfterStep
<1>5. CASE UNCHANGED vars
  BY <1>5 DEF vars, IInv, TypeOK, HoldAccounting, JobsGrounded, WalletNotOverdrawn
<1> QED BY <1>1, <1>2, <1>3, <1>4, <1>5, SurroundingsStep DEF Next

LEMMA Inductive == Spec => []IInv
<1>1. Init => IInv
  BY InitHolds, ComputeHoldAssumption
<1>2. IInv /\ [Next]_vars => IInv'
  BY StepHolds, ComputeHoldAssumption
<1> QED BY <1>1, <1>2, PTL DEF Spec

\* For any number of holds and processes: rows are well formed and every
\* process in flight stands on a checked row.
THEOREM TypesAndJobs == Spec => [](TypeOK /\ JobsGrounded)
  BY Inductive, PTL DEF IInv

\* The accounting of a hold adds up in every reachable state.
THEOREM HoldsAddUp == Spec => []HoldAccounting
  BY Inductive, PTL DEF IInv

\* No sequence of creates, extends and moves overdraws a wallet.
THEOREM WalletsStayCovered == Spec => []WalletNotOverdrawn
  BY Inductive, PTL DEF IInv

\* Only a committing transaction writes a hold, and only a commit or a move
\* writes a wallet.
LEMMA OtherStepsLeaveRows ==
  ASSUME [Next]_vars
  PROVE  \/ UNCHANGED <<hold, wallet>>
         \/ \E p \in Procs : \/ CreateTx(p) \/ SettleTx(p) \/ ExtendTx(p)
                             \/ ReleaseTx(p) \/ ExpireTx(p)
         \/ UNCHANGED hold /\ \E u \in Users, w \in Wallets : ReattachWallet(u, w)
<1>1. ASSUME NEW p \in Procs, Step(p)
      PROVE  \/ UNCHANGED <<hold, wallet>>
             \/ CreateTx(p) \/ SettleTx(p) \/ ExtendTx(p) \/ ReleaseTx(p) \/ ExpireTx(p)
  BY <1>1 DEF Step, ResolveForCreate, LockComputeHold, Rollback, Fail, dbVars,
              AdjustComputeTokenQuota, RecordComputeConsumption
<1>2. ASSUME NEW p \in Handlers, Request(p)
      PROVE  UNCHANGED <<hold, wallet>>
  BY <1>2 DEF Request, ComputeCreateHold, ComputeSettleHold, ComputeExtendHold,
              ComputeReleaseHold, Start, dbVars
<1>3. ASSUME NEW p \in Procs, TokenQuotaNotAdjusted(p) \/ Crash(p)
      PROVE  UNCHANGED <<hold, wallet>>
  BY <1>3 DEF TokenQuotaNotAdjusted, Crash, dbVars
<1>4. ASSUME SweepStep
      PROVE  UNCHANGED <<hold, wallet>>
  BY <1>4 DEF SweepStep, SweepExpiredComputeHolds, SweepNext, dbVars
<1>5. ASSUME Tick \/ \E u \in Users : DeleteUser(u)
      PROVE  UNCHANGED <<hold, wallet>>
  BY <1>5 DEF Tick, DeleteUser, dbVars
<1>6. ASSUME NEW u \in Users, NEW w \in Wallets, ReattachWallet(u, w)
      PROVE  UNCHANGED hold
  BY <1>6 DEF ReattachWallet
<1> QED BY <1>1, <1>2, <1>3, <1>4, <1>5, <1>6 DEF Next, vars

\* What each commit does, read as a step of Escrow.
LEMMA CreateOpens ==
  ASSUME IInv, NEW p \in Procs, CreateTx(p)
  PROVE  Escrowed!Next
         /\ job[p].hold \in Holds /\ job[p].entity \in Wallets
         /\ job[p].row.quota \in 1 .. MaxComputeQuota
         /\ hold[job[p].hold] = NoRow
<1> DEFINE j == job[p]
<1>1. j \in Job /\ Grounded(hold, j) /\ j.pc = "write" /\ j.op = "create" /\ Committable(j)
  BY DEF IInv, TypeOK, JobsGrounded, CreateTx
<1>2. /\ j.hold \in Holds /\ j.entity \in Wallets /\ wallet[j.entity] >= j.row.quota
      /\ j.row.status = "active" /\ j.row.settled = 0
      /\ j.row.quota \in 1 .. MaxComputeQuota
      /\ hold[j.hold] = NoRow
  BY <1>1 DEF Grounded, Committable, Affords, NewHold, IInv, HoldAccounting
<1>3. /\ hold' = [hold EXCEPT ![j.hold] = j.row]
      /\ wallet' = [wallet EXCEPT ![j.entity] = @ - j.row.quota]
  BY DEF CreateTx
<1>4. NoRow.status = "none" /\ NoRow.settled = 0
  BY DEF NoRow
<1>5. /\ hold'[j.hold] = j.row /\ \A h \in Holds \ {j.hold} : hold'[h] = hold[h]
  BY <1>2, <1>3 DEF IInv, TypeOK
<1>6. Escrowed!Open(j.hold, j.entity, j.row.quota)
  <2>1. /\ hold[j.hold].status = "none" /\ hold[j.hold].settled = 0
        /\ hold'[j.hold].status = "active" /\ hold'[j.hold].settled = 0
        /\ hold'[j.hold].quota = j.row.quota
        /\ 0 < j.row.quota /\ j.row.quota <= wallet[j.entity]
    BY <1>2, <1>4, <1>5 DEF IInv, TypeOK
  <2> DEFINE ph(r) == IF r.status = "none" THEN "new"
                      ELSE IF r.status = "active" THEN "open" ELSE "closed"
  <2>2. [h \in Holds |-> ph(hold'[h])] = [[h \in Holds |-> ph(hold[h])] EXCEPT ![j.hold] = "open"]
    BY <1>5, <2>1
  <2>3. [h \in Holds |-> hold'[h].quota]
          = [[h \in Holds |-> hold[h].quota] EXCEPT ![j.hold] = j.row.quota]
    BY <1>5, <2>1
  <2>4. [h \in Holds |-> hold'[h].settled] = [h \in Holds |-> hold[h].settled]
    BY <1>5, <2>1
  <2>5. j.hold \in Holds
    BY <1>2
  <2> QED BY <1>3, <2>1, <2>2, <2>3, <2>4, <2>5 DEF Escrowed!Open
<1>n. PICK h \in Holds, w \in Wallets, n \in 0 .. MaxComputeQuota :
        h = j.hold /\ w = j.entity /\ n = j.row.quota
  BY <1>2
<1>o. Escrowed!Next
  <2>1. Escrowed!Open(h, w, n)
    BY <1>n, <1>6 DEF Escrowed!Open
  <2> QED BY <2>1 DEF Escrowed!Next
<1> QED BY <1>2, <1>o

LEMMA SettleSpends ==
  ASSUME IInv, NEW p \in Procs, SettleTx(p)
  PROVE  /\ job[p].hold \in Holds /\ job[p].entity \in Wallets
         /\ job[p].amount \in 0 .. MaxComputeQuota
         /\ hold[job[p].hold].status = "active"
         /\ hold[job[p].hold].settled <= job[p].amount
         /\ hold' = [hold EXCEPT ![job[p].hold] = hold'[job[p].hold]]
         /\ hold'[job[p].hold].quota = hold[job[p].hold].quota
         /\ hold'[job[p].hold].settled = job[p].amount
         /\ Escrowed!Next
<1> DEFINE j == job[p]
           r == hold[j.hold]
           back == Released(j, j.row)
<1>1. /\ j.pc = "write" /\ j.op = "settle" /\ Committable(j)
      /\ hold' = [hold EXCEPT ![j.hold] =
                    [r EXCEPT !.settled = j.amount,
                              !.status = IF j.final THEN "settled" ELSE @,
                              !.released = IF j.final THEN back ELSE @]]
      /\ wallet' = [wallet EXCEPT ![j.entity] = @ + back]
  BY DEF SettleTx, IInv, TypeOK
<1>2. /\ j \in Job /\ j.hold \in Holds /\ j.entity \in Wallets /\ RowOK(r)
      /\ r.status = "active" /\ r.released = 0
      /\ r.quota = j.row.quota /\ r.settled = j.row.settled /\ Admits(j, j.row)
  BY <1>1, CasCarries DEF Committable
<1>3. j.row.settled <= j.amount /\ j.amount <= j.row.quota /\ j.amount \in Nat
      /\ j.row \in Row /\ j.row.quota <= MaxComputeQuota /\ MaxComputeQuota \in Nat
  BY <1>1, <1>2, ComputeHoldAssumption DEF Admits, Job, RowOK, ComputeHoldAssumption
<1>a. hold \in [Holds -> Row] /\ r \in Row
  BY <1>2 DEF IInv, TypeOK
<1>b. j.amount \in 0 .. MaxComputeQuota
  BY <1>3, j.row.quota \in Nat DEF Row
<1>4. hold'[j.hold] = [r EXCEPT !.settled = j.amount,
                                !.status = IF j.final THEN "settled" ELSE @,
                                !.released = IF j.final THEN back ELSE @]
  BY <1>1, <1>2, <1>a
<1>5. /\ hold'[j.hold].quota = r.quota /\ hold'[j.hold].settled = j.amount
      /\ hold'[j.hold].status = IF j.final THEN "settled" ELSE "active"
  BY <1>2, <1>4, <1>a DEF Row
<1>6. /\ hold' = [hold EXCEPT ![j.hold] = hold'[j.hold]]
      /\ \A h \in Holds \ {j.hold} : hold'[h] = hold[h]
      /\ hold \in [Holds -> Row] /\ hold' = [h \in Holds |-> hold'[h]]
  BY <1>1, <1>2, <1>4 DEF IInv, TypeOK
<1>n. PICK h \in Holds, w \in Wallets, n \in 0 .. MaxComputeQuota :
        h = j.hold /\ w = j.entity /\ n = j.amount
  BY <1>2, <1>b
<1>7. CASE j.final
  <2>1. back = r.quota - j.amount
    BY <1>1, <1>2, <1>7 DEF Released
  <2>2. wallet' = [wallet EXCEPT ![j.entity] = @ + r.quota - j.amount]
    BY <1>1, <1>2, <1>3, <2>1 DEF IInv, TypeOK, RowOK, Row
  <2> HIDE DEF back
  <2>3. Escrowed!Close(j.hold, j.entity, j.amount)
    BY <1>2, <1>3, <1>5, <1>6, <1>7, <2>2 DEF Escrowed!Close
  <2>4. Escrowed!Close(h, w, n)
    BY <1>n, <2>3 DEF Escrowed!Close
  <2> QED BY <1>2, <1>3, <1>b, <1>5, <1>6, <2>4 DEF Escrowed!Next
<1>8. CASE ~j.final
  <2>1. back = 0
    BY <1>1, <1>8 DEF Released
  <2>2. wallet' = wallet
    BY <1>1, <1>2, <2>1 DEF IInv, TypeOK
  <2> HIDE DEF back
  <2>3. Escrowed!Spend(j.hold, j.amount)
    BY <1>2, <1>3, <1>5, <1>6, <1>8, <2>2 DEF Escrowed!Spend
  <2>4. Escrowed!Spend(h, n)
    BY <1>n, <2>3 DEF Escrowed!Spend
  <2> QED BY <1>2, <1>3, <1>b, <1>5, <1>6, <2>4 DEF Escrowed!Next
<1> QED BY <1>7, <1>8

LEMMA ExtendGrows ==
  ASSUME IInv, NEW p \in Procs, ExtendTx(p)
  PROVE  /\ job[p].hold \in Holds /\ job[p].entity \in Wallets
         /\ job[p].amount \in 0 .. MaxComputeQuota
         /\ hold[job[p].hold].status = "active"
         /\ hold' = [hold EXCEPT ![job[p].hold] = hold'[job[p].hold]]
         /\ hold'[job[p].hold].quota = hold[job[p].hold].quota + job[p].amount
         /\ hold'[job[p].hold].settled = hold[job[p].hold].settled
         /\ Escrowed!Next
<1> DEFINE j == job[p]
           r == hold[j.hold]
<1>1. /\ j.pc = "write" /\ j.op = "extend" /\ Committable(j)
      /\ hold' = [hold EXCEPT ![j.hold] = [r EXCEPT !.quota = j.row.quota + j.amount]]
      /\ wallet' = [wallet EXCEPT ![j.entity] = @ - j.amount]
  BY DEF ExtendTx, IInv, TypeOK
<1>2. /\ j \in Job /\ j.hold \in Holds /\ j.entity \in Wallets /\ RowOK(r)
      /\ r.status = "active" /\ r.quota = j.row.quota /\ Admits(j, j.row)
  BY <1>1, CasCarries DEF Committable
<1>3. j.row.quota + j.amount <= MaxComputeQuota /\ j.amount \in Nat /\ 0 < j.amount
      /\ wallet[j.entity] >= j.amount
  BY <1>1, <1>2 DEF Admits, Grounded, IInv, JobsGrounded, Job, Committable, Affords
<1>4. hold \in [Holds -> Row] /\ r \in Row /\ MaxComputeQuota \in Nat
  BY <1>2, ComputeHoldAssumption DEF IInv, TypeOK, ComputeHoldAssumption
<1>5. j.amount \in 0 .. MaxComputeQuota
  BY <1>2, <1>3, <1>4, r.quota \in Nat DEF Row
<1>6. /\ hold'[j.hold] = [r EXCEPT !.quota = j.row.quota + j.amount]
      /\ \A h \in Holds \ {j.hold} : hold'[h] = hold[h]
      /\ hold' = [hold EXCEPT ![j.hold] = hold'[j.hold]]
  BY <1>1, <1>2, <1>4
<1>7. /\ hold'[j.hold].quota = r.quota + j.amount
      /\ hold'[j.hold].settled = r.settled /\ hold'[j.hold].status = "active"
  BY <1>2, <1>4, <1>6 DEF Row
<1>8. Escrowed!Grow(j.hold, j.entity, j.amount)
  BY <1>1, <1>2, <1>3, <1>6, <1>7 DEF Escrowed!Grow
<1>n. PICK h \in Holds, w \in Wallets, n \in 0 .. MaxComputeQuota :
        h = j.hold /\ w = j.entity /\ n = j.amount
  BY <1>2, <1>5
<1>o. Escrowed!Next
  <2>1. Escrowed!Grow(h, w, n)
    BY <1>n, <1>8 DEF Escrowed!Grow
  <2> QED BY <2>1 DEF Escrowed!Next
<1> QED BY <1>2, <1>5, <1>6, <1>7, <1>o

LEMMA CloseCloses ==
  ASSUME IInv, NEW p \in Procs, ReleaseTx(p) \/ ExpireTx(p)
  PROVE  /\ job[p].hold \in Holds /\ job[p].entity \in Wallets
         /\ hold[job[p].hold].settled \in 0 .. MaxComputeQuota
         /\ hold[job[p].hold].status = "active"
         /\ hold' = [hold EXCEPT ![job[p].hold] = hold'[job[p].hold]]
         /\ hold'[job[p].hold].quota = hold[job[p].hold].quota
         /\ hold'[job[p].hold].settled = hold[job[p].hold].settled
         /\ Escrowed!Next
<1> DEFINE j == job[p]
           r == hold[j.hold]
           back == Released(j, j.row)
           status == IF j.op = "release" THEN "released" ELSE "expired"
<1>1. /\ j.pc = "write" /\ j.op \in {"release", "expire"} /\ Committable(j)
      /\ hold' = [hold EXCEPT ![j.hold] = [r EXCEPT !.status = status, !.released = back]]
      /\ wallet' = [wallet EXCEPT ![j.entity] = @ + back]
  <2>1. CASE ReleaseTx(p)
    BY <2>1 DEF ReleaseTx, CloseTx, IInv, TypeOK
  <2>2. CASE ExpireTx(p)
    BY <2>2 DEF ExpireTx, CloseTx, IInv, TypeOK
  <2> QED BY <2>1, <2>2
<1>2. /\ j \in Job /\ j.hold \in Holds /\ j.entity \in Wallets /\ RowOK(r)
      /\ r.status = "active" /\ r.quota = j.row.quota /\ r.settled = j.row.settled
  BY <1>1, CasCarries DEF Committable
<1>3. back = r.quota - r.settled
  BY <1>1, <1>2 DEF Released, Remaining
<1>4. hold \in [Holds -> Row] /\ r \in Row /\ MaxComputeQuota \in Nat
  BY <1>2, ComputeHoldAssumption DEF IInv, TypeOK, ComputeHoldAssumption
<1>5. r.settled \in 0 .. MaxComputeQuota /\ r.settled <= r.quota
  BY <1>2, <1>4 DEF Row, RowOK
<1>6. /\ hold'[j.hold] = [r EXCEPT !.status = status, !.released = back]
      /\ \A h \in Holds \ {j.hold} : hold'[h] = hold[h]
      /\ hold' = [hold EXCEPT ![j.hold] = hold'[j.hold]]
  BY <1>1, <1>2, <1>4
<1>7. /\ hold'[j.hold].quota = r.quota
      /\ hold'[j.hold].settled = r.settled /\ hold'[j.hold].status = status
  BY <1>2, <1>4, <1>6 DEF Row
<1>8. wallet' = [wallet EXCEPT ![j.entity] = @ + r.quota - r.settled]
  <2>1. r.quota \in Int /\ r.settled \in Int /\ wallet[j.entity] \in Int
    BY <1>2, <1>4 DEF IInv, TypeOK, Row
  <2> HIDE DEF back
  <2>2. wallet[j.entity] + back = wallet[j.entity] + r.quota - r.settled
    BY <1>3, <2>1
  <2> QED BY <1>1, <2>2
<1>9. Escrowed!Close(j.hold, j.entity, r.settled)
  <2>1. status \notin {"none", "active"}
    OBVIOUS
  <2> HIDE DEF back, status
  <2> DEFINE ph(x) == IF x.status = "none" THEN "new"
                      ELSE IF x.status = "active" THEN "open" ELSE "closed"
  <2>2. [h \in Holds |-> ph(hold'[h])]
          = [[h \in Holds |-> ph(hold[h])] EXCEPT ![j.hold] = "closed"]
    BY <1>2, <1>6, <1>7, <2>1
  <2>3. [h \in Holds |-> hold'[h].settled]
          = [[h \in Holds |-> hold[h].settled] EXCEPT ![j.hold] = r.settled]
    BY <1>6, <1>7
  <2>4. [h \in Holds |-> hold'[h].quota] = [h \in Holds |-> hold[h].quota]
    BY <1>6, <1>7
  <2>5. j.hold \in Holds /\ r.status = "active" /\ r.settled <= r.settled
    BY <1>2, <1>5
  <2> QED BY <1>5, <1>8, <2>2, <2>3, <2>4, <2>5 DEF Escrowed!Close
<1>n. PICK h \in Holds, w \in Wallets, n \in 0 .. MaxComputeQuota :
        h = j.hold /\ w = j.entity /\ n = r.settled
  BY <1>2, <1>5
<1>o. Escrowed!Next
  <2>1. Escrowed!Close(h, w, n)
    BY <1>n, <1>9 DEF Escrowed!Close
  <2> QED BY <2>1 DEF Escrowed!Next
<1> QED BY <1>2, <1>5, <1>6, <1>7, <1>o

\* A move carries a whole wallet, or nothing.
LEMMA MoveTransfers ==
  ASSUME IInv, NEW u \in Users, NEW w \in Wallets, ReattachWallet(u, w)
  PROVE  Escrowed!Next \/ UNCHANGED wallet
<1>1. /\ member[u] \in Wallets /\ w # member[u] /\ wallet \in [Wallets -> Int]
      /\ UNCHANGED hold
  BY DEF ReattachWallet, IInv, TypeOK
<1>2. CASE Alone(u)
  <2>0. PICK v \in Wallets : v = member[u]
    BY <1>1
  <2>1. wallet' = [wallet EXCEPT ![member[u]] = @ - wallet[member[u]],
                                 ![w] = @ + wallet[member[u]]]
    BY <1>2 DEF ReattachWallet
  <2>a. wallet[v] \in Int /\ wallet[v] - wallet[v] = 0
    BY <1>1
  <2>2. wallet' = [wallet EXCEPT ![v] = 0, ![w] = @ + wallet[v]]
    BY <2>0, <2>1, <2>a
  <2>3. Escrowed!Transfer(v, w)
    BY <1>1, <2>0, <2>2 DEF Escrowed!Transfer
  <2> QED BY <2>3 DEF Escrowed!Next
<1>3. CASE ~Alone(u)
  BY <1>1, <1>3 DEF ReattachWallet
<1> QED BY <1>2, <1>3

LEMMA StepGrows ==
  ASSUME IInv, [Next]_vars
  PROVE  \A h \in Holds :
           /\ hold[h].status \notin {"none", "active"} => hold'[h] = hold[h]
           /\ hold[h].quota <= hold'[h].quota /\ hold[h].settled <= hold'[h].settled
<1>0. hold \in [Holds -> Row]
  BY DEF IInv, TypeOK
<1>1. CASE UNCHANGED hold
  BY <1>0, <1>1 DEF Row
<1>2. ASSUME NEW p \in Procs, CreateTx(p)
      PROVE  \A h \in Holds :
               /\ hold[h].status \notin {"none", "active"} => hold'[h] = hold[h]
               /\ hold[h].quota <= hold'[h].quota /\ hold[h].settled <= hold'[h].settled
  <2>1. /\ hold' = [hold EXCEPT ![job[p].hold] = job[p].row]
        /\ job[p].hold \in Holds /\ hold[job[p].hold] = NoRow /\ job[p].row \in Row
    BY <1>2, CreateOpens DEF CreateTx, IInv, TypeOK, Job
  <2>2. NoRow.status = "none" /\ NoRow.quota = 0 /\ NoRow.settled = 0
    BY DEF NoRow
  <2> QED BY <1>0, <2>1, <2>2 DEF Row
<1>3. ASSUME NEW p \in Procs, SettleTx(p) \/ ExtendTx(p) \/ ReleaseTx(p) \/ ExpireTx(p)
      PROVE  \A h \in Holds :
               /\ hold[h].status \notin {"none", "active"} => hold'[h] = hold[h]
               /\ hold[h].quota <= hold'[h].quota /\ hold[h].settled <= hold'[h].settled
  <2>1. /\ job[p].hold \in Holds /\ hold[job[p].hold].status = "active"
        /\ hold' = [hold EXCEPT ![job[p].hold] = hold'[job[p].hold]]
        /\ hold[job[p].hold].quota <= hold'[job[p].hold].quota
        /\ hold[job[p].hold].settled <= hold'[job[p].hold].settled
    BY <1>0, <1>3, SettleSpends, ExtendGrows, CloseCloses DEF Row
  <2>2. \A h \in Holds \ {job[p].hold} : hold'[h] = hold[h]
    BY <1>0, <2>1
  <2> QED BY <1>0, <2>1, <2>2 DEF Row
<1> QED BY <1>1, <1>2, <1>3, OtherStepsLeaveRows

\* A closed hold is never written again and an open one never loses quota or
\* spend, for every interleaving of any number of requests and sweeps.
THEOREM HoldsGrow == Spec => HoldsOnlyGrow
<1>1. IInv /\ [Next]_vars =>
        [\A h \in Holds :
           /\ hold[h].status \notin {"none", "active"} => hold'[h] = hold[h]
           /\ hold[h].quota <= hold'[h].quota /\ hold[h].settled <= hold'[h].settled]_vars
  BY StepGrows
<1> QED BY <1>1, Inductive, PTL DEF Spec, HoldsOnlyGrow

LEMMA StepRefines ==
  ASSUME IInv, [Next]_vars
  PROVE  [Escrowed!Next]_(Escrowed!escrowVars)
<1>1. CASE UNCHANGED <<hold, wallet>>
  BY <1>1 DEF Escrowed!escrowVars
<1>2. ASSUME NEW p \in Procs, CreateTx(p)
      PROVE  Escrowed!Next
  BY <1>2, CreateOpens
<1>3. ASSUME NEW p \in Procs, SettleTx(p)
      PROVE  Escrowed!Next
  BY <1>3, SettleSpends
<1>4. ASSUME NEW p \in Procs, ExtendTx(p)
      PROVE  Escrowed!Next
  BY <1>4, ExtendGrows
<1>5. ASSUME NEW p \in Procs, ReleaseTx(p) \/ ExpireTx(p)
      PROVE  Escrowed!Next
  BY <1>5, CloseCloses
<1>6. ASSUME NEW u \in Users, NEW w \in Wallets, ReattachWallet(u, w), UNCHANGED hold
      PROVE  [Escrowed!Next]_(Escrowed!escrowVars)
  BY <1>6, MoveTransfers DEF Escrowed!escrowVars
<1> QED BY <1>1, <1>2, <1>3, <1>4, <1>5, <1>6, OtherStepsLeaveRows

\* The bridge implements Escrow: whatever the interleaving, each hold is paid
\* for in full, spent within its quota, and returns its remainder once.
THEOREM BridgeRefinesEscrow == Spec => ImplementsEscrow
<1>1. Init => Escrowed!Init
  BY ComputeHoldAssumption DEF Init, Escrowed!Init, NoRow, ComputeHoldAssumption
<1>2. IInv /\ [Next]_vars => [Escrowed!Next]_(Escrowed!escrowVars)
  BY StepRefines
<1> QED BY <1>1, <1>2, Inductive, PTL DEF Spec, ImplementsEscrow, Escrowed!Spec
==============================================================================
