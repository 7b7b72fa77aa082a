----------------------------- MODULE ComputeHold -----------------------------
(***************************************************************************)
(* The compute billing bridge: model/compute_hold.go and the handlers of   *)
(* controller/compute_bridge.go, over the wallets of                       *)
(* model/billing_entity.go and the moves of model/customer_wallet.go.      *)
(*                                                                         *)
(* A request is one process.  It passes the checks made before the         *)
(* transaction, reads the hold row and resolves the wallet, commits or     *)
(* rolls back, and then adjusts the token and writes the consume log       *)
(* outside the transaction.  Requests, the sweeper, moves of logins        *)
(* between wallets and crashes interleave between those steps.  The row    *)
(* lock of MySQL and PostgreSQL is left out, as on SQLite: only the        *)
(* compare-and-set of casComputeHold stands between two writers.           *)
(***************************************************************************)
EXTENDS Integers, FiniteSets, Functions

CONSTANTS
  Users,            \* logins; each draws on one token of its own
  Wallets,          \* rows that own spendable quota (tenants, or a user's own)
  Holds,            \* hold ids compute-api may choose
  Events,           \* settlement event ids
  Extends,          \* extend ids
  Handlers,         \* request processes, over all console nodes
  Sweeper,          \* the sweeper goroutine of the master node
  NoId,             \* "no such row"
  UnlimitedUsers,   \* logins whose token has UnlimitedQuota
  InitWallet,       \* wallet -> quota at the start
  InitMember,       \* login -> wallet at the start
  InitToken,        \* login -> remain_quota of its token at the start
  MaxComputeQuota,  \* the largest amount one hold can carry
  SweepBatch,       \* computeHoldSweepBatch
  MaxTime,          \* bound: the clock stops here
  MaxFaults,        \* bound: crashes and failed token updates
  MaxMoves,         \* bound: logins moved between wallets
  MaxDeletes        \* bound: logins deleted

Procs == Handlers \cup {Sweeper}

ASSUME ComputeHoldAssumption ==
  /\ Sweeper \notin Handlers
  /\ IsFiniteSet(Wallets) /\ IsFiniteSet(Holds) /\ IsFiniteSet(Handlers)
  /\ NoId \notin Holds \cup Users \cup Wallets \cup Events \cup Extends
  /\ UnlimitedUsers \subseteq Users
  /\ InitWallet \in [Wallets -> Nat]
  /\ InitMember \in [Users -> Wallets]
  /\ InitToken \in [Users -> Nat]
  /\ MaxComputeQuota \in Nat /\ SweepBatch \in Nat \ {0}
  /\ MaxTime \in Nat /\ MaxFaults \in Nat /\ MaxMoves \in Nat /\ MaxDeletes \in Nat

VARIABLES
  hold,         \* compute_holds, one row per id
  settlements,  \* compute_settlements, keyed by event
  extensions,   \* compute_extensions, keyed by extend id
  wallet,       \* quota of each billing entity
  member,       \* the wallet each login resolves to
  deleted,      \* soft-deleted logins
  token,        \* remain_quota of each login's token
  logged,       \* quota the consume log reports for each hold
  job,          \* what each process is doing
  sweep,        \* the sweeper's `now` and the hold ids it still has to visit
  clock, faults, moves

dbVars == <<hold, settlements, extensions, wallet>>
vars == <<hold, settlements, extensions, wallet, member, deleted, token,
          logged, job, sweep, clock, faults, moves>>

-----------------------------------------------------------------------------
(* Rows and processes *)

Status == {"none", "active", "settled", "released", "expired"}
Ops == {"none", "create", "settle", "extend", "release", "expire"}

Row == [status: Status, user: Users \cup {NoId}, quota: Nat, requested: Nat,
        settled: Nat, released: Nat, expires: Nat]

NoRow == [status |-> "none", user |-> NoId, quota |-> 0, requested |-> 0,
          settled |-> 0, released |-> 0, expires |-> 0]

\* The row a creating request stores.
NewHold(u, q, e) ==
  [status |-> "active", user |-> u, quota |-> q, requested |-> q,
   settled |-> 0, released |-> 0, expires |-> e]

\* pc: "idle", then "read" (before the transaction reads), "write" (before it
\* commits), "after" (token and consume log still owed).
Job == [pc: {"idle", "read", "write", "after"}, op: Ops,
        hold: Holds \cup {NoId}, id: Events \cup Extends \cup {NoId},
        amount: Nat, final: BOOLEAN, now: Nat,
        row: Row, entity: Wallets \cup {NoId}, token: Int, log: Nat]

IdleJob == [pc |-> "idle", op |-> "none", hold |-> NoId, id |-> NoId,
            amount |-> 0, final |-> FALSE, now |-> 0,
            row |-> NoRow, entity |-> NoId, token |-> 0, log |-> 0]

\* No pass of the sweeper is under way.
NoSweep == [now |-> 0, batch |-> {}]

Settlement == [event: Events, hold: Holds, cumulative: Nat, delta: Nat, final: BOOLEAN]
Extension == [id: Extends, hold: Holds, additional: Nat, after: Nat]

EventSeen(e) == \E r \in settlements : r.event = e
ExtendSeen(x) == \E r \in extensions : r.id = x

Remaining(r) == r.quota - r.settled

Lapsed(r, now) == r.status = "active" /\ r.expires <= now

\* activeComputeHold returning nil.
ActiveComputeHold(r, now) == r.status = "active" /\ r.expires > now

TokenCovers(u, q) == u \in UnlimitedUsers \/ token[u] >= q

Init ==
  /\ hold = [h \in Holds |-> NoRow]
  /\ settlements = {} /\ extensions = {}
  /\ wallet = InitWallet /\ member = InitMember /\ deleted = {}
  /\ token = InitToken /\ logged = [h \in Holds |-> 0]
  /\ job = [p \in Procs |-> IdleJob]
  /\ sweep = NoSweep
  /\ clock = 0 /\ faults = 0 /\ moves = 0

-----------------------------------------------------------------------------
(* Requests arrive.  One that is refused by these checks, or that replays  *)
(* a hold, event or extend id already stored, changes nothing.             *)

Start(p, j) ==
  /\ job[p] = IdleJob
  /\ job' = [job EXCEPT ![p] = j]
  /\ UNCHANGED <<dbVars, member, deleted, token, logged, sweep, clock, faults, moves>>

ComputeCreateHold(p, h, u, q, e) ==
  /\ e > clock
  /\ 0 < q /\ q <= MaxComputeQuota
  /\ hold[h].status = "none"
  /\ u \notin deleted
  /\ TokenCovers(u, q)
  /\ Start(p, [IdleJob EXCEPT !.pc = "read", !.op = "create", !.hold = h,
                              !.now = clock, !.row = NewHold(u, q, e)])

ComputeSettleHold(p, h, id, cumulative, final) ==
  /\ cumulative <= MaxComputeQuota
  /\ hold[h].status # "none"
  /\ ~EventSeen(id)
  /\ Start(p, [IdleJob EXCEPT !.pc = "read", !.op = "settle", !.hold = h, !.id = id,
                              !.amount = cumulative, !.final = final, !.now = clock])

ComputeExtendHold(p, h, id, additional) ==
  /\ 0 < additional /\ additional <= MaxComputeQuota
  /\ hold[h].status # "none"
  /\ ~ExtendSeen(id)
  /\ hold[h].user \notin deleted
  /\ TokenCovers(hold[h].user, additional)
  /\ Start(p, [IdleJob EXCEPT !.pc = "read", !.op = "extend", !.hold = h, !.id = id,
                              !.amount = additional, !.now = clock])

ComputeReleaseHold(p, h) ==
  /\ hold[h].status # "none"
  /\ Start(p, [IdleJob EXCEPT !.pc = "read", !.op = "release", !.hold = h, !.now = clock])

\* SweepExpiredComputeHolds: the ids of at most SweepBatch lapsed holds, the
\* longest lapsed first, are plucked once ...
SweepExpiredComputeHolds ==
  LET lapsed == {h \in Holds : Lapsed(hold[h], clock)}
  IN /\ job[Sweeper] = IdleJob /\ sweep.batch = {}
     /\ \E batch \in SUBSET lapsed \ {{}} :
          /\ Cardinality(batch) <= SweepBatch
          /\ batch # lapsed => Cardinality(batch) = SweepBatch
          /\ \A h \in batch, g \in lapsed \ batch : hold[h].expires <= hold[g].expires
          /\ sweep' = [now |-> clock, batch |-> batch]
     /\ UNCHANGED <<dbVars, member, deleted, token, logged, job, clock, faults, moves>>

\* Mutant of SweepNext: the sweeper's own time is not handed on.
SweepNextWithoutNow(h) ==
  /\ job[Sweeper] = IdleJob
  /\ h \in sweep.batch
  /\ sweep' = IF sweep.batch = {h} THEN NoSweep ELSE [sweep EXCEPT !.batch = @ \ {h}]
  /\ job' = [job EXCEPT ![Sweeper] =
               [IdleJob EXCEPT !.pc = "read", !.op = "expire", !.hold = h]]
  /\ UNCHANGED <<dbVars, member, deleted, token, logged, clock, faults, moves>>

\* ... and visited one by one; a hold that fails is logged and skipped.
SweepNext(h) ==
  /\ job[Sweeper] = IdleJob
  /\ h \in sweep.batch
  /\ \A g \in sweep.batch : hold[h].expires <= hold[g].expires
  /\ sweep' = IF sweep.batch = {h} THEN NoSweep ELSE [sweep EXCEPT !.batch = @ \ {h}]
  /\ job' = [job EXCEPT ![Sweeper] =
               [IdleJob EXCEPT !.pc = "read", !.op = "expire", !.hold = h, !.now = sweep.now]]
  /\ UNCHANGED <<dbVars, member, deleted, token, logged, clock, faults, moves>>

-----------------------------------------------------------------------------
(* The transactions *)

\* Mutant of Admits: settle forgets to compare the amount with the hold.
AdmitsAnyAmount(j, r) ==
  \/ j.op \in {"settle", "extend", "release"} /\ ActiveComputeHold(r, j.now)
  \/ j.op = "expire" /\ Lapsed(r, j.now)

\* The checks made on the row the transaction read.
Admits(j, r) ==
  \/ j.op = "settle" /\ ActiveComputeHold(r, j.now)
       /\ r.settled <= j.amount /\ j.amount <= r.quota
  \/ j.op = "extend" /\ ActiveComputeHold(r, j.now)
       /\ r.quota + j.amount <= MaxComputeQuota
  \/ j.op = "release" /\ ActiveComputeHold(r, j.now)
  \/ j.op = "expire" /\ Lapsed(r, j.now)

\* What the transaction will give back to a wallet.
Released(j, r) ==
  IF j.op = "settle" THEN (IF j.final THEN r.quota - j.amount ELSE 0)
  ELSE IF j.op \in {"release", "expire"} THEN Remaining(r) ELSE 0

\* Only a transaction that moves a balance resolves the billing entity, which
\* fails for a deleted login.
Resolves(j, r) == (j.op \in {"create", "extend"} \/ Released(j, r) > 0) => r.user \notin deleted

SetJob(p, j) ==
  /\ job' = [job EXCEPT ![p] = j]
  /\ UNCHANGED <<member, deleted, token, logged, sweep, clock, faults, moves>>

Fail(p) == SetJob(p, IdleJob) /\ UNCHANGED dbVars

\* CreateComputeHold resolves the wallet inside its transaction.
ResolveForCreate(p) ==
  LET j == job[p]
  IN /\ j.pc = "read" /\ j.op = "create"
     /\ IF Resolves(j, j.row)
        THEN /\ SetJob(p, [j EXCEPT !.pc = "write", !.entity = member[j.row.user]])
             /\ UNCHANGED dbVars
        ELSE Fail(p)

\* The other transactions read the hold first.  One that finds it lapsed
\* expires it in a transaction of its own (expireLapsedComputeHold).
LockComputeHold(p) ==
  LET j == job[p]  r == hold[j.hold]
  IN /\ j.pc = "read" /\ j.op # "create"
     /\ \/ /\ Admits(j, r) /\ Resolves(j, r)
           /\ SetJob(p, [j EXCEPT !.pc = "write", !.row = r, !.entity = member[r.user]])
           /\ UNCHANGED dbVars
        \/ /\ j.op # "expire" /\ Lapsed(r, j.now)
           /\ SetJob(p, [j EXCEPT !.op = "expire"])
           /\ UNCHANGED dbVars
        \/ /\ ~(Admits(j, r) /\ Resolves(j, r))
           /\ j.op = "expire" \/ ~Lapsed(r, j.now)
           /\ Fail(p)

\* Mutants of CasComputeHold: one compared column is forgotten.
CasWithoutStatus(j) ==
  hold[j.hold].quota = j.row.quota /\ hold[j.hold].settled = j.row.settled
CasWithoutQuota(j) ==
  hold[j.hold].status = j.row.status /\ hold[j.hold].settled = j.row.settled
CasWithoutSettled(j) ==
  hold[j.hold].status = j.row.status /\ hold[j.hold].quota = j.row.quota

\* casComputeHold: nobody moved the row since it was read.
CasComputeHold(j) ==
  /\ hold[j.hold].status = j.row.status
  /\ hold[j.hold].quota = j.row.quota
  /\ hold[j.hold].settled = j.row.settled

\* Mutant of Affords: the decrease is not guarded.
AffordsAlways(w, n) == wallet[w] \in Int /\ n \in Int

\* tryDecreaseUserQuotaWithTx: the decrease is refused if it would overdraw.
Affords(w, n) == wallet[w] >= n

\* Mutant of After: a refund is returned to the wallet and not to the token.
AfterWithoutRefund(j, t, l) ==
  IF t >= 0 /\ l = 0 THEN IdleJob
  ELSE [IdleJob EXCEPT !.pc = "after", !.hold = j.hold, !.token = t, !.log = l]

\* What is left to do after the commit: move the token by t, log l.
After(j, t, l) ==
  IF t = 0 /\ l = 0 THEN IdleJob
  ELSE [IdleJob EXCEPT !.pc = "after", !.hold = j.hold, !.token = t, !.log = l]

Committable(j) ==
  \/ j.op = "create" /\ hold[j.hold].status = "none" /\ Affords(j.entity, j.row.quota)
  \/ j.op = "settle" /\ CasComputeHold(j) /\ ~EventSeen(j.id)
  \/ j.op = "extend" /\ CasComputeHold(j) /\ Affords(j.entity, j.amount) /\ ~ExtendSeen(j.id)
  \/ j.op \in {"release", "expire"} /\ CasComputeHold(j)

CreateTx(p) ==
  LET j == job[p]
  IN /\ j.pc = "write" /\ j.op = "create" /\ Committable(j)
     /\ hold' = [hold EXCEPT ![j.hold] = j.row]
     /\ wallet' = [wallet EXCEPT ![j.entity] = @ - j.row.quota]
     /\ SetJob(p, After(j, -j.row.quota, 0))
     /\ UNCHANGED <<settlements, extensions>>

SettleTx(p) ==
  LET j == job[p]
      delta == j.amount - j.row.settled
      back == Released(j, j.row)
  IN /\ j.pc = "write" /\ j.op = "settle" /\ Committable(j)
     /\ hold' = [hold EXCEPT ![j.hold].settled = j.amount,
                             ![j.hold].status = IF j.final THEN "settled" ELSE @,
                             ![j.hold].released = IF j.final THEN back ELSE @]
     /\ settlements' = settlements \cup
          {[event |-> j.id, hold |-> j.hold, cumulative |-> j.amount,
            delta |-> delta, final |-> j.final]}
     /\ wallet' = [wallet EXCEPT ![j.entity] = @ + back]
     /\ SetJob(p, After(j, back, delta))
     /\ UNCHANGED extensions

ExtendTx(p) ==
  LET j == job[p]
  IN /\ j.pc = "write" /\ j.op = "extend" /\ Committable(j)
     /\ hold' = [hold EXCEPT ![j.hold].quota = j.row.quota + j.amount]
     /\ extensions' = extensions \cup
          {[id |-> j.id, hold |-> j.hold, additional |-> j.amount,
            after |-> j.row.quota + j.amount]}
     /\ wallet' = [wallet EXCEPT ![j.entity] = @ - j.amount]
     /\ SetJob(p, After(j, -j.amount, 0))
     /\ UNCHANGED settlements

CloseTx(p, status) ==
  LET j == job[p]
      back == Released(j, j.row)
  IN /\ Committable(j)
     /\ hold' = [hold EXCEPT ![j.hold].status = status, ![j.hold].released = back]
     /\ wallet' = [wallet EXCEPT ![j.entity] = @ + back]
     /\ SetJob(p, After(j, back, 0))
     /\ UNCHANGED <<settlements, extensions>>

ReleaseTx(p) == job[p].pc = "write" /\ job[p].op = "release" /\ CloseTx(p, "released")

ExpireTx(p) == job[p].pc = "write" /\ job[p].op = "expire" /\ CloseTx(p, "expired")

Rollback(p) == job[p].pc = "write" /\ ~Committable(job[p]) /\ Fail(p)

-----------------------------------------------------------------------------
(* After the commit *)

\* adjustComputeTokenQuota, through the token's own path.
AdjustComputeTokenQuota(p) ==
  LET j == job[p]  u == hold[j.hold].user
  IN /\ j.pc = "after" /\ j.token # 0
     /\ token' = [token EXCEPT ![u] = @ + j.token]
     /\ job' = [job EXCEPT ![p] = After(j, 0, j.log)]
     /\ UNCHANGED <<dbVars, member, deleted, logged, sweep, clock, faults, moves>>

\* It only logs a failure: the wallet movement cannot be taken back any more.
TokenQuotaNotAdjusted(p) ==
  LET j == job[p]
  IN /\ j.pc = "after" /\ j.token # 0 /\ faults < MaxFaults
     /\ faults' = faults + 1
     /\ job' = [job EXCEPT ![p] = After(j, 0, j.log)]
     /\ UNCHANGED <<dbVars, member, deleted, token, logged, sweep, clock, moves>>

\* Mutant of RecordComputeConsumption: an entry is written and still owed.
RecordTwice(p) ==
  LET j == job[p]
  IN /\ j.pc = "after" /\ j.token = 0 /\ logged[j.hold] <= MaxComputeQuota
     /\ logged' = [logged EXCEPT ![j.hold] = @ + j.log]
     /\ UNCHANGED <<dbVars, member, deleted, token, job, sweep, clock, faults, moves>>

\* recordComputeConsumption, once the handler is back from SettleComputeHold.
RecordComputeConsumption(p) ==
  LET j == job[p]
  IN /\ j.pc = "after" /\ j.token = 0
     /\ logged' = [logged EXCEPT ![j.hold] = @ + j.log]
     /\ job' = [job EXCEPT ![p] = IdleJob]
     /\ UNCHANGED <<dbVars, member, deleted, token, sweep, clock, faults, moves>>

-----------------------------------------------------------------------------
(* The surroundings *)

\* The console node running p stops; an open transaction is rolled back.
Crash(p) ==
  /\ faults < MaxFaults
  /\ job[p] # IdleJob \/ (p = Sweeper /\ sweep.batch # {})
  /\ faults' = faults + 1
  /\ job' = [job EXCEPT ![p] = IdleJob]
  /\ sweep' = IF p = Sweeper THEN NoSweep ELSE sweep
  /\ UNCHANGED <<dbVars, member, deleted, token, logged, clock, moves>>

Tick ==
  /\ clock < MaxTime /\ clock' = clock + 1
  /\ UNCHANGED <<dbVars, member, deleted, token, logged, job, sweep, faults, moves>>

Alone(u) == \A v \in Users \ {u} : v \in deleted \/ member[v] # member[u]

\* Mutant of ReattachWallet: the wallet that is left is not emptied.
ReattachWithCopy(u, w) ==
  /\ moves < MaxMoves /\ moves' = moves + 1
  /\ u \notin deleted /\ w # member[u]
  /\ wallet' = [wallet EXCEPT ![w] = @ + (IF Alone(u) THEN wallet[member[u]] ELSE 0)]
  /\ member' = [member EXCEPT ![u] = w]
  /\ UNCHANGED <<hold, settlements, extensions, deleted, token, logged, job, sweep,
                 clock, faults>>

\* reattachWalletTx: a login that has a wallet to itself brings its balance
\* along (JoinCustomerPoolTx); one that shares leaves it behind.
ReattachWallet(u, w) ==
  LET carried == IF Alone(u) THEN wallet[member[u]] ELSE 0
  IN /\ moves < MaxMoves /\ moves' = moves + 1
     /\ u \notin deleted /\ w # member[u]
     /\ wallet' = [wallet EXCEPT ![member[u]] = @ - carried, ![w] = @ + carried]
     /\ member' = [member EXCEPT ![u] = w]
     /\ UNCHANGED <<hold, settlements, extensions, deleted, token, logged, job, sweep,
                    clock, faults>>

DeleteUser(u) ==
  /\ Cardinality(deleted) < MaxDeletes
  /\ u \notin deleted /\ deleted' = deleted \cup {u}
  /\ UNCHANGED <<dbVars, member, token, logged, job, sweep, clock, faults, moves>>

-----------------------------------------------------------------------------
Request(p) ==
  \E h \in Holds :
    \/ \E u \in Users, q \in 1 .. MaxComputeQuota, e \in 1 .. MaxTime :
         ComputeCreateHold(p, h, u, q, e)
    \/ \E id \in Events, c \in 0 .. MaxComputeQuota, f \in BOOLEAN :
         ComputeSettleHold(p, h, id, c, f)
    \/ \E id \in Extends, q \in 1 .. MaxComputeQuota : ComputeExtendHold(p, h, id, q)
    \/ ComputeReleaseHold(p, h)

\* The steps a process takes by itself once it has work.
Step(p) ==
  \/ ResolveForCreate(p) \/ LockComputeHold(p)
  \/ CreateTx(p) \/ SettleTx(p) \/ ExtendTx(p) \/ ReleaseTx(p) \/ ExpireTx(p) \/ Rollback(p)
  \/ AdjustComputeTokenQuota(p) \/ RecordComputeConsumption(p)

SweepStep == SweepExpiredComputeHolds \/ \E h \in Holds : SweepNext(h)

Next ==
  \/ \E p \in Handlers : Request(p)
  \/ \E p \in Procs : Step(p) \/ TokenQuotaNotAdjusted(p) \/ Crash(p)
  \/ SweepStep
  \/ Tick
  \/ \E u \in Users : DeleteUser(u) \/ \E w \in Wallets : ReattachWallet(u, w)

Spec == Init /\ [][Next]_vars

\* Requests in flight finish, the ticker keeps firing; nobody has to call.
FairSpec == Spec /\ (\A p \in Procs : WF_vars(Step(p))) /\ WF_vars(SweepStep)

-----------------------------------------------------------------------------
(* Properties *)

\* Every row, process and counter has its type.
TypeOK ==
  /\ hold \in [Holds -> Row]
  /\ settlements \subseteq Settlement /\ extensions \subseteq Extension
  /\ wallet \in [Wallets -> Int] /\ member \in [Users -> Wallets]
  /\ deleted \subseteq Users /\ token \in [Users -> Int] /\ logged \in [Holds -> Nat]
  /\ job \in [Procs -> Job]
  /\ sweep \in [now: Nat, batch: SUBSET Holds]
  /\ clock \in Nat /\ faults \in Nat /\ moves \in Nat

\* The hold row adds up whatever order settles, extends, releases and sweeps
\* commit in: an open hold has returned nothing and is not overspent, a closed
\* one has split its quota into what was settled and what was returned, and no
\* hold outgrows MaxComputeQuota (the 32-bit columns).
HoldAccounting ==
  \A h \in Holds : LET r == hold[h] IN
    /\ r.quota <= MaxComputeQuota /\ r.settled <= r.quota
    /\ r.status = "active" => r.released = 0
    /\ r.status \in {"settled", "released", "expired"} => r.settled + r.released = r.quota
    /\ r.status = "none" => r = NoRow

\* A process in flight stands on a row that exists, except to create it.
Grounded(rows, j) ==
  /\ j.pc # "idle" => j.hold \in Holds
  /\ j.pc = "after" \/ (j.pc # "idle" /\ j.op # "create") => rows[j.hold].status # "none"
  /\ j.pc \in {"read", "write"} /\ j.op = "create" =>
       /\ j.row.user \in Users /\ j.row.quota \in 1 .. MaxComputeQuota
       /\ j.row = NewHold(j.row.user, j.row.quota, j.row.expires)
  /\ j.op = "settle" => j.id \in Events
  /\ j.op = "extend" => j.id \in Extends /\ j.amount > 0
  /\ j.pc = "write" =>
       /\ j.entity \in Wallets
       /\ j.op # "create" =>
            /\ Admits(j, j.row)
            /\ j.row.released = 0 /\ j.row.settled <= j.row.quota
            /\ j.row.quota <= MaxComputeQuota

\* What a transaction is about to write it has checked: the row it read was
\* open and admits the request, its wallet is resolved, and the hold it names
\* has not gone away.  Every stored hold has a login to return quota to.
JobsGrounded ==
  /\ \A p \in Procs : Grounded(hold, job[p])
  /\ \A h \in sweep.batch : hold[h].status # "none"
  /\ \A h \in Holds : hold[h].status # "none" => hold[h].user \in Users

\* What each hold has taken from the wallets and not returned.
Taken == [h \in Holds |-> hold[h].quota - hold[h].released]

\* No interleaving of requests, sweeps, crashes and moves of logins creates or
\* destroys quota: what the wallets hold plus what the holds have taken and not
\* returned never changes.
QuotaConserved ==
  SumFunctionOnSet(wallet, Wallets) + SumFunctionOnSet(Taken, Holds)
    = SumFunctionOnSet(InitWallet, Wallets)

Settled(h) == {r \in settlements : r.hold = h}
Extended(h) == {r \in extensions : r.hold = h}

\* The idempotency tables explain the row: retried and concurrent settles and
\* extends reach the row once per id, so the settled amount is the sum of the
\* recorded deltas and the quota is the request plus the recorded extensions.
TablesExplainHold ==
  \A h \in Holds :
    /\ hold[h].settled = SumFunctionOnSet([r \in Settled(h) |-> r.delta], Settled(h))
    /\ hold[h].quota = hold[h].requested
         + SumFunctionOnSet([r \in Extended(h) |-> r.additional], Extended(h))

\* The guarded decrease never overdraws a shared wallet, even when the wallet
\* resolved before the commit is one the login has left since.
WalletNotOverdrawn == \A w \in Wallets : wallet[w] >= 0

\* Every step leaves a closed hold alone, and no step takes back quota or spend
\* of an open one: a late settle or release never reopens or edits a hold.
HoldsOnlyGrow ==
  [][\A h \in Holds :
       /\ hold[h].status \notin {"none", "active"} => hold'[h] = hold[h]
       /\ hold[h].quota <= hold'[h].quota /\ hold[h].settled <= hold'[h].settled]_vars

\* The consume log entries that processes still owe for a hold.
LogOwed(h) ==
  [p \in Procs |-> IF job[p].pc = "after" /\ job[p].hold = h THEN job[p].log ELSE 0]

\* The consume log never reports more than was settled, and reports all of it
\* once no process still owes an entry, if none crashed.
LogFollowsSettlement ==
  \A h \in Holds :
    LET all == logged[h] + SumFunctionOnSet(LogOwed(h), Procs)
    IN all <= hold[h].settled /\ (faults = 0 => all = hold[h].settled)

\* What processes still owe the token of a login, and what its holds have taken.
TokenOwed(u) ==
  [p \in Procs |->
     IF job[p].pc = "after" /\ hold[job[p].hold].user = u THEN job[p].token ELSE 0]
TakenBy(u) == [h \in Holds |-> IF hold[h].user = u THEN Taken[h] ELSE 0]

\* Wallet and token are moved in two steps, but by the same amounts: without
\* faults, a token is down by what its holds have taken and not returned.
TokenFollowsWallet ==
  faults = 0 =>
    \A u \in Users :
      token[u] + SumFunctionOnSet(TokenOwed(u), Procs)
        + SumFunctionOnSet(TakenBy(u), Holds) = InitToken[u]

\* A hold whose expires_at has passed is closed, so its remainder comes back
\* even if compute-api never calls again and console nodes crash, as long as
\* its login still exists.
LapsedHoldsOfLoginsClose ==
  \A h \in Holds :
    Lapsed(hold[h], clock) ~> (hold[h].status # "active" \/ hold[h].user \in deleted)

\* A wallet no login draws on has no credit left in it: moving a login carries
\* its balance, so no credit is lost in the move.
NoCreditLeftBehind ==
  \A w \in Wallets : (\A u \in Users : member[u] # w) => wallet[w] = 0

\* The bridge keeps the promises of Escrow.
Escrowed == INSTANCE Escrow WITH
  balance <- wallet,
  phase <- [h \in Holds |-> IF hold[h].status = "none" THEN "new"
                            ELSE IF hold[h].status = "active" THEN "open" ELSE "closed"],
  held <- [h \in Holds |-> hold[h].quota],
  spent <- [h \in Holds |-> hold[h].settled],
  MaxHeld <- MaxComputeQuota

\* Each step of the bridge is one step of Escrow, or none.
ImplementsEscrow == Escrowed!Spec
=============================================================================
