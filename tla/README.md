# A verification project for the UnifyAPI console

TLA+ specifications of the parts of the UnifyAPI console that must not lose,
invent or duplicate money, work or logins when requests, nodes, tabs, timers and
failures interleave; TLC configurations that check them on small instances; and TLAPS
proofs of the most important properties for every value of the constants.
Paths are relative to the repository root, with the prefix `src/`.

## 1. The system

The console is a Go server (with web and desktop frontends) that relays requests
to language-model providers, charges customers for them, and lets a second
product, `compute-api`, reserve and spend the same quota. Several processes
("nodes") share one SQL database (MySQL, PostgreSQL or SQLite) and, optionally,
Redis. Some background loops run on every node, others only on nodes with
`common.IsMasterNode`.

| Component | State | Operations | What makes it correct |
|---|---|---|---|
| Compute billing bridge (`model/compute_hold.go`, `controller/compute_bridge.go`) | hold rows, settlement and extension tables, wallets, tokens, consume log | create, settle, extend, release, expire on read, sweep | quota is conserved, a retry counts once, a closed hold stays closed, a lapsed hold comes back |
| Settlement outbox (`model/settlement_outbox.go`, `service/settlement_outbox.go`) | Redis list, memory of each node, attempts, dead lists, ledger | park, replay, dead-letter, flush at shutdown | a served request is charged exactly once through outages and crashes |
| System tasks (`model/system_task.go`, `service/system_task.go`) | task rows with a unique active key, lock rows with leases | create, claim, take over, renew, finish, expire | one active task per type, a handler starts once, a lease is honoured, every task ends |
| Wallets and membership (`model/billing_entity.go`, `customer_wallet.go`, `customer_pool.go`) | quota of users and tenants, membership | resolve, guarded decrease, increase, move | no overdraft of a shared wallet, no credit left behind |
| Relay billing session (`service/billing_session.go`, `funding_source.go`, `billing.go`, `quota.go`) | reservation per request | pre-consume, reserve more, settle, refund, roll back | a request pays what it used, on every path |
| Batch updater (`model/utils.go`) | deltas per user, token, channel in memory | add, swap out, write, flush at shutdown | no delta lost or written twice |
| Credit pools and lots (`model/credit_pool.go`, `credit_lot.go`) | lots, reservations, allocations | reserve, resize, settle, refund | a lot is not allocated twice |
| Subscriptions (`model/subscription.go`) | periods, pre-consume records | pre-consume, refund, post-consume, reset | idempotent by request id |
| Asynchronous task polling (`service/task_polling.go`, `task_billing.go`) | task status | poll, compare-and-swap, settle or refund | a terminal task is settled once |
| User sessions (`model/user_session.go`, `service/auth_session.go`) | session rows with refresh secrets, snapshots and deny entries in Redis | create, look up, refresh, revoke, advance, delete | a revocation shows at once, a stale snapshot dies in time, a retried refresh is no theft |
| Browser sessions (`web/src/lib/auth-session.ts`, `auth-session-sync.ts`, `http-client.ts`, `stores/auth-store.ts`, `routes/__root.tsx`, `features/auth/api.ts`) | token and session in each page, the refresh cookie of the browser, a refresh under way, events between tabs | bootstrap, refresh, log in, rotate, sign out, retry a refused call, handle events | who signed out stays out, tabs do not look like thieves, a late reply undoes nothing |
| Top-ups, tenants, channels, rate limits, pricing, credit supply, invoices, accounts, relay adaptors, frontends | tables, caches, formats | - | see `components` in `PROJECT.json` |

**Interactions.** A relayed request reserves quota through a billing session,
which moves a wallet (or subscription or credit pool) and a token; at its end it
settles, and what the database refuses goes to the outbox. The compute bridge
moves the same wallets and tokens in transactions of its own. Joining a customer
pool moves the balance of a login between wallets while either is at work. The
pages of a browser hold short-lived access tokens and renew them with a cookie they
share; any node may serve the refresh, and looks the session up in Redis first. The
subscription reset, log cleanup, polling and other periodic jobs run as system tasks.

**What is hard.** No operation is one atomic step: the wallet is moved in a
transaction, the token and the consume log afterwards, each with a failure of its
own. Reads and the updates computed from them are separated (on SQLite there is
no row lock). Every call may be retried after a lost reply, on another node.
Processes crash between any two statements. Leases are compared with times read
earlier. Snapshots in Redis outlive the rows they were read from, and a browser
stores the cookie of a reply its page no longer wants. `PROJECT.json` lists these hazards at the lines where they bite.

## 2. Plan

Order: what moves money and is exposed to the most interleavings first.

| # | Module | Models | Status |
|---|---|---|---|
| 1 | `ComputeHold`, `Escrow`, `ComputeHoldProofs`, `ComputeHoldBooksProofs` | the bridge over wallets, tokens and log; `Escrow` is what it promises; the books add up | done |
| 2 | `SettlementOutbox`, `SettlementOutboxProofs` | settle path, outbox, worker, shutdown | done |
| 3 | `SystemTask`, `SystemTaskProofs` | leases, claims, heartbeats | done |
| 4 | `BillingSession`, `BillingSessionProofs` | pre-charge, fallback, reserve, rollback, settlement, refund; records and resets of the subscription | done |
| 5 | `UserSession`, `UserSessionProofs` | rotation with grace window, revocation and deny fence, snapshots in Redis | done |
| 6 | `AuthTabs`, `AuthTabsProofs` | the tabs of a browser against the refresh and sign-out handlers | done |
| 7 | `QuotaBatch` | batched deltas composed with moves of logins between wallets | open |
| 8 | `TaskPolling`, `CreditPool` | status CAS then settlement; lot allocation | open |

`AuthTabs` sits on `UserSession` (it takes a refresh to be one step of the server,
and its `RaceLosersRecover` for granted), `SettlementOutbox` takes over what
`BillingSession` parks. `SumTheorems` is the theory of finite sums that the
books of the bridge and of the billing session are proved with. Every safety invariant and
every action property of a passing run is now a theorem (section 5).

## 3. Modules and the code

`map` in `PROJECT.json` gives the source lines of every definition.

### ComputeHold

*State.* `hold`, `settlements`, `extensions` are the tables `compute_holds`,
`compute_settlements`, `compute_extensions`. `wallet` is the quota of each billing
entity (a tenant's row or a user's own column, both called a Wallet), `member` the
entity a login resolves to, `token` the token of each login, `logged` the amount
the consume log reports for each hold. `job[p]` is a request or sweeper in flight
with the values it has read; `sweep` the list the sweeper plucked.

*Actions.* A request is admitted by the checks before its transaction
(`ComputeCreateHold`, `ComputeSettleHold`, `ComputeExtendHold`,
`ComputeReleaseHold`); it reads the hold and resolves the wallet
(`LockComputeHold`, `ResolveForCreate`); it commits (`CreateTx`, `SettleTx`,
`ExtendTx`, `ReleaseTx`, `ExpireTx`) if the compare-and-set, the unique ids and
the guarded decrease allow it, or rolls back (`Rollback`); and it adjusts the
token and writes the log afterwards (`AdjustComputeTokenQuota` or its failure,
`RecordComputeConsumption`). `SweepExpiredComputeHolds` and `SweepNext` are the
sweeper. `Crash`, `Tick`, `DeleteUser` and `ReattachWallet` surround them.

*Abstractions.* A refused request and a replay answered from a table change
nothing and are no steps. The row lock taken on MySQL and PostgreSQL is left out,
so the model has every interleaving SQLite allows, a superset of the others'.
The commit is one step: a database transaction writes its rows together. The
HMAC check, the limiter in front and the read-only handlers are left out, and so is
the tenant id recorded on a hold, which nothing reads. Not modelled: a login deleted between
the resolving and the update of its own quota column, and MySQL reporting zero
affected rows for an update that changes nothing.

`Escrow` states what a holder of quota promises: balances, and holds that open,
take more, are spent and close, each step moving exactly what it returns or takes.

### SettlementOutbox

*State.* `stage` and `home` of each request, `applied` (how often its delta reached
wallet, token and log), `ledger` (`settlement_ledgers`), the Redis list `redis`,
`memory` and `attempts` of each node, `dead`, `byHand` (items written in full to a
process log), `errors` (what the request path drops and logs), `lost` (what went
down with a memory), `mode` and the drain pass `drain` of each node, and whether
the database and Redis accept connections. `parked` is the history of the log
lines "parked".

*Actions.* `SettleWallet`, `SettleToken` and `CreateConsumeLogDurably` are the
statements of a finished request, each run, refused and parked, or failed and
dropped. A drain pass copies the memory, applies each item
(`ApplyPendingSettlement`: the charge with its ledger row in one transaction, the
log row looked for and inserted in two), keeps what is unfinished, and on a master
reads a batch of the Redis list, applies and dequeues. `Stop`, `TakeMemory`,
`PushLeft`, `Exit` are the shutdown of `main.go`; `Crash`, `Restart`, `Outage`,
`Recover` the surroundings. The flush is a process beside the passes of its node: it waits for `drainMu`, makes a
pass of its own, takes the memory and pushes it to Redis. A worker that has looked at `settlementOutbox.stopped`
just before the flush set it is still due a pass (`late`), which may come before, between or after the steps of
the flush; whether that happens is the constant `LatePasses`.

*Abstractions.* Amounts do not matter: how often a delta arrived is what is
counted. The four attempts of `retryConnectionClass` are one refusal. A refusal
needs the database to be down; another error (`MaybeHit`) may have run. The memory
slice is a set, since two items with the same key are the same work. `dead`
unites the dead list of a memory and the one in Redis. Not covered: the batched
wallet path (`QuotaBatch` will), and a Redis entry that cannot be decoded.

### SystemTask

*State.* `task` (status, active key, owner, whether the lease lapsed), the one
`lock` row, `pass` (the runner of each node and what it read), `exec` (the
goroutines of each task: handler, heartbeat, the lease they last wrote), `starts`.

*Actions.* Every statement is a step: `ListStaleLock`, `ExpireTask`,
`DeleteStaleLock`; `ClaimSystemTask`, `InsertLock`, `ReadLock`, `TakeOverLock`,
`MarkExpired`, `RunTask`, `GiveUp`; `HeartbeatTick`, `RenewSystemTaskLock`;
`HandlerDone`, `HandlerQuits`, `FinishSystemTask`, `FinishReleases`; and each of
them failing (`StatementFails`, `ReadBackFails`, `RenewFails`, `FinishFails`), after
which it may have run all the same.

*Abstractions.* One task type, since types share no row. All clocks agree; `now`
and the end of the new lease come from one reading. The scheduler and the
endpoints that enqueue are `CreateSystemTask`, with whether a task is due left
open. Progress writes (`UpdateSystemTaskState`) write columns the protocol never
reads, and are left out. A runner id is never used again after a restart.

### BillingSession

*State.* `wallet`, `token` and `used` are the quota of the billing entity,
`remain_quota` of the token and `AmountUsed` of the subscription. `req[r]` is a request
with the fields of its `BillingSession` and `FundingSource` under their names, the locals of
the function it is in, the status of its pre-consume record, and, as history, what
its statements really took (`taken`, `tokenTaken`), what it parked, and whether it was
`harmed`: hit by an error the code makes up for nowhere, such as a pre-charge whose
reply was lost or a refund that failed. `unsure` is the set of requests a return of which took effect and was taken for
a failure, so that it may come once more. `over` sums charges that do not look at the balance.

*Actions.* One per statement. `PreConsumeBilling`, `TryWallet`, `TokenRead`, `TokenTake`,
`Fund`, `TokenBack` are `NewBillingSession` and `preConsume` with the fallback to the other
source; `Reserve` to `RollbackFundingReserve` are `Reserve`; `Settle`, `SettleFunding`,
`SettleToken`, `Finish` the settlement; `Refund`, `RefundWallet`, `RefundSubscription`,
`MarkRefunded`, `RefundExtra`, `RefundToken` the goroutine of a refund with its three
attempts. A database error of the locking read of the subscriptions is reported as a shortage, so `Fund` may fall
back to the wallet on it. Every statement may be refused, fail, or run and lose its reply; `Crash`
and `ResetSubscription` come at any time.

*Abstractions.* Prices are free choices from `Quotas`. All requests are of one user with
one limited token and one subscription, the case in which they compete. The
mutex of a session is implied: one request drives it, and the refund starts when the
handler is through with it. Not modelled: promotional funding, violation fees, the batch updater
between statement and row, unlimited tokens (the same steps without the comparison).

### UserSession

*State.* The `row` of one session, its `cache` entry in Redis with its expiry, the
`user`'s auth version, and `handler[p]`, a request under way with what it has read. `row.changedAt`,
`began` and `sealed` are history: when the row last changed, when its revocation
began, whether the last deny entry was published. So are `sent`, the time at which a refresh was sent with the secret that was
current then, and `slow`, how long the last rotation that overtook such a refresh took from its look at the clock to its UPDATE. A refresh secret is the number of rotations before it,
because each is derived from its predecessor.

*Actions.* `LookupCache`, `LoadRow`, `FillDeny`, `FillActive`, `ReturnSnapshot` are
`GetUserSessionCached` and the Lua scripts of `writeUserSessionCache`; `CompareUser`,
`ReadForRotation`, `RotateRefresh` a refresh (`RotationAnswer` is what it is answered); `ReadCandidate` or `MatchRefreshHash`, `PublishFence`,
`CommitRevocation`, `PublishTombstone` a revocation; `BumpUserAuthVersion`, `BeginAdvance`, `AdvanceSession` a
change of credentials; `DeleteSession` the cleanup. A request may stop, or lose
its Redis command, after any of them.

*Abstractions.* One session, since sessions share no row or key. One clock. The row locks
of the revoking transactions are left out, so more interleavings are allowed than exist.
The three attempts of `RotateUserSessionRefresh` are a return to the read. A request that has learnt nothing yet is no state of
its own: a revocation begins with its read, and a lookup that missed Redis, or could not reach it, goes on to the row.

### AuthTabs

*State.* `server`: status and version of each session; `jar`: the refresh cookie; `tab[t]`: the
store of a page, its refresh under way with the reply that is on its way and whether
`authEpoch` still is the `refreshEpoch` of that refresh, what the user has asked for, one refused call, and the
queue of events. Sessions are numbered in the order of logins, secrets are named by their age.

*Actions.* `Bootstrap`, `CallRefused` start or join a refresh; `AnswerRefresh` sends it and has it served,
`ReceiveRefresh` is the code after the `await`, `DropRefresh` the check before it. `AnswerLogin`/`ReceiveLogin`,
`AnswerRotation`/`ReceiveRotation`, `Logout`/`ReceiveLogout` are the two halves of what a user does;
`HandleEvent`, `DropEvent` the other tabs. Replies may be late or lost, pages may be reloaded, sessions
revoked elsewhere. The cookie of a reply is stored when it arrives, whatever the page makes of it.

*Abstractions.* Browsers with Web Locks. A request is sent and served in one step. The user does one thing at a
time and one refused call is followed. `AUTH_REFRESH_RACE` is never sent, by `RaceLosersRecover`.
The server denies a refresh also when it cannot read the session; a request that is served after its page was unloaded, when its lock is free again, is left out.

## 4. Runs

| Run | Instance | Shows |
|---|---|---|
| `hold` | 1 login, a wallet of 3, 1 hold of up to 2, 2 events, 1 extend, 2 request processes and the sweeper, clock to 1, 1 crash or failed token update | rows add up, quota is conserved, idempotency tables explain the row, log and token follow, closed holds stay closed |
| `move` | 2 logins, wallets and holds, 1 process, 1 move, 1 deletion, 1 fault, fair | refinement of `Escrow`, no overdraft, lapsed holds of existing logins close |
| `replay` | 1 request, a master and a slave, 2 failed statements, 1 crash, 1 shutdown, 2 outages, no late pass | charged at most once, replay and request exclusive, one log row, nothing vanishes, outages set nothing aside |
| `replaylive` | the same nodes, lost Redis replies, 1 shutdown, late passes, 2 outages, fair | parked items are replayed and leave the queues, an orderly shutdown loses nothing |
| `tasks` | 2 runners, 2 tasks, lease 1, 1 fault, lost replies, claims of any length | one active task, one start, lease honoured, outcomes final |
| `taskslive` | 2 runners, 1 task, lease 2, 1 fault, timely claims, fair | every task ends |
| `session` | 1 session, 2 requests at a time, cache time 2, grace 1, life 3, clock to 4, 2 rotations, 1 change of credentials | a revocation shows at once, stale entries end in time, answers are recent, secrets only move on, a refresh that is overtaken rotates or is given the winner's secret |
| `tabs` | 2 tabs, 2 logins, 1 change of credentials, 2 logins, changes, losses, reloads or revocations in all | a late refresh brings neither a session that was signed out and revoked nor an old token back, tabs never trip the theft detection |
| `billing` | 2 requests, prices 0 and 2, wallet 2, token 3, subscription 3, trust above 1, 3 errors, deaths or resets | unharmed outcomes are paid exactly, nothing is given back twice unless a return was taken for failed, no overdraft by pre-charges, the plan is kept, the books agree |
| `orphan`, `flip`, `again` | the smallest instance that shows it | three disagreements, section 6 |

**Bounds.** Races on a hold are between two writers of one row, and the sweeper is
a third: two request processes, one hold, two events (a partial and a final settle)
and an extend give every pair of operations in every order, with a crash anywhere.
Holds expire at 1: time 0 and 1 are before and after expiry, and a request that read
the clock at 0 may commit at 1. Wallets of 2 and 1 in `move` are smaller than what two
holds may ask for, so a decrease is refused there. Two of everything in `move` are needed for a login to
have somewhere to go; a sweep of 2 there takes both holds. In the outbox requests do not
interact except through the limits of memory and batch; one request yields up to two
items, its charge (or token) and its log row, which already exceed a memory of 1 and
a batch of 1, and a master and a slave are the two roles. Two failed statements
reach `MaxAttempts` 2. In the tasks, two runners race for one lock, a second task is
what a stale takeover could damage, and a lease of 1 lapses within the clock's bound: with `EndOfTime` 4 a first lease
lapses at 2, is taken over, and the second lapses at 4. In `taskslive` the clock's bound is larger than any lease and never met.
Session: two requests are a writer and a slow reader, or two refreshes; a cache time of 2 leaves room for a
snapshot that is late but not yet over, the life of 3 ends it before `MaxTime` (with a life of 2 and a clock to 3 a late snapshot never happens), and
generation 2 makes generation 0 older than the grace window knows; a retention of 3 still has a revoked row deleted within the clock. Tabs: two tabs
race for a cookie, two logins are an old and a new session; a queue of 1 is what a suspended
tab finds. Billing: a wallet of 2 and a subscription of 3 hold one request of price 2 and not two,
so one of two racing requests is short and falls back; a price of 0 is the trusted and the free case,
and a subscription is still asked for 1 then; three faults fail a refund on all its attempts.
The instance does not reach the wallet rollback that fails in a session without a charged token (a wallet of 2 is trusted and
reserves nothing more, one of 0 is turned down; it takes a price of 1); the theorems cover it.

`MaxTime`, `EndOfTime`, `MaxFaults`, `MaxMoves`, `MaxDeletes`, `MaxCrashes`, `MaxStops`,
`MaxOutages`, `MaxTasks`, `MaxGen`, `MaxUser`, `MaxSessions`, `MaxVer`, `MaxQueue` and `MaxEvents` bound the environment; every other constant stands for one
in the code. Deadlock is not checked where the instance may run out of ids, tasks
or time; the outbox runs check it. Symmetry is used only in runs without
liveness: over the events and request processes in `hold`, over runners in `tasks`, over requests in `session` and `billing`, over tabs in `tabs`. `session`, `tabs` and `billing` ask for safety only and assume no fairness.

**Fairness.**
- `ComputeHold`: weak fairness of each process's own steps (a handler that has
  begun goes on, unless it crashes) and of the sweeper, which a ticker drives. No
  fairness of requests: compute-api may never call again. The property is limited
  to logins that exist, because the expiry of a hold of a deleted login fails each
  time it is tried. Such holds stay at the head of every sweep, ordered by expiry,
  so a whole batch of them would keep the sweeper from any other hold; in the
  `move` run one deletion meets a batch of two, and the property holds because
  fewer such holds exist than a batch takes.
- `SettlementOutbox`: weak fairness of each request's next statement, each node's
  worker (a loop with a ticker), the restart of a process by its supervisor, and
  the end of outages.
- `SystemTask`: weak fairness of passes that have begun, heartbeat renewals,
  handlers (they return) and the clock; strong fairness of the listing of stale
  locks and of claims, because each runner tries both at fixed intervals (30 s and
  15 s) and each is enabled again and again rather than without interruption.
  `TasksEnd` needs two assumptions: a claim takes less than the 60 s lease
  (`TimelyClaims`), and no lost replies of the statements of a claim (section 6).

Every property of a passing run has a mutant: a plausible bug in one definition
that TLC finds through that property. The mutants stand before their originals.

## 5. Proofs

The theorems hold for every value of the constants that the modules' named
assumptions admit (any number of logins, holds, nodes, runners and faults).

**`ComputeHoldProofs`**, from `ComputeHoldAssumption`. The inductive invariant is
`TypeOK /\ HoldAccounting /\ JobsGrounded /\ WalletNotOverdrawn`. `HoldAccounting` is not
inductive alone: a commit writes values computed from a row read earlier, so one
must know that the row read was open and admitted the request, which
`JobsGrounded` says of every process in flight; the compare-and-set then identifies
that row with the present one. Theorems: `TypesAndJobs`, `HoldsAddUp`,
`WalletsStayCovered`, `HoldsGrow` (the action property) and
`BridgeRefinesEscrow` (each step is a step of `Escrow` or a stutter).

**`SumTheorems`** is about `SumFunctionOnSet` of the community modules over a finite set: the sum is an
integer, of naturals a natural; one summand can be taken out, put in or changed, an amount can be moved from one
summand to another. The folds are defined by recursion on the set, and the installed provers cannot
instantiate an induction scheme; the lemmas instead take a smallest set that contradicts them
(`LeastNatural`, over cardinalities) and derive FALSE.

**`ComputeHoldBooksProofs`**, from the above and the finiteness of the sets of wallets, holds and processes, which
`ComputeHoldAssumption` states. The invariant `Books` adds to the one of `ComputeHoldProofs` that the tables are finite and
the four properties themselves: with `JobsGrounded` a commit is known to change one hold, one
wallet and one job by the same amount, and the four sums change by that amount. Theorems:
`BridgeConservesQuota` (`QuotaConserved`), `TablesAddUp` (`TablesExplainHold`; a new row is not in the table yet, by its
unique id), `LogAddsUp` (`LogFollowsSettlement`), `TokensAddUp` (`TokenFollowsWallet`).

**`SettlementOutboxProofs`**, from `SettlementOutboxAssumption` and
`NoItemAssumption`. The invariant is `TypeOK /\ QueueOK /\ ChargeOK`. `QueueOK` says
that whatever a list, a memory or a pass holds has been parked; `ChargeOK` relates
the stage of a request, what is parked and in the ledger for it, and how often
each resource was reached: at most one of the request path and the ledger can be
responsible for a resource. Theorems: `OutboxInvariant`, `OutboxTypes`,
`AtMostOnce` (`ChargedAtMostOnce`), `LedgerTells` (`ReplayExclusive`). Lost
replies, crashes, late passes and duplicates of an item in the Redis list and in memory are all included.
`FlushesOrdered` is a layer between: only a stopping node flushes, only its push has items in hand, and without late
passes nothing runs beside it. Four more theorems, each from an invariant of its own on top of that one:
- `OutboxKeepsTrack` (`NothingVanishes`) from `Accountable`. The property says nothing of what a pass has in hand:
  one must know that an item which is on a pass's way out (`Hands`: finished, to be dequeued, taken by the flush)
  has been applied, set aside, or stays in a list, and that a request past a statement has covered its resource.
- `OutagesSetNothingAside` (`SetAsideOnlyAfterFailures`) from `FailuresCounted`: the attempts a node remembers of an
  item are at most the failures there have been.
- `OrderlyShutdown` (`ShutdownKeepsItems`) from `Orderly`, where no request outlives the drain timeout
  (`~Stragglers`, a hypothesis of the theorem; section 6 shows what happens otherwise). A stopping
  node serves no request, so its memory stays empty between the flush's taking it and the exit, and a late
  pass only takes away from it.
- `OneLogRow` (`LoggedAtMostOnce`) from `Logged`: an item waits in one place only, a list or one memory, and a pass
  works on what still waits there, so no two passes are between the look-up and the insert of
  the same row. That needs one master, no lost replies of Redis and no worker that begins a pass after its node began
  to stop (`SingleReplay`, the hypothesis of the theorem and the setting of `replay`): without any of the three, two
  replays of one item may run at the same time (section 6).

**`SystemTaskProofs`**, from `SystemTaskAssumption`. The invariant is
`TypeOK /\ OneActiveTask /\ PassesOK /\ ExecsOK /\ LeaseHonoured`. `PassesOK` says that
no time a pass has read lies in the future, and that a claim which has the lock and is
not yet through still owns the lock row while the lease it wrote runs; without it
`LeaseHonoured` could not be shown to begin when the handler starts. `ExecsOK` ties
`starts` to the goroutines of a task, which exist only once it has stopped being
pending. A statement that compares with an old time then cannot hit a valid lease,
because the lease ends at or after the present and so after the old time.
Theorems: `LeaseInvariant`, `TaskTypes`, `OneActive`, `StartsOnce`,
`LeasesHold`, `OutcomesFinal`. The proofs include failed statements, lost replies and
claims of any length.

**`BillingSessionProofs`**, from `ConstantsAssumption`. The invariant is `Accounts` (types, the range of `used`, and
`wallet + over >= 0`) and `Local(req[r])` for each request: at each point of its life, what an unharmed
session has really taken from funding source and token, in terms of its own counters
(`preConsumedQuota`, `consumed`, `preConsumed`, `extraReserved`, `tokenConsumed`, `delta`). `EndedIsWhole`
says this of the ends only and is not inductive. `Counted` holds with or without harm, and gives that
`consumed` never goes below zero. Since a step changes one request and adds to the accounts what that request took, the proof goes action by action on that request alone.
Theorems: `TypeCorrect`, `PlanHolds`, `PrechargesFit`, `OutcomesArePaid`, `ReturnsAreCovered`, and `BooksAreQuiet`
(`QuietBooks`, for finitely many requests): as long as nobody was harmed, wallet, token and subscription are
down by the sums of what the requests have taken (`Books`), in every state and not only in a quiet one;
when all are through, `Local` turns what each took into what it owes. `ReturnsAreCovered` speaks of harmed and dead requests too,
of which `Local` says nothing: it needs `Covered`, an invariant of its own. What a session may still give back, at each point of its
life (`TokenDue`, `FundingDue`), is never more than its statements have really taken, of the token always, of the funding source as long as the request is
not `unsure`.

**`UserSessionProofs`**, from `ConstantsAssumption`. The invariant is `Shared`, `Local` for each request and `CreatedOnce`.
Its heart: a snapshot that is no longer what the row says ends within `CacheTTL` of the row's change, as its
deadline was taken before the row was read; and a deny entry published at t keeps active entries
out until `t + CacheTTL` (`Wall`), when every snapshot older than t is over. `RaceLosersRecover` needs a second invariant (`Races`): since a refresh was sent with
the current secret the family has only moved on, and if by one rotation, the grace window of that rotation ends no earlier than
`Grace` after the refresh was sent, less the time the rotation itself took from its look at the clock to its UPDATE (`slow`). The compare-and-swap is what makes it so. Theorems: `TypeCorrect`, `StaleBounded`,
`RevocationShows`, `LosersRecover`, `GenerationsMoveOn`, `SnapshotsAreRecent` (the last two are action properties).

**`AuthTabsProofs`**, from the assumption of `AuthTabs`. Most of the invariant is `PageOK`, about one page and the server: a reply that brings a
secret brings the current one, and as long as its epoch is the one of the request (`isCurrent`), the page has neither been
signed out of that session nor seen a later version than the reply has; what a page has left is revoked on the server.
`SignedOutStaysOut` says the last only of what is shown, and a reply under way could undo it. For the theft detection
the pages must be seen together: if the cookie is not the newest secret of its session, that one is in a reply
under way, and then no other tab can be sending (the Web Lock), or was lost (`Secrets`); sessions not yet answered are known to no page (`Births`),
and the user does one thing at a time (`OneAsk`). Theorems: `TypeCorrect`, `SignedOutForGood`,
`TabsNeverLookLikeThieves` (`NoReuseWithoutLoss`), `RotationSurvivesRefresh` (`RefreshKeepsRotation`, an action property).

**Only model-checked.** Liveness (`LapsedHoldsOfLoginsClose`, `ParkedIsReplayed`,
`QueuesDrain`, `TasksEnd`): the prover has no ENABLED, and fairness is stated with it. The three violations of
section 6 are counterexamples, found by TLC. Everything else the passing runs check is proved.

## 6. Where the code and its description part

Three are runs that TLC must find violated, with an entry of `findings` each.

- `orphan`: the wallet of a login is resolved and updated in two statements; a
  move in between empties that wallet, and the refund lands where nobody draws.
- `flip`: a refresh is answered late, after a sign-out that revoked nothing and a new login. The page rejects the
  reply, but the browser stores its cookie over the new one, and the next refresh takes the page back to the old session.
- `again`: a refund of a subscription gives the quota back in a nested transaction; if the enclosing one
  fails, the retry gives it back again, although the function is documented as idempotent.

Others follow from the models by changing a constant of a run, or one property:

- With `Stragglers = TRUE` `ShutdownKeepsItems` fails: a request that outlives the drain timeout parks
  into memory after the flush has taken it, and the process exits with it.
- With `LostReplies = TRUE` `LoggedAtMostOnce` fails: an RPUSH whose reply is lost leaves the item in Redis and in a
  node's memory, and a slave and the master can both insert its log row. It fails in the same way with two masters.
- With `LatePasses = TRUE` `LoggedAtMostOnce` fails in `replay`, with one master and no lost reply: the worker of a slave has found
  `stopped` false (`settlement_outbox.go:495`) and begins its pass when the pass of the flush is over; it looks for the log
  row and does not find it, the flush pushes the same item to Redis (`518-528`), the master replays it, and both insert. The
  comment in `DrainSettlementOutbox` says that only the master replays the list "so two nodes never race to insert the
  same log row". Charges are safe, by their ledger row (`AtMostOnce` has no such hypothesis).
- With `TimelyClaims = FALSE` `TasksEnd` fails: a claim that outlasts its lease marks its task running when
  the lock has been deleted; nothing ends that task, and its active key blocks the type.
- A renewal committed between the listing of a lapsed lock and the failing of its task does not save the task
  (`MarkSystemTaskLeaseExpired` looks at the status only).
- A node that stops after a compute settle has committed never writes its consume row, and the retry is answered
  as a replay without one.

## 7. Known limits the models reach

These are reachable in the models or outside them, and accepted by the code; no
property speaks against them.

- A limited token is compared and then decreased without a guard, by holds (`compute_hold.go:154`) and by the relay
  (`quota.go:411`), and may go below zero.
- A pre-charge whose reply is lost, or a node that dies, leaves the charge in place: no session and no refund knows of it.
- A return whose reply is lost is made again: a rollback of the wallet whose reply was lost stays in `consumed` and is refunded
  (`billing_session.go:300-307`), a settlement below the reservation that ran and reported an error is followed by a full refund. `NothingReturnedTwice` excepts
  these requests (`unsure`).
- A rollback of the wallet that fails in a session that has charged no token leaks: `consumed` keeps the amount for the refund, but
  `needsRefundLocked` asks for `tokenConsumed > 0` on a wallet (`billing_session.go:152-168`). `EndedIsWhole` excepts it (`harmed`).
- A database error of the locking read of the subscriptions is answered as "no active subscription" (`subscription.go:1321-1323`), which
  counts as a shortage (`billing_session.go:250`), and the wallet is charged in place of the subscription.
- The grace window starts at the clock reading of the winner, before its UPDATE (`user_session.go:478`): a slow winner shortens
  it for the others, and a refresh held up together with it for longer than the window is taken for theft.
- A database error in `GetUserSessionCached` is answered as an invalid secret (`service/auth_session.go:209-215`), and the cookie of a
  live session is cleared (`controller/auth_session.go:27-28`).
- A tab that is suspended drops the events it finds, and one that is still loading receives none (`auth-session-sync.ts:89`): it goes on
  showing a session another tab has left, until a call of it is refused.
- A refresh between the increment of `auth_version` and the advance of the session revokes the session the change was
  to keep (`auth_session.go:229`). The limits on sessions are counted before the insert (`auth_session.go:68`).
- A late 401 to a refresh clears the cookie of a newer login; a retried call that is refused clears whatever session its
  page shows now (`http-client.ts:131`); a sign-out that meets a mismatch signs out of the session of the cookie
  (documented); a sign-out with an expired token and an old secret reports success and revokes nothing.
- An item of the outbox set aside after its last failure may have been applied. Two nodes may run a periodic task
  twice in an interval (`system_task.go:286`). Leases and PEXPIREAT compare clocks of different machines.
- A batched delta may reach the column of a login whose wallet has moved (`user.go:1456`); lots of a credit pool are
  allocated without a row lock on SQLite (`credit_pool.go:338`).

## 8. Not modelled

The modules marked open in section 2 are next. Left out for good: price
formulas and the billing expression language (floating point, no protocol), relay
adaptors and format conversion, invoices and statements (sequential reports over
the log), notifications and other pure I/O, packaging and scripts.
Of the web frontend, which is most of the repository's TypeScript (about 212000 lines in 1080
files), `AuthTabs` models the part that keeps state across asynchronous steps and tabs. The rest
is components, forms, tables, translations and generated routes: what they show is what the
server answered, so there is no state a model could say more about than its own restatement, and the
share of lines the specifications can cover stays small for that reason. The protocols are in the Go server.
Top-ups and redemptions are single transactions on one order; channel selection
is weighted random choice over caches; rate limits are counters in Redis scripts.
