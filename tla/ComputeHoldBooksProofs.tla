----------------------- MODULE ComputeHoldBooksProofs -----------------------
(* The books of the compute bridge balance, for every finite number of     *)
(* wallets, holds and request processes: sums over all wallets,            *)
(* holds, table rows and processes.  A step changes one or two summands;   *)
(* the theorems of SumTheorems carry that to the sum.                      *)
EXTENDS ComputeHoldProofs

Books ==
  /\ IsFiniteSet(settlements) /\ IsFiniteSet(extensions)
  /\ QuotaConserved /\ TablesExplainHold /\ LogFollowsSettlement /\ TokenFollowsWallet

\* What one process owes to the consume log of a hold and to the token of a login.
LogDue(j, h) == IF j.pc = "after" /\ j.hold = h THEN j.log ELSE 0
TokenDue(rows, j, u) == IF j.pc = "after" /\ rows[j.hold].user = u THEN j.token ELSE 0

\* A step leaves the logins of the stored holds alone.
LoginsStay == \A h \in Holds : hold[h].status # "none" => hold'[h].user = hold[h].user

-----------------------------------------------------------------------------
(* One summand changes *)

\* Processes are finitely many.
LEMMA ProcsFinite == IsFiniteSet(Procs)
  BY ComputeHoldAssumption, FS_AddElement DEF ComputeHoldAssumption, Procs

\* A sum over the processes changes with the process that moves.
LEMMA ProcSumChanges ==
  ASSUME NEW f, NEW e, NEW p \in Procs, \A q \in Procs : f[q] \in Int /\ e[q] \in Int,
         \A q \in Procs \ {p} : e[q] = f[q]
  PROVE  /\ SumFunctionOnSet(e, Procs) = SumFunctionOnSet(f, Procs) + e[p] - f[p]
         /\ SumFunctionOnSet(e, Procs) \in Int /\ SumFunctionOnSet(f, Procs) \in Int
<1>1. \A S, g, d : \A a \in S :
        /\ IsFiniteSet(S) /\ \A x \in S : g[x] \in Int /\ d[x] \in Int
        /\ \A x \in S \ {a} : d[x] = g[x]
        => /\ SumFunctionOnSet(d, S) = SumFunctionOnSet(g, S) + d[a] - g[a]
           /\ SumFunctionOnSet(d, S) \in Int /\ SumFunctionOnSet(g, S) \in Int
  BY SumChange
<1> QED BY <1>1, ProcsFinite

\* A sum over the wallets changes with the wallet that moves.
LEMMA WalletSumChanges ==
  ASSUME NEW f, NEW e, NEW w \in Wallets, \A x \in Wallets : f[x] \in Int /\ e[x] \in Int,
         \A x \in Wallets \ {w} : e[x] = f[x]
  PROVE  /\ SumFunctionOnSet(e, Wallets) = SumFunctionOnSet(f, Wallets) + e[w] - f[w]
         /\ SumFunctionOnSet(e, Wallets) \in Int /\ SumFunctionOnSet(f, Wallets) \in Int
<1>1. IsFiniteSet(Wallets)
  BY ComputeHoldAssumption DEF ComputeHoldAssumption
<1>2. \A S, g, d : \A a \in S :
        /\ IsFiniteSet(S) /\ \A x \in S : g[x] \in Int /\ d[x] \in Int
        /\ \A x \in S \ {a} : d[x] = g[x]
        => /\ SumFunctionOnSet(d, S) = SumFunctionOnSet(g, S) + d[a] - g[a]
           /\ SumFunctionOnSet(d, S) \in Int /\ SumFunctionOnSet(g, S) \in Int
  BY SumChange
<1> QED BY <1>1, <1>2

\* What is owed to a consume log changes with the process that moves.
LEMMA LogOwedChanges ==
  ASSUME IInv, IInv', NEW p \in Procs, \A q \in Procs \ {p} : job'[q] = job[q],
         NEW h \in Holds
  PROVE  /\ SumFunctionOnSet(LogOwed(h)', Procs)
              = SumFunctionOnSet(LogOwed(h), Procs) + LogDue(job'[p], h) - LogDue(job[p], h)
         /\ SumFunctionOnSet(LogOwed(h)', Procs) \in Int
         /\ SumFunctionOnSet(LogOwed(h), Procs) \in Int
<1> DEFINE f == [q \in Procs |-> LogDue(job[q], h)]
           e == [q \in Procs |-> LogDue(job'[q], h)]
<1>1. f = LogOwed(h) /\ e = LogOwed(h)'
  BY DEF LogOwed, LogDue
<1>2. \A q \in Procs : f[q] \in Int /\ e[q] \in Int
  BY DEF IInv, TypeOK, Job, LogDue
<1>3. \A q \in Procs \ {p} : e[q] = f[q]
  OBVIOUS
<1>4. e[p] = LogDue(job'[p], h) /\ f[p] = LogDue(job[p], h)
  OBVIOUS
<1> HIDE DEF e, f
<1>5. /\ SumFunctionOnSet(e, Procs) = SumFunctionOnSet(f, Procs) + e[p] - f[p]
      /\ SumFunctionOnSet(e, Procs) \in Int /\ SumFunctionOnSet(f, Procs) \in Int
  BY <1>2, <1>3, ProcSumChanges
<1> QED BY <1>1, <1>4, <1>5

\* So does what is owed to a token: stored holds keep their login.
LEMMA TokenOwedChanges ==
  ASSUME IInv, IInv', NEW p \in Procs, \A q \in Procs \ {p} : job'[q] = job[q],
         LoginsStay, NEW u \in Users
  PROVE  /\ SumFunctionOnSet(TokenOwed(u)', Procs)
              = SumFunctionOnSet(TokenOwed(u), Procs)
                  + TokenDue(hold', job'[p], u) - TokenDue(hold, job[p], u)
         /\ SumFunctionOnSet(TokenOwed(u)', Procs) \in Int
         /\ SumFunctionOnSet(TokenOwed(u), Procs) \in Int
<1> DEFINE f == [q \in Procs |-> TokenDue(hold, job[q], u)]
           e == [q \in Procs |-> TokenDue(hold', job'[q], u)]
<1>1. f = TokenOwed(u) /\ e = TokenOwed(u)'
  BY DEF TokenOwed, TokenDue
<1>2. \A q \in Procs : f[q] \in Int /\ e[q] \in Int
  BY DEF IInv, TypeOK, Job, TokenDue
<1>3. \A q \in Procs \ {p} : e[q] = f[q]
  <2> TAKE q \in Procs \ {p}
  <2>1. job[q].pc = "after" => job[q].hold \in Holds /\ hold[job[q].hold].status # "none"
    BY DEF IInv, JobsGrounded, Grounded
  <2> QED BY <2>1 DEF TokenDue, LoginsStay
<1>4. e[p] = TokenDue(hold', job'[p], u) /\ f[p] = TokenDue(hold, job[p], u)
  OBVIOUS
<1> HIDE DEF e, f
<1>5. /\ SumFunctionOnSet(e, Procs) = SumFunctionOnSet(f, Procs) + e[p] - f[p]
      /\ SumFunctionOnSet(e, Procs) \in Int /\ SumFunctionOnSet(f, Procs) \in Int
  BY <1>2, <1>3, ProcSumChanges
<1> QED BY <1>1, <1>4, <1>5

\* What the holds have taken changes with the hold that is written.
LEMMA TakenChanges ==
  ASSUME IInv, IInv', NEW h \in Holds, \A g \in Holds \ {h} : hold'[g] = hold[g]
  PROVE  /\ SumFunctionOnSet(Taken', Holds) = SumFunctionOnSet(Taken, Holds) + Taken'[h] - Taken[h]
         /\ SumFunctionOnSet(Taken', Holds) \in Int /\ SumFunctionOnSet(Taken, Holds) \in Int
         /\ \A u \in Users :
              /\ SumFunctionOnSet(TakenBy(u)', Holds)
                   = SumFunctionOnSet(TakenBy(u), Holds) + TakenBy(u)'[h] - TakenBy(u)[h]
              /\ SumFunctionOnSet(TakenBy(u)', Holds) \in Int
              /\ SumFunctionOnSet(TakenBy(u), Holds) \in Int
<1>0. IsFiniteSet(Holds)
  BY ComputeHoldAssumption DEF ComputeHoldAssumption
<1>1. /\ \A g \in Holds : Taken[g] \in Int /\ Taken'[g] \in Int
      /\ \A g \in Holds \ {h} : Taken'[g] = Taken[g]
  BY DEF IInv, TypeOK, Row, Taken
<1>2. ASSUME NEW u \in Users
      PROVE  /\ \A g \in Holds : TakenBy(u)[g] \in Int /\ TakenBy(u)'[g] \in Int
             /\ \A g \in Holds \ {h} : TakenBy(u)'[g] = TakenBy(u)[g]
  BY <1>1 DEF TakenBy
<1>3. /\ SumFunctionOnSet(Taken', Holds) = SumFunctionOnSet(Taken, Holds) + Taken'[h] - Taken[h]
      /\ SumFunctionOnSet(Taken', Holds) \in Int /\ SumFunctionOnSet(Taken, Holds) \in Int
  BY <1>0, <1>1, SumChange
<1>4. ASSUME NEW u \in Users
      PROVE  /\ SumFunctionOnSet(TakenBy(u)', Holds)
                  = SumFunctionOnSet(TakenBy(u), Holds) + TakenBy(u)'[h] - TakenBy(u)[h]
             /\ SumFunctionOnSet(TakenBy(u)', Holds) \in Int
             /\ SumFunctionOnSet(TakenBy(u), Holds) \in Int
  <2> DEFINE e == TakenBy(u)'
             f == TakenBy(u)
  <2>1. /\ \A g \in Holds : f[g] \in Int /\ e[g] \in Int
        /\ \A g \in Holds \ {h} : e[g] = f[g]
    BY <1>2
  <2> HIDE DEF e, f
  <2>2. /\ SumFunctionOnSet(e, Holds) = SumFunctionOnSet(f, Holds) + e[h] - f[h]
        /\ SumFunctionOnSet(e, Holds) \in Int /\ SumFunctionOnSet(f, Holds) \in Int
    BY <1>0, <2>1, SumChange
  <2> QED BY <2>2 DEF e, f
<1> QED BY <1>3, <1>4

-----------------------------------------------------------------------------
(* Steps that write no hold *)

\* A step of a process that leaves rows and tables alone keeps the books if it
\* moves what it owes to the log and to the token, or drops it as a fault.
LEMMA JobKeepsBooks ==
  ASSUME IInv, IInv', Books, NEW p \in Procs, \A q \in Procs \ {p} : job'[q] = job[q],
         UNCHANGED <<hold, settlements, extensions, wallet>>,
         faults' = 0 => faults = 0,
         \A h \in Holds :
           /\ logged'[h] + LogDue(job'[p], h) <= logged[h] + LogDue(job[p], h)
           /\ faults' = 0 => logged'[h] + LogDue(job'[p], h) = logged[h] + LogDue(job[p], h),
         \A u \in Users : faults' = 0 =>
           token'[u] + TokenDue(hold, job'[p], u) = token[u] + TokenDue(hold, job[p], u)
  PROVE  Books'
<1>1. QuotaConserved' /\ TablesExplainHold'
  BY DEF Books, QuotaConserved, TablesExplainHold, Taken, Settled, Extended
<1>2. LogFollowsSettlement'
  <2> SUFFICES ASSUME NEW h \in Holds
               PROVE  LET all == logged'[h] + SumFunctionOnSet(LogOwed(h)', Procs)
                      IN all <= hold'[h].settled /\ (faults' = 0 => all = hold'[h].settled)
    BY DEF LogFollowsSettlement
  <2>1. /\ logged[h] \in Int /\ logged'[h] \in Int /\ hold[h].settled \in Int
        /\ LogDue(job[p], h) \in Int /\ LogDue(job'[p], h) \in Int
    BY DEF IInv, TypeOK, LogDue, Job, Row
  <2>2. /\ SumFunctionOnSet(LogOwed(h)', Procs)
              = SumFunctionOnSet(LogOwed(h), Procs) + LogDue(job'[p], h) - LogDue(job[p], h)
        /\ SumFunctionOnSet(LogOwed(h)', Procs) \in Int
        /\ SumFunctionOnSet(LogOwed(h), Procs) \in Int
    BY LogOwedChanges
  <2>3. /\ logged[h] + SumFunctionOnSet(LogOwed(h), Procs) <= hold[h].settled
        /\ faults = 0 => logged[h] + SumFunctionOnSet(LogOwed(h), Procs) = hold[h].settled
    BY DEF Books, LogFollowsSettlement
  <2>4. /\ logged'[h] + LogDue(job'[p], h) <= logged[h] + LogDue(job[p], h)
        /\ faults' = 0 => logged'[h] + LogDue(job'[p], h) = logged[h] + LogDue(job[p], h)
    OBVIOUS
  <2> QED BY <2>1, <2>2, <2>3, <2>4
<1>3. TokenFollowsWallet'
  <2> SUFFICES ASSUME faults' = 0, NEW u \in Users
               PROVE  token'[u] + SumFunctionOnSet(TokenOwed(u)', Procs)
                        + SumFunctionOnSet(TakenBy(u)', Holds) = InitToken[u]
    BY DEF TokenFollowsWallet
  <2>0. LoginsStay
    BY DEF LoginsStay
  <2>1. /\ token[u] \in Int /\ token'[u] \in Int /\ InitToken[u] \in Int
        /\ TokenDue(hold, job[p], u) \in Int /\ TokenDue(hold, job'[p], u) \in Int
    BY ComputeHoldAssumption DEF IInv, TypeOK, TokenDue, Job, ComputeHoldAssumption
  <2>2. /\ SumFunctionOnSet(TokenOwed(u)', Procs)
              = SumFunctionOnSet(TokenOwed(u), Procs)
                  + TokenDue(hold, job'[p], u) - TokenDue(hold, job[p], u)
        /\ SumFunctionOnSet(TokenOwed(u)', Procs) \in Int
        /\ SumFunctionOnSet(TokenOwed(u), Procs) \in Int
    BY <2>0, TokenOwedChanges
  <2>3. TakenBy(u)' = TakenBy(u)
    BY DEF TakenBy, Taken
  <2>4. token[u] + SumFunctionOnSet(TokenOwed(u), Procs)
          + SumFunctionOnSet(TakenBy(u), Holds) = InitToken[u]
    BY DEF Books, TokenFollowsWallet
  <2>5. token'[u] + TokenDue(hold, job'[p], u) = token[u] + TokenDue(hold, job[p], u)
    OBVIOUS
  <2>6. SumFunctionOnSet(TakenBy(u), Holds) \in Int
    <3>1. IsFiniteSet(Holds)
      BY ComputeHoldAssumption DEF ComputeHoldAssumption
    <3>2. \A h \in Holds : TakenBy(u)[h] \in Int
      BY DEF TakenBy, Taken, IInv, TypeOK, Row
    <3> QED BY <3>1, <3>2, SumInt
  <2> QED BY <2>1, <2>2, <2>3, <2>4, <2>5, <2>6
<1> QED BY <1>1, <1>2, <1>3 DEF Books

\* A process that owed nothing and owes nothing.
LEMMA QuietKeepsBooks ==
  ASSUME IInv, IInv', Books, NEW p \in Procs, \A q \in Procs \ {p} : job'[q] = job[q],
         job[p].pc # "after", job'[p].pc # "after",
         UNCHANGED <<hold, settlements, extensions, wallet, token, logged, faults>>
  PROVE  Books'
<1>1. /\ \A h \in Holds : LogDue(job'[p], h) = 0 /\ LogDue(job[p], h) = 0
      /\ \A u \in Users : TokenDue(hold, job'[p], u) = 0 /\ TokenDue(hold, job[p], u) = 0
  BY DEF LogDue, TokenDue
<1>2. \A h \in Holds : logged[h] \in Int
  BY DEF IInv, TypeOK
<1> QED BY <1>1, <1>2, JobKeepsBooks

\* What is owed is paid, or lost to a fault.
LEMMA PaymentKeepsBooks ==
  ASSUME IInv, IInv', Books, NEW p \in Procs,
         \/ AdjustComputeTokenQuota(p) \/ TokenQuotaNotAdjusted(p)
         \/ RecordComputeConsumption(p) \/ Crash(p)
  PROVE  Books'
<1> DEFINE j == job[p]
<1>1. /\ j \in Job /\ faults \in Nat /\ logged \in [Holds -> Nat] /\ token \in [Users -> Int]
      /\ job \in [Procs -> Job]
      /\ j.pc = "after" => j.hold \in Holds /\ hold[j.hold].user \in Users
  BY DEF IInv, TypeOK, JobsGrounded, Grounded
<1>2. /\ UNCHANGED <<hold, settlements, extensions, wallet>>
      /\ \A q \in Procs \ {p} : job'[q] = job[q]
  BY <1>1 DEF AdjustComputeTokenQuota, TokenQuotaNotAdjusted, RecordComputeConsumption, Crash,
              dbVars
<1>3. \A h \in Holds : LogDue(IdleJob, h) = 0 /\ LogDue(After(j, 0, j.log), h) = IF j.hold = h THEN j.log ELSE 0
  BY DEF LogDue, After, IdleJob
<1>4. \A u \in Users : TokenDue(hold, IdleJob, u) = 0 /\ TokenDue(hold, After(j, 0, j.log), u) = 0
  BY DEF TokenDue, After, IdleJob
<1>5. \A h \in Holds : LogDue(j, h) \in Nat
  BY <1>1 DEF LogDue, Job
<1>6. CASE AdjustComputeTokenQuota(p)
  <2>1. /\ j.pc = "after" /\ job'[p] = After(j, 0, j.log)
        /\ UNCHANGED <<logged, faults>>
        /\ token' = [token EXCEPT ![hold[j.hold].user] = @ + j.token]
    BY <1>1, <1>6 DEF AdjustComputeTokenQuota
  <2>2. \A h \in Holds : LogDue(job'[p], h) = LogDue(j, h)
    BY <1>3, <2>1 DEF LogDue
  <2>3. \A u \in Users : token'[u] + TokenDue(hold, job'[p], u) = token[u] + TokenDue(hold, j, u)
    BY <1>1, <1>4, <2>1 DEF TokenDue, Job
  <2>4. \A h \in Holds : logged[h] + LogDue(j, h) \in Int
    BY <1>1, <1>5
  <2> QED BY <1>2, <2>1, <2>2, <2>3, <2>4, JobKeepsBooks
<1>7. CASE TokenQuotaNotAdjusted(p)
  <2>1. /\ j.pc = "after" /\ job'[p] = After(j, 0, j.log) /\ UNCHANGED logged
        /\ faults' = faults + 1
    BY <1>1, <1>7 DEF TokenQuotaNotAdjusted
  <2>2. \A h \in Holds : LogDue(job'[p], h) = LogDue(j, h)
    BY <1>3, <2>1 DEF LogDue
  <2>3. faults' # 0
    BY <1>1, <2>1
  <2>4. \A h \in Holds : logged[h] + LogDue(j, h) \in Int
    BY <1>1, <1>5
  <2> QED BY <1>2, <2>1, <2>2, <2>3, <2>4, JobKeepsBooks
<1>8. CASE RecordComputeConsumption(p)
  <2>1. /\ j.pc = "after" /\ j.token = 0 /\ job'[p] = IdleJob /\ UNCHANGED <<token, faults>>
        /\ logged' = [logged EXCEPT ![j.hold] = @ + j.log]
    BY <1>1, <1>8 DEF RecordComputeConsumption
  <2>2. \A h \in Holds : logged'[h] + LogDue(job'[p], h) = logged[h] + LogDue(j, h)
    BY <1>1, <1>3, <2>1 DEF LogDue, Job
  <2>3. \A u \in Users : TokenDue(hold, job'[p], u) = TokenDue(hold, j, u)
    BY <1>4, <2>1 DEF TokenDue
  <2>4. \A h \in Holds : logged[h] + LogDue(j, h) \in Int
    BY <1>1, <1>5
  <2> QED BY <1>2, <2>1, <2>2, <2>3, <2>4, JobKeepsBooks
<1>9. CASE Crash(p)
  <2>1. job'[p] = IdleJob /\ UNCHANGED logged /\ faults' = faults + 1
    BY <1>1, <1>9 DEF Crash
  <2>2. faults' # 0
    BY <1>1, <2>1
  <2>3. \A h \in Holds : logged'[h] + LogDue(job'[p], h) <= logged[h] + LogDue(j, h)
    BY <1>1, <1>3, <1>5, <2>1
  <2> QED BY <1>2, <2>2, <2>3, JobKeepsBooks
<1> QED BY <1>6, <1>7, <1>8, <1>9

\* A move of a login carries a balance from one wallet to another.
LEMMA MoveKeepsBooks ==
  ASSUME IInv, IInv', Books, NEW u \in Users, NEW w \in Wallets, ReattachWallet(u, w)
  PROVE  Books'
<1>1. /\ UNCHANGED <<hold, settlements, extensions, token, logged, job, faults>>
      /\ member[u] \in Wallets /\ w # member[u] /\ wallet \in [Wallets -> Int]
  BY DEF ReattachWallet, IInv, TypeOK
<1> DEFINE carried == IF Alone(u) THEN wallet[member[u]] ELSE 0
<1>2. wallet' = [wallet EXCEPT ![member[u]] = @ - carried, ![w] = @ + carried]
  BY DEF ReattachWallet
<1>3. carried \in Int
  BY <1>1
<1> HIDE DEF carried
<1>4. /\ \A x \in Wallets : wallet[x] \in Int /\ wallet'[x] \in Int
      /\ \A x \in Wallets \ {member[u], w} : wallet'[x] = wallet[x]
      /\ wallet'[member[u]] + wallet'[w] = wallet[member[u]] + wallet[w]
  BY <1>1, <1>2, <1>3
<1>5. IsFiniteSet(Wallets)
  BY ComputeHoldAssumption DEF ComputeHoldAssumption
<1>6. SumFunctionOnSet(wallet', Wallets) = SumFunctionOnSet(wallet, Wallets)
  BY <1>1, <1>4, <1>5, SumMove
<1>7. QuotaConserved'
  BY <1>1, <1>6 DEF Books, QuotaConserved, Taken
<1>8. TablesExplainHold' /\ LogFollowsSettlement' /\ TokenFollowsWallet'
  BY <1>1 DEF Books, TablesExplainHold, Settled, Extended, LogFollowsSettlement, LogOwed,
              TokenFollowsWallet, TokenOwed, TakenBy, Taken
<1> QED BY <1>1, <1>7, <1>8 DEF Books

-----------------------------------------------------------------------------
(* Commits *)

\* A commit that moves a wallet by t leaves the token to be moved by t, and one
\* that settles l more leaves l to be logged.
LEMMA CommitKeepsBooks ==
  ASSUME IInv, IInv', Books, NEW p \in Procs, job[p].pc # "after", job[p].hold \in Holds,
         NEW t \in Int, NEW l \in Nat, SetJob(p, After(job[p], t, l)),
         NEW w \in Wallets, wallet' = [wallet EXCEPT ![w] = @ + t],
         \A g \in Holds \ {job[p].hold} : hold'[g] = hold[g],
         \/ hold[job[p].hold] = NoRow
         \/ hold'[job[p].hold].user = hold[job[p].hold].user,
         Taken'[job[p].hold] = Taken[job[p].hold] - t,
         hold'[job[p].hold].settled = hold[job[p].hold].settled + l
  PROVE  QuotaConserved' /\ LogFollowsSettlement' /\ TokenFollowsWallet'
<1> DEFINE h == job[p].hold
           k == After(job[p], t, l)
<1>0. /\ job' = [job EXCEPT ![p] = k] /\ job \in [Procs -> Job]
      /\ UNCHANGED <<token, logged, faults>>
      /\ hold \in [Holds -> Row] /\ hold' \in [Holds -> Row] /\ wallet \in [Wallets -> Int]
  BY DEF SetJob, IInv, TypeOK
<1>1. (\A q \in Procs \ {p} : job'[q] = job[q]) /\ job'[p] = k
  BY <1>0
<1>2. LoginsStay
  BY DEF LoginsStay, NoRow
<1>3. Taken[h] \in Int /\ Taken'[h] \in Int
  BY <1>0 DEF Taken, Row
<1>4. QuotaConserved'
  <2>1. /\ SumFunctionOnSet(Taken', Holds) = SumFunctionOnSet(Taken, Holds) + Taken'[h] - Taken[h]
        /\ SumFunctionOnSet(Taken', Holds) \in Int /\ SumFunctionOnSet(Taken, Holds) \in Int
    BY TakenChanges
  <2>2. /\ \A x \in Wallets : wallet[x] \in Int /\ wallet'[x] \in Int
        /\ \A x \in Wallets \ {w} : wallet'[x] = wallet[x]
        /\ wallet'[w] = wallet[w] + t
    BY <1>0
  <2>4. /\ SumFunctionOnSet(wallet', Wallets)
             = SumFunctionOnSet(wallet, Wallets) + wallet'[w] - wallet[w]
        /\ SumFunctionOnSet(wallet', Wallets) \in Int /\ SumFunctionOnSet(wallet, Wallets) \in Int
    <3> DEFINE e == wallet'
               f == wallet
    <3>1. /\ \A x \in Wallets : f[x] \in Int /\ e[x] \in Int
          /\ \A x \in Wallets \ {w} : e[x] = f[x]
      BY <2>2
    <3> HIDE DEF e, f
    <3>2. /\ SumFunctionOnSet(e, Wallets) = SumFunctionOnSet(f, Wallets) + e[w] - f[w]
          /\ SumFunctionOnSet(e, Wallets) \in Int /\ SumFunctionOnSet(f, Wallets) \in Int
      BY <3>1, WalletSumChanges
    <3> QED BY <3>2 DEF e, f
  <2>5. SumFunctionOnSet(wallet, Wallets) + SumFunctionOnSet(Taken, Holds)
          = SumFunctionOnSet(InitWallet, Wallets)
    BY DEF Books, QuotaConserved
  <2>6. wallet[w] \in Int /\ Taken'[h] = Taken[h] - t
    BY <2>2
  <2>7. SumFunctionOnSet(wallet', Wallets) + SumFunctionOnSet(Taken', Holds)
          = SumFunctionOnSet(InitWallet, Wallets)
    BY <1>3, <2>1, <2>2, <2>4, <2>5, <2>6
  <2> QED BY <2>7 DEF QuotaConserved
<1>5. LogFollowsSettlement'
  <2> SUFFICES ASSUME NEW g \in Holds
               PROVE  LET all == logged'[g] + SumFunctionOnSet(LogOwed(g)', Procs)
                      IN all <= hold'[g].settled /\ (faults' = 0 => all = hold'[g].settled)
    BY DEF LogFollowsSettlement
  <2>1. LogDue(job[p], g) = 0 /\ LogDue(k, g) = IF g = h THEN l ELSE 0
    BY DEF LogDue, After, IdleJob
  <2>2. /\ SumFunctionOnSet(LogOwed(g)', Procs)
              = SumFunctionOnSet(LogOwed(g), Procs) + LogDue(k, g) - LogDue(job[p], g)
        /\ SumFunctionOnSet(LogOwed(g), Procs) \in Int
    BY <1>1, LogOwedChanges
  <2>3. /\ logged[g] + SumFunctionOnSet(LogOwed(g), Procs) <= hold[g].settled
        /\ faults = 0 => logged[g] + SumFunctionOnSet(LogOwed(g), Procs) = hold[g].settled
    BY DEF Books, LogFollowsSettlement
  <2>4. hold'[g].settled = hold[g].settled + (IF g = h THEN l ELSE 0)
    BY <1>0 DEF Row
  <2>5. logged[g] \in Int /\ hold[g].settled \in Int
    BY DEF IInv, TypeOK, Row
  <2> HIDE DEF h, k
  <2> QED BY <1>0, <2>1, <2>2, <2>3, <2>4, <2>5
<1>6. TokenFollowsWallet'
  <2> SUFFICES ASSUME faults = 0, NEW u \in Users
               PROVE  token[u] + SumFunctionOnSet(TokenOwed(u)', Procs)
                        + SumFunctionOnSet(TakenBy(u)', Holds) = InitToken[u]
    BY <1>0 DEF TokenFollowsWallet
  <2>1. /\ TokenDue(hold, job[p], u) = 0
        /\ TokenDue(hold', k, u) = IF hold'[h].user = u THEN t ELSE 0
    BY DEF TokenDue, After, IdleJob
  <2>2. /\ SumFunctionOnSet(TokenOwed(u)', Procs)
              = SumFunctionOnSet(TokenOwed(u), Procs)
                  + TokenDue(hold', k, u) - TokenDue(hold, job[p], u)
        /\ SumFunctionOnSet(TokenOwed(u), Procs) \in Int
    BY <1>1, <1>2, TokenOwedChanges
  <2>3. /\ SumFunctionOnSet(TakenBy(u)', Holds)
             = SumFunctionOnSet(TakenBy(u), Holds) + TakenBy(u)'[h] - TakenBy(u)[h]
        /\ SumFunctionOnSet(TakenBy(u), Holds) \in Int
    BY TakenChanges
  <2>4. /\ TakenBy(u)[h] = IF hold[h].user = u THEN Taken[h] ELSE 0
        /\ TakenBy(u)'[h] = IF hold'[h].user = u THEN Taken'[h] ELSE 0
    BY DEF TakenBy
  <2>5. hold[h] = NoRow => Taken[h] = 0 /\ hold[h].user # u
    BY ComputeHoldAssumption DEF NoRow, Taken, ComputeHoldAssumption
  <2>6. TakenBy(u)'[h] - TakenBy(u)[h] = IF hold'[h].user = u THEN -t ELSE 0
    <3>1. CASE hold[h] = NoRow
      BY <1>3, <2>4, <2>5, <3>1
    <3>2. CASE hold'[h].user = hold[h].user
      BY <1>3, <2>4, <3>2
    <3> QED BY <3>1, <3>2
  <2>7. TakenBy(u)'[h] \in Int /\ TakenBy(u)[h] \in Int
    BY <1>3, <2>4
  <2>8. token[u] + SumFunctionOnSet(TokenOwed(u), Procs)
          + SumFunctionOnSet(TakenBy(u), Holds) = InitToken[u]
    BY DEF Books, TokenFollowsWallet
  <2>9. token[u] \in Int
    BY DEF IInv, TypeOK
  <2> HIDE DEF h, k
  <2>10. CASE hold'[h].user = u
    BY <2>1, <2>2, <2>3, <2>6, <2>7, <2>8, <2>9, <2>10
  <2>11. CASE hold'[h].user # u
    BY <2>1, <2>2, <2>3, <2>6, <2>7, <2>8, <2>9, <2>11
  <2> QED BY <2>10, <2>11
<1> QED BY <1>4, <1>5, <1>6

-----------------------------------------------------------------------------
(* The idempotency tables *)

\* What the tables say a hold has settled, and by how much it was extended.
DeltaSum(h) == SumFunctionOnSet([r \in Settled(h) |-> r.delta], Settled(h))
ExtensionSum(h) == SumFunctionOnSet([r \in Extended(h) |-> r.additional], Extended(h))

\* e says of S what f says of it, and something of one more element.
Grows(S, f, e, a) ==
  /\ IsFiniteSet(S) /\ a \notin S /\ e[a] \in Int
  /\ \A x \in S : f[x] \in Int /\ e[x] = f[x]

\* A sum grows by the element that is added.
LEMMA SumGrows ==
  ASSUME NEW S, NEW f, NEW e, NEW a, Grows(S, f, e, a)
  PROVE  SumFunctionOnSet(e, S \cup {a}) = SumFunctionOnSet(f, S) + e[a]
<1>1. IsFiniteSet(S) /\ a \notin S /\ \A x \in S \cup {a} : e[x] \in Int
  BY DEF Grows
<1>2. SumFunctionOnSet(e, S \cup {a}) = SumFunctionOnSet(e, S) + e[a]
  BY <1>1, SumInsert
<1>3. \A x \in S : f[x] \in Int /\ e[x] = f[x]
  BY DEF Grows
<1>4. SumFunctionOnSet(e, S) = SumFunctionOnSet(f, S)
  BY <1>1, <1>3, SumSame
<1> QED BY <1>2, <1>4

\* A settlement that is recorded for a hold adds its delta, and leaves what the
\* table says of other holds.
LEMMA SettlementRecorded ==
  ASSUME NEW r \in Settlement, r \notin settlements, settlements \subseteq Settlement,
         IsFiniteSet(settlements), settlements' = settlements \cup {r}
  PROVE  /\ IsFiniteSet(settlements')
         /\ \A h \in Holds : DeltaSum(h)' = DeltaSum(h) + (IF h = r.hold THEN r.delta ELSE 0)
<1>1. IsFiniteSet(settlements')
  BY FS_AddElement
<1>2. DeltaSum(r.hold)' = DeltaSum(r.hold) + r.delta
  <2> DEFINE S == Settled(r.hold)
             f == [x \in S |-> x.delta]
             e == [x \in S \cup {r} |-> x.delta]
  <2>1. IsFiniteSet(S) /\ r \notin S
    BY FS_Subset DEF Settled
  <2>2. Settled(r.hold)' = S \cup {r}
    BY DEF Settled
  <2>3. /\ \A x \in S : f[x] \in Int /\ e[x] = f[x]
        /\ e[r] = r.delta /\ r.delta \in Int
    BY DEF Settled, Settlement
  <2>4. DeltaSum(r.hold)' = SumFunctionOnSet(e, S \cup {r}) /\ DeltaSum(r.hold) = SumFunctionOnSet(f, S)
    BY <2>2 DEF DeltaSum
  <2> HIDE DEF S, e, f
  <2>5. Grows(S, f, e, r)
    BY <2>1, <2>3 DEF Grows
  <2>6. SumFunctionOnSet(e, S \cup {r}) = SumFunctionOnSet(f, S) + e[r]
    BY <2>5, SumGrows
  <2> QED BY <2>3, <2>4, <2>6
<1>3. \A h \in Holds \ {r.hold} : DeltaSum(h)' = DeltaSum(h) /\ DeltaSum(h) \in Int
  <2> TAKE h \in Holds \ {r.hold}
  <2>1. Settled(h)' = Settled(h)
    BY DEF Settled
  <2> DEFINE f == [x \in Settled(h) |-> x.delta]
  <2>2. IsFiniteSet(Settled(h)) /\ \A x \in Settled(h) : f[x] \in Int
    BY FS_Subset DEF Settled, Settlement
  <2>3. SumFunctionOnSet(f, Settled(h)) \in Int
    BY <2>2, SumInt
  <2> QED BY <2>1, <2>3 DEF DeltaSum
<1> QED BY <1>1, <1>2, <1>3

\* The same of an extension.
LEMMA ExtensionRecorded ==
  ASSUME NEW r \in Extension, r \notin extensions, extensions \subseteq Extension,
         IsFiniteSet(extensions), extensions' = extensions \cup {r}
  PROVE  /\ IsFiniteSet(extensions')
         /\ \A h \in Holds : ExtensionSum(h)' = ExtensionSum(h) + (IF h = r.hold THEN r.additional ELSE 0)
<1>1. IsFiniteSet(extensions')
  BY FS_AddElement
<1>2. ExtensionSum(r.hold)' = ExtensionSum(r.hold) + r.additional
  <2> DEFINE S == Extended(r.hold)
             f == [x \in S |-> x.additional]
             e == [x \in S \cup {r} |-> x.additional]
  <2>1. IsFiniteSet(S) /\ r \notin S
    BY FS_Subset DEF Extended
  <2>2. Extended(r.hold)' = S \cup {r}
    BY DEF Extended
  <2>3. /\ \A x \in S : f[x] \in Int /\ e[x] = f[x]
        /\ e[r] = r.additional /\ r.additional \in Int
    BY DEF Extended, Extension
  <2>4. /\ ExtensionSum(r.hold)' = SumFunctionOnSet(e, S \cup {r})
        /\ ExtensionSum(r.hold) = SumFunctionOnSet(f, S)
    BY <2>2 DEF ExtensionSum
  <2> HIDE DEF S, e, f
  <2>5. Grows(S, f, e, r)
    BY <2>1, <2>3 DEF Grows
  <2>6. SumFunctionOnSet(e, S \cup {r}) = SumFunctionOnSet(f, S) + e[r]
    BY <2>5, SumGrows
  <2> QED BY <2>3, <2>4, <2>6
<1>3. \A h \in Holds \ {r.hold} : ExtensionSum(h)' = ExtensionSum(h) /\ ExtensionSum(h) \in Int
  <2> TAKE h \in Holds \ {r.hold}
  <2>1. Extended(h)' = Extended(h)
    BY DEF Extended
  <2> DEFINE f == [x \in Extended(h) |-> x.additional]
  <2>2. IsFiniteSet(Extended(h)) /\ \A x \in Extended(h) : f[x] \in Int
    BY FS_Subset DEF Extended, Extension
  <2>3. SumFunctionOnSet(f, Extended(h)) \in Int
    BY <2>2, SumInt
  <2> QED BY <2>1, <2>3 DEF ExtensionSum
<1> QED BY <1>1, <1>2, <1>3

\* What the tables must say of a hold.
LEMMA TablesSay ==
  ASSUME TablesExplainHold, NEW h \in Holds
  PROVE  hold[h].settled = DeltaSum(h) /\ hold[h].quota = hold[h].requested + ExtensionSum(h)
  BY DEF TablesExplainHold, DeltaSum, ExtensionSum

\* What the tables say is a number.
LEMMA TableSums ==
  ASSUME IInv, Books, NEW h \in Holds
  PROVE  DeltaSum(h) \in Int /\ ExtensionSum(h) \in Int
<1>1. IsFiniteSet(Settled(h)) /\ IsFiniteSet(Extended(h))
  BY FS_Subset DEF Books, Settled, Extended
<1> DEFINE f == [r \in Settled(h) |-> r.delta]
           e == [r \in Extended(h) |-> r.additional]
<1>2. (\A r \in Settled(h) : f[r] \in Int) /\ (\A r \in Extended(h) : e[r] \in Int)
  BY DEF Settled, Extended, IInv, TypeOK, Settlement, Extension
<1> HIDE DEF e, f
<1>3. SumFunctionOnSet(f, Settled(h)) \in Int /\ SumFunctionOnSet(e, Extended(h)) \in Int
  BY <1>1, <1>2, SumInt
<1> QED BY <1>3 DEF DeltaSum, ExtensionSum, e, f

-----------------------------------------------------------------------------
(* The transactions *)

\* A created hold has no rows in the tables yet.
LEMMA CreateKeepsBooks ==
  ASSUME IInv, IInv', Books, NEW p \in Procs, CreateTx(p)
  PROVE  Books'
<1> DEFINE j == job[p]
           h == j.hold
<1>1. j \in Job /\ Grounded(hold, j) /\ j.pc = "write" /\ j.op = "create" /\ Committable(j)
  BY DEF IInv, TypeOK, JobsGrounded, CreateTx
<1>2. /\ j.hold \in Holds /\ j.entity \in Wallets /\ hold[j.hold].status = "none"
      /\ j.row = NewHold(j.row.user, j.row.quota, j.row.expires)
      /\ j.row.quota \in Int
  BY <1>1 DEF Grounded, Committable
<1>3. hold[h] = NoRow
  BY <1>2 DEF IInv, HoldAccounting
<1>4. /\ hold' = [hold EXCEPT ![h] = j.row]
      /\ SetJob(p, After(j, -j.row.quota, 0))
      /\ wallet' = [wallet EXCEPT ![j.entity] = @ - j.row.quota]
      /\ UNCHANGED <<settlements, extensions>>
  BY DEF CreateTx
<1>5. hold \in [Holds -> Row] /\ wallet \in [Wallets -> Int]
  BY DEF IInv, TypeOK
<1>6. hold'[h] = j.row /\ \A g \in Holds \ {h} : hold'[g] = hold[g]
  BY <1>2, <1>4, <1>5
<1>7. /\ j.row.settled = 0 /\ j.row.released = 0 /\ j.row.requested = j.row.quota
  BY <1>2 DEF NewHold
<1>8. NoRow.quota = 0 /\ NoRow.released = 0 /\ NoRow.settled = 0 /\ NoRow.requested = 0
  BY DEF NoRow
<1>9. QuotaConserved' /\ LogFollowsSettlement' /\ TokenFollowsWallet'
  <2> DEFINE t == -j.row.quota
  <2>1. t \in Int /\ 0 \in Nat
    BY <1>2
  <2>2. wallet' = [wallet EXCEPT ![j.entity] = @ + t]
    BY <1>2, <1>4, <1>5
  <2>3. Taken'[h] = Taken[h] - t /\ hold'[h].settled = hold[h].settled + 0
    BY <1>2, <1>3, <1>6, <1>7, <1>8 DEF Taken
  <2>4. SetJob(p, After(j, t, 0))
    BY <1>4
  <2> HIDE DEF t
  <2> QED BY <1>1, <1>2, <1>3, <1>6, <2>1, <2>2, <2>3, <2>4, CommitKeepsBooks
<1>10. TablesExplainHold'
  <2> SUFFICES ASSUME NEW g \in Holds
               PROVE  /\ hold'[g].settled = DeltaSum(g)'
                      /\ hold'[g].quota = hold'[g].requested + ExtensionSum(g)'
    BY DEF TablesExplainHold, DeltaSum, ExtensionSum
  <2>1. DeltaSum(g)' = DeltaSum(g) /\ ExtensionSum(g)' = ExtensionSum(g)
    BY <1>4 DEF DeltaSum, ExtensionSum, Settled, Extended
  <2>2. hold[g].settled = DeltaSum(g) /\ hold[g].quota = hold[g].requested + ExtensionSum(g)
    BY TablesSay DEF Books
  <2>3. ExtensionSum(g) \in Int
    BY TableSums
  <2> QED BY <1>2, <1>3, <1>6, <1>7, <1>8, <2>1, <2>2, <2>3
<1> QED BY <1>4, <1>9, <1>10 DEF Books

\* A settle records what it adds to the row, once per event.
LEMMA SettleKeepsBooks ==
  ASSUME IInv, IInv', Books, NEW p \in Procs, SettleTx(p)
  PROVE  Books'
<1> DEFINE j == job[p]
           h == j.hold
           r == hold[j.hold]
           delta == j.amount - j.row.settled
           back == Released(j, j.row)
           new == [r EXCEPT !.settled = j.amount,
                            !.status = IF j.final THEN "settled" ELSE @,
                            !.released = IF j.final THEN back ELSE @]
           record == [event |-> j.id, hold |-> j.hold, cumulative |-> j.amount,
                      delta |-> delta, final |-> j.final]
<1>1. /\ j.pc = "write" /\ j.op = "settle" /\ Committable(j)
      /\ hold' = [hold EXCEPT ![j.hold] = new]
      /\ settlements' = settlements \cup {record}
      /\ wallet' = [wallet EXCEPT ![j.entity] = @ + back]
      /\ SetJob(p, After(j, back, delta))
      /\ UNCHANGED extensions
  <2>1. hold' = [hold EXCEPT ![j.hold] = new]
    BY DEF SettleTx, IInv, TypeOK
  <2> QED BY <2>1 DEF SettleTx
<1>2. /\ j \in Job /\ h \in Holds /\ j.entity \in Wallets /\ RowOK(r)
      /\ r.status = "active" /\ r.released = 0
      /\ r.quota = j.row.quota /\ r.settled = j.row.settled /\ Admits(j, j.row)
  BY <1>1, CasCarries DEF Committable
<1>3. /\ j.row.settled <= j.amount /\ j.amount <= j.row.quota /\ j.id \in Events
      /\ j.amount \in Nat /\ j.final \in BOOLEAN /\ j.row \in Row /\ ~EventSeen(j.id)
  BY <1>1, <1>2 DEF Admits, Grounded, IInv, JobsGrounded, Job, Committable
<1>4. delta \in Nat /\ back \in Nat /\ back = IF j.final THEN r.quota - j.amount ELSE 0
  BY <1>1, <1>2, <1>3 DEF Released, Row
<1>5. hold \in [Holds -> Row] /\ settlements \subseteq Settlement /\ r \in Row
  BY <1>2 DEF IInv, TypeOK
<1>6. /\ new.settled = r.settled + delta /\ new.quota = r.quota
      /\ new.requested = r.requested /\ new.user = r.user
      /\ new.quota - new.released = r.quota - r.released - back
  BY <1>2, <1>3, <1>4, <1>5 DEF Row
<1>7. record \in Settlement /\ record \notin settlements
  BY <1>2, <1>3, <1>4 DEF Settlement, EventSeen
<1>8. record.hold = h /\ record.delta = delta
  OBVIOUS
<1> HIDE DEF new, record, delta, back
<1>9. hold'[h] = new /\ \A g \in Holds \ {h} : hold'[g] = hold[g]
  BY <1>1, <1>2, <1>5
<1>10. QuotaConserved' /\ LogFollowsSettlement' /\ TokenFollowsWallet'
  <2>1. Taken'[h] = Taken[h] - back /\ hold'[h].settled = hold[h].settled + delta
    BY <1>2, <1>6, <1>9 DEF Taken
  <2>2. back \in Int /\ hold'[h].user = hold[h].user /\ j.pc # "after"
    BY <1>1, <1>4, <1>6, <1>9
  <2> QED BY <1>1, <1>2, <1>4, <1>9, <2>1, <2>2, CommitKeepsBooks
<1>11. /\ IsFiniteSet(settlements')
       /\ \A g \in Holds : DeltaSum(g)' = DeltaSum(g) + (IF g = h THEN delta ELSE 0)
  BY <1>1, <1>5, <1>7, <1>8, SettlementRecorded DEF Books
<1>12. TablesExplainHold'
  <2> SUFFICES ASSUME NEW g \in Holds
               PROVE  /\ hold'[g].settled = DeltaSum(g)'
                      /\ hold'[g].quota = hold'[g].requested + ExtensionSum(g)'
    BY DEF TablesExplainHold, DeltaSum, ExtensionSum
  <2>1. ExtensionSum(g)' = ExtensionSum(g)
    BY <1>1 DEF ExtensionSum, Extended
  <2>2. hold[g].settled = DeltaSum(g) /\ hold[g].quota = hold[g].requested + ExtensionSum(g)
    BY TablesSay DEF Books
  <2>3. CASE g = h
    BY <1>6, <1>9, <1>11, <2>1, <2>2, <2>3
  <2>4. CASE g # h
    BY <1>5, <1>9, <1>11, <2>1, <2>2, <2>4 DEF Row
  <2> QED BY <2>3, <2>4
<1> QED BY <1>1, <1>10, <1>11, <1>12 DEF Books

\* An extension records what it adds to the quota, once per extend id.
LEMMA ExtendKeepsBooks ==
  ASSUME IInv, IInv', Books, NEW p \in Procs, ExtendTx(p)
  PROVE  Books'
<1> DEFINE j == job[p]
           h == j.hold
           r == hold[j.hold]
           new == [r EXCEPT !.quota = j.row.quota + j.amount]
           record == [id |-> j.id, hold |-> j.hold, additional |-> j.amount,
                      after |-> j.row.quota + j.amount]
           t == -j.amount
<1>1. /\ j.pc = "write" /\ j.op = "extend" /\ Committable(j)
      /\ hold' = [hold EXCEPT ![j.hold] = new]
      /\ extensions' = extensions \cup {record}
      /\ wallet' = [wallet EXCEPT ![j.entity] = @ - j.amount]
      /\ SetJob(p, After(j, -j.amount, 0))
      /\ UNCHANGED settlements
  <2>1. hold' = [hold EXCEPT ![j.hold] = new]
    BY DEF ExtendTx, IInv, TypeOK
  <2> QED BY <2>1 DEF ExtendTx
<1>2. /\ j \in Job /\ h \in Holds /\ j.entity \in Wallets /\ RowOK(r)
      /\ r.status = "active" /\ r.released = 0
      /\ r.quota = j.row.quota /\ r.settled = j.row.settled /\ Admits(j, j.row)
  BY <1>1, CasCarries DEF Committable
<1>3. /\ j.id \in Extends /\ j.amount \in Nat /\ j.row \in Row /\ ~ExtendSeen(j.id)
  BY <1>1, <1>2 DEF Grounded, IInv, JobsGrounded, Job, Committable
<1>4. /\ hold \in [Holds -> Row] /\ wallet \in [Wallets -> Int]
      /\ extensions \subseteq Extension /\ r \in Row
  BY <1>2 DEF IInv, TypeOK
<1>5. /\ new.settled = r.settled /\ new.quota = r.quota + j.amount
      /\ new.requested = r.requested /\ new.user = r.user
      /\ new.quota - new.released = r.quota - r.released - t
      /\ j.amount \in Int /\ t \in Int /\ r.settled \in Int /\ r.quota \in Int
      /\ r.requested \in Int
  BY <1>2, <1>3, <1>4 DEF Row
<1>6. record \in Extension /\ record \notin extensions
  BY <1>2, <1>3, <1>4 DEF Extension, ExtendSeen, Row
<1>7. record.hold = h /\ record.additional = j.amount
  OBVIOUS
<1>8. /\ wallet' = [wallet EXCEPT ![j.entity] = @ + t]
      /\ SetJob(p, After(j, t, 0))
  BY <1>1, <1>2, <1>4, <1>5
<1> HIDE DEF new, record, t
<1>9. hold'[h] = new /\ \A g \in Holds \ {h} : hold'[g] = hold[g]
  BY <1>1, <1>2, <1>4
<1>10. QuotaConserved' /\ LogFollowsSettlement' /\ TokenFollowsWallet'
  <2>1. Taken'[h] = Taken[h] - t /\ hold'[h].settled = hold[h].settled + 0
    BY <1>2, <1>5, <1>9 DEF Taken
  <2>2. t \in Int /\ 0 \in Nat /\ hold'[h].user = hold[h].user /\ j.pc # "after"
    BY <1>1, <1>5, <1>9
  <2> QED BY <1>2, <1>8, <1>9, <2>1, <2>2, CommitKeepsBooks
<1>11. /\ IsFiniteSet(extensions')
       /\ \A g \in Holds : ExtensionSum(g)' = ExtensionSum(g) + (IF g = h THEN j.amount ELSE 0)
  BY <1>1, <1>4, <1>6, <1>7, ExtensionRecorded DEF Books
<1>12. TablesExplainHold'
  <2> SUFFICES ASSUME NEW g \in Holds
               PROVE  /\ hold'[g].settled = DeltaSum(g)'
                      /\ hold'[g].quota = hold'[g].requested + ExtensionSum(g)'
    BY DEF TablesExplainHold, DeltaSum, ExtensionSum
  <2>1. DeltaSum(g)' = DeltaSum(g)
    BY <1>1 DEF DeltaSum, Settled
  <2>2. hold[g].settled = DeltaSum(g) /\ hold[g].quota = hold[g].requested + ExtensionSum(g)
    BY TablesSay DEF Books
  <2>3. ExtensionSum(g) \in Int
    BY TableSums
  <2>4. CASE g = h
    BY <1>5, <1>9, <1>11, <2>1, <2>2, <2>3, <2>4
  <2>5. CASE g # h
    BY <1>9, <1>11, <2>1, <2>2, <2>3, <2>5
  <2> QED BY <2>4, <2>5
<1> QED BY <1>1, <1>10, <1>11, <1>12 DEF Books

\* A release or an expiry returns what was not settled.
LEMMA CloseKeepsBooks ==
  ASSUME IInv, IInv', Books, NEW p \in Procs, NEW status \in {"released", "expired"},
         job[p].pc = "write", job[p].op \in {"release", "expire"}, CloseTx(p, status)
  PROVE  Books'
<1> DEFINE j == job[p]
           h == j.hold
           r == hold[j.hold]
           back == Released(j, j.row)
           new == [r EXCEPT !.status = status, !.released = back]
<1>1. /\ Committable(j)
      /\ hold' = [hold EXCEPT ![j.hold] = new]
      /\ wallet' = [wallet EXCEPT ![j.entity] = @ + back]
      /\ SetJob(p, After(j, back, 0))
      /\ UNCHANGED <<settlements, extensions>>
  <2>1. hold' = [hold EXCEPT ![j.hold] = new]
    BY DEF CloseTx, IInv, TypeOK
  <2> QED BY <2>1 DEF CloseTx
<1>2. /\ j \in Job /\ h \in Holds /\ j.entity \in Wallets /\ RowOK(r)
      /\ r.status = "active" /\ r.released = 0
      /\ r.quota = j.row.quota /\ r.settled = j.row.settled /\ Admits(j, j.row)
  BY <1>1, CasCarries DEF Committable
<1>3. back \in Nat /\ back = r.quota - r.settled
  BY <1>2 DEF Released, Remaining, RowOK, Row
<1>4. hold \in [Holds -> Row] /\ r \in Row
  BY <1>2 DEF IInv, TypeOK
<1>5. /\ new.settled = r.settled /\ new.quota = r.quota
      /\ new.requested = r.requested /\ new.user = r.user
      /\ new.quota - new.released = r.quota - r.released - back
      /\ r.settled \in Int
  BY <1>2, <1>3, <1>4 DEF Row
<1> HIDE DEF new, back
<1>6. hold'[h] = new /\ \A g \in Holds \ {h} : hold'[g] = hold[g]
  BY <1>1, <1>2, <1>4
<1>7. QuotaConserved' /\ LogFollowsSettlement' /\ TokenFollowsWallet'
  <2>1. Taken'[h] = Taken[h] - back /\ hold'[h].settled = hold[h].settled + 0
    BY <1>2, <1>5, <1>6 DEF Taken
  <2>2. back \in Int /\ 0 \in Nat /\ hold'[h].user = hold[h].user /\ j.pc # "after"
    BY <1>3, <1>5, <1>6
  <2> QED BY <1>1, <1>2, <1>6, <2>1, <2>2, CommitKeepsBooks
<1>8. TablesExplainHold'
  <2> SUFFICES ASSUME NEW g \in Holds
               PROVE  /\ hold'[g].settled = DeltaSum(g)'
                      /\ hold'[g].quota = hold'[g].requested + ExtensionSum(g)'
    BY DEF TablesExplainHold, DeltaSum, ExtensionSum
  <2>1. DeltaSum(g)' = DeltaSum(g) /\ ExtensionSum(g)' = ExtensionSum(g)
    BY <1>1 DEF DeltaSum, ExtensionSum, Settled, Extended
  <2>2. hold[g].settled = DeltaSum(g) /\ hold[g].quota = hold[g].requested + ExtensionSum(g)
    BY TablesSay DEF Books
  <2> QED BY <1>5, <1>6, <2>1, <2>2
<1> QED BY <1>1, <1>7, <1>8 DEF Books

-----------------------------------------------------------------------------
(* The theorems *)

\* The books balance at the start.
LEMMA InitBooks ==
  ASSUME Init
  PROVE  Books
<1>1. /\ IsFiniteSet(Holds) /\ IsFiniteSet(Wallets) /\ InitWallet \in [Wallets -> Nat]
      /\ InitToken \in [Users -> Nat]
  BY ComputeHoldAssumption DEF ComputeHoldAssumption
<1>2. \A h \in Holds : hold[h] = NoRow /\ logged[h] = 0 /\ Taken[h] = 0
  BY DEF Init, NoRow, Taken
<1>3. QuotaConserved
  <2>1. SumFunctionOnSet(Taken, Holds) = 0
    BY <1>1, <1>2, SumZero
  <2>2. SumFunctionOnSet(InitWallet, Wallets) \in Int
    <3>1. \A w \in Wallets : InitWallet[w] \in Int
      BY <1>1
    <3> QED BY <1>1, <3>1, SumInt
  <2> QED BY <2>1, <2>2 DEF Init, QuotaConserved
<1>4. IsFiniteSet({}) /\ settlements = {} /\ extensions = {}
  BY FS_EmptySet DEF Init
<1>5. TablesExplainHold
  <2> SUFFICES ASSUME NEW h \in Holds
               PROVE  /\ hold[h].settled = DeltaSum(h)
                      /\ hold[h].quota = hold[h].requested + ExtensionSum(h)
    BY DEF TablesExplainHold, DeltaSum, ExtensionSum
  <2>1. Settled(h) = {} /\ Extended(h) = {}
    BY <1>4 DEF Settled, Extended
  <2>2. DeltaSum(h) = 0 /\ ExtensionSum(h) = 0
    BY <2>1, SumEmpty DEF DeltaSum, ExtensionSum
  <2> QED BY <1>2, <2>2 DEF NoRow
<1>6. LogFollowsSettlement
  <2> SUFFICES ASSUME NEW h \in Holds
               PROVE  LET all == logged[h] + SumFunctionOnSet(LogOwed(h), Procs)
                      IN all <= hold[h].settled /\ (faults = 0 => all = hold[h].settled)
    BY DEF LogFollowsSettlement
  <2>1. \A p \in Procs : LogOwed(h)[p] = 0
    BY DEF Init, LogOwed, IdleJob
  <2>2. SumFunctionOnSet(LogOwed(h), Procs) = 0
    BY <2>1, ProcsFinite, SumZero
  <2> QED BY <1>2, <2>2 DEF NoRow
<1>7. TokenFollowsWallet
  <2> SUFFICES ASSUME NEW u \in Users
               PROVE  token[u] + SumFunctionOnSet(TokenOwed(u), Procs)
                        + SumFunctionOnSet(TakenBy(u), Holds) = InitToken[u]
    BY DEF TokenFollowsWallet
  <2>1. \A p \in Procs : TokenOwed(u)[p] = 0
    BY DEF Init, TokenOwed, IdleJob
  <2>2. SumFunctionOnSet(TokenOwed(u), Procs) = 0
    BY <2>1, ProcsFinite, SumZero
  <2>3. \A h \in Holds : TakenBy(u)[h] = 0
    BY <1>2 DEF TakenBy
  <2>4. SumFunctionOnSet(TakenBy(u), Holds) = 0
    BY <1>1, <2>3, SumZero
  <2> QED BY <1>1, <2>2, <2>4 DEF Init
<1> QED BY <1>3, <1>4, <1>5, <1>6, <1>7 DEF Books

\* No step unbalances the books.
LEMMA StepKeepsBooks ==
  ASSUME IInv, Books, [Next]_vars
  PROVE  Books'
<1>0. IInv'
  BY StepHolds, ComputeHoldAssumption
<1>1. ASSUME NEW p \in Procs, Step(p) \/ TokenQuotaNotAdjusted(p) \/ Crash(p)
      PROVE  Books'
  <2>1. CASE ResolveForCreate(p) \/ LockComputeHold(p) \/ Rollback(p)
    <3>1. job \in [Procs -> Job]
      BY DEF IInv, TypeOK
    <3>2. \E k : SetJob(p, k) /\ UNCHANGED dbVars /\ k.pc # "after" /\ job[p].pc # "after"
      <4>1. IdleJob.pc # "after" /\ job[p] \in Job
        BY <3>1 DEF IdleJob
      <4>2. CASE ResolveForCreate(p)
        BY <4>1, <4>2 DEF ResolveForCreate, Fail, Job
      <4>3. CASE LockComputeHold(p)
        BY <4>1, <4>3 DEF LockComputeHold, Fail, Job
      <4>4. CASE Rollback(p)
        BY <4>1, <4>4 DEF Rollback, Fail
      <4> QED BY <2>1, <4>2, <4>3, <4>4
    <3>3. /\ \A q \in Procs \ {p} : job'[q] = job[q]
          /\ job[p].pc # "after" /\ job'[p].pc # "after"
          /\ UNCHANGED <<hold, settlements, extensions, wallet, token, logged, faults>>
      BY <3>1, <3>2 DEF SetJob, dbVars
    <3> QED BY <1>0, <3>3, QuietKeepsBooks
  <2>2. CASE CreateTx(p) \/ SettleTx(p) \/ ExtendTx(p)
    BY <1>0, <2>2, CreateKeepsBooks, SettleKeepsBooks, ExtendKeepsBooks
  <2>3. CASE ReleaseTx(p) \/ ExpireTx(p)
    BY <1>0, <2>3, CloseKeepsBooks DEF ReleaseTx, ExpireTx
  <2>4. CASE \/ AdjustComputeTokenQuota(p) \/ TokenQuotaNotAdjusted(p)
             \/ RecordComputeConsumption(p) \/ Crash(p)
    BY <1>0, <2>4, PaymentKeepsBooks
  <2> QED BY <1>1, <2>1, <2>2, <2>3, <2>4 DEF Step
<1>2. ASSUME NEW p \in Procs, NEW j, job[p] = IdleJob, j.pc = "read",
             job' = [job EXCEPT ![p] = j],
             UNCHANGED <<hold, settlements, extensions, wallet, token, logged, faults>>
      PROVE  Books'
  <2>1. (\A q \in Procs \ {p} : job'[q] = job[q]) /\ job'[p] = j
    BY <1>2 DEF IInv, TypeOK
  <2>2. job[p].pc # "after" /\ job'[p].pc # "after"
    BY <1>2, <2>1 DEF IdleJob
  <2> QED BY <1>0, <1>2, <2>1, <2>2, QuietKeepsBooks
<1>3. ASSUME NEW p \in Handlers, Request(p)
      PROVE  Books'
  <2>1. p \in Procs
    BY DEF Procs
  <2>2. PICK j : Start(p, j) /\ j.pc = "read"
    <3> DEFINE Reads(j) == Start(p, j) /\ j.pc = "read"
    <3>1. ASSUME NEW h, NEW u, NEW q, NEW e, ComputeCreateHold(p, h, u, q, e)
          PROVE  \E j : Reads(j)
      <4> DEFINE k == [IdleJob EXCEPT !.pc = "read", !.op = "create", !.hold = h,
                                   !.now = clock, !.row = NewHold(u, q, e)]
      <4>1. k.pc = "read"
        BY DEF IdleJob
      <4>2. Start(p, k)
        BY <3>1 DEF ComputeCreateHold
      <4> HIDE DEF k
      <4> QED BY <4>1, <4>2
    <3>2. ASSUME NEW h, NEW id, NEW c, NEW f, ComputeSettleHold(p, h, id, c, f)
          PROVE  \E j : Reads(j)
      <4> DEFINE k == [IdleJob EXCEPT !.pc = "read", !.op = "settle", !.hold = h, !.id = id,
                                   !.amount = c, !.final = f, !.now = clock]
      <4>1. k.pc = "read"
        BY DEF IdleJob
      <4>2. Start(p, k)
        BY <3>2 DEF ComputeSettleHold
      <4> HIDE DEF k
      <4> QED BY <4>1, <4>2
    <3>3. ASSUME NEW h, NEW id, NEW q, ComputeExtendHold(p, h, id, q)
          PROVE  \E j : Reads(j)
      <4> DEFINE k == [IdleJob EXCEPT !.pc = "read", !.op = "extend", !.hold = h, !.id = id,
                                   !.amount = q, !.now = clock]
      <4>1. k.pc = "read"
        BY DEF IdleJob
      <4>2. Start(p, k)
        BY <3>3 DEF ComputeExtendHold
      <4> HIDE DEF k
      <4> QED BY <4>1, <4>2
    <3>4. ASSUME NEW h, ComputeReleaseHold(p, h)
          PROVE  \E j : Reads(j)
      <4> DEFINE k == [IdleJob EXCEPT !.pc = "read", !.op = "release", !.hold = h, !.now = clock]
      <4>1. k.pc = "read"
        BY DEF IdleJob
      <4>2. Start(p, k)
        BY <3>4 DEF ComputeReleaseHold
      <4> HIDE DEF k
      <4> QED BY <4>1, <4>2
    <3> HIDE DEF Reads
    <3>5. \E j : Reads(j)
      BY <1>3, <3>1, <3>2, <3>3, <3>4 DEF Request
    <3> QED BY <3>5 DEF Reads
  <2> QED BY <1>2, <2>1, <2>2 DEF Start, dbVars
<1>4. ASSUME NEW h \in Holds, SweepNext(h)
      PROVE  Books'
  <2> DEFINE j == [IdleJob EXCEPT !.pc = "read", !.op = "expire", !.hold = h, !.now = sweep.now]
  <2>1. Sweeper \in Procs /\ j.pc = "read"
    BY DEF Procs, IdleJob
  <2>2. /\ job[Sweeper] = IdleJob /\ job' = [job EXCEPT ![Sweeper] = j]
        /\ UNCHANGED <<hold, settlements, extensions, wallet, token, logged, faults>>
    BY <1>4 DEF SweepNext, dbVars
  <2> HIDE DEF j
  <2> QED BY <1>2, <2>1, <2>2
<1>5. CASE /\ UNCHANGED <<hold, settlements, extensions, wallet, token, logged, job, faults>>
  BY <1>5 DEF Books, QuotaConserved, TablesExplainHold, Settled, Extended, LogFollowsSettlement,
              LogOwed, TokenFollowsWallet, TokenOwed, TakenBy, Taken
<1>6. CASE SweepExpiredComputeHolds \/ Tick \/ UNCHANGED vars \/ \E u \in Users : DeleteUser(u)
  BY <1>5, <1>6 DEF SweepExpiredComputeHolds, Tick, vars, DeleteUser, dbVars
<1>7. CASE \E u \in Users, w \in Wallets : ReattachWallet(u, w)
  BY <1>0, <1>7, MoveKeepsBooks
<1> QED BY <1>1, <1>3, <1>4, <1>6, <1>7 DEF Next, SweepStep

LEMMA BooksBalance == Spec => []Books
<1>1. Init => Books
  BY InitBooks
<1>2. IInv /\ Books /\ [Next]_vars => Books'
  BY StepKeepsBooks
<1> QED BY <1>1, <1>2, Inductive, PTL DEF Spec

\* Whatever requests, sweeps, crashes and moves of logins interleave, wallets
\* and open holds together keep the quota they started with.
THEOREM BridgeConservesQuota == Spec => []QuotaConserved
  BY BooksBalance, PTL DEF Books

\* Retried and concurrent settles and extends reach the row once per id: the
\* idempotency tables add up to the row.
THEOREM TablesAddUp == Spec => []TablesExplainHold
  BY BooksBalance, PTL DEF Books

\* The consume log never reports more than was settled, and misses nothing
\* that is not still owed unless a process failed.
THEOREM LogAddsUp == Spec => []LogFollowsSettlement
  BY BooksBalance, PTL DEF Books

\* Unless a process failed, a token is down by what the holds of its login
\* took from the wallet and what is still owed to it.
THEOREM TokensAddUp == Spec => []TokenFollowsWallet
  BY BooksBalance, PTL DEF Books
=============================================================================
