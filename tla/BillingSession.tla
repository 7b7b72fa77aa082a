--------------------------- MODULE BillingSession ---------------------------
(***************************************************************************)
(* The billing session of a relayed request (service/billing_session.go,   *)
(* service/funding_source.go): it charges an estimate to the API token and *)
(* to a funding source, the wallet or a subscription, before the request   *)
(* is sent upstream, may reserve more while the request is retried, and    *)
(* ends in a settlement at the real price or in a refund that runs in a    *)
(* goroutine of its own (model/subscription.go, service/quota.go).         *)
(*                                                                         *)
(* Token and funding source are rows of different tables, changed by       *)
(* statements of their own: every statement is a step, requests interleave *)
(* between them, and each may answer                                       *)
(*   "refused"  the database did not take the connection: no effect, an    *)
(*              error IsConnectionClassError knows,                        *)
(*   "failed"   another error, no effect,                                  *)
(*   "lost"     it ran and its reply was lost: an effect and an error.     *)
(* A node may die between any two steps.                                   *)
(*                                                                         *)
(* All requests are of one user, with one wallet, one limited token and    *)
(* one subscription that has a total.  Balances are read where they are    *)
(* kept; that the reads come from a cache is the distance between reading  *)
(* and charging.  Promotional funding, the batch updater and the violation *)
(* fee are not modelled.                                                   *)
(***************************************************************************)
EXTENDS Integers, FiniteSets, Functions

CONSTANTS
    Requests,     \* the requests served
    Quotas,       \* the estimates and prices a request can have
    InitWallet,   \* the wallet at the start
    InitToken,    \* the token's remain_quota at the start
    SubTotal,     \* AmountTotal of the subscription
    TrustQuota,   \* GetTrustQuota
    MaxFaults     \* bound on errors, deaths of a node and resets together

ASSUME ConstantsAssumption ==
    /\ IsFiniteSet(Requests) /\ Quotas \subseteq Nat
    /\ InitWallet \in Nat /\ InitToken \in Nat
    /\ SubTotal \in Nat \ {0} /\ TrustQuota \in Nat
    /\ MaxFaults \in Nat

VARIABLES
    wallet,   \* the quota of the billing entity
    token,    \* remain_quota of the token
    used,     \* AmountUsed of the subscription
    req,      \* the requests and their sessions
    over,     \* history: charged to the wallet without looking at its balance
    unsure,   \* history: requests a return of which took effect and was taken for a failure
    faults,   \* errors and deaths so far
    resets    \* resets of the subscription so far

vars == <<wallet, token, used, req, over, unsure, faults, resets>>

Faults == {"refused", "failed", "lost"}
maxAttempts == 3

Pcs == {"idle", "wallet", "tokenRead", "tokenTake", "fund", "tokenBack",     \* NewBillingSession
        "sent", "reserve", "reserveRead", "reserveToken", "reserveBack",     \* Reserve
        "failing", "settleFund", "settleToken", "served",                    \* Settle
        "refund", "mark", "refundExtra", "refundToken",                      \* Refund
        "rejected", "refunded", "done", "dead"}
Ended == {"rejected", "refunded", "done", "dead"}

\* A request and its BillingSession.  then: the source still to be tried when
\* this one is short; effectiveQuota, delta, actualQuota, tries: locals of
\* preConsume, of Reserve and Settle, and of refundWithRetry, back at their
\* initial values where the function returns.  History: taken and
\* tokenTaken are what its statements have in fact taken, less what they gave
\* back; parked and tokenParked what it left to the settlement outbox; harmed
\* that an error it makes up for nowhere has hit it.
Request == [pc : Pcs, source : {"wallet", "subscription"},
            then : {"wallet", "subscription", "none"}, IsPlayground : BOOLEAN,
            quota : Nat, effectiveQuota : Nat, delta : Int, actualQuota : Nat, tries : Nat,
            preConsumedQuota : Nat, tokenConsumed : Nat, extraReserved : Nat,
            consumed : Nat, preConsumed : Nat, record : {"none", "consumed", "refunded"},
            trusted : BOOLEAN, fundingSettled : BOOLEAN, settled : BOOLEAN,
            refunded : BOOLEAN,
            taken : Int, tokenTaken : Int, parked : Int, tokenParked : Int,
            harmed : BOOLEAN]

Idle == [pc |-> "idle", source |-> "wallet", then |-> "none", IsPlayground |-> FALSE,
         quota |-> 0, effectiveQuota |-> 0, delta |-> 0, actualQuota |-> 0, tries |-> 0,
         preConsumedQuota |-> 0, tokenConsumed |-> 0, extraReserved |-> 0,
         consumed |-> 0, preConsumed |-> 0, record |-> "none",
         trusted |-> FALSE, fundingSettled |-> FALSE, settled |-> FALSE,
         refunded |-> FALSE,
         taken |-> 0, tokenTaken |-> 0, parked |-> 0, tokenParked |-> 0,
         harmed |-> FALSE]

Init ==
    /\ wallet = InitWallet /\ token = InitToken /\ used = 0
    /\ req = [r \in Requests |-> Idle]
    /\ over = 0 /\ unsure = {}
    /\ faults = 0 /\ resets = 0

---------------------------------------------------------------------------
(* Statements.  o is the answer: "ok", a fault, or "denied" where the        *)
(* statement's own condition fails.                                          *)

Answers == Faults \cup {"ok", "denied"}
Runs(o) == o \in {"ok", "lost"}
Amount(o, a) == IF Runs(o) THEN a ELSE 0

Answered(o) ==
    /\ o \in Faults => faults + resets < MaxFaults
    /\ faults' = IF o \in Faults THEN faults + 1 ELSE faults
    /\ UNCHANGED resets

NoStatement == UNCHANGED <<wallet, token, used, over, unsure, faults, resets>>
FundingUnchanged == UNCHANGED <<wallet, used, over, unsure>>

\* A return of r that gave the quota back although the session has to think it
\* did not, where a later statement may give it back once more.
Unsure(r, happened) == unsure' = IF happened THEN unsure \cup {r} ELSE unsure

\* Mutant: the balance seen before is trusted.
TryDecreaseUnguarded(a, o) ==
    /\ o # "denied"
    /\ wallet' = wallet - Amount(o, a)
    /\ UNCHANGED <<used, over>>

\* TryDecreaseUserQuota: takes a only from a wallet that holds it.
TryDecreaseUserQuota(a, o) ==
    /\ (o = "denied" => wallet < a) /\ (Runs(o) => wallet >= a)
    /\ wallet' = wallet - Amount(o, a)
    /\ UNCHANGED <<used, over>>

\* DecreaseUserQuota, and IncreaseUserQuota for a negative a: unconditional.
AdjustUserQuota(a, o) ==
    /\ o # "denied"
    /\ wallet' = wallet - Amount(o, a)
    /\ over' = IF a > 0 THEN over + Amount(o, a) ELSE over
    /\ UNCHANGED used

\* Mutant: the usage may go below 0.
NewUsedUnclamped(a) == used + a

\* PostConsumeUserSubscriptionDelta: adds the delta to the locked row, not
\* below 0, and is denied above the total.
NewUsed(a) == IF used + a < 0 THEN 0 ELSE used + a
PostConsumeUserSubscriptionDelta(a, o) ==
    /\ (o = "denied" => NewUsed(a) > SubTotal) /\ (Runs(o) => NewUsed(a) <= SubTotal)
    /\ used' = IF Runs(o) THEN NewUsed(a) ELSE used
    /\ UNCHANGED <<wallet, over>>

AdjustFunding(q, a, o) ==
    IF q.source = "wallet" THEN AdjustUserQuota(a, o)
                           ELSE PostConsumeUserSubscriptionDelta(a, o)

\* DecreaseTokenQuota, and IncreaseTokenQuota for a negative a.
AdjustToken(a, o) == o # "denied" /\ token' = token - Amount(o, a)

Goes(r, q) == req' = [req EXCEPT ![r] = q]

---------------------------------------------------------------------------
(* NewBillingSession and preConsume.                                        *)

\* A new session on a source: the wallet is looked at first, a subscription is
\* asked for 1 at least.
Try(q, source, then) ==
    [q EXCEPT !.source = source, !.then = then, !.tokenConsumed = 0,
              !.pc = IF source = "wallet" THEN "wallet" ELSE "tokenRead",
              !.effectiveQuota = IF source = "subscription" /\ q.quota = 0 THEN 1 ELSE q.quota]

\* The four billing preferences: one source only, or one and then the other.
PreConsumeBilling(r) ==
    /\ req[r].pc = "idle"
    /\ \E n \in Quotas, p \in BOOLEAN, s, t \in {"wallet", "subscription"} :
          Goes(r, Try([req[r] EXCEPT !.quota = n, !.IsPlayground = p], s,
                      IF s = t THEN "none" ELSE t))
    /\ NoStatement

Rejected(q) == [q EXCEPT !.pc = "rejected", !.quota = 0, !.effectiveQuota = 0,
                         !.then = "none"]

\* ErrorCodeInsufficientUserQuota: the next source, or the request is rejected.
Insufficient(q) == IF q.then = "none" THEN Rejected(q)
                                      ELSE Try(q, q.then, "none")

\* tryWallet looks at the balance.  shouldTrust, which depends on the token and
\* on ForcePreConsume too, lets a rich wallet go without a pre-charge.
TryWallet(r) == LET q == req[r] IN
    /\ q.pc = "wallet"
    /\ \/ /\ wallet <= 0 \/ wallet < q.quota
          /\ Goes(r, Insufficient(q))
       \/ /\ wallet > 0 /\ wallet >= q.quota
          /\ \E trust \in BOOLEAN :
                /\ trust => wallet > TrustQuota
                /\ Goes(r, [q EXCEPT !.pc = IF trust \/ q.quota = 0 THEN "fund" ELSE "tokenRead",
                                     !.trusted = trust,
                                     !.effectiveQuota = IF trust THEN 0 ELSE q.quota])
    /\ NoStatement

\* PreConsumeTokenQuota compares the token's remaining quota first ...
TokenRead(r) == LET q == req[r] IN
    /\ q.pc = "tokenRead"
    /\ Goes(r, IF q.IsPlayground
               THEN [q EXCEPT !.pc = "fund", !.tokenConsumed = q.effectiveQuota]
               ELSE IF token < q.effectiveQuota THEN Rejected(q)
               ELSE [q EXCEPT !.pc = "tokenTake"])
    /\ NoStatement

\* ... and decreases it without looking again.
TokenTake(r) == LET q == req[r] IN
    /\ q.pc = "tokenTake"
    /\ \E o \in Answers :
          /\ Answered(o) /\ AdjustToken(q.effectiveQuota, o)
          /\ LET p == [q EXCEPT !.tokenTaken = @ + Amount(o, q.effectiveQuota)] IN
             Goes(r, IF o = "ok"
                     THEN [p EXCEPT !.pc = "fund", !.tokenConsumed = q.effectiveQuota]
                     ELSE Rejected([p EXCEPT !.harmed = @ \/ Runs(o)]))
    /\ FundingUnchanged

\* PreConsumeUserSubscription: the record and the charge in one transaction.
PreConsumeUserSubscription(a, o) ==
    /\ (o = "denied" => SubTotal - used < a) /\ (Runs(o) => SubTotal - used >= a)
    /\ used' = used + Amount(o, a)
    /\ UNCHANGED <<wallet, over>>

\* Mutant: the token is not given its quota back.
FundingErrorKeepsToken(q) == Insufficient(q)

\* After a failure of the funding source the token gets its quota back, then
\* the next source is tried if the failure was a shortage.  A wallet that
\* turns out short here was not short when it was looked at: that is an error.
\* An error of the locking read of the subscriptions is reported as a shortage.
AfterFundingError(q) ==
    IF q.tokenConsumed > 0 /\ ~q.IsPlayground THEN [q EXCEPT !.pc = "tokenBack"]
    ELSE Insufficient(q)

Fund(r) == LET q == req[r] IN
    /\ q.pc = "fund"
    /\ \/ /\ q.source = "wallet" /\ q.effectiveQuota = 0
          /\ Goes(r, [q EXCEPT !.pc = "sent", !.quota = 0, !.then = "none"])
          /\ NoStatement
       \/ /\ q.source = "subscription" \/ q.effectiveQuota > 0
          /\ \E o \in Answers, short \in BOOLEAN :
                /\ Answered(o)
                /\ short => q.source = "subscription" /\ o \in {"denied", "failed"}
                /\ o = "denied" /\ q.source = "subscription" => short
                /\ IF q.source = "wallet" THEN TryDecreaseUserQuota(q.effectiveQuota, o)
                                          ELSE PreConsumeUserSubscription(q.effectiveQuota, o)
                /\ LET p == [q EXCEPT !.taken = @ + Amount(o, q.effectiveQuota),
                                      !.record = IF q.source = "subscription" /\ Runs(o)
                                                 THEN "consumed" ELSE @,
                                      !.harmed = @ \/ o = "lost"] IN
                   Goes(r, IF o = "ok"
                           THEN [p EXCEPT !.pc = "sent", !.quota = 0, !.effectiveQuota = 0,
                                          !.then = "none",
                                          !.preConsumedQuota = q.effectiveQuota,
                                          !.consumed = IF q.source = "wallet"
                                                       THEN q.effectiveQuota ELSE 0,
                                          !.preConsumed = IF q.source = "subscription"
                                                          THEN q.effectiveQuota ELSE 0]
                           ELSE AfterFundingError(
                                   [p EXCEPT !.then = IF short THEN @ ELSE "none"]))
          /\ UNCHANGED <<token, unsure>>

TokenBack(r) == LET q == req[r] IN
    /\ q.pc = "tokenBack"
    /\ \E o \in Answers :
          /\ Answered(o) /\ AdjustToken(-q.tokenConsumed, o)
          /\ Goes(r, Insufficient([q EXCEPT !.tokenTaken = @ - Amount(o, q.tokenConsumed),
                                            !.tokenConsumed = 0,
                                            !.harmed = @ \/ ~Runs(o)]))
    /\ FundingUnchanged

---------------------------------------------------------------------------
(* Reserve: a dearer group was selected for the next attempt.               *)

Reserve(r) == LET q == req[r] IN
    /\ q.pc = "sent"
    /\ ~q.settled /\ ~q.refunded /\ ~q.trusted
    /\ \E targetQuota \in Quotas :
          /\ targetQuota > q.preConsumedQuota
          /\ Goes(r, [q EXCEPT !.pc = "reserve", !.delta = targetQuota - q.preConsumedQuota])
    /\ NoStatement

\* Mutant: the wallet's share is not counted.
FundingReservedUncounted(q) == [q EXCEPT !.pc = "reserveRead"]

FundingReserved(q) == [q EXCEPT !.pc = "reserveRead",
                                !.consumed = IF q.source = "wallet" THEN @ + q.delta ELSE @]

ReserveFunding(r) == LET q == req[r] IN
    /\ q.pc = "reserve"
    /\ \E o \in Answers :
          /\ Answered(o) /\ AdjustFunding(q, q.delta, o)
          /\ LET p == [q EXCEPT !.taken = @ + Amount(o, q.delta), !.harmed = @ \/ o = "lost"] IN
             Goes(r, IF o # "ok" THEN [p EXCEPT !.pc = "failing", !.delta = 0]
                     ELSE FundingReserved(p))
    /\ UNCHANGED <<token, unsure>>

Reserved(q) == [q EXCEPT !.pc = "sent", !.delta = 0, !.preConsumedQuota = @ + q.delta,
                         !.tokenConsumed = @ + q.delta,
                         !.extraReserved = @ + q.delta]

ReserveRead(r) == LET q == req[r] IN
    /\ q.pc = "reserveRead"
    /\ Goes(r, IF q.IsPlayground THEN Reserved(q)
               ELSE [q EXCEPT !.pc = IF token < q.delta THEN "reserveBack" ELSE "reserveToken"])
    /\ NoStatement

ReserveToken(r) == LET q == req[r] IN
    /\ q.pc = "reserveToken"
    /\ \E o \in Answers :
          /\ Answered(o) /\ AdjustToken(q.delta, o)
          /\ LET p == [q EXCEPT !.tokenTaken = @ + Amount(o, q.delta)] IN
             Goes(r, IF o = "ok" THEN Reserved(p)
                     ELSE [p EXCEPT !.pc = "reserveBack", !.harmed = @ \/ Runs(o)])
    /\ FundingUnchanged

\* rollbackFundingReserve.  A wallet that did not get it back keeps it in
\* consumed, for a refund that only a charged token sets off.
RollbackFundingReserve(r) == LET q == req[r] IN
    /\ q.pc = "reserveBack"
    /\ \E o \in Answers :
          /\ Answered(o) /\ AdjustFunding(q, -q.delta, o)
          /\ Unsure(r, q.source = "wallet" /\ o = "lost")
          /\ Goes(r, [q EXCEPT !.pc = "failing", !.delta = 0,
                               !.taken = @ - Amount(o, q.delta),
                               !.consumed = IF q.source = "wallet" /\ o = "ok"
                                            THEN @ - q.delta ELSE @,
                               !.harmed = @ \/ IF q.source = "wallet"
                                               THEN o = "lost" \/ (o # "ok" /\ q.tokenConsumed = 0)
                                               ELSE ~Runs(o)])
    /\ UNCHANGED token

---------------------------------------------------------------------------
(* Settle: the response has been served.                                    *)

Settle(r) == LET q == req[r] IN
    /\ q.pc = "sent" /\ ~q.settled
    /\ \E n \in Quotas :
          LET p == [q EXCEPT !.actualQuota = n, !.delta = n - q.preConsumedQuota] IN
          Goes(r, IF p.delta = 0
                  THEN [p EXCEPT !.pc = "served", !.fundingSettled = TRUE, !.settled = TRUE]
                  ELSE [p EXCEPT !.pc = "settleFund"])
    /\ NoStatement

\* A refused charge of the wallet is parked with the token's share of it.
SettleFunding(r) == LET q == req[r] IN
    /\ q.pc = "settleFund"
    /\ \E o \in Answers :
          /\ Answered(o) /\ AdjustFunding(q, q.delta, o)
          /\ Unsure(r, q.delta < 0 /\ o = "lost")
          /\ LET p == [q EXCEPT !.taken = @ + Amount(o, q.delta), !.harmed = @ \/ o = "lost"] IN
             Goes(r, CASE o = "ok" ->
                            [p EXCEPT !.fundingSettled = TRUE,
                                      !.pc = IF q.IsPlayground THEN "served" ELSE "settleToken",
                                      !.delta = IF q.IsPlayground THEN 0 ELSE @,
                                      !.settled = q.IsPlayground]
                       [] o = "refused" /\ q.source = "wallet" ->
                            [p EXCEPT !.pc = "served", !.delta = 0, !.parked = q.delta,
                                      !.tokenParked = IF q.IsPlayground THEN 0 ELSE q.delta,
                                      !.fundingSettled = TRUE, !.settled = TRUE]
                       [] OTHER -> [p EXCEPT !.pc = "served", !.delta = 0])
    /\ UNCHANGED token

\* A refused adjustment of the token is parked, another failure is logged.
SettleToken(r) == LET q == req[r] IN
    /\ q.pc = "settleToken"
    /\ \E o \in Answers :
          /\ Answered(o) /\ AdjustToken(q.delta, o)
          /\ Goes(r, [q EXCEPT !.pc = "served", !.delta = 0, !.settled = TRUE,
                               !.tokenTaken = @ + Amount(o, q.delta),
                               !.tokenParked = IF o = "refused" THEN q.delta ELSE @,
                               !.harmed = @ \/ o = "failed"])
    /\ FundingUnchanged

\* The handler returns.
Finish(r) ==
    /\ req[r].pc = "served"
    /\ Goes(r, [req[r] EXCEPT !.pc = "done"])
    /\ NoStatement

---------------------------------------------------------------------------
(* Refund: the request failed, or (Midjourney) the handler returns at all.  *)

\* Mutant: a refund does not look at the settlement.
NeedsRefundUnchecked(q) ==
    /\ ~q.refunded
    /\ q.tokenConsumed > 0 \/ (q.source = "subscription" /\ q.preConsumed > 0)

NeedsRefund(q) ==
    /\ ~q.settled /\ ~q.refunded /\ ~q.fundingSettled
    /\ q.tokenConsumed > 0 \/ (q.source = "subscription" /\ q.preConsumed > 0)

\* What the goroutine has left to do after the funding source, and after the
\* reserve of a subscription.
AfterExtra(q) == IF q.tokenConsumed > 0 /\ ~q.IsPlayground THEN "refundToken" ELSE "refunded"
\* Mutant: the reserve of a subscription is not given back.
AfterFundingExtraForgotten(q) == AfterExtra(q)

AfterFunding(q) == IF q.extraReserved > 0 /\ q.source = "subscription"
                   THEN "refundExtra" ELSE AfterExtra(q)

Refund(r) == LET q == req[r] IN
    /\ q.pc \in {"sent", "failing", "served"}
    /\ Goes(r, IF NeedsRefund(q)
               THEN [q EXCEPT !.refunded = TRUE,
                              !.pc = IF q.source = "wallet" /\ q.consumed = 0
                                     THEN AfterFunding(q) ELSE "refund"]
               ELSE [q EXCEPT !.pc = "done"])
    /\ NoStatement

\* WalletFunding.Refund: one attempt, as it is not idempotent.
RefundWallet(r) == LET q == req[r] IN
    /\ q.pc = "refund" /\ q.source = "wallet"
    /\ \E o \in Answers :
          /\ Answered(o) /\ AdjustUserQuota(-q.consumed, o)
          /\ Goes(r, [q EXCEPT !.pc = AfterFunding(q),
                               !.taken = @ - Amount(o, q.consumed),
                               !.harmed = @ \/ ~Runs(o)])
    /\ UNCHANGED <<token, unsure>>

\* refundWithRetry: another attempt while there is one.
NextTry(q) == IF q.tries + 1 < maxAttempts
              THEN [q EXCEPT !.pc = "refund", !.tries = @ + 1]
              ELSE [q EXCEPT !.pc = AfterFunding(q), !.harmed = @ \/ q.record = "consumed"]

\* RefundSubscriptionPreConsume: nothing for a record marked refunded; else
\* the quota is given back in a transaction of its own ...
RefundSubscription(r) == LET q == req[r] IN
    /\ q.pc = "refund" /\ q.source = "subscription"
    /\ \/ /\ q.record = "refunded"
          /\ Goes(r, [q EXCEPT !.pc = AfterFunding(q)])
          /\ NoStatement
       \/ /\ q.record # "refunded"
          /\ \E o \in Answers :
                /\ Answered(o) /\ PostConsumeUserSubscriptionDelta(-q.preConsumed, o)
                /\ Unsure(r, o = "lost")
                /\ LET p == [q EXCEPT !.taken = @ - Amount(o, q.preConsumed),
                                      !.harmed = @ \/ o = "lost"] IN
                   Goes(r, IF o = "ok" THEN [p EXCEPT !.pc = "mark"] ELSE NextTry(p))
          /\ UNCHANGED token

\* ... and the record is marked when the enclosing one commits.
MarkRefunded(r) == LET q == req[r] IN
    /\ q.pc = "mark"
    /\ \E o \in Answers \ {"denied"} :
          /\ Answered(o)
          /\ Unsure(r, ~Runs(o))
          /\ LET p == [q EXCEPT !.record = IF Runs(o) THEN "refunded" ELSE @,
                                !.harmed = @ \/ ~Runs(o)] IN
             Goes(r, IF o = "ok" THEN [p EXCEPT !.pc = AfterFunding(q)] ELSE NextTry(p))
    /\ UNCHANGED <<wallet, token, used, over>>

RefundExtra(r) == LET q == req[r] IN
    /\ q.pc = "refundExtra"
    /\ \E o \in Answers :
          /\ Answered(o) /\ PostConsumeUserSubscriptionDelta(-q.extraReserved, o)
          /\ Goes(r, [q EXCEPT !.pc = AfterExtra(q),
                               !.taken = @ - Amount(o, q.extraReserved),
                               !.harmed = @ \/ ~Runs(o)])
    /\ UNCHANGED <<token, unsure>>

RefundToken(r) == LET q == req[r] IN
    /\ q.pc = "refundToken"
    /\ \E o \in Answers :
          /\ Answered(o) /\ AdjustToken(-q.tokenConsumed, o)
          /\ Goes(r, [q EXCEPT !.pc = "refunded",
                               !.tokenTaken = @ - Amount(o, q.tokenConsumed),
                               !.harmed = @ \/ ~Runs(o)])
    /\ FundingUnchanged

---------------------------------------------------------------------------
\* The node that serves a request, or runs its refund, dies.
Crash(r) ==
    /\ req[r].pc \notin Ended \cup {"idle"}
    /\ faults + resets < MaxFaults
    /\ faults' = faults + 1
    /\ Goes(r, [req[r] EXCEPT !.pc = "dead"])
    /\ UNCHANGED <<wallet, token, used, over, unsure, resets>>

\* ResetDueSubscriptions, or the reset before a pre-consume: a new period.
ResetSubscription ==
    /\ faults + resets < MaxFaults
    /\ resets' = resets + 1
    /\ used' = 0
    /\ UNCHANGED <<wallet, token, req, over, unsure, faults>>

Next ==
    \/ \E r \in Requests :
          \/ PreConsumeBilling(r) \/ TryWallet(r) \/ TokenRead(r) \/ TokenTake(r)
          \/ Fund(r) \/ TokenBack(r)
          \/ Reserve(r) \/ ReserveFunding(r) \/ ReserveRead(r) \/ ReserveToken(r)
          \/ RollbackFundingReserve(r)
          \/ Settle(r) \/ SettleFunding(r) \/ SettleToken(r) \/ Finish(r)
          \/ Refund(r) \/ RefundWallet(r) \/ RefundSubscription(r) \/ MarkRefunded(r)
          \/ RefundExtra(r) \/ RefundToken(r)
          \/ Crash(r)
    \/ ResetSubscription

Spec == Init /\ [][Next]_vars

---------------------------------------------------------------------------
(* Properties.                                                              *)

\* Types.  A rolled-back reserve never takes the wallet's share below zero
\* (consumed is a natural number), whatever failed before.
TypeOK ==
    /\ wallet \in Int /\ token \in Int /\ used \in Int
    /\ req \in [Requests -> Request]
    /\ over \in Nat /\ unsure \subseteq Requests
    /\ faults \in Nat /\ resets \in Nat /\ faults + resets <= MaxFaults

\* A refund, a rollback or a settlement that falls into a new period, or that
\* is repeated, does not make the subscription's usage negative, and requests
\* that settle above their estimate do not take it over its total.
SubscriptionStaysInPlan == used \in 0 .. SubTotal

\* Requests that race for a wallet they all saw funded do not overdraw it by
\* their pre-charges: what it owes was charged after the look at its balance,
\* for a response already served, a trusted wallet or a dearer group.
OverdraftIsServed == wallet + over >= 0

\* A request that ended has paid what its outcome says, from the funding
\* source and from the token alike: nothing when it was rejected or refunded,
\* the real price when it was settled (the outbox holding what it could not
\* write), and the reservation when its settlement was turned down.  That
\* covers every error of a charge that had no effect, and every retry and
\* return that worked.  It is not claimed of a harmed request: a charge ran and
\* its reply was lost, a return failed for good, or a wallet did not get a
\* reserve back whose session has charged no token and so is never refunded.
TokenShare(q, a) == IF q.IsPlayground THEN 0 ELSE a
EndedIsWhole ==
    \A r \in Requests : LET q == req[r] IN
        ~q.harmed =>
            /\ q.pc \in {"rejected", "refunded"} => q.taken = 0 /\ q.tokenTaken = 0
            /\ q.pc = "done" /\ q.settled =>
                  /\ q.taken + q.parked = q.actualQuota
                  /\ q.tokenTaken + q.tokenParked = TokenShare(q, q.actualQuota)
            /\ q.pc = "done" /\ ~q.settled =>
                  /\ q.taken = q.preConsumedQuota
                  /\ q.tokenTaken = TokenShare(q, q.preConsumedQuota)

\* At no point, a crash included and whatever charges were lost or returns
\* failed, has a request given back to the token more than it took, nor to the
\* funding source.  There the exception is a return the session could not know
\* of: a rollback of the wallet or a settlement below the reservation whose
\* reply was lost, or a refund of a subscription that was not marked.
NothingReturnedTwice ==
    \A r \in Requests : /\ req[r].tokenTaken >= 0
                        /\ r \notin unsure => req[r].taken >= 0

\* When every request has ended unharmed the accounts show exactly the
\* outcomes: concurrent sessions do not mix up their charges and returns.
Owed(q) == CASE q.pc = "done" /\ q.settled -> q.actualQuota - q.parked
             [] q.pc = "done" /\ ~q.settled -> q.preConsumedQuota
             [] OTHER -> 0
TokenOwed(q) == CASE q.pc = "done" /\ q.settled -> TokenShare(q, q.actualQuota) - q.tokenParked
                  [] q.pc = "done" /\ ~q.settled -> TokenShare(q, q.preConsumedQuota)
                  [] OTHER -> 0
Bills(source) == [r \in Requests |-> IF req[r].source = source THEN Owed(req[r]) ELSE 0]
TokenBills == [r \in Requests |-> TokenOwed(req[r])]
QuietBooks ==
    (\A r \in Requests : req[r].pc \in Ended \ {"dead"} /\ ~req[r].harmed) =>
        /\ wallet = InitWallet - SumFunctionOnSet(Bills("wallet"), Requests)
        /\ token = InitToken - SumFunctionOnSet(TokenBills, Requests)
        /\ resets = 0 => used = SumFunctionOnSet(Bills("subscription"), Requests)

\* "RefundSubscriptionPreConsume is idempotent": repeated, it gives a
\* request's pre-charge back once.
RefundIsIdempotent ==
    \A r \in Requests : req[r].source = "subscription" => req[r].taken >= 0
=============================================================================
