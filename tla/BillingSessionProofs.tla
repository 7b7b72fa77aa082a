------------------------ MODULE BillingSessionProofs ------------------------
(***************************************************************************)
(* Proofs about BillingSession, for every number of requests, all prices,  *)
(* balances and totals, and any number of errors, deaths and resets.  The  *)
(* accounts need two facts of their own (Accounts); everything else is a   *)
(* statement about one request by itself (Local): how much an unharmed     *)
(* session holds of the funding source and of the token at each point of   *)
(* its life, as its own counters have it.  That is the strengthening the   *)
(* outcome of a request needs.  What a harmed session may still give back  *)
(* needs another one (Covered): its counters never exceed what it took.    *)
(***************************************************************************)
EXTENDS BillingSession, SumTheorems, TLAPS

\* The session as preConsume left it, and between two reservations.
Kept(q) ==
    /\ q.tokenConsumed = q.preConsumedQuota
    /\ ~q.settled /\ ~q.fundingSettled /\ ~q.refunded
    /\ q.parked = 0 /\ q.tokenParked = 0
    /\ q.source = "wallet" => q.preConsumed = 0
    /\ q.source = "subscription" =>
          /\ q.preConsumed > 0 /\ q.record = "consumed"
          /\ q.preConsumed + q.extraReserved = q.preConsumedQuota

Holding(q) == q.tokenTaken = TokenShare(q, q.preConsumedQuota) /\ Kept(q)

\* What the session holds of its funding source is a, and a wallet session
\* has counted it.
Holds(q, a) == q.taken = a /\ (q.source = "wallet" => q.consumed = a)

\* The goroutine of a refund.
Refunding(q) ==
    /\ ~q.settled /\ ~q.fundingSettled /\ q.refunded
    /\ q.tokenTaken = TokenShare(q, q.tokenConsumed)

Fresh(q) ==
    /\ q.preConsumedQuota = 0 /\ q.extraReserved = 0 /\ q.consumed = 0 /\ q.preConsumed = 0
    /\ ~q.settled /\ ~q.fundingSettled /\ ~q.refunded
    /\ q.parked = 0 /\ q.tokenParked = 0

Before == {"idle", "wallet", "tokenRead", "tokenTake", "fund", "tokenBack"}

\* A request before and during its session ...
Opening(q) ==
    /\ q.pc \in Before => q.taken = 0 /\ Fresh(q)
    /\ q.pc \in {"idle", "wallet", "tokenRead", "tokenTake"} =>
          q.tokenTaken = 0 /\ q.tokenConsumed = 0
    /\ q.pc = "tokenRead" /\ q.source = "subscription" => q.effectiveQuota > 0
    /\ q.pc = "tokenTake" => ~q.IsPlayground
    /\ q.pc = "tokenTake" /\ q.source = "subscription" => q.effectiveQuota > 0
    /\ q.pc = "fund" => /\ q.tokenTaken = TokenShare(q, q.effectiveQuota)
                        /\ q.tokenConsumed = q.effectiveQuota
                        /\ q.source = "subscription" => q.effectiveQuota > 0
    /\ q.pc = "tokenBack" => q.tokenTaken = q.tokenConsumed
    /\ q.pc = "sent" => Holding(q) /\ Holds(q, q.preConsumedQuota)
    /\ q.pc = "reserve" => Holding(q) /\ Holds(q, q.preConsumedQuota)
    /\ q.pc \in {"reserveRead", "reserveToken", "reserveBack"} =>
          Holding(q) /\ Holds(q, q.preConsumedQuota + q.delta)
    /\ q.pc = "failing" =>
          /\ Holding(q)
          /\ q.source = "wallet" => /\ q.taken = q.consumed
                                    /\ q.taken = q.preConsumedQuota \/ q.tokenConsumed > 0
          /\ q.source = "subscription" => q.taken = q.preConsumedQuota

\* ... and at its end.
Closing(q) ==
    /\ q.pc = "settleFund" => /\ Holding(q) /\ Holds(q, q.preConsumedQuota)
                              /\ q.delta = q.actualQuota - q.preConsumedQuota
    /\ q.pc = "settleToken" =>
          /\ ~q.IsPlayground /\ ~q.settled /\ q.fundingSettled
          /\ q.taken = q.actualQuota /\ q.tokenTaken = q.preConsumedQuota
          /\ q.delta = q.actualQuota - q.preConsumedQuota
          /\ q.parked = 0 /\ q.tokenParked = 0
    /\ q.pc = "served" /\ ~q.settled => Holding(q) /\ Holds(q, q.preConsumedQuota)
    /\ q.pc \in {"served", "done"} /\ q.settled =>
          /\ q.taken + q.parked = q.actualQuota
          /\ q.tokenTaken + q.tokenParked = TokenShare(q, q.actualQuota)
    /\ q.pc = "done" /\ ~q.settled =>
          q.taken = q.preConsumedQuota /\ q.tokenTaken = TokenShare(q, q.preConsumedQuota)
    /\ q.pc \in {"refund", "mark", "refundExtra", "refundToken"} => Refunding(q)
    /\ q.pc = "refund" /\ q.source = "wallet" => q.taken = q.consumed
    /\ q.pc = "refund" /\ q.source = "subscription" =>
          /\ q.taken = (IF q.record = "refunded" THEN 0 ELSE q.preConsumed) + q.extraReserved
          /\ q.record # "none"
    /\ q.pc \in {"mark", "refundExtra"} => q.source = "subscription" /\ q.taken = q.extraReserved
    /\ q.pc = "mark" => q.record = "consumed"
    /\ q.pc = "refundToken" => ~q.IsPlayground /\ q.taken = 0
    /\ q.pc \in {"rejected", "refunded"} => q.taken = 0 /\ q.tokenTaken = 0

\* A reserve is positive, and a wallet session has counted it before the
\* token is asked: with or without harm.
Counted(q) ==
    /\ q.pc \in {"reserve", "reserveRead", "reserveToken", "reserveBack"} => q.delta > 0
    /\ q.pc \in {"reserveRead", "reserveToken", "reserveBack"} /\ q.source = "wallet" =>
          q.consumed >= q.delta
    /\ q.pc \in {"reserveToken", "reserveBack"} => ~q.IsPlayground
    /\ q.pc = "wallet" => q.source = "wallet"
    /\ q.pc = "mark" => q.source = "subscription"

Local(q) ==
    /\ q \in Request
    /\ Counted(q)
    /\ ~q.harmed => /\ Opening(q) /\ Closing(q)
                    /\ q.taken >= 0 /\ q.tokenTaken >= 0

Accounts ==
    /\ wallet \in Int /\ token \in Int /\ used \in 0 .. SubTotal /\ over \in Nat
    /\ wallet + over >= 0
    /\ faults \in Nat /\ resets \in Nat /\ faults + resets <= MaxFaults

IInv ==
    /\ Accounts
    /\ DOMAIN req = Requests
    /\ req = [r \in Requests |-> req[r]]
    /\ \A r \in Requests : Local(req[r])

-----------------------------------------------------------------------------
(* Steps.                                                                   *)

\* A step that keeps the accounts in order and gives request r a record that
\* is right by itself keeps the invariant.
LEMMA RequestStep ==
    ASSUME IInv, Accounts', NEW r \in Requests, NEW g, Goes(r, g), Local(g)
    PROVE  IInv'
  <1>1. DOMAIN req' = Requests /\ req' = [p \in Requests |-> req'[p]]
    BY DEF IInv, Goes
  <1>2. \A p \in Requests : req'[p] = IF p = r THEN g ELSE req[p]
    BY DEF IInv, Goes
  <1>3. \A p \in Requests : Local(req'[p])
    BY <1>2 DEF IInv
  <1> QED BY <1>1, <1>3 DEF IInv

\* A step without a statement leaves the accounts alone.
LEMMA QuietStep ==
    ASSUME IInv, NoStatement, NEW r \in Requests, NEW g, Goes(r, g), Local(g)
    PROVE  IInv'
  <1>1. Accounts'
    BY DEF IInv, NoStatement, Accounts
  <1> QED BY <1>1, RequestStep

USE DEF TokenShare

\* A session on a source the request has not been charged for.
LEMMA TryLocal ==
    ASSUME NEW q \in Request, ~q.harmed => q.taken = 0 /\ q.tokenTaken = 0 /\ Fresh(q),
           NEW source \in {"wallet", "subscription"},
           NEW then \in {"wallet", "subscription", "none"}
    PROVE  Local(Try(q, source, then))
  <1> DEFINE g == Try(q, source, then)
  <1> DEFINE pc == IF source = "wallet" THEN "wallet" ELSE "tokenRead"
  <1> DEFINE n == IF source = "subscription" /\ q.quota = 0 THEN 1 ELSE q.quota
  <1>a. pc \in Pcs /\ n \in Nat
    BY DEF Pcs, Request
  <1>b. g = [q EXCEPT !.source = source, !.then = then, !.tokenConsumed = 0,
                      !.pc = pc, !.effectiveQuota = n]
    BY DEF Try
  <1>1. g \in Request
    <2> HIDE DEF pc, n, g
    <2> QED BY <1>a, <1>b DEF Request
  <1> QED BY <1>1 DEF Try, Local, Counted, Opening, Closing, Fresh, Before, Request

USE DEF Runs, Amount

\* The accounts after a statement on the token ...
LEMMA TokenAccounts ==
    ASSUME Accounts, NEW a \in Int, NEW o \in Answers, Answered(o), AdjustToken(a, o),
           FundingUnchanged
    PROVE  Accounts'
  BY ConstantsAssumption DEF Accounts, Answered, AdjustToken, FundingUnchanged

\* ... an unconditional one on the wallet, which counts what it takes ...
LEMMA WalletAccounts ==
    ASSUME Accounts, NEW a \in Int, NEW o \in Answers, Answered(o), AdjustUserQuota(a, o),
           UNCHANGED token
    PROVE  Accounts'
  BY ConstantsAssumption DEF Accounts, Answered, AdjustUserQuota

\* ... on the subscription ...
LEMMA SubscriptionAccounts ==
    ASSUME Accounts, NEW a \in Int, NEW o \in Answers, Answered(o),
           PostConsumeUserSubscriptionDelta(a, o), UNCHANGED token
    PROVE  Accounts'
  BY ConstantsAssumption DEF Accounts, Answered, PostConsumeUserSubscriptionDelta, NewUsed

\* ... or on the funding source of a session ...
LEMMA FundingAccounts ==
    ASSUME Accounts, NEW q, NEW a \in Int, NEW o \in Answers, Answered(o),
           AdjustFunding(q, a, o), UNCHANGED token
    PROVE  Accounts'
  BY WalletAccounts, SubscriptionAccounts DEF AdjustFunding

\* ... and after the two pre-charges, which look before they take.
LEMMA PreConsumeAccounts ==
    ASSUME Accounts, NEW a \in Nat, NEW o \in Answers, Answered(o), UNCHANGED token,
           TryDecreaseUserQuota(a, o) \/ PreConsumeUserSubscription(a, o)
    PROVE  Accounts'
  BY ConstantsAssumption
     DEF Accounts, Answered, TryDecreaseUserQuota, PreConsumeUserSubscription

-----------------------------------------------------------------------------
(* NewBillingSession.                                                       *)

\* A rejected request that has given back what it took.
LEMMA RejectedLocal ==
    ASSUME NEW q \in Request, ~q.harmed => q.taken = 0 /\ q.tokenTaken = 0
    PROVE  Local(Rejected(q))
  <1> DEFINE g == Rejected(q)
  <1>1. g \in Request
    BY DEF Rejected, Request, Pcs
  <1> QED BY <1>1 DEF Rejected, Local, Counted, Opening, Closing, Before, Request

\* A source that is short.
LEMMA InsufficientLocal ==
    ASSUME NEW q \in Request, ~q.harmed => q.taken = 0 /\ q.tokenTaken = 0 /\ Fresh(q)
    PROVE  Local(Insufficient(q))
  <1>1. CASE q.then = "none"
    BY <1>1, RejectedLocal DEF Insufficient
  <1>2. CASE q.then # "none"
    <2>1. q.then \in {"wallet", "subscription"}
      BY <1>2 DEF Request
    <2> QED BY <1>2, <2>1, TryLocal DEF Insufficient
  <1> QED BY <1>1, <1>2

LEMMA PreConsumeBillingStep ==
    ASSUME IInv, NEW r \in Requests, PreConsumeBilling(r)
    PROVE  IInv'
  <1> DEFINE q == req[r]
  <1>1. Local(q) /\ q.pc = "idle" /\ q \in Request /\ NoStatement
    BY DEF IInv, PreConsumeBilling, Local
  <1>2. PICK n \in Quotas, p \in BOOLEAN, a \in {"wallet", "subscription"},
             t \in {"wallet", "subscription"} :
          Goes(r, Try([q EXCEPT !.quota = n, !.IsPlayground = p], a,
                      IF a = t THEN "none" ELSE t))
    BY DEF PreConsumeBilling
  <1> HIDE DEF q
  <1> DEFINE g == [q EXCEPT !.quota = n, !.IsPlayground = p]
  <1>n. n \in Nat
    BY ConstantsAssumption
  <1>3. g \in Request
    BY <1>1, <1>n DEF Request
  <1>4. ~g.harmed => g.taken = 0 /\ g.tokenTaken = 0 /\ Fresh(g)
    BY <1>1 DEF Local, Opening, Before, Fresh, Request
  <1> HIDE DEF g
  <1>5. Local(Try(g, a, IF a = t THEN "none" ELSE t))
    BY <1>3, <1>4, TryLocal
  <1> QED BY <1>1, <1>2, <1>5, QuietStep DEF g

LEMMA TryWalletStep ==
    ASSUME IInv, NEW r \in Requests, TryWallet(r)
    PROVE  IInv'
  <1> DEFINE q == req[r]
  <1>1. Local(q) /\ q.pc = "wallet" /\ q \in Request /\ NoStatement
    BY DEF IInv, TryWallet, Local
  <1>2. \/ Goes(r, Insufficient(q))
        \/ \E trust \in BOOLEAN :
              Goes(r, [q EXCEPT !.pc = IF trust \/ q.quota = 0 THEN "fund" ELSE "tokenRead",
                                !.trusted = trust,
                                !.effectiveQuota = IF trust THEN 0 ELSE q.quota])
    BY DEF TryWallet
  <1> HIDE DEF q
  <1>3. Local(Insufficient(q))
    BY <1>1, InsufficientLocal DEF Local, Opening, Before
  <1>4. ASSUME NEW trust \in BOOLEAN
        PROVE  Local([q EXCEPT !.pc = IF trust \/ q.quota = 0 THEN "fund" ELSE "tokenRead",
                               !.trusted = trust,
                               !.effectiveQuota = IF trust THEN 0 ELSE q.quota])
    <2> DEFINE pc == IF trust \/ q.quota = 0 THEN "fund" ELSE "tokenRead"
               n == IF trust THEN 0 ELSE q.quota
               g == [q EXCEPT !.pc = pc, !.trusted = trust, !.effectiveQuota = n]
    <2>1. /\ pc \in Pcs /\ pc \in {"fund", "tokenRead"} /\ n \in Nat
          /\ pc = "fund" => n = 0
      BY <1>1 DEF Pcs, Request
    <2> HIDE DEF pc, n
    <2>2. g \in Request
      BY <1>1, <2>1 DEF Request
    <2>3. q.source = "wallet"
      BY <1>1 DEF Local, Counted
    <2>4. Local(g)
      BY <1>1, <2>1, <2>2, <2>3 DEF Local, Counted, Opening, Closing, Fresh, Before, Request
    <2> QED BY <2>4 DEF pc, n
  <1> QED BY <1>1, <1>2, <1>3, <1>4, QuietStep

LEMMA TokenReadStep ==
    ASSUME IInv, NEW r \in Requests, TokenRead(r)
    PROVE  IInv'
  <1> DEFINE q == req[r]
             a == [q EXCEPT !.pc = "fund", !.tokenConsumed = q.effectiveQuota]
             b == [q EXCEPT !.pc = "tokenTake"]
  <1>1. Local(q) /\ q.pc = "tokenRead" /\ q \in Request /\ NoStatement
    BY DEF IInv, TokenRead, Local
  <1>2. Goes(r, IF q.IsPlayground THEN a
                ELSE IF token < q.effectiveQuota THEN Rejected(q) ELSE b)
    BY DEF TokenRead
  <1> HIDE DEF q
  <1>t. "fund" \in Pcs /\ "tokenTake" \in Pcs
    BY DEF Pcs
  <1>3. a \in Request /\ b \in Request
    BY <1>1, <1>t DEF Request
  <1>4. q.IsPlayground => Local(a)
    BY <1>1, <1>3 DEF Local, Counted, Opening, Closing, Fresh, Before, Request
  <1>5. ~q.IsPlayground => Local(b)
    BY <1>1, <1>3 DEF Local, Counted, Opening, Closing, Fresh, Before, Request
  <1>6. Local(Rejected(q))
    BY <1>1, RejectedLocal DEF Local, Opening, Before
  <1> HIDE DEF a, b
  <1> QED BY <1>1, <1>2, <1>4, <1>5, <1>6, QuietStep

LEMMA TokenTakeStep ==
    ASSUME IInv, NEW r \in Requests, TokenTake(r)
    PROVE  IInv'
  <1> DEFINE q == req[r]
  <1>1. Local(q) /\ q.pc = "tokenTake" /\ q \in Request /\ FundingUnchanged
    BY DEF IInv, TokenTake, Local
  <1>2. PICK o \in Answers :
          /\ Answered(o) /\ AdjustToken(q.effectiveQuota, o)
          /\ LET p == [q EXCEPT !.tokenTaken = @ + Amount(o, q.effectiveQuota)] IN
             Goes(r, IF o = "ok"
                     THEN [p EXCEPT !.pc = "fund", !.tokenConsumed = q.effectiveQuota]
                     ELSE Rejected([p EXCEPT !.harmed = @ \/ Runs(o)]))
    BY DEF TokenTake
  <1> HIDE DEF q
  <1>3. q.effectiveQuota \in Nat /\ "fund" \in Pcs
    BY <1>1 DEF Request, Pcs
  <1>4. Accounts'
    BY <1>1, <1>2, <1>3, TokenAccounts DEF IInv
  <1> DEFINE m == Amount(o, q.effectiveQuota)
             p == [q EXCEPT !.tokenTaken = @ + m]
             a == [p EXCEPT !.pc = "fund", !.tokenConsumed = q.effectiveQuota]
             h == p.harmed \/ Runs(o)
             b == [p EXCEPT !.harmed = h]
  <1>5. m \in Nat /\ (Runs(o) => m = q.effectiveQuota) /\ (~Runs(o) => m = 0)
    BY <1>3
  <1>g. Goes(r, IF o = "ok" THEN a ELSE Rejected(b))
    BY <1>2
  <1> HIDE DEF m
  <1>6. p \in Request /\ a \in Request
    <2>1. p \in Request
      BY <1>1, <1>5 DEF Request
    <2> HIDE DEF p
    <2> QED BY <1>3, <2>1 DEF Request
  <1>7. o = "ok" => Local(a)
    BY <1>1, <1>5, <1>6 DEF Local, Counted, Opening, Closing, Fresh, Before, Request
  <1>8. p.taken = q.taken /\ p.tokenTaken = q.tokenTaken + m /\ p.harmed = q.harmed
    BY <1>1 DEF Request
  <1> HIDE DEF p, a
  <1>9. h \in BOOLEAN
    BY DEF h
  <1> HIDE DEF h
  <1>10. b \in Request /\ b.taken = q.taken /\ b.tokenTaken = q.tokenTaken + m /\ b.harmed = h
    BY <1>6, <1>8, <1>9 DEF Request
  <1> HIDE DEF b
  <1>11. Local(Rejected(b))
    BY <1>1, <1>5, <1>8, <1>10, RejectedLocal DEF h, Local, Opening, Before, Request
  <1> QED BY <1>4, <1>g, <1>7, <1>11, RequestStep

\* The funding source has not been charged, and was the last one to be tried or
\* may have been short: the token's share goes back first.
LEMMA FundingErrorLocal ==
    ASSUME NEW q \in Request,
           ~q.harmed => /\ q.taken = 0 /\ Fresh(q)
                        /\ q.tokenTaken = TokenShare(q, q.tokenConsumed)
    PROVE  Local(AfterFundingError(q))
  <1>1. CASE q.tokenConsumed > 0 /\ ~q.IsPlayground
    <2> DEFINE g == [q EXCEPT !.pc = "tokenBack"]
    <2>1. g \in Request
      BY DEF Request, Pcs
    <2>2. q.tokenTaken \in Int /\ q.tokenConsumed \in Nat
      BY DEF Request
    <2>3. Local(g)
      BY <1>1, <2>1, <2>2 DEF Local, Counted, Opening, Closing, Before, Fresh, Request
    <2> QED BY <1>1, <2>3 DEF AfterFundingError
  <1>2. CASE ~(q.tokenConsumed > 0 /\ ~q.IsPlayground)
    <2>1. q.tokenConsumed \in Nat
      BY DEF Request
    <2>2. ~q.harmed => q.tokenTaken = 0
      BY <1>2, <2>1
    <2> QED BY <1>2, <2>2, InsufficientLocal DEF AfterFundingError
  <1> QED BY <1>1, <1>2

LEMMA FundStep ==
    ASSUME IInv, NEW r \in Requests, Fund(r)
    PROVE  IInv'
  <1> DEFINE q == req[r]
             Charged(o) == [q EXCEPT !.taken = @ + Amount(o, q.effectiveQuota),
                                     !.record = IF q.source = "subscription" /\ Runs(o)
                                                THEN "consumed" ELSE @,
                                     !.harmed = @ \/ o = "lost"]
             Opened(p) == [p EXCEPT !.pc = "sent", !.quota = 0, !.effectiveQuota = 0,
                                    !.then = "none",
                                    !.preConsumedQuota = q.effectiveQuota,
                                    !.consumed = IF q.source = "wallet"
                                                 THEN q.effectiveQuota ELSE 0,
                                    !.preConsumed = IF q.source = "subscription"
                                                    THEN q.effectiveQuota ELSE 0]
             Left(short, p) == [p EXCEPT !.then = IF short THEN @ ELSE "none"]
  <1>1. Local(q) /\ q.pc = "fund" /\ q \in Request
    BY DEF IInv, Fund, Local
  <1>2. \/ /\ q.source = "wallet" /\ q.effectiveQuota = 0
           /\ Goes(r, [q EXCEPT !.pc = "sent", !.quota = 0, !.then = "none"])
           /\ NoStatement
        \/ \E o \in Answers, short \in BOOLEAN :
              /\ Answered(o) /\ UNCHANGED token
              /\ IF q.source = "wallet" THEN TryDecreaseUserQuota(q.effectiveQuota, o)
                                        ELSE PreConsumeUserSubscription(q.effectiveQuota, o)
              /\ Goes(r, IF o = "ok" THEN Opened(Charged(o))
                         ELSE AfterFundingError(Left(short, Charged(o))))
    BY DEF Fund
  <1> HIDE DEF q
  <1>3. CASE /\ q.source = "wallet" /\ q.effectiveQuota = 0
             /\ Goes(r, [q EXCEPT !.pc = "sent", !.quota = 0, !.then = "none"])
             /\ NoStatement
    <2> DEFINE g == [q EXCEPT !.pc = "sent", !.quota = 0, !.then = "none"]
    <2>1. g \in Request
      BY <1>1 DEF Request, Pcs
    <2>2. Local(g)
      BY <1>1, <1>3, <2>1 DEF Local, Counted, Opening, Closing, Fresh, Before, Holding, Kept,
                              Holds, Request
    <2> QED BY <1>3, <2>2, QuietStep
  <1>4. ASSUME NEW o \in Answers, NEW short \in BOOLEAN, Answered(o), UNCHANGED token,
               IF q.source = "wallet" THEN TryDecreaseUserQuota(q.effectiveQuota, o)
                                      ELSE PreConsumeUserSubscription(q.effectiveQuota, o),
               Goes(r, IF o = "ok" THEN Opened(Charged(o))
                       ELSE AfterFundingError(Left(short, Charged(o))))
        PROVE  IInv'
    <2>n. q.effectiveQuota \in Nat /\ q.taken \in Int /\ q.harmed \in BOOLEAN
      BY <1>1 DEF Request
    <2>1. Accounts'
      BY <1>4, <2>n, PreConsumeAccounts DEF IInv
    <2> DEFINE t == q.taken + Amount(o, q.effectiveQuota)
               c == IF q.source = "subscription" /\ Runs(o) THEN "consumed" ELSE q.record
               h == q.harmed \/ o = "lost"
               p == [q EXCEPT !.taken = t, !.record = c, !.harmed = h]
    <2>2. /\ t \in Int /\ c \in {"none", "consumed", "refunded"} /\ h \in BOOLEAN
          /\ ~h => ~q.harmed /\ o # "lost"
          /\ o = "ok" => t = q.taken + q.effectiveQuota
          /\ o # "ok" /\ ~h => t = q.taken
          /\ o = "ok" /\ q.source = "subscription" => c = "consumed"
      <3>1. t \in Int /\ (o = "ok" => t = q.taken + q.effectiveQuota)
            /\ (o # "ok" /\ o # "lost" => t = q.taken)
        BY <2>n
      <3>2. c \in {"none", "consumed", "refunded"}
            /\ (o = "ok" /\ q.source = "subscription" => c = "consumed")
        BY <1>1 DEF Request
      <3>3. h \in BOOLEAN /\ (~h => ~q.harmed /\ o # "lost")
        OBVIOUS
      <3> HIDE DEF t, c, h
      <3> QED BY <3>1, <3>2, <3>3
    <2>g. Goes(r, IF o = "ok" THEN Opened(p) ELSE AfterFundingError(Left(short, p)))
      BY <1>4
    <2> HIDE DEF t, c, h
    <2>3. p \in Request
      BY <1>1, <2>2 DEF Request
    <2>4. o = "ok" => Local(Opened(p))
      <3> DEFINE w == IF q.source = "wallet" THEN q.effectiveQuota ELSE 0
                 z == IF q.source = "subscription" THEN q.effectiveQuota ELSE 0
                 g == [p EXCEPT !.pc = "sent", !.quota = 0, !.effectiveQuota = 0,
                                !.then = "none", !.preConsumedQuota = q.effectiveQuota,
                                !.consumed = w, !.preConsumed = z]
      <3>1. /\ w \in Nat /\ z \in Nat /\ "sent" \in Pcs
            /\ q.source = "wallet" => w = q.effectiveQuota /\ z = 0
            /\ q.source = "subscription" => z = q.effectiveQuota
        BY <2>n DEF Pcs
      <3>g. g = Opened(p)
        OBVIOUS
      <3> HIDE DEF w, z
      <3>2. g \in Request
        <4> HIDE DEF p
        <4> QED BY <2>n, <2>3, <3>1 DEF Request
      <3>3. /\ g.pc = "sent" /\ g.source = q.source /\ g.IsPlayground = q.IsPlayground
            /\ g.preConsumedQuota = q.effectiveQuota /\ g.consumed = w /\ g.preConsumed = z
            /\ g.tokenConsumed = q.tokenConsumed /\ g.extraReserved = q.extraReserved
            /\ g.settled = q.settled /\ g.fundingSettled = q.fundingSettled
            /\ g.refunded = q.refunded /\ g.parked = q.parked /\ g.tokenParked = q.tokenParked
            /\ g.taken = t /\ g.tokenTaken = q.tokenTaken /\ g.record = c /\ g.harmed = h
        BY <1>1 DEF Request
      <3>4. ~q.harmed => /\ q.taken = 0 /\ Fresh(q)
                         /\ q.tokenTaken = TokenShare(q, q.effectiveQuota)
                         /\ q.tokenConsumed = q.effectiveQuota
                         /\ q.source = "subscription" => q.effectiveQuota > 0
        BY <1>1 DEF Local, Opening, Before
      <3> HIDE DEF g, p
      <3>5. o = "ok" /\ ~g.harmed => Holding(g) /\ Holds(g, g.preConsumedQuota) /\ g.tokenTaken >= 0
        BY <2>n, <2>2, <3>1, <3>3, <3>4 DEF Holding, Kept, Holds, Fresh
      <3>6. o = "ok" => Local(g)
        BY <2>n, <3>2, <3>3, <3>5 DEF Local, Counted, Opening, Closing, Before, Holds
      <3> QED BY <3>6, <3>g
    <2>5. o # "ok" => Local(AfterFundingError(Left(short, p)))
      <3> DEFINE n == IF short THEN p.then ELSE "none"
                 g == [p EXCEPT !.then = n]
      <3>1. n \in {"wallet", "subscription", "none"}
        BY <2>3 DEF Request
      <3>g. g = Left(short, p)
        OBVIOUS
      <3> HIDE DEF n
      <3>2. g \in Request
        <4> HIDE DEF p
        <4> QED BY <2>3, <3>1 DEF Request
      <3>3. o # "ok" /\ ~g.harmed => /\ g.taken = 0 /\ Fresh(g)
                                     /\ g.tokenTaken = TokenShare(g, g.tokenConsumed)
        BY <1>1, <2>n, <2>2 DEF Local, Opening, Fresh, Before, Request
      <3> HIDE DEF g
      <3>4. o # "ok" => Local(AfterFundingError(g))
        BY <3>2, <3>3, FundingErrorLocal
      <3> QED BY <3>4, <3>g
    <2> HIDE DEF p, Opened, Left
    <2> QED BY <2>1, <2>g, <2>4, <2>5, RequestStep
  <1> QED BY <1>2, <1>3, <1>4

LEMMA TokenBackStep ==
    ASSUME IInv, NEW r \in Requests, TokenBack(r)
    PROVE  IInv'
  <1> DEFINE q == req[r]
  <1>1. Local(q) /\ q.pc = "tokenBack" /\ q \in Request /\ FundingUnchanged
    BY DEF IInv, TokenBack, Local
  <1>2. PICK o \in Answers :
          /\ Answered(o) /\ AdjustToken(-q.tokenConsumed, o)
          /\ Goes(r, Insufficient([q EXCEPT !.tokenTaken = @ - Amount(o, q.tokenConsumed),
                                            !.tokenConsumed = 0,
                                            !.harmed = @ \/ ~Runs(o)]))
    BY DEF TokenBack
  <1> HIDE DEF q
  <1>3. q.tokenConsumed \in Nat /\ q.tokenTaken \in Int
    BY <1>1 DEF Request
  <1>n. -q.tokenConsumed \in Int
    BY <1>3
  <1>4. Accounts'
    BY <1>1, <1>2, <1>n, TokenAccounts DEF IInv
  <1> DEFINE t == q.tokenTaken - Amount(o, q.tokenConsumed)
             h == q.harmed \/ ~Runs(o)
             g == [q EXCEPT !.tokenTaken = t, !.tokenConsumed = 0, !.harmed = h]
  <1>5. t \in Int /\ (Runs(o) => t = q.tokenTaken - q.tokenConsumed)
    BY <1>3
  <1>6. h \in BOOLEAN /\ (~h => ~q.harmed /\ Runs(o))
    OBVIOUS
  <1>g. Goes(r, Insufficient(g))
    BY <1>2
  <1> HIDE DEF t, h
  <1>7. g \in Request
    BY <1>1, <1>5, <1>6 DEF Request
  <1>8. ~g.harmed => g.taken = 0 /\ g.tokenTaken = 0 /\ Fresh(g)
    BY <1>1, <1>3, <1>5, <1>6 DEF Local, Opening, Before, Fresh, Request
  <1> HIDE DEF g
  <1>9. Local(Insufficient(g))
    BY <1>7, <1>8, InsufficientLocal
  <1> QED BY <1>4, <1>g, <1>9, RequestStep

-----------------------------------------------------------------------------
(* Reserve.                                                                 *)

\* A session that holds a of its funding source, by the place it is at.
LEMMA HoldingLocal ==
    ASSUME NEW g \in Request, Counted(g), NEW a \in Nat,
           ~g.harmed => Holding(g) /\ Holds(g, a),
           \/ g.pc \in {"sent", "reserve", "failing"} /\ a = g.preConsumedQuota
           \/ g.pc = "served" /\ ~g.settled /\ a = g.preConsumedQuota
           \/ /\ g.pc = "settleFund" /\ a = g.preConsumedQuota
              /\ g.delta = g.actualQuota - g.preConsumedQuota
           \/ g.pc = "reserveRead" /\ a = g.preConsumedQuota + g.delta
           \/ /\ g.pc \in {"reserveToken", "reserveBack"} /\ a = g.preConsumedQuota + g.delta
              /\ ~g.IsPlayground
    PROVE  Local(g)
  <1>1. g.preConsumedQuota \in Nat /\ g.source \in {"wallet", "subscription"}
    BY DEF Request
  <1>2. ~g.harmed => g.taken >= 0 /\ g.tokenTaken >= 0
    BY <1>1 DEF Holding, Kept, Holds
  <1>3. ~g.harmed => Opening(g)
    BY <1>1 DEF Opening, Before, Holds, Holding, Kept
  <1>4. ~g.harmed => Closing(g)
    BY DEF Closing, Holding, Kept
  <1> QED BY <1>2, <1>3, <1>4 DEF Local

\* What an unharmed session holds where it is being reserved for.
LEMMA LocalHolding ==
    ASSUME NEW q, Local(q), ~q.harmed
    PROVE  /\ q.pc \in {"sent", "reserve", "settleFund"} => Holding(q) /\ Holds(q, q.preConsumedQuota)
           /\ q.pc = "served" /\ ~q.settled => Holding(q) /\ Holds(q, q.preConsumedQuota)
           /\ q.pc \in {"reserveRead", "reserveToken", "reserveBack"} =>
                 Holding(q) /\ Holds(q, q.preConsumedQuota + q.delta)
  BY DEF Local, Opening, Closing

LEMMA ReserveStep ==
    ASSUME IInv, NEW r \in Requests, Reserve(r)
    PROVE  IInv'
  <1> DEFINE q == req[r]
  <1>1. Local(q) /\ q.pc = "sent" /\ q \in Request /\ NoStatement
    BY DEF IInv, Reserve, Local
  <1>2. PICK n \in Quotas : /\ n > q.preConsumedQuota
                            /\ Goes(r, [q EXCEPT !.pc = "reserve", !.delta = n - q.preConsumedQuota])
    BY DEF Reserve
  <1> HIDE DEF q
  <1> DEFINE d == n - q.preConsumedQuota
             g == [q EXCEPT !.pc = "reserve", !.delta = d]
  <1>3. d \in Int /\ d > 0 /\ q.preConsumedQuota \in Nat /\ "reserve" \in Pcs
    BY <1>1, <1>2, ConstantsAssumption DEF Request, Pcs
  <1> HIDE DEF d
  <1>4. g \in Request /\ g.pc = "reserve" /\ g.preConsumedQuota = q.preConsumedQuota
        /\ g.delta = d /\ g.harmed = q.harmed
    BY <1>1, <1>3 DEF Request
  <1>5. ~g.harmed => Holding(g) /\ Holds(g, g.preConsumedQuota)
    <2>1. (Holding(q) => Holding(g)) /\ (Holds(q, q.preConsumedQuota) => Holds(g, q.preConsumedQuota))
      BY <1>1 DEF Holding, Kept, Holds, Request
    <2> QED BY <1>1, <1>4, <2>1, LocalHolding
  <1> HIDE DEF g
  <1>6. Local(g)
    BY <1>3, <1>4, <1>5, HoldingLocal DEF Counted
  <1> QED BY <1>1, <1>2, <1>6, QuietStep DEF g, d

LEMMA ReserveFundingStep ==
    ASSUME IInv, NEW r \in Requests, ReserveFunding(r)
    PROVE  IInv'
  <1> DEFINE q == req[r]
  <1>1. Local(q) /\ q.pc = "reserve" /\ q \in Request /\ UNCHANGED token
    BY DEF IInv, ReserveFunding, Local
  <1>2. PICK o \in Answers :
          /\ Answered(o) /\ AdjustFunding(q, q.delta, o)
          /\ LET p == [q EXCEPT !.taken = @ + Amount(o, q.delta), !.harmed = @ \/ o = "lost"] IN
             Goes(r, IF o # "ok" THEN [p EXCEPT !.pc = "failing", !.delta = 0]
                     ELSE FundingReserved(p))
    BY DEF ReserveFunding
  <1> HIDE DEF q
  <1>3. /\ q.delta \in Int /\ q.delta > 0 /\ q.taken \in Int /\ q.consumed \in Nat
        /\ q.preConsumedQuota \in Nat /\ q.source \in {"wallet", "subscription"}
    BY <1>1 DEF Request, Local, Counted
  <1>4. Accounts'
    BY <1>1, <1>2, <1>3, FundingAccounts DEF IInv
  <1> DEFINE t == q.taken + Amount(o, q.delta)
             h == q.harmed \/ o = "lost"
             p == [q EXCEPT !.taken = t, !.harmed = h]
             a == [p EXCEPT !.pc = "failing", !.delta = 0]
             b == FundingReserved(p)
  <1>5. /\ t \in Int
        /\ o = "ok" => t = q.taken + q.delta
        /\ o # "ok" /\ o # "lost" => t = q.taken
    BY <1>3
  <1>6. h \in BOOLEAN /\ (~h => ~q.harmed /\ o # "lost")
    OBVIOUS
  <1>g. Goes(r, IF o # "ok" THEN a ELSE b)
    BY <1>2
  <1> HIDE DEF t, h
  <1>7. p \in Request
    BY <1>1, <1>5, <1>6 DEF Request
  <1>8. ~q.harmed => Holding(q) /\ Holds(q, q.preConsumedQuota)
    BY <1>1, LocalHolding
  <1>9. o # "ok" => Local(a)
    <2>1. a \in Request
      <3> HIDE DEF p
      <3>1. "failing" \in Pcs /\ 0 \in Int
        BY DEF Pcs
      <3> QED BY <1>7, <3>1 DEF Request
    <2>2. /\ a.pc = "failing" /\ a.preConsumedQuota = q.preConsumedQuota /\ a.harmed = h
          /\ a.taken = t /\ a.source = q.source /\ a.consumed = q.consumed
          /\ Holding(q) => Holding(a)
      BY <1>1 DEF Holding, Kept, Request
    <2> HIDE DEF a
    <2>3. o # "ok" /\ ~a.harmed => Holding(a) /\ Holds(a, a.preConsumedQuota)
      BY <1>5, <1>6, <1>8, <2>2 DEF Holds
    <2> QED BY <1>3, <2>1, <2>2, <2>3, HoldingLocal DEF Counted
  <1>10. o = "ok" => Local(b)
    <2> DEFINE w == IF p.source = "wallet" THEN p.consumed + p.delta ELSE p.consumed
               c == [p EXCEPT !.pc = "reserveRead", !.consumed = w]
    <2>b. b = c
      BY DEF FundingReserved
    <2>0. p.source = q.source /\ p.consumed = q.consumed /\ p.delta = q.delta
      BY <1>1 DEF Request
    <2>1. w \in Nat /\ (q.source = "wallet" => w = q.consumed + q.delta)
      <3> HIDE DEF p
      <3> QED BY <1>3, <2>0
    <2> HIDE DEF w
    <2>2. c \in Request
      <3> HIDE DEF p
      <3> QED BY <1>7, <2>1 DEF Request, Pcs
    <2>3. /\ c.pc = "reserveRead" /\ c.preConsumedQuota = q.preConsumedQuota /\ c.harmed = h
          /\ c.taken = t /\ c.source = q.source /\ c.consumed = w /\ c.delta = q.delta
          /\ Holding(q) => Holding(c)
      BY <1>1 DEF Holding, Kept, Request
    <2> HIDE DEF c
    <2>4. o = "ok" /\ ~c.harmed => Holding(c) /\ Holds(c, c.preConsumedQuota + c.delta)
      BY <1>3, <1>5, <1>6, <1>8, <2>1, <2>3 DEF Holds
    <2>5. Counted(c)
      BY <1>3, <2>1, <2>3 DEF Counted
    <2>6. c.preConsumedQuota + c.delta \in Nat
      BY <1>3, <2>3
    <2> QED BY <2>b, <2>2, <2>3, <2>4, <2>5, <2>6, HoldingLocal
  <1> HIDE DEF a, b
  <1> QED BY <1>4, <1>g, <1>9, <1>10, RequestStep

\* A reserve that the token has paid as well.
LEMMA ReservedLocal ==
    ASSUME NEW q \in Request, q.delta > 0,
           ~q.harmed => /\ Kept(q) /\ Holds(q, q.preConsumedQuota + q.delta)
                        /\ q.tokenTaken = TokenShare(q, q.preConsumedQuota + q.delta)
    PROVE  Local(Reserved(q))
  <1> DEFINE n == q.preConsumedQuota + q.delta
             t == q.tokenConsumed + q.delta
             e == q.extraReserved + q.delta
             g == [q EXCEPT !.pc = "sent", !.delta = 0, !.preConsumedQuota = n,
                            !.tokenConsumed = t, !.extraReserved = e]
  <1>g. g = Reserved(q)
    BY DEF Reserved
  <1>0. /\ q.delta \in Int /\ q.preConsumedQuota \in Nat /\ q.tokenConsumed \in Nat
        /\ q.extraReserved \in Nat /\ q.preConsumed \in Nat
    BY DEF Request
  <1>1. n \in Nat /\ t \in Nat /\ e \in Nat /\ "sent" \in Pcs /\ 0 \in Int
    BY <1>0 DEF Pcs
  <1>2. ~q.harmed => t = n /\ (q.source = "subscription" => q.preConsumed + e = n)
    BY <1>0 DEF Kept
  <1>3. ~q.harmed => q.tokenTaken = TokenShare(q, n) /\ Holds(q, n)
    OBVIOUS
  <1> HIDE DEF n, t, e
  <1>4. g \in Request
    BY <1>1 DEF Request
  <1>5. g.pc = "sent" /\ g.harmed = q.harmed /\ g.preConsumedQuota = n
    BY DEF Request
  <1>6. ~q.harmed => Holding(g) /\ Holds(g, n)
    BY <1>2, <1>3 DEF Kept, Holding, Holds, Request
  <1> HIDE DEF g
  <1>7. Local(g)
    BY <1>1, <1>4, <1>5, <1>6, HoldingLocal DEF Counted
  <1> QED BY <1>7, <1>g

LEMMA ReserveReadStep ==
    ASSUME IInv, NEW r \in Requests, ReserveRead(r)
    PROVE  IInv'
  <1> DEFINE q == req[r]
             a == [q EXCEPT !.pc = "reserveBack"]
             b == [q EXCEPT !.pc = "reserveToken"]
  <1>1. Local(q) /\ q.pc = "reserveRead" /\ q \in Request /\ NoStatement
    BY DEF IInv, ReserveRead, Local
  <1>2. Goes(r, IF q.IsPlayground THEN Reserved(q) ELSE IF token < q.delta THEN a ELSE b)
    BY DEF ReserveRead
  <1> HIDE DEF q
  <1>3. /\ q.delta \in Int /\ q.delta > 0 /\ q.preConsumedQuota \in Nat
        /\ q.source = "wallet" => q.consumed >= q.delta
    BY <1>1 DEF Request, Local, Counted
  <1>4. ~q.harmed => Holding(q) /\ Holds(q, q.preConsumedQuota + q.delta)
    BY <1>1, LocalHolding
  <1>5. q.IsPlayground => Local(Reserved(q))
    BY <1>1, <1>3, <1>4, ReservedLocal DEF Holding
  <1>6. "reserveBack" \in Pcs /\ "reserveToken" \in Pcs
    BY DEF Pcs
  <1>7. a \in Request /\ b \in Request
    BY <1>1, <1>6 DEF Request
  <1>8. /\ a.pc = "reserveBack" /\ b.pc = "reserveToken"
        /\ \A g \in {a, b} : /\ g.preConsumedQuota = q.preConsumedQuota /\ g.delta = q.delta
                             /\ g.harmed = q.harmed /\ g.IsPlayground = q.IsPlayground
                             /\ g.source = q.source /\ g.consumed = q.consumed
                             /\ Holding(q) => Holding(g)
                             /\ g.taken = q.taken
    BY <1>1 DEF Holding, Kept, Request
  <1> HIDE DEF a, b
  <1>9. ~q.IsPlayground => \A g \in {a, b} : Local(g)
    <2> SUFFICES ASSUME ~q.IsPlayground, NEW g \in {a, b}
                 PROVE  Local(g)
      OBVIOUS
    <2>1. g \in Request /\ Counted(g) /\ ~g.IsPlayground /\ g.pc \in {"reserveToken", "reserveBack"}
      BY <1>3, <1>7, <1>8 DEF Counted
    <2>2. ~g.harmed => Holding(g) /\ Holds(g, g.preConsumedQuota + g.delta)
      BY <1>4, <1>8 DEF Holds
    <2>3. g.preConsumedQuota + g.delta \in Nat
      BY <1>3, <1>8
    <2> QED BY <2>1, <2>2, <2>3, HoldingLocal
  <1> QED BY <1>1, <1>2, <1>5, <1>9, QuietStep

LEMMA ReserveTokenStep ==
    ASSUME IInv, NEW r \in Requests, ReserveToken(r)
    PROVE  IInv'
  <1> DEFINE q == req[r]
  <1>1. Local(q) /\ q.pc = "reserveToken" /\ q \in Request /\ FundingUnchanged
    BY DEF IInv, ReserveToken, Local
  <1>2. PICK o \in Answers :
          /\ Answered(o) /\ AdjustToken(q.delta, o)
          /\ LET p == [q EXCEPT !.tokenTaken = @ + Amount(o, q.delta)] IN
             Goes(r, IF o = "ok" THEN Reserved(p)
                     ELSE [p EXCEPT !.pc = "reserveBack", !.harmed = @ \/ Runs(o)])
    BY DEF ReserveToken
  <1> HIDE DEF q
  <1>3. /\ q.delta \in Int /\ q.delta > 0 /\ q.preConsumedQuota \in Nat /\ q.tokenTaken \in Int
        /\ q.source = "wallet" => q.consumed >= q.delta
    BY <1>1 DEF Request, Local, Counted
  <1>4. Accounts'
    BY <1>1, <1>2, <1>3, TokenAccounts DEF IInv
  <1>p. ~q.IsPlayground
    BY <1>1 DEF Local, Counted
  <1>5. ~q.harmed => Holding(q) /\ Holds(q, q.preConsumedQuota + q.delta)
    BY <1>1, LocalHolding
  <1> DEFINE t == q.tokenTaken + Amount(o, q.delta)
             p == [q EXCEPT !.tokenTaken = t]
             h == p.harmed \/ Runs(o)
             b == [p EXCEPT !.pc = "reserveBack", !.harmed = h]
  <1>6. t \in Int /\ (o = "ok" => t = q.tokenTaken + q.delta) /\ (~Runs(o) => t = q.tokenTaken)
    BY <1>3
  <1>g. Goes(r, IF o = "ok" THEN Reserved(p) ELSE b)
    BY <1>2
  <1> HIDE DEF t
  <1>7. p \in Request
    BY <1>1, <1>6 DEF Request
  <1>8. /\ p.delta = q.delta /\ p.preConsumedQuota = q.preConsumedQuota /\ p.harmed = q.harmed
        /\ p.tokenTaken = t /\ p.IsPlayground = q.IsPlayground /\ p.source = q.source
        /\ p.consumed = q.consumed /\ p.taken = q.taken
        /\ Kept(q) => Kept(p)
    BY <1>1 DEF Request, Kept
  <1> HIDE DEF p
  <1>9. o = "ok" => Local(Reserved(p))
    <2>1. o = "ok" /\ ~p.harmed => /\ Kept(p) /\ Holds(p, p.preConsumedQuota + p.delta)
                                   /\ p.tokenTaken = TokenShare(p, p.preConsumedQuota + p.delta)
      BY <1>3, <1>5, <1>6, <1>8, <1>p DEF Holding, Holds
    <2> QED BY <1>3, <1>7, <1>8, <2>1, ReservedLocal
  <1>10. h \in BOOLEAN /\ (~h => ~p.harmed /\ ~Runs(o)) /\ "reserveBack" \in Pcs
    BY DEF Pcs
  <1> HIDE DEF h
  <1>11. b \in Request
    BY <1>7, <1>10 DEF Request
  <1>12. /\ b.pc = "reserveBack" /\ b.delta = p.delta /\ b.preConsumedQuota = p.preConsumedQuota
         /\ b.harmed = h /\ b.tokenTaken = p.tokenTaken /\ b.IsPlayground = p.IsPlayground
         /\ b.source = p.source /\ b.consumed = p.consumed /\ b.taken = p.taken
         /\ Kept(p) => Kept(b)
    BY <1>7 DEF Request, Kept
  <1> HIDE DEF b
  <1>13. ~b.harmed => Holding(b) /\ Holds(b, b.preConsumedQuota + b.delta)
    BY <1>5, <1>6, <1>8, <1>10, <1>12, <1>p DEF Holding, Holds
  <1>14. Counted(b) /\ b.preConsumedQuota + b.delta \in Nat
    BY <1>3, <1>8, <1>12, <1>p DEF Counted
  <1>15. Local(b)
    BY <1>8, <1>11, <1>12, <1>13, <1>14, <1>p, HoldingLocal
  <1> QED BY <1>4, <1>g, <1>9, <1>15, RequestStep

LEMMA RollbackStep ==
    ASSUME IInv, NEW r \in Requests, RollbackFundingReserve(r)
    PROVE  IInv'
  <1> DEFINE q == req[r]
  <1>1. Local(q) /\ q.pc = "reserveBack" /\ q \in Request /\ UNCHANGED token
    BY DEF IInv, RollbackFundingReserve, Local
  <1>2. PICK o \in Answers :
          /\ Answered(o) /\ AdjustFunding(q, -q.delta, o)
          /\ Goes(r, [q EXCEPT !.pc = "failing", !.delta = 0,
                               !.taken = @ - Amount(o, q.delta),
                               !.consumed = IF q.source = "wallet" /\ o = "ok"
                                            THEN @ - q.delta ELSE @,
                               !.harmed = @ \/ IF q.source = "wallet"
                                               THEN o = "lost" \/ (o # "ok" /\ q.tokenConsumed = 0)
                                               ELSE ~Runs(o)])
    BY DEF RollbackFundingReserve
  <1> HIDE DEF q
  <1>3. /\ q.delta \in Int /\ q.delta > 0 /\ q.preConsumedQuota \in Nat /\ q.taken \in Int
        /\ q.consumed \in Nat /\ q.source \in {"wallet", "subscription"} /\ q.tokenConsumed \in Nat
        /\ q.source = "wallet" => q.consumed >= q.delta
    BY <1>1 DEF Request, Local, Counted
  <1>n. -q.delta \in Int
    BY <1>3
  <1>4. Accounts'
    BY <1>1, <1>2, <1>n, FundingAccounts DEF IInv
  <1>5. ~q.harmed => Holding(q) /\ Holds(q, q.preConsumedQuota + q.delta)
    BY <1>1, LocalHolding
  <1> DEFINE t == q.taken - Amount(o, q.delta)
             w == IF q.source = "wallet" /\ o = "ok" THEN q.consumed - q.delta ELSE q.consumed
             h == q.harmed \/ IF q.source = "wallet"
                              THEN o = "lost" \/ (o # "ok" /\ q.tokenConsumed = 0)
                              ELSE ~Runs(o)
             g == [q EXCEPT !.pc = "failing", !.delta = 0, !.taken = t, !.consumed = w,
                            !.harmed = h]
  <1>6. /\ t \in Int /\ (Runs(o) => t = q.taken - q.delta) /\ (~Runs(o) => t = q.taken)
        /\ w \in Nat /\ (q.source = "wallet" /\ o = "ok" => w = q.consumed - q.delta)
        /\ (q.source = "wallet" /\ o # "ok" => w = q.consumed)
        /\ "failing" \in Pcs /\ 0 \in Int
    BY <1>3 DEF Pcs
  <1>7. /\ h \in BOOLEAN
        /\ ~h /\ q.source = "wallet" => ~q.harmed /\ o # "lost" /\ (o = "ok" \/ q.tokenConsumed # 0)
        /\ ~h /\ q.source # "wallet" => ~q.harmed /\ Runs(o)
    OBVIOUS
  <1>g. Goes(r, g)
    BY <1>2
  <1> HIDE DEF t, w, h
  <1>8. g \in Request
    BY <1>1, <1>6, <1>7 DEF Request
  <1>9. /\ g.pc = "failing" /\ g.taken = t /\ g.consumed = w /\ g.harmed = h
        /\ g.source = q.source /\ g.preConsumedQuota = q.preConsumedQuota
        /\ g.tokenConsumed = q.tokenConsumed /\ g.tokenTaken = q.tokenTaken
        /\ Holding(q) => Holding(g)
    BY <1>1 DEF Request, Holding, Kept
  <1> HIDE DEF g
  <1>10. ~h => ~q.harmed
    BY <1>7
  <1>11. ~h => /\ Holding(g) /\ t >= 0 /\ q.tokenTaken >= 0
               /\ q.source = "wallet" => /\ t = w
                                         /\ t = q.preConsumedQuota \/ q.tokenConsumed > 0
               /\ q.source = "subscription" => t = q.preConsumedQuota
    <2>1. ~h => q.tokenTaken >= 0
      BY <1>1, <1>10 DEF Local
    <2>2. CASE q.source = "wallet"
      BY <1>3, <1>5, <1>6, <1>7, <1>9, <2>1, <2>2 DEF Holds
    <2>3. CASE q.source = "subscription"
      BY <1>3, <1>5, <1>6, <1>7, <1>9, <2>1, <2>3 DEF Holds
    <2> QED BY <1>3, <2>2, <2>3
  <1>12. Local(g)
    <2>1. ~g.harmed => Opening(g)
      BY <1>9, <1>11 DEF Opening, Before
    <2> QED BY <1>8, <1>9, <1>11, <2>1 DEF Local, Counted, Closing
  <1> QED BY <1>4, <1>g, <1>12, RequestStep

-----------------------------------------------------------------------------
(* Settle.                                                                  *)

\* A session that is settled.
LEMMA SettledLocal ==
    ASSUME NEW g \in Request, g.pc \in {"served", "done"}, g.settled,
           ~g.harmed => /\ g.taken + g.parked = g.actualQuota
                        /\ g.tokenTaken + g.tokenParked = TokenShare(g, g.actualQuota)
                        /\ g.taken >= 0 /\ g.tokenTaken >= 0
    PROVE  Local(g)
  <1>1. ~g.harmed => Opening(g)
    BY DEF Opening, Before
  <1>2. ~g.harmed => Closing(g)
    BY DEF Closing
  <1> QED BY <1>1, <1>2 DEF Local, Counted

LEMMA SettleStep ==
    ASSUME IInv, NEW r \in Requests, Settle(r)
    PROVE  IInv'
  <1> DEFINE q == req[r]
  <1>1. Local(q) /\ q.pc = "sent" /\ q \in Request /\ NoStatement
    BY DEF IInv, Settle, Local
  <1>2. PICK n \in Quotas :
          LET p == [q EXCEPT !.actualQuota = n, !.delta = n - q.preConsumedQuota] IN
          Goes(r, IF p.delta = 0
                  THEN [p EXCEPT !.pc = "served", !.fundingSettled = TRUE, !.settled = TRUE]
                  ELSE [p EXCEPT !.pc = "settleFund"])
    BY DEF Settle
  <1> HIDE DEF q
  <1> DEFINE d == n - q.preConsumedQuota
             p == [q EXCEPT !.actualQuota = n, !.delta = d]
             a == [p EXCEPT !.pc = "served", !.fundingSettled = TRUE, !.settled = TRUE]
             b == [p EXCEPT !.pc = "settleFund"]
  <1>g. Goes(r, IF p.delta = 0 THEN a ELSE b)
    BY <1>2
  <1>3. n \in Nat /\ q.preConsumedQuota \in Nat /\ d \in Int /\ d = n - q.preConsumedQuota
    BY <1>1, ConstantsAssumption DEF Request
  <1>4. ~q.harmed => Holding(q) /\ Holds(q, q.preConsumedQuota)
    BY <1>1, LocalHolding
  <1> HIDE DEF d
  <1>5. /\ p \in Request /\ p.actualQuota = n /\ p.delta = d /\ p.harmed = q.harmed
        /\ p.preConsumedQuota = q.preConsumedQuota /\ p.taken = q.taken
        /\ p.tokenTaken = q.tokenTaken /\ p.parked = q.parked /\ p.tokenParked = q.tokenParked
        /\ p.IsPlayground = q.IsPlayground /\ p.source = q.source /\ p.consumed = q.consumed
        /\ Holding(q) => Holding(p)
    <2>1. p \in Request
      BY <1>1, <1>3 DEF Request
    <2> QED BY <1>1, <2>1 DEF Request, Holding, Kept
  <1> HIDE DEF p
  <1>t. "served" \in Pcs /\ "settleFund" \in Pcs
    BY DEF Pcs
  <1>6. d = 0 => Local(a)
    <2>1. a \in Request
      BY <1>5, <1>t DEF Request
    <2>2. /\ a.pc = "served" /\ a.settled /\ a.harmed = p.harmed /\ a.taken = p.taken
          /\ a.tokenTaken = p.tokenTaken /\ a.parked = p.parked /\ a.tokenParked = p.tokenParked
          /\ a.actualQuota = p.actualQuota /\ a.IsPlayground = p.IsPlayground
      BY <1>5 DEF Request
    <2> HIDE DEF a
    <2>3. d = 0 /\ ~a.harmed => /\ a.taken + a.parked = a.actualQuota
                                /\ a.tokenTaken + a.tokenParked = TokenShare(a, a.actualQuota)
                                /\ a.taken >= 0 /\ a.tokenTaken >= 0
      <3>1. ~q.harmed => /\ q.taken = q.preConsumedQuota /\ q.parked = 0 /\ q.tokenParked = 0
                         /\ q.tokenTaken = TokenShare(q, q.preConsumedQuota)
        BY <1>4 DEF Holding, Kept, Holds
      <3>2. d = 0 => n = q.preConsumedQuota
        BY <1>3
      <3>3. /\ a.harmed = q.harmed /\ a.taken = q.taken /\ a.parked = q.parked
            /\ a.tokenTaken = q.tokenTaken /\ a.tokenParked = q.tokenParked
            /\ a.actualQuota = n /\ a.IsPlayground = q.IsPlayground
        BY <1>5, <2>2
      <3>4. d = 0 /\ ~a.harmed => TokenShare(a, a.actualQuota) = TokenShare(q, q.preConsumedQuota)
        BY <3>2, <3>3 DEF TokenShare
      <3>5. TokenShare(q, q.preConsumedQuota) \in Nat
        BY <1>3 DEF TokenShare
      <3> QED BY <1>3, <3>1, <3>2, <3>3, <3>4, <3>5
    <2> QED BY <2>1, <2>2, <2>3, SettledLocal
  <1>7. Local(b)
    <2>1. b \in Request
      BY <1>5, <1>t DEF Request
    <2>2. /\ b.pc = "settleFund" /\ b.harmed = p.harmed /\ b.actualQuota = n /\ b.delta = d
          /\ b.preConsumedQuota = p.preConsumedQuota /\ b.taken = p.taken
          /\ b.source = p.source /\ b.consumed = p.consumed
          /\ Holding(p) => Holding(b)
      BY <1>5 DEF Request, Holding, Kept
    <2> HIDE DEF b
    <2>3. ~b.harmed => Holding(b) /\ Holds(b, b.preConsumedQuota)
      BY <1>4, <1>5, <2>2 DEF Holds
    <2> QED BY <1>3, <1>5, <2>1, <2>2, <2>3, HoldingLocal DEF Counted
  <1> HIDE DEF a, b
  <1> QED BY <1>1, <1>5, <1>6, <1>7, <1>g, QuietStep

LEMMA SettleTokenStep ==
    ASSUME IInv, NEW r \in Requests, SettleToken(r)
    PROVE  IInv'
  <1> DEFINE q == req[r]
  <1>1. Local(q) /\ q.pc = "settleToken" /\ q \in Request /\ FundingUnchanged
    BY DEF IInv, SettleToken, Local
  <1>2. PICK o \in Answers :
          /\ Answered(o) /\ AdjustToken(q.delta, o)
          /\ Goes(r, [q EXCEPT !.pc = "served", !.delta = 0, !.settled = TRUE,
                               !.tokenTaken = @ + Amount(o, q.delta),
                               !.tokenParked = IF o = "refused" THEN q.delta ELSE @,
                               !.harmed = @ \/ o = "failed"])
    BY DEF SettleToken
  <1> HIDE DEF q
  <1>3. q.delta \in Int /\ q.tokenTaken \in Int /\ q.tokenParked \in Int
        /\ q.preConsumedQuota \in Nat /\ q.actualQuota \in Nat
    BY <1>1 DEF Request
  <1>4. Accounts' /\ o # "denied"
    BY <1>1, <1>2, <1>3, TokenAccounts DEF IInv, AdjustToken
  <1> DEFINE t == q.tokenTaken + Amount(o, q.delta)
             k == IF o = "refused" THEN q.delta ELSE q.tokenParked
             h == q.harmed \/ o = "failed"
             g == [q EXCEPT !.pc = "served", !.delta = 0, !.settled = TRUE,
                            !.tokenTaken = t, !.tokenParked = k, !.harmed = h]
  <1>5. /\ t \in Int /\ (Runs(o) => t = q.tokenTaken + q.delta) /\ (~Runs(o) => t = q.tokenTaken)
        /\ k \in Int /\ (o = "refused" => k = q.delta) /\ (o # "refused" => k = q.tokenParked)
        /\ "served" \in Pcs /\ 0 \in Int
    BY <1>3 DEF Pcs
  <1>6. h \in BOOLEAN /\ (~h => ~q.harmed /\ o \in {"ok", "lost", "refused"})
    BY <1>4 DEF Answers, Faults
  <1>g. Goes(r, g)
    BY <1>2
  <1> HIDE DEF t, k, h
  <1>7. g \in Request
    BY <1>1, <1>5, <1>6 DEF Request
  <1>8. /\ g.pc = "served" /\ g.settled /\ g.harmed = h /\ g.taken = q.taken /\ g.tokenTaken = t
        /\ g.parked = q.parked /\ g.tokenParked = k /\ g.actualQuota = q.actualQuota
        /\ g.IsPlayground = q.IsPlayground
    BY <1>1 DEF Request
  <1> HIDE DEF g
  <1>9. ~q.harmed => /\ ~q.IsPlayground /\ q.taken = q.actualQuota
                     /\ q.tokenTaken = q.preConsumedQuota
                     /\ q.delta = q.actualQuota - q.preConsumedQuota
                     /\ q.parked = 0 /\ q.tokenParked = 0
    BY <1>1 DEF Local, Closing
  <1>10. ~h => /\ g.taken + g.parked = g.actualQuota
               /\ g.tokenTaken + g.tokenParked = TokenShare(g, g.actualQuota)
               /\ g.taken >= 0 /\ g.tokenTaken >= 0
    BY <1>3, <1>5, <1>6, <1>8, <1>9
  <1>11. Local(g)
    BY <1>7, <1>8, <1>10, SettledLocal
  <1> QED BY <1>4, <1>g, <1>11, RequestStep

LEMMA SettleFundingStep ==
    ASSUME IInv, NEW r \in Requests, SettleFunding(r)
    PROVE  IInv'
  <1> DEFINE q == req[r]
             Paid(p) == [p EXCEPT !.fundingSettled = TRUE,
                                  !.pc = IF q.IsPlayground THEN "served" ELSE "settleToken",
                                  !.delta = IF q.IsPlayground THEN 0 ELSE @,
                                  !.settled = q.IsPlayground]
             Parked(p) == [p EXCEPT !.pc = "served", !.delta = 0, !.parked = q.delta,
                                    !.tokenParked = IF q.IsPlayground THEN 0 ELSE q.delta,
                                    !.fundingSettled = TRUE, !.settled = TRUE]
             Unpaid(p) == [p EXCEPT !.pc = "served", !.delta = 0]
  <1>1. Local(q) /\ q.pc = "settleFund" /\ q \in Request /\ UNCHANGED token
    BY DEF IInv, SettleFunding, Local
  <1>2. PICK o \in Answers :
          /\ Answered(o) /\ AdjustFunding(q, q.delta, o)
          /\ LET p == [q EXCEPT !.taken = @ + Amount(o, q.delta), !.harmed = @ \/ o = "lost"] IN
             Goes(r, CASE o = "ok" -> Paid(p)
                       [] o = "refused" /\ q.source = "wallet" -> Parked(p)
                       [] OTHER -> Unpaid(p))
    BY DEF SettleFunding
  <1> HIDE DEF q
  <1>3. /\ q.delta \in Int /\ q.taken \in Int /\ q.preConsumedQuota \in Nat
        /\ q.actualQuota \in Nat /\ q.IsPlayground \in BOOLEAN
    BY <1>1 DEF Request
  <1>4. Accounts'
    BY <1>1, <1>2, <1>3, FundingAccounts DEF IInv
  <1>5. ~q.harmed => /\ Holding(q) /\ Holds(q, q.preConsumedQuota)
                     /\ q.delta = q.actualQuota - q.preConsumedQuota
    BY <1>1, LocalHolding DEF Local, Closing
  <1> DEFINE t == q.taken + Amount(o, q.delta)
             h == q.harmed \/ o = "lost"
             p == [q EXCEPT !.taken = t, !.harmed = h]
  <1>6. t \in Int /\ (o = "ok" => t = q.taken + q.delta) /\ (~Runs(o) => t = q.taken)
    BY <1>3
  <1>7. h \in BOOLEAN /\ (~h => ~q.harmed /\ o # "lost")
    OBVIOUS
  <1>g. \/ o = "ok" /\ Goes(r, Paid(p))
        \/ o = "refused" /\ Goes(r, Parked(p))
        \/ o # "ok" /\ Goes(r, Unpaid(p))
    BY <1>2
  <1> HIDE DEF t, h
  <1>8. /\ p \in Request /\ p.taken = t /\ p.harmed = h /\ p.delta = q.delta
        /\ p.preConsumedQuota = q.preConsumedQuota /\ p.actualQuota = q.actualQuota
        /\ p.tokenTaken = q.tokenTaken /\ p.parked = q.parked /\ p.tokenParked = q.tokenParked
        /\ p.IsPlayground = q.IsPlayground /\ p.source = q.source /\ p.consumed = q.consumed
        /\ Holding(q) => Holding(p)
    <2>1. p \in Request
      BY <1>1, <1>6, <1>7 DEF Request
    <2> QED BY <1>1, <2>1 DEF Request, Holding, Kept
  <1> HIDE DEF p
  <1>t. "served" \in Pcs /\ "settleToken" \in Pcs /\ 0 \in Int
    BY DEF Pcs
  <1>9. ~h => /\ ~q.harmed /\ o # "lost" /\ q.taken = q.preConsumedQuota
              /\ q.delta = q.actualQuota - q.preConsumedQuota
              /\ q.tokenTaken = TokenShare(q, q.preConsumedQuota)
              /\ q.parked = 0 /\ q.tokenParked = 0
    BY <1>5, <1>7 DEF Holding, Kept, Holds
  <1>10. o = "ok" => Local(Paid(p))
    <2>1. CASE q.IsPlayground
      <3> DEFINE a == [p EXCEPT !.fundingSettled = TRUE, !.pc = "served", !.delta = 0,
                                !.settled = TRUE]
      <3>0. Paid(p) = a
        BY <1>3, <2>1
      <3>1. a \in Request
        BY <1>8, <1>t DEF Request
      <3>2. /\ a.pc = "served" /\ a.settled /\ a.harmed = h /\ a.taken = t
            /\ a.tokenTaken = q.tokenTaken /\ a.parked = q.parked /\ a.tokenParked = q.tokenParked
            /\ a.actualQuota = q.actualQuota /\ a.IsPlayground = q.IsPlayground
        BY <1>8 DEF Request
      <3> HIDE DEF a
      <3>3. o = "ok" /\ ~a.harmed => /\ a.taken + a.parked = a.actualQuota
                                     /\ a.tokenTaken + a.tokenParked = TokenShare(a, a.actualQuota)
                                     /\ a.taken >= 0 /\ a.tokenTaken >= 0
        BY <1>3, <1>6, <1>9, <2>1, <3>2
      <3> QED BY <3>0, <3>1, <3>2, <3>3, SettledLocal
    <2>2. CASE ~q.IsPlayground
      <3> DEFINE a == [p EXCEPT !.fundingSettled = TRUE, !.pc = "settleToken", !.settled = FALSE]
      <3>d. p = [p EXCEPT !.delta = p.delta]
        BY <1>8 DEF Request
      <3>0. Paid(p) = a
        BY <1>3, <1>8, <2>2 DEF Request
      <3>1. a \in Request
        BY <1>8, <1>t DEF Request
      <3>2. /\ a.pc = "settleToken" /\ a.settled = FALSE /\ a.fundingSettled = TRUE /\ a.harmed = h
            /\ a.taken = t /\ a.delta = q.delta /\ a.preConsumedQuota = q.preConsumedQuota
            /\ a.tokenTaken = q.tokenTaken /\ a.parked = q.parked /\ a.tokenParked = q.tokenParked
            /\ a.actualQuota = q.actualQuota /\ a.IsPlayground = q.IsPlayground
        BY <1>8 DEF Request
      <3> HIDE DEF a
      <3>3. o = "ok" /\ ~a.harmed => /\ a.taken = a.actualQuota /\ a.taken >= 0
                                     /\ a.tokenTaken = a.preConsumedQuota /\ a.tokenTaken >= 0
                                     /\ a.delta = a.actualQuota - a.preConsumedQuota
                                     /\ a.parked = 0 /\ a.tokenParked = 0
        BY <1>3, <1>6, <1>9, <2>2, <3>2
      <3>4. o = "ok" /\ ~a.harmed => Opening(a) /\ Closing(a)
        BY <2>2, <3>2, <3>3 DEF Opening, Closing, Before
      <3>5. o = "ok" => Local(a)
        BY <3>1, <3>2, <3>3, <3>4 DEF Local, Counted
      <3> QED BY <3>0, <3>5
    <2> QED BY <1>3, <2>1, <2>2
  <1>11. o = "refused" => Local(Parked(p))
    <2> DEFINE k == IF q.IsPlayground THEN 0 ELSE q.delta
               a == [p EXCEPT !.pc = "served", !.delta = 0, !.parked = q.delta,
                              !.tokenParked = k, !.fundingSettled = TRUE, !.settled = TRUE]
    <2>0. Parked(p) = a
      OBVIOUS
    <2>1. k \in Int /\ (q.IsPlayground => k = 0) /\ (~q.IsPlayground => k = q.delta)
      BY <1>3
    <2> HIDE DEF k
    <2>2. a \in Request
      BY <1>3, <1>8, <1>t, <2>1 DEF Request
    <2>3. /\ a.pc = "served" /\ a.settled /\ a.harmed = h /\ a.taken = t
          /\ a.tokenTaken = q.tokenTaken /\ a.parked = q.delta /\ a.tokenParked = k
          /\ a.actualQuota = q.actualQuota /\ a.IsPlayground = q.IsPlayground
      BY <1>8 DEF Request
    <2> HIDE DEF a
    <2>4. o = "refused" /\ ~a.harmed => /\ a.taken + a.parked = a.actualQuota
                                        /\ a.tokenTaken + a.tokenParked = TokenShare(a, a.actualQuota)
                                        /\ a.taken >= 0 /\ a.tokenTaken >= 0
      BY <1>3, <1>6, <1>9, <2>1, <2>3
    <2> QED BY <2>0, <2>2, <2>3, <2>4, SettledLocal
  <1>12. o # "ok" => Local(Unpaid(p))
    <2> DEFINE a == [p EXCEPT !.pc = "served", !.delta = 0]
    <2>1. a \in Request
      BY <1>8, <1>t DEF Request
    <2>2. /\ a.pc = "served" /\ a.harmed = h /\ a.taken = t /\ a.source = q.source
          /\ a.consumed = q.consumed /\ a.preConsumedQuota = q.preConsumedQuota
          /\ a.actualQuota = q.actualQuota
          /\ Holding(p) => Holding(a)
      BY <1>8 DEF Request, Holding, Kept
    <2> HIDE DEF a
    <2>3. o # "ok" /\ ~a.harmed => /\ Holding(a) /\ Holds(a, a.preConsumedQuota)
                                   /\ ~a.settled
      BY <1>5, <1>6, <1>7, <1>8, <1>9, <2>2 DEF Holds, Holding, Kept
    <2>4. o # "ok" /\ a.harmed => Local(a)
      BY <2>1, <2>2 DEF Local, Counted
    <2>5. o # "ok" /\ ~a.harmed => Local(a)
      BY <1>3, <2>1, <2>2, <2>3, HoldingLocal DEF Counted
    <2> QED BY <2>4, <2>5 DEF a
  <1> HIDE DEF Paid, Parked, Unpaid
  <1> QED BY <1>4, <1>g, <1>10, <1>11, <1>12, RequestStep

LEMMA FinishStep ==
    ASSUME IInv, NEW r \in Requests, Finish(r)
    PROVE  IInv'
  <1> DEFINE q == req[r]
             g == [q EXCEPT !.pc = "done"]
  <1>1. Local(q) /\ q.pc = "served" /\ q \in Request /\ NoStatement /\ Goes(r, g)
    BY DEF IInv, Finish, Local
  <1> HIDE DEF q
  <1>2. g \in Request
    BY <1>1 DEF Request, Pcs
  <1>3. Local(g)
    BY <1>1, <1>2 DEF Local, Counted, Opening, Closing, Holding, Holds, Before, Request
  <1> HIDE DEF g
  <1> QED BY <1>1, <1>3, QuietStep

-----------------------------------------------------------------------------
(* Refund.                                                                  *)

\* A request whose refund has come to the token, or is over.
LEMMA RefundedLocal ==
    ASSUME NEW g \in Request, g.pc = AfterExtra(g),
           ~g.harmed => Refunding(g) /\ g.taken = 0
    PROVE  Local(g)
  <1>1. g.tokenConsumed \in Nat /\ g.pc \in {"refundToken", "refunded"}
    BY DEF Request, AfterExtra
  <1>2. ~g.harmed => g.tokenTaken >= 0 /\ (g.pc = "refunded" => g.tokenTaken = 0)
    BY <1>1 DEF Refunding, AfterExtra
  <1>3. g.pc = "refundToken" => ~g.IsPlayground
    BY DEF AfterExtra
  <1>4. ~g.harmed => Opening(g) /\ Closing(g)
    BY <1>1, <1>2, <1>3 DEF Opening, Closing, Before
  <1> QED BY <1>1, <1>2, <1>4 DEF Local, Counted

\* A request whose refund is done with the pre-charge of its funding source.
LEMMA FundingRefundedLocal ==
    ASSUME NEW g \in Request, g.pc = AfterFunding(g),
           ~g.harmed => /\ Refunding(g)
                        /\ g.taken = (IF g.source = "subscription" THEN g.extraReserved ELSE 0)
    PROVE  Local(g)
  <1>0. g.extraReserved \in Nat /\ g.tokenConsumed \in Nat
    BY DEF Request
  <1>1. CASE g.extraReserved > 0 /\ g.source = "subscription"
    <2>1. g.pc = "refundExtra"
      BY <1>1 DEF AfterFunding
    <2>2. ~g.harmed => g.taken = g.extraReserved /\ g.taken >= 0
      BY <1>0, <1>1
    <2>3. ~g.harmed => g.tokenTaken >= 0
      BY <1>0 DEF Refunding
    <2>4. ~g.harmed => Opening(g) /\ Closing(g)
      BY <1>1, <2>1, <2>2 DEF Opening, Closing, Before
    <2> QED BY <2>1, <2>2, <2>3, <2>4 DEF Local, Counted
  <1>2. CASE ~(g.extraReserved > 0 /\ g.source = "subscription")
    <2>1. g.pc = AfterExtra(g)
      BY <1>2 DEF AfterFunding
    <2>2. ~g.harmed => g.taken = 0
      BY <1>0, <1>2
    <2> QED BY <2>1, <2>2, RefundedLocal
  <1> QED BY <1>1, <1>2

AfterPcs == {"refundExtra", "refundToken", "refunded"}

LEMMA AfterFundingPcs ==
    ASSUME NEW q
    PROVE  /\ AfterFunding(q) \in Pcs /\ AfterFunding(q) \in AfterPcs
           /\ AfterExtra(q) \in Pcs /\ AfterExtra(q) \in AfterPcs
  BY DEF AfterFunding, AfterExtra, Pcs, AfterPcs

LEMMA RefundStep ==
    ASSUME IInv, NEW r \in Requests, Refund(r)
    PROVE  IInv'
  <1> DEFINE q == req[r]
             pc == IF q.source = "wallet" /\ q.consumed = 0 THEN AfterFunding(q) ELSE "refund"
             a == [q EXCEPT !.refunded = TRUE, !.pc = pc]
             b == [q EXCEPT !.pc = "done"]
  <1>1. Local(q) /\ q.pc \in {"sent", "failing", "served"} /\ q \in Request /\ NoStatement
    BY DEF IInv, Refund, Local
  <1>2. Goes(r, IF NeedsRefund(q) THEN a ELSE b)
    BY DEF Refund
  <1> HIDE DEF q
  <1>3. /\ q.tokenConsumed \in Nat /\ q.preConsumedQuota \in Nat /\ q.preConsumed \in Nat
        /\ q.consumed \in Nat /\ q.extraReserved \in Nat /\ q.source \in {"wallet", "subscription"}
    BY <1>1 DEF Request
  <1>4. ASSUME ~q.harmed, ~q.settled
        PROVE  /\ Holding(q)
               /\ q.source = "wallet" => /\ q.taken = q.consumed
                                         /\ q.taken = q.preConsumedQuota \/ q.tokenConsumed > 0
               /\ q.source = "subscription" => q.taken = q.preConsumedQuota
    BY <1>1, <1>3, <1>4 DEF Local, Opening, Closing, Holds
  <1>5. NeedsRefund(q) => Local(a)
    <2> SUFFICES ASSUME NeedsRefund(q)
                 PROVE  Local(a)
      OBVIOUS
    <2>0. pc \in Pcs /\ (pc = "refund" \/ (pc = AfterFunding(q) /\ q.source = "wallet" /\ q.consumed = 0))
      BY AfterFundingPcs DEF Pcs
    <2> HIDE DEF pc
    <2>1. a \in Request
      BY <1>1, <2>0 DEF Request
    <2>2. /\ a.pc = pc /\ a.refunded /\ a.harmed = q.harmed /\ a.source = q.source
          /\ a.taken = q.taken /\ a.tokenTaken = q.tokenTaken /\ a.tokenConsumed = q.tokenConsumed
          /\ a.IsPlayground = q.IsPlayground /\ a.extraReserved = q.extraReserved
          /\ a.consumed = q.consumed /\ a.preConsumed = q.preConsumed /\ a.record = q.record
          /\ a.settled = q.settled /\ a.fundingSettled = q.fundingSettled
      BY <1>1 DEF Request
    <2>3. AfterFunding(a) = AfterFunding(q)
      BY <2>2 DEF AfterFunding, AfterExtra
    <2> HIDE DEF a
    <2>4. ~a.harmed => Refunding(a)
      BY <1>4, <2>2 DEF NeedsRefund, Holding, Kept, Refunding
    <2>5. CASE pc = "refund"
      <3>1. ~a.harmed => /\ a.source = "wallet" => a.taken = a.consumed
                         /\ a.source = "subscription" =>
                               a.record = "consumed" /\ a.taken = a.preConsumed + a.extraReserved
        BY <1>4, <2>2 DEF NeedsRefund, Holding, Kept
      <3>2. ~a.harmed => a.taken >= 0 /\ a.tokenTaken >= 0
        BY <1>3, <2>2, <2>4, <3>1 DEF Refunding
      <3>3. ~a.harmed => Opening(a) /\ Closing(a)
        BY <2>2, <2>4, <2>5, <3>1 DEF Opening, Closing, Before
      <3> QED BY <2>1, <2>2, <2>5, <3>2, <3>3 DEF Local, Counted
    <2>6. CASE pc # "refund"
      <3>1. a.pc = AfterFunding(a) /\ a.source = "wallet" /\ a.consumed = 0
        BY <2>0, <2>2, <2>3, <2>6
      <3>2. ~a.harmed => a.taken = 0
        BY <1>4, <2>2, <3>1 DEF NeedsRefund
      <3> QED BY <2>1, <2>4, <3>1, <3>2, FundingRefundedLocal
    <2> QED BY <2>5, <2>6
  <1>6. ~NeedsRefund(q) => Local(b)
    <2> SUFFICES ASSUME ~NeedsRefund(q)
                 PROVE  Local(b)
      OBVIOUS
    <2>t. "done" \in Pcs
      BY DEF Pcs
    <2>1. b \in Request
      BY <1>1, <2>t DEF Request
    <2>2. /\ b.pc = "done" /\ b.harmed = q.harmed /\ b.settled = q.settled /\ b.taken = q.taken
          /\ b.tokenTaken = q.tokenTaken /\ b.parked = q.parked /\ b.tokenParked = q.tokenParked
          /\ b.actualQuota = q.actualQuota /\ b.IsPlayground = q.IsPlayground
          /\ b.preConsumedQuota = q.preConsumedQuota
      BY <1>1 DEF Request
    <2> HIDE DEF b
    <2>3. CASE q.settled
      <3>1. ~q.harmed => q.pc = "served"
        BY <1>1, <2>3 DEF Local, Opening, Holding, Kept
      <3>2. ~q.harmed => /\ q.taken + q.parked = q.actualQuota
                         /\ q.tokenTaken + q.tokenParked = TokenShare(q, q.actualQuota)
                         /\ q.taken >= 0 /\ q.tokenTaken >= 0
        BY <1>1, <2>3, <3>1 DEF Local, Closing
      <3> QED BY <2>1, <2>2, <2>3, <3>2, SettledLocal
    <2>4. CASE ~q.settled
      <3>1. ~q.harmed => q.taken = q.preConsumedQuota
        BY <1>3, <1>4, <2>4 DEF NeedsRefund, Holding, Kept
      <3>2. ~q.harmed => q.tokenTaken = TokenShare(q, q.preConsumedQuota)
        BY <1>4, <2>4 DEF Holding
      <3>3. ~b.harmed => b.taken >= 0 /\ b.tokenTaken >= 0 /\ Opening(b) /\ Closing(b)
        BY <1>3, <2>2, <2>4, <3>1, <3>2 DEF Opening, Closing, Before
      <3> QED BY <2>1, <2>2, <3>3 DEF Local, Counted
    <2> QED BY <2>3, <2>4
  <1> HIDE DEF a, b
  <1> QED BY <1>1, <1>2, <1>5, <1>6, QuietStep

LEMMA RefundWalletStep ==
    ASSUME IInv, NEW r \in Requests, RefundWallet(r)
    PROVE  IInv'
  <1> DEFINE q == req[r]
  <1>1. Local(q) /\ q.pc = "refund" /\ q.source = "wallet" /\ q \in Request /\ UNCHANGED token
    BY DEF IInv, RefundWallet, Local
  <1>2. PICK o \in Answers :
          /\ Answered(o) /\ AdjustUserQuota(-q.consumed, o)
          /\ Goes(r, [q EXCEPT !.pc = AfterFunding(q),
                               !.taken = @ - Amount(o, q.consumed),
                               !.harmed = @ \/ ~Runs(o)])
    BY DEF RefundWallet
  <1> HIDE DEF q
  <1>3. q.consumed \in Nat /\ q.taken \in Int
    BY <1>1 DEF Request
  <1>n. -q.consumed \in Int
    BY <1>3
  <1>4. Accounts'
    BY <1>1, <1>2, <1>n, WalletAccounts DEF IInv
  <1> DEFINE t == q.taken - Amount(o, q.consumed)
             h == q.harmed \/ ~Runs(o)
             pc == AfterFunding(q)
             g == [q EXCEPT !.pc = pc, !.taken = t, !.harmed = h]
  <1>5. t \in Int /\ (Runs(o) => t = q.taken - q.consumed) /\ pc \in Pcs
    BY <1>3, AfterFundingPcs
  <1>6. h \in BOOLEAN /\ (~h => ~q.harmed /\ Runs(o))
    OBVIOUS
  <1>g. Goes(r, g)
    BY <1>2
  <1> HIDE DEF t, h, pc
  <1>7. g \in Request
    BY <1>1, <1>5, <1>6 DEF Request
  <1>8. /\ g.pc = pc /\ g.taken = t /\ g.harmed = h /\ g.source = q.source
        /\ g.tokenConsumed = q.tokenConsumed /\ g.IsPlayground = q.IsPlayground
        /\ g.extraReserved = q.extraReserved
        /\ Refunding(q) => Refunding(g)
    BY <1>1 DEF Request, Refunding
  <1>9. g.pc = AfterFunding(g)
    BY <1>8 DEF pc, AfterFunding, AfterExtra
  <1> HIDE DEF g
  <1>10. ~q.harmed => Refunding(q) /\ q.taken = q.consumed
    BY <1>1 DEF Local, Closing
  <1>11. ~g.harmed => Refunding(g) /\ g.taken = 0
    BY <1>3, <1>5, <1>6, <1>8, <1>10
  <1>12. Local(g)
    BY <1>1, <1>7, <1>8, <1>9, <1>11, FundingRefundedLocal
  <1> QED BY <1>4, <1>g, <1>12, RequestStep

\* A failed attempt of refundWithRetry.
LEMMA NextTryLocal ==
    ASSUME NEW p \in Request, p.source = "subscription",
           ~p.harmed => /\ Refunding(p)
                        /\ p.taken = (IF p.record = "refunded" THEN 0 ELSE p.preConsumed)
                                     + p.extraReserved
                        /\ p.record # "none"
    PROVE  Local(NextTry(p))
  <1>0. p.tries \in Nat /\ p.extraReserved \in Nat /\ p.preConsumed \in Nat /\ p.tokenConsumed \in Nat
    BY DEF Request
  <1>1. CASE p.tries + 1 < maxAttempts
    <2> DEFINE n == p.tries + 1
               g == [p EXCEPT !.pc = "refund", !.tries = n]
    <2>0. NextTry(p) = g
      BY <1>1 DEF NextTry
    <2>t. n \in Nat /\ "refund" \in Pcs
      BY <1>0 DEF Pcs
    <2> HIDE DEF n
    <2>1. g \in Request
      BY <2>t DEF Request
    <2>2. /\ g.pc = "refund" /\ g.harmed = p.harmed /\ g.source = p.source /\ g.taken = p.taken
          /\ g.record = p.record /\ g.preConsumed = p.preConsumed
          /\ g.extraReserved = p.extraReserved /\ g.tokenTaken = p.tokenTaken
          /\ Refunding(p) => Refunding(g)
      BY DEF Request, Refunding
    <2> HIDE DEF g
    <2>3. ~g.harmed => g.taken >= 0 /\ g.tokenTaken >= 0
      BY <1>0, <2>2 DEF Refunding
    <2>4. ~g.harmed => Opening(g) /\ Closing(g)
      BY <2>2 DEF Opening, Closing, Before
    <2>5. Local(g)
      BY <2>1, <2>2, <2>3, <2>4 DEF Local, Counted
    <2> QED BY <2>0, <2>5
  <1>2. CASE ~(p.tries + 1 < maxAttempts)
    <2> DEFINE h == p.harmed \/ p.record = "consumed"
               pc == AfterFunding(p)
               g == [p EXCEPT !.pc = pc, !.harmed = h]
    <2>0. NextTry(p) = g
      BY <1>2 DEF NextTry
    <2>t. pc \in Pcs
      BY AfterFundingPcs
    <2>h. h \in BOOLEAN /\ (~h => ~p.harmed /\ p.record # "consumed")
      OBVIOUS
    <2> HIDE DEF h, pc
    <2>1. g \in Request
      BY <2>t, <2>h DEF Request
    <2>2. /\ g.pc = pc /\ g.harmed = h /\ g.source = p.source /\ g.taken = p.taken
          /\ g.extraReserved = p.extraReserved /\ g.tokenConsumed = p.tokenConsumed
          /\ g.IsPlayground = p.IsPlayground
          /\ Refunding(p) => Refunding(g)
      BY DEF Request, Refunding
    <2>3. g.pc = AfterFunding(g)
      BY <2>2 DEF pc, AfterFunding, AfterExtra
    <2> HIDE DEF g
    <2>4. p.record \in {"none", "consumed", "refunded"}
      BY DEF Request
    <2>5. ~g.harmed => Refunding(g) /\ g.taken = g.extraReserved
      BY <1>0, <2>2, <2>h, <2>4
    <2>6. Local(g)
      BY <2>1, <2>2, <2>3, <2>5, FundingRefundedLocal
    <2> QED BY <2>0, <2>6
  <1> QED BY <1>1, <1>2

LEMMA RefundSubscriptionStep ==
    ASSUME IInv, NEW r \in Requests, RefundSubscription(r)
    PROVE  IInv'
  <1> DEFINE q == req[r]
  <1>1. Local(q) /\ q.pc = "refund" /\ q.source = "subscription" /\ q \in Request
    BY DEF IInv, RefundSubscription, Local
  <1>2. \/ /\ q.record = "refunded" /\ NoStatement
           /\ Goes(r, [q EXCEPT !.pc = AfterFunding(q)])
        \/ /\ q.record # "refunded" /\ UNCHANGED token
           /\ \E o \in Answers :
                /\ Answered(o) /\ PostConsumeUserSubscriptionDelta(-q.preConsumed, o)
                /\ LET p == [q EXCEPT !.taken = @ - Amount(o, q.preConsumed),
                                      !.harmed = @ \/ o = "lost"] IN
                   Goes(r, IF o = "ok" THEN [p EXCEPT !.pc = "mark"] ELSE NextTry(p))
    BY DEF RefundSubscription
  <1> HIDE DEF q
  <1>3. /\ q.preConsumed \in Nat /\ q.taken \in Int /\ q.extraReserved \in Nat
        /\ q.tokenConsumed \in Nat /\ q.record \in {"none", "consumed", "refunded"}
    BY <1>1 DEF Request
  <1>4. ~q.harmed => /\ Refunding(q) /\ q.record # "none"
                     /\ q.taken = (IF q.record = "refunded" THEN 0 ELSE q.preConsumed) + q.extraReserved
    BY <1>1 DEF Local, Closing
  <1>5. CASE /\ q.record = "refunded" /\ NoStatement
             /\ Goes(r, [q EXCEPT !.pc = AfterFunding(q)])
    <2> DEFINE pc == AfterFunding(q)
               g == [q EXCEPT !.pc = pc]
    <2>t. pc \in Pcs
      BY AfterFundingPcs
    <2> HIDE DEF pc
    <2>1. g \in Request
      BY <1>1, <2>t DEF Request
    <2>2. /\ g.pc = pc /\ g.harmed = q.harmed /\ g.source = q.source /\ g.taken = q.taken
          /\ g.extraReserved = q.extraReserved /\ g.tokenConsumed = q.tokenConsumed
          /\ g.IsPlayground = q.IsPlayground
          /\ Refunding(q) => Refunding(g)
      BY <1>1 DEF Request, Refunding
    <2>3. g.pc = AfterFunding(g)
      BY <2>2 DEF pc, AfterFunding, AfterExtra
    <2> HIDE DEF g
    <2>4. ~g.harmed => Refunding(g) /\ g.taken = g.extraReserved
      BY <1>3, <1>4, <1>5, <2>2
    <2>5. Local(g)
      BY <1>1, <2>1, <2>2, <2>3, <2>4, FundingRefundedLocal
    <2> QED BY <1>5, <2>5, QuietStep DEF g, pc
  <1>6. ASSUME q.record # "refunded", UNCHANGED token, NEW o \in Answers, Answered(o),
               PostConsumeUserSubscriptionDelta(-q.preConsumed, o),
               LET p == [q EXCEPT !.taken = @ - Amount(o, q.preConsumed),
                                  !.harmed = @ \/ o = "lost"] IN
               Goes(r, IF o = "ok" THEN [p EXCEPT !.pc = "mark"] ELSE NextTry(p))
        PROVE  IInv'
    <2>n. -q.preConsumed \in Int
      BY <1>3
    <2>1. Accounts'
      BY <1>6, <2>n, SubscriptionAccounts DEF IInv
    <2> DEFINE t == q.taken - Amount(o, q.preConsumed)
               h == q.harmed \/ o = "lost"
               p == [q EXCEPT !.taken = t, !.harmed = h]
               a == [p EXCEPT !.pc = "mark"]
    <2>2. t \in Int /\ (o = "ok" => t = q.taken - q.preConsumed) /\ (~Runs(o) => t = q.taken)
      BY <1>3
    <2>3. h \in BOOLEAN /\ (~h => ~q.harmed /\ o # "lost")
      OBVIOUS
    <2>g. Goes(r, IF o = "ok" THEN a ELSE NextTry(p))
      BY <1>6
    <2> HIDE DEF t, h
    <2>4. p \in Request
      BY <1>1, <2>2, <2>3 DEF Request
    <2>5. /\ p.harmed = h /\ p.source = q.source /\ p.taken = t /\ p.record = q.record
          /\ p.preConsumed = q.preConsumed /\ p.extraReserved = q.extraReserved
          /\ p.tokenTaken = q.tokenTaken /\ p.tokenConsumed = q.tokenConsumed
          /\ Refunding(q) => Refunding(p)
      BY <1>1 DEF Request, Refunding
    <2> HIDE DEF p
    <2>6. o # "ok" => Local(NextTry(p))
      <3>1. o # "ok" /\ ~p.harmed => t = q.taken
        BY <2>2, <2>3, <2>5
      <3> QED BY <1>1, <1>4, <2>3, <2>4, <2>5, <3>1, NextTryLocal
    <2>7. o = "ok" => Local(a)
      <3>t. "mark" \in Pcs
        BY DEF Pcs
      <3>1. a \in Request
        BY <2>4, <3>t DEF Request
      <3>2. /\ a.pc = "mark" /\ a.harmed = h /\ a.source = q.source /\ a.taken = t
            /\ a.record = q.record /\ a.extraReserved = q.extraReserved
            /\ a.tokenTaken = q.tokenTaken
            /\ Refunding(p) => Refunding(a)
        BY <2>4, <2>5 DEF Request, Refunding
      <3> HIDE DEF a
      <3>3. o = "ok" /\ ~a.harmed => /\ Refunding(a) /\ a.taken = a.extraReserved /\ a.taken >= 0
                                     /\ a.record = "consumed" /\ a.tokenTaken >= 0
        <4>1. ~q.harmed => q.tokenTaken >= 0
          BY <1>1 DEF Local
        <4> QED BY <1>3, <1>4, <1>6, <2>2, <2>3, <2>5, <3>2, <4>1
      <3>4. o = "ok" /\ ~a.harmed => Opening(a) /\ Closing(a)
        BY <1>1, <3>2, <3>3 DEF Opening, Closing, Before
      <3> QED BY <1>1, <3>1, <3>2, <3>3, <3>4 DEF Local, Counted
    <2> HIDE DEF a
    <2> QED BY <2>1, <2>g, <2>6, <2>7, RequestStep
  <1> QED BY <1>2, <1>5, <1>6

\* The record is marked, or the attempt has failed with the quota given back
\* already: harm only when the mark itself did not run.
LEMMA MarkRefundedStep ==
    ASSUME IInv, NEW r \in Requests, MarkRefunded(r)
    PROVE  IInv'
  <1> DEFINE q == req[r]
  <1>1. /\ Local(q) /\ q.pc = "mark" /\ q \in Request
        /\ UNCHANGED <<wallet, token, used, over>>
    BY DEF IInv, MarkRefunded, Local
  <1>2. PICK o \in Answers \ {"denied"} :
          /\ Answered(o)
          /\ LET p == [q EXCEPT !.record = IF Runs(o) THEN "refunded" ELSE @,
                                !.harmed = @ \/ ~Runs(o)] IN
             Goes(r, IF o = "ok" THEN [p EXCEPT !.pc = AfterFunding(q)] ELSE NextTry(p))
    BY DEF MarkRefunded
  <1> HIDE DEF q
  <1>3. q.source = "subscription" /\ q.extraReserved \in Nat /\ q.taken \in Int
    BY <1>1 DEF Local, Counted, Request
  <1>4. Accounts'
    BY <1>1, <1>2, ConstantsAssumption DEF IInv, Accounts, Answered
  <1>5. ~q.harmed => Refunding(q) /\ q.taken = q.extraReserved
    BY <1>1 DEF Local, Closing
  <1> DEFINE c == IF Runs(o) THEN "refunded" ELSE q.record
             h == q.harmed \/ ~Runs(o)
             p == [q EXCEPT !.record = c, !.harmed = h]
             pc == AfterFunding(q)
             g == [p EXCEPT !.pc = pc]
  <1>6. c \in {"none", "consumed", "refunded"} /\ (Runs(o) => c = "refunded")
    BY <1>1 DEF Request
  <1>7. h \in BOOLEAN /\ (~h => ~q.harmed /\ Runs(o))
    OBVIOUS
  <1>p. pc \in Pcs
    BY AfterFundingPcs
  <1>g. Goes(r, IF o = "ok" THEN g ELSE NextTry(p))
    BY <1>2
  <1> HIDE DEF c, h, pc
  <1>8. p \in Request
    BY <1>1, <1>6, <1>7 DEF Request
  <1>9. /\ p.record = c /\ p.harmed = h /\ p.source = q.source /\ p.taken = q.taken
        /\ p.extraReserved = q.extraReserved /\ p.tokenConsumed = q.tokenConsumed
        /\ p.IsPlayground = q.IsPlayground
        /\ Refunding(q) => Refunding(p)
    BY <1>1 DEF Request, Refunding
  <1> HIDE DEF p
  <1>10. g \in Request
    BY <1>8, <1>p DEF Request
  <1>11. /\ g.pc = pc /\ g.harmed = h /\ g.source = q.source /\ g.taken = q.taken
         /\ g.extraReserved = q.extraReserved /\ g.tokenConsumed = q.tokenConsumed
         /\ g.IsPlayground = q.IsPlayground
         /\ Refunding(p) => Refunding(g)
    BY <1>8, <1>9 DEF Request, Refunding
  <1>12. g.pc = AfterFunding(g)
    BY <1>11 DEF pc, AfterFunding, AfterExtra
  <1> HIDE DEF g
  <1>13. Local(g)
    <2>1. ~g.harmed => Refunding(g) /\ g.taken = g.extraReserved
      BY <1>5, <1>7, <1>9, <1>11
    <2> QED BY <1>3, <1>10, <1>11, <1>12, <2>1, FundingRefundedLocal
  <1>14. Local(NextTry(p))
    <2>1. ~p.harmed => /\ Refunding(p) /\ p.record = "refunded"
                       /\ p.taken = 0 + p.extraReserved
      BY <1>3, <1>5, <1>6, <1>7, <1>9
    <2> QED BY <1>3, <1>8, <1>9, <2>1, NextTryLocal
  <1> QED BY <1>4, <1>g, <1>13, <1>14, RequestStep

\* The reserve of a subscription.
LEMMA RefundExtraStep ==
    ASSUME IInv, NEW r \in Requests, RefundExtra(r)
    PROVE  IInv'
  <1> DEFINE q == req[r]
  <1>1. Local(q) /\ q.pc = "refundExtra" /\ q \in Request /\ UNCHANGED token
    BY DEF IInv, RefundExtra, Local
  <1>2. PICK o \in Answers :
          /\ Answered(o) /\ PostConsumeUserSubscriptionDelta(-q.extraReserved, o)
          /\ Goes(r, [q EXCEPT !.pc = AfterExtra(q),
                               !.taken = @ - Amount(o, q.extraReserved),
                               !.harmed = @ \/ ~Runs(o)])
    BY DEF RefundExtra
  <1> HIDE DEF q
  <1>3. q.extraReserved \in Nat /\ q.taken \in Int
    BY <1>1 DEF Request
  <1>n. -q.extraReserved \in Int
    BY <1>3
  <1>4. Accounts'
    BY <1>1, <1>2, <1>n, SubscriptionAccounts DEF IInv
  <1> DEFINE t == q.taken - Amount(o, q.extraReserved)
             h == q.harmed \/ ~Runs(o)
             pc == AfterExtra(q)
             g == [q EXCEPT !.pc = pc, !.taken = t, !.harmed = h]
  <1>5. t \in Int /\ (Runs(o) => t = q.taken - q.extraReserved) /\ pc \in Pcs
    BY <1>3, AfterFundingPcs
  <1>6. h \in BOOLEAN /\ (~h => ~q.harmed /\ Runs(o))
    OBVIOUS
  <1>g. Goes(r, g)
    BY <1>2
  <1> HIDE DEF t, h, pc
  <1>7. g \in Request
    BY <1>1, <1>5, <1>6 DEF Request
  <1>8. /\ g.pc = pc /\ g.taken = t /\ g.harmed = h
        /\ g.tokenConsumed = q.tokenConsumed /\ g.IsPlayground = q.IsPlayground
        /\ Refunding(q) => Refunding(g)
    BY <1>1 DEF Request, Refunding
  <1>9. g.pc = AfterExtra(g)
    BY <1>8 DEF pc, AfterExtra
  <1> HIDE DEF g
  <1>10. ~q.harmed => Refunding(q) /\ q.taken = q.extraReserved
    BY <1>1 DEF Local, Closing
  <1>11. ~g.harmed => Refunding(g) /\ g.taken = 0
    BY <1>3, <1>5, <1>6, <1>8, <1>10
  <1>12. Local(g)
    BY <1>7, <1>9, <1>11, RefundedLocal
  <1> QED BY <1>4, <1>g, <1>12, RequestStep

\* The token's share, last.
LEMMA RefundTokenStep ==
    ASSUME IInv, NEW r \in Requests, RefundToken(r)
    PROVE  IInv'
  <1> DEFINE q == req[r]
  <1>1. Local(q) /\ q.pc = "refundToken" /\ q \in Request /\ FundingUnchanged
    BY DEF IInv, RefundToken, Local
  <1>2. PICK o \in Answers :
          /\ Answered(o) /\ AdjustToken(-q.tokenConsumed, o)
          /\ Goes(r, [q EXCEPT !.pc = "refunded",
                               !.tokenTaken = @ - Amount(o, q.tokenConsumed),
                               !.harmed = @ \/ ~Runs(o)])
    BY DEF RefundToken
  <1> HIDE DEF q
  <1>3. q.tokenConsumed \in Nat /\ q.tokenTaken \in Int /\ "refunded" \in Pcs
    BY <1>1 DEF Request, Pcs
  <1>n. -q.tokenConsumed \in Int
    BY <1>3
  <1>4. Accounts'
    BY <1>1, <1>2, <1>n, TokenAccounts DEF IInv
  <1> DEFINE t == q.tokenTaken - Amount(o, q.tokenConsumed)
             h == q.harmed \/ ~Runs(o)
             g == [q EXCEPT !.pc = "refunded", !.tokenTaken = t, !.harmed = h]
  <1>5. t \in Int /\ (Runs(o) => t = q.tokenTaken - q.tokenConsumed)
    BY <1>3
  <1>6. h \in BOOLEAN /\ (~h => ~q.harmed /\ Runs(o))
    OBVIOUS
  <1>g. Goes(r, g)
    BY <1>2
  <1> HIDE DEF t, h
  <1>7. g \in Request
    BY <1>1, <1>3, <1>5, <1>6 DEF Request
  <1>8. g.pc = "refunded" /\ g.tokenTaken = t /\ g.harmed = h /\ g.taken = q.taken
    BY <1>1 DEF Request
  <1> HIDE DEF g
  <1>9. ~q.harmed => Refunding(q) /\ ~q.IsPlayground /\ q.taken = 0
    BY <1>1 DEF Local, Closing
  <1>10. ~g.harmed => g.taken = 0 /\ g.tokenTaken = 0
    BY <1>3, <1>5, <1>6, <1>8, <1>9 DEF Refunding
  <1>11. ~g.harmed => Opening(g) /\ Closing(g)
    BY <1>8, <1>10 DEF Opening, Closing, Before
  <1>12. Local(g)
    BY <1>7, <1>8, <1>10, <1>11 DEF Local, Counted
  <1> QED BY <1>4, <1>g, <1>12, RequestStep

-----------------------------------------------------------------------------
(* The node and the period.                                                 *)

\* A dead request keeps what it had taken.
LEMMA CrashStep ==
    ASSUME IInv, NEW r \in Requests, Crash(r)
    PROVE  IInv'
  <1> DEFINE q == req[r]
             g == [q EXCEPT !.pc = "dead"]
  <1>1. Local(q) /\ q \in Request /\ Goes(r, g)
    BY DEF IInv, Crash, Local
  <1>2. Accounts'
    BY ConstantsAssumption DEF IInv, Accounts, Crash
  <1> HIDE DEF q
  <1>3. g \in Request
    BY <1>1 DEF Request, Pcs
  <1>4. g.pc = "dead" /\ g.harmed = q.harmed /\ g.taken = q.taken /\ g.tokenTaken = q.tokenTaken
    BY <1>1 DEF Request
  <1> HIDE DEF g
  <1>5. ~g.harmed => g.taken >= 0 /\ g.tokenTaken >= 0
    BY <1>1, <1>4 DEF Local
  <1>6. Opening(g) /\ Closing(g)
    BY <1>4 DEF Opening, Closing, Before
  <1>7. Local(g)
    BY <1>3, <1>4, <1>5, <1>6 DEF Local, Counted
  <1> QED BY <1>1, <1>2, <1>7, RequestStep

\* A new period forgets what every session has taken of the old one.
LEMMA ResetStep ==
    ASSUME IInv, ResetSubscription
    PROVE  IInv'
  <1>1. Accounts'
    BY ConstantsAssumption DEF IInv, Accounts, ResetSubscription
  <1>2. UNCHANGED req
    BY DEF ResetSubscription
  <1> QED BY <1>1, <1>2 DEF IInv

LEMMA InitIInv == Init => IInv
  <1> SUFFICES ASSUME Init PROVE IInv
    OBVIOUS
  <1>1. Accounts
    BY ConstantsAssumption DEF Init, Accounts
  <1>2. DOMAIN req = Requests /\ req = [r \in Requests |-> req[r]]
    BY DEF Init
  <1>3. Idle \in Request
    BY DEF Idle, Request, Pcs
  <1>4. Local(Idle)
    BY <1>3 DEF Idle, Local, Counted, Opening, Closing, Fresh, Before
  <1>5. \A r \in Requests : Local(req[r])
    BY <1>4 DEF Init
  <1> QED BY <1>1, <1>2, <1>5 DEF IInv

LEMMA NextIInv == IInv /\ [Next]_vars => IInv'
  <1> SUFFICES ASSUME IInv, [Next]_vars PROVE IInv'
    OBVIOUS
  <1>1. CASE UNCHANGED vars
    BY <1>1 DEF vars, IInv, Accounts
  <1>2. CASE ResetSubscription
    BY <1>2, ResetStep
  <1>3. ASSUME NEW r \in Requests,
               \/ PreConsumeBilling(r) \/ TryWallet(r) \/ TokenRead(r) \/ TokenTake(r)
               \/ Fund(r) \/ TokenBack(r)
               \/ Reserve(r) \/ ReserveFunding(r) \/ ReserveRead(r) \/ ReserveToken(r)
               \/ RollbackFundingReserve(r)
        PROVE  IInv'
    BY <1>3, PreConsumeBillingStep, TryWalletStep, TokenReadStep, TokenTakeStep, FundStep,
       TokenBackStep, ReserveStep, ReserveFundingStep, ReserveReadStep, ReserveTokenStep,
       RollbackStep
  <1>4. ASSUME NEW r \in Requests,
               \/ Settle(r) \/ SettleFunding(r) \/ SettleToken(r) \/ Finish(r)
               \/ Refund(r) \/ RefundWallet(r) \/ RefundSubscription(r) \/ MarkRefunded(r)
               \/ RefundExtra(r) \/ RefundToken(r) \/ Crash(r)
        PROVE  IInv'
    BY <1>4, SettleStep, SettleFundingStep, SettleTokenStep, FinishStep, RefundStep,
       RefundWalletStep, RefundSubscriptionStep, MarkRefundedStep, RefundExtraStep,
       RefundTokenStep, CrashStep
  <1> QED BY <1>1, <1>2, <1>3, <1>4 DEF Next

\* Of the invariant every reachable state has.
LEMMA Inductive == Spec => []IInv
  BY InitIInv, NextIInv, PTL DEF Spec

-----------------------------------------------------------------------------
(* Returns.  An error may leave a session with more than its counters say,  *)
(* never with less, as long as every return it takes for a failure was one. *)
(* So what a session may still give back is covered, harmed or not.         *)

Serving == {"sent", "reserve", "reserveRead", "reserveToken", "reserveBack", "settleFund"}

\* What the session may still return to the token ...
TokenDue(q) ==
    IF q.IsPlayground \/ q.pc \in Ended \/ (q.pc = "served" /\ q.settled) THEN 0
    ELSE q.tokenConsumed

\* ... and to the funding source.
FundingDue(q) ==
    CASE \/ q.pc \in Ended \/ (q.pc = "served" /\ q.settled)
         \/ q.pc \in {"settleToken", "refundToken"} -> 0
      [] q.pc \in {"mark", "refundExtra"} -> q.extraReserved
      [] q.pc = "refund" /\ q.source = "subscription" ->
            (IF q.record = "refunded" THEN 0 ELSE q.preConsumed) + q.extraReserved
      [] q.pc \in {"reserveRead", "reserveToken", "reserveBack"} /\ q.source = "subscription" ->
            q.preConsumed + q.extraReserved + q.delta
      [] OTHER -> IF q.source = "wallet" THEN q.consumed ELSE q.preConsumed + q.extraReserved

\* The counters behind them.
Backed(q) ==
    /\ q.pc \in Before => /\ q.preConsumedQuota = 0 /\ q.consumed = 0
                          /\ q.preConsumed = 0 /\ q.extraReserved = 0
    /\ q.pc \in {"idle", "wallet", "tokenRead", "tokenTake"} => q.tokenConsumed = 0
    /\ q.pc = "fund" => q.tokenConsumed = q.effectiveQuota
    /\ q.pc \in Serving \cup {"settleToken"} => q.tokenConsumed >= q.preConsumedQuota
    /\ q.pc \in Serving =>
          IF q.source = "subscription" THEN q.preConsumed + q.extraReserved >= q.preConsumedQuota
          ELSE IF q.pc \in {"reserveRead", "reserveToken", "reserveBack"}
          THEN q.consumed >= q.preConsumedQuota + q.delta
          ELSE q.consumed >= q.preConsumedQuota
    /\ q.pc \in {"settleFund", "settleToken"} => q.delta = q.actualQuota - q.preConsumedQuota
    /\ q.pc \in {"settleToken", "tokenTake", "tokenBack", "refundToken"} => ~q.IsPlayground
    /\ q.pc = "refundExtra" => q.source = "subscription"

Cover(q, sure) ==
    /\ Backed(q)
    /\ q.tokenTaken >= TokenDue(q)
    /\ sure => q.taken >= FundingDue(q)

Covered ==
    /\ unsure \subseteq Requests
    /\ \A r \in Requests : Cover(req[r], r \notin unsure)

USE DEF Cover, Backed, TokenDue, FundingDue, Serving, Before, Ended

\* Only the record of the request that moves, and what is known of it, change.
LEMMA CoverStep ==
    ASSUME IInv, Covered, NEW r \in Requests, NEW g, Goes(r, g),
           unsure' \in {unsure, unsure \cup {r}}, Cover(g, r \notin unsure')
    PROVE  Covered'
  <1>1. unsure' \subseteq Requests /\ \A p \in Requests \ {r} : p \in unsure' <=> p \in unsure
    BY DEF Covered
  <1>2. req'[r] = g /\ \A p \in Requests \ {r} : req'[p] = req[p]
    BY DEF IInv, Goes
  <1>3. ASSUME NEW p \in Requests PROVE Cover(req'[p], p \notin unsure')
    <2> HIDE DEF Cover
    <2>1. CASE p = r
      BY <1>2, <2>1
    <2>2. CASE p # r
      <3>1. Cover(req[p], p \notin unsure)
        BY DEF Covered
      <3> QED BY <1>1, <1>2, <2>2, <3>1 DEF Cover
    <2> QED BY <2>1, <2>2
  <1> HIDE DEF Cover
  <1> QED BY <1>1, <1>3 DEF Covered

\* A request that has been charged on no source, or gave up.
LEMMA TryCover ==
    ASSUME NEW q \in Request, NEW sure, q.tokenTaken >= 0, sure => q.taken >= 0,
           q.preConsumedQuota = 0, q.consumed = 0, q.preConsumed = 0, q.extraReserved = 0,
           NEW source \in {"wallet", "subscription"}, NEW then
    PROVE  Cover(Try(q, source, then), sure)
  BY DEF Try, Request

LEMMA RejectedCover ==
    ASSUME NEW q \in Request, NEW sure, q.tokenTaken >= 0, sure => q.taken >= 0
    PROVE  Cover(Rejected(q), sure)
  BY DEF Rejected, Request

LEMMA InsufficientCover ==
    ASSUME NEW q \in Request, NEW sure, q.tokenTaken >= 0, sure => q.taken >= 0,
           q.preConsumedQuota = 0, q.consumed = 0, q.preConsumed = 0, q.extraReserved = 0
    PROVE  Cover(Insufficient(q), sure)
  BY TryCover, RejectedCover DEF Insufficient, Request

LEMMA PreConsumeBillingCover ==
    ASSUME NEW q \in Request, NEW sure, Cover(q, sure), q.pc = "idle",
           NEW n \in Nat, NEW p \in BOOLEAN, NEW source \in {"wallet", "subscription"}, NEW then
    PROVE  Cover(Try([q EXCEPT !.quota = n, !.IsPlayground = p], source, then), sure)
  <1> DEFINE g == [q EXCEPT !.quota = n, !.IsPlayground = p]
  <1>1. g \in Request
    BY DEF Request
  <1>2. /\ g.tokenTaken >= 0 /\ (sure => g.taken >= 0)
        /\ g.preConsumedQuota = 0 /\ g.consumed = 0 /\ g.preConsumed = 0 /\ g.extraReserved = 0
    BY DEF Request
  <1> HIDE DEF g, Cover
  <1>3. Cover(Try(g, source, then), sure)
    BY <1>1, <1>2, TryCover
  <1> QED BY <1>3 DEF g

LEMMA TryWalletCover ==
    ASSUME NEW q \in Request, NEW sure, Cover(q, sure), q.pc = "wallet", NEW trust \in BOOLEAN,
           Counted(q)
    PROVE  /\ Cover(Insufficient(q), sure)
           /\ Cover([q EXCEPT !.pc = IF trust \/ q.quota = 0 THEN "fund" ELSE "tokenRead",
                              !.trusted = trust,
                              !.effectiveQuota = IF trust THEN 0 ELSE q.quota], sure)
  <1>1. Cover(Insufficient(q), sure)
    BY InsufficientCover DEF Request
  <1>2. CASE trust \/ q.quota = 0
    BY <1>1, <1>2 DEF Request, Counted
  <1>3. CASE ~(trust \/ q.quota = 0)
    BY <1>1, <1>3 DEF Request, Counted
  <1> QED BY <1>2, <1>3

LEMMA TokenReadCover ==
    ASSUME NEW q \in Request, NEW sure, Cover(q, sure), q.pc = "tokenRead"
    PROVE  /\ q.IsPlayground =>
                 Cover([q EXCEPT !.pc = "fund", !.tokenConsumed = q.effectiveQuota], sure)
           /\ Cover(Rejected(q), sure)
           /\ ~q.IsPlayground => Cover([q EXCEPT !.pc = "tokenTake"], sure)
  <1>1. Cover(Rejected(q), sure)
    BY RejectedCover DEF Request
  <1>2. q.IsPlayground => Cover([q EXCEPT !.pc = "fund", !.tokenConsumed = q.effectiveQuota], sure)
    BY DEF Request
  <1>3. ~q.IsPlayground => Cover([q EXCEPT !.pc = "tokenTake"], sure)
    BY DEF Request
  <1> QED BY <1>1, <1>2, <1>3

LEMMA TokenTakeCover ==
    ASSUME NEW q \in Request, NEW sure, Cover(q, sure), q.pc = "tokenTake", NEW o \in Answers,
           NEW h \in BOOLEAN
    PROVE  LET p == [q EXCEPT !.tokenTaken = @ + Amount(o, q.effectiveQuota)] IN
           /\ o = "ok" =>
                 Cover([p EXCEPT !.pc = "fund", !.tokenConsumed = q.effectiveQuota], sure)
           /\ Cover(Rejected([p EXCEPT !.harmed = h]), sure)
  <1> DEFINE t == q.tokenTaken + Amount(o, q.effectiveQuota)
             p == [q EXCEPT !.tokenTaken = t]
             g == [p EXCEPT !.harmed = h]
  <1>1. /\ t \in Int /\ t >= 0 /\ (o = "ok" => t >= q.effectiveQuota) /\ (sure => q.taken >= 0)
        /\ q.tokenConsumed = 0 /\ ~q.IsPlayground
    BY DEF Request
  <1> HIDE DEF t
  <1>2. g \in Request /\ p \in Request
    BY <1>1 DEF Request
  <1>3. Cover(Rejected(g), sure)
    <2>1. g.tokenTaken = t /\ g.taken = q.taken
      BY <1>1 DEF Request
    <2> HIDE DEF g, Cover
    <2> QED BY <1>1, <1>2, <2>1, RejectedCover
  <1>4. o = "ok" => Cover([p EXCEPT !.pc = "fund", !.tokenConsumed = q.effectiveQuota], sure)
    BY <1>1, <1>2 DEF Request
  <1> QED BY <1>3, <1>4 DEF t

\* The record after the pre-charge, and after it worked.
FundCharged(q, o, c, h) ==
    [q EXCEPT !.taken = @ + Amount(o, q.effectiveQuota), !.record = c, !.harmed = h]
FundOpened(q, p) ==
    [p EXCEPT !.pc = "sent", !.quota = 0, !.effectiveQuota = 0, !.then = "none",
              !.preConsumedQuota = q.effectiveQuota,
              !.consumed = IF q.source = "wallet" THEN q.effectiveQuota ELSE 0,
              !.preConsumed = IF q.source = "subscription" THEN q.effectiveQuota ELSE 0]
FundFailed(short, p) == AfterFundingError([p EXCEPT !.then = IF short THEN @ ELSE "none"])

LEMMA FundCover ==
    ASSUME NEW q \in Request, NEW sure, Cover(q, sure), q.pc = "fund", NEW o \in Answers,
           NEW short \in BOOLEAN, NEW h \in BOOLEAN, NEW c \in {"none", "consumed", "refunded"}
    PROVE  /\ q.effectiveQuota = 0 /\ q.source = "wallet" =>
                 Cover([q EXCEPT !.pc = "sent", !.quota = 0, !.then = "none"], sure)
           /\ o = "ok" =>
                 Cover(FundOpened(q, FundCharged(q, o, c, h)), sure)
           /\ Cover(FundFailed(short, FundCharged(q, o, c, h)), sure)
  <1> DEFINE t == q.taken + Amount(o, q.effectiveQuota)
             p == [q EXCEPT !.taken = t, !.record = c, !.harmed = h]
             n == IF short THEN p.then ELSE "none"
             w == IF q.source = "wallet" THEN q.effectiveQuota ELSE 0
             z == IF q.source = "subscription" THEN q.effectiveQuota ELSE 0
             g == [p EXCEPT !.then = n]
  <1>1. /\ t \in Int /\ (sure => t >= 0) /\ (sure /\ o = "ok" => t >= q.effectiveQuota)
        /\ q.tokenConsumed = q.effectiveQuota /\ q.tokenTaken >= 0
        /\ w \in Nat /\ z \in Nat
        /\ q.source = "wallet" => w = q.effectiveQuota /\ z = 0
        /\ q.source = "subscription" => z = q.effectiveQuota /\ w = 0
    BY DEF Request
  <1> HIDE DEF t, w, z
  <1>2. p \in Request
    BY <1>1 DEF Request
  <1>3. q.effectiveQuota = 0 /\ q.source = "wallet" =>
           Cover([q EXCEPT !.pc = "sent", !.quota = 0, !.then = "none"], sure)
    BY DEF Request
  <1>4. o = "ok" => Cover([p EXCEPT !.pc = "sent", !.quota = 0, !.effectiveQuota = 0,
                                    !.then = "none", !.preConsumedQuota = q.effectiveQuota,
                                    !.consumed = w, !.preConsumed = z], sure)
    BY <1>1, <1>2 DEF Request
  <1>5. n \in {"wallet", "subscription", "none"}
    BY <1>2 DEF Request
  <1> HIDE DEF n
  <1>6. /\ g \in Request /\ g.tokenTaken = q.tokenTaken /\ g.taken = t /\ g.pc = "fund"
        /\ g.tokenConsumed = q.tokenConsumed /\ g.IsPlayground = q.IsPlayground
        /\ g.preConsumedQuota = 0 /\ g.consumed = 0 /\ g.preConsumed = 0 /\ g.extraReserved = 0
    BY <1>1, <1>2, <1>5 DEF Request
  <1> HIDE DEF g
  <1>7. g.tokenConsumed > 0 /\ ~g.IsPlayground => Cover([g EXCEPT !.pc = "tokenBack"], sure)
    BY <1>1, <1>6 DEF Request
  <1>8. Cover(Insufficient(g), sure)
    <2> HIDE DEF Cover
    <2> QED BY <1>1, <1>6, InsufficientCover
  <1>9. Cover(AfterFundingError(g), sure)
    <2> HIDE DEF Cover
    <2> QED BY <1>7, <1>8 DEF AfterFundingError
  <1> HIDE DEF Cover
  <1> QED BY <1>3, <1>4, <1>9 DEF t, w, z, g, n, FundCharged, FundOpened, FundFailed

LEMMA TokenBackCover ==
    ASSUME NEW q \in Request, NEW sure, Cover(q, sure), q.pc = "tokenBack", NEW o \in Answers,
           NEW h \in BOOLEAN
    PROVE  Cover(Insufficient([q EXCEPT !.tokenTaken = @ - Amount(o, q.tokenConsumed),
                                        !.tokenConsumed = 0, !.harmed = h]), sure)
  <1> DEFINE t == q.tokenTaken - Amount(o, q.tokenConsumed)
             g == [q EXCEPT !.tokenTaken = t, !.tokenConsumed = 0, !.harmed = h]
  <1>1. t \in Int /\ t >= 0 /\ (sure => q.taken >= 0)
    BY DEF Request
  <1> HIDE DEF t
  <1>2. /\ g \in Request /\ g.tokenTaken = t /\ g.taken = q.taken
        /\ g.preConsumedQuota = 0 /\ g.consumed = 0 /\ g.preConsumed = 0 /\ g.extraReserved = 0
    BY <1>1 DEF Request
  <1> HIDE DEF g
  <1>3. Cover(Insufficient(g), sure)
    <2> HIDE DEF Cover
    <2> QED BY <1>1, <1>2, InsufficientCover
  <1> HIDE DEF Cover
  <1> QED BY <1>3 DEF g, t

\* Reserve.
LEMMA ReserveCover ==
    ASSUME NEW q \in Request, NEW sure, Cover(q, sure), q.pc = "sent", NEW d \in Nat
    PROVE  Cover([q EXCEPT !.pc = "reserve", !.delta = d], sure)
  BY DEF Request

LEMMA ReserveFundingCover ==
    ASSUME NEW q \in Request, NEW sure, Cover(q, sure), q.pc = "reserve", Counted(q),
           NEW o \in Answers, NEW h \in BOOLEAN
    PROVE  LET p == [q EXCEPT !.taken = @ + Amount(o, q.delta), !.harmed = h] IN
           /\ Cover([p EXCEPT !.pc = "failing", !.delta = 0], sure)
           /\ o = "ok" => Cover(FundingReserved(p), sure)
  <1> DEFINE t == q.taken + Amount(o, q.delta)
             p == [q EXCEPT !.taken = t, !.harmed = h]
  <1>1. /\ t \in Int /\ t >= q.taken /\ (o = "ok" => t = q.taken + q.delta) /\ q.delta > 0
    BY DEF Request, Counted
  <1> HIDE DEF t
  <1>2. p \in Request
    BY <1>1 DEF Request
  <1>3. Cover([p EXCEPT !.pc = "failing", !.delta = 0], sure)
    BY <1>1, <1>2 DEF Request
  <1>4. o = "ok" => Cover(FundingReserved(p), sure)
    <2> DEFINE c == IF q.source = "wallet" THEN q.consumed + q.delta ELSE q.consumed
               g == [p EXCEPT !.pc = "reserveRead", !.consumed = c]
    <2>1. c \in Int /\ (q.source = "wallet" => c = q.consumed + q.delta)
      BY DEF Request
    <2>2. g = FundingReserved(p)
      BY DEF FundingReserved, Request
    <2> HIDE DEF c
    <2>3. o = "ok" => Cover(g, sure)
      BY <1>1, <1>2, <2>1 DEF Request
    <2> HIDE DEF Cover
    <2> QED BY <2>2, <2>3
  <1> HIDE DEF Cover
  <1> QED BY <1>3, <1>4 DEF t

LEMMA ReservedCover ==
    ASSUME NEW q \in Request, NEW sure, Backed(q), q.pc \in {"reserveRead", "reserveToken"},
           Counted(q), sure => q.taken >= FundingDue(q),
           (q.IsPlayground /\ q.tokenTaken >= 0) \/ q.tokenTaken >= q.tokenConsumed + q.delta
    PROVE  Cover(Reserved(q), sure)
  BY DEF Reserved, Request, Counted

LEMMA ReserveReadCover ==
    ASSUME NEW q \in Request, NEW sure, Cover(q, sure), q.pc = "reserveRead", Counted(q),
           NEW pc \in {"reserveBack", "reserveToken"}
    PROVE  /\ q.IsPlayground => Cover(Reserved(q), sure)
           /\ Cover([q EXCEPT !.pc = pc], sure)
  <1>1. q.IsPlayground => Cover(Reserved(q), sure)
    BY ReservedCover DEF Request
  <1>2. Cover([q EXCEPT !.pc = pc], sure)
    BY DEF Request
  <1> QED BY <1>1, <1>2

LEMMA ReserveTokenCover ==
    ASSUME NEW q \in Request, NEW sure, Cover(q, sure), q.pc = "reserveToken", Counted(q),
           NEW o \in Answers, NEW h \in BOOLEAN
    PROVE  LET p == [q EXCEPT !.tokenTaken = @ + Amount(o, q.delta)] IN
           /\ o = "ok" => Cover(Reserved(p), sure)
           /\ Cover([p EXCEPT !.pc = "reserveBack", !.harmed = h], sure)
  <1> DEFINE t == q.tokenTaken + Amount(o, q.delta)
             p == [q EXCEPT !.tokenTaken = t]
  <1>1. /\ t \in Int /\ t >= q.tokenTaken /\ (o = "ok" => t = q.tokenTaken + q.delta)
        /\ q.delta > 0 /\ ~q.IsPlayground
    BY DEF Request, Counted
  <1> HIDE DEF t
  <1>2. p \in Request
    BY <1>1 DEF Request
  <1>3. Cover([p EXCEPT !.pc = "reserveBack", !.harmed = h], sure)
    BY <1>1, <1>2 DEF Request
  <1>4. o = "ok" => Cover(Reserved(p), sure)
    <2>1. /\ Backed(p) /\ p.pc = "reserveToken" /\ Counted(p)
          /\ sure => p.taken >= FundingDue(p)
          /\ o = "ok" => p.tokenTaken >= p.tokenConsumed + p.delta
      BY <1>1 DEF Request, Counted
    <2> HIDE DEF p, Cover, Backed, FundingDue
    <2> QED BY <1>2, <2>1, ReservedCover
  <1> HIDE DEF Cover
  <1> QED BY <1>3, <1>4 DEF t

LEMMA RollbackCover ==
    ASSUME NEW q \in Request, NEW sure, Cover(q, sure), q.pc = "reserveBack", Counted(q),
           NEW o \in Answers, NEW h \in BOOLEAN
    PROVE  Cover([q EXCEPT !.pc = "failing", !.delta = 0,
                           !.taken = @ - Amount(o, q.delta),
                           !.consumed = IF q.source = "wallet" /\ o = "ok"
                                        THEN @ - q.delta ELSE @,
                           !.harmed = h],
                 sure /\ ~(q.source = "wallet" /\ o = "lost"))
  <1> DEFINE t == q.taken - Amount(o, q.delta)
             c == IF q.source = "wallet" /\ o = "ok" THEN q.consumed - q.delta ELSE q.consumed
             g == [q EXCEPT !.pc = "failing", !.delta = 0, !.taken = t, !.consumed = c,
                            !.harmed = h]
  <1>1. /\ t \in Int /\ c \in Int
        /\ o = "ok" => t = q.taken - q.delta
        /\ o = "ok" /\ q.source = "wallet" => c = q.consumed - q.delta
        /\ ~(o = "ok" /\ q.source = "wallet") => c = q.consumed
        /\ o \notin {"ok", "lost"} => t = q.taken
        /\ t >= q.taken - q.delta
    BY DEF Request, Counted
  <1> HIDE DEF t, c
  <1>2. Cover(g, sure /\ ~(q.source = "wallet" /\ o = "lost"))
    BY <1>1 DEF Request
  <1> HIDE DEF Cover
  <1> QED BY <1>2 DEF t, c

\* Settle.
LEMMA SettleCover ==
    ASSUME NEW q \in Request, NEW sure, Cover(q, sure), q.pc = "sent", NEW n \in Nat
    PROVE  LET p == [q EXCEPT !.actualQuota = n, !.delta = n - q.preConsumedQuota] IN
           /\ Cover([p EXCEPT !.pc = "served", !.fundingSettled = TRUE, !.settled = TRUE], sure)
           /\ Cover([p EXCEPT !.pc = "settleFund"], sure)
  <1> DEFINE p == [q EXCEPT !.actualQuota = n, !.delta = n - q.preConsumedQuota]
  <1>1. Cover([p EXCEPT !.pc = "served", !.fundingSettled = TRUE, !.settled = TRUE], sure)
    BY DEF Request
  <1>2. Cover([p EXCEPT !.pc = "settleFund"], sure)
    BY DEF Request
  <1> QED BY <1>1, <1>2

\* The record after the settlement of the funding source: it worked, was
\* parked, or failed.
SettleCharged(q, p) ==
    [p EXCEPT !.fundingSettled = TRUE,
              !.pc = IF q.IsPlayground THEN "served" ELSE "settleToken",
              !.delta = IF q.IsPlayground THEN 0 ELSE @,
              !.settled = q.IsPlayground]
SettleParked(q, p) ==
    [p EXCEPT !.pc = "served", !.delta = 0, !.parked = q.delta,
              !.tokenParked = IF q.IsPlayground THEN 0 ELSE q.delta,
              !.fundingSettled = TRUE, !.settled = TRUE]

LEMMA SettleFundingCover ==
    ASSUME NEW q \in Request, NEW sure, Cover(q, sure), q.pc = "settleFund",
           NEW o \in Answers, NEW h \in BOOLEAN
    PROVE  LET p == [q EXCEPT !.taken = @ + Amount(o, q.delta), !.harmed = h]
               s == sure /\ ~(q.delta < 0 /\ o = "lost")
           IN
           /\ o = "ok" => Cover(SettleCharged(q, p), s)
           /\ o = "refused" => Cover(SettleParked(q, p), s)
           /\ o # "ok" => Cover([p EXCEPT !.pc = "served", !.delta = 0], s)
  <1> DEFINE t == q.taken + Amount(o, q.delta)
             s == sure /\ ~(q.delta < 0 /\ o = "lost")
             p == [q EXCEPT !.taken = t, !.harmed = h]
  <1>1. /\ t \in Int /\ (o = "ok" => t = q.taken + q.delta)
        /\ o \notin {"ok", "lost"} => t = q.taken
        /\ o = "lost" => t = q.taken + q.delta
        /\ sure => q.taken >= q.preConsumedQuota
        /\ sure => q.taken + q.delta >= 0
    BY DEF Request
  <1> HIDE DEF t
  <1>2. p \in Request
    BY <1>1 DEF Request
  <1>3. o = "refused" =>
            Cover([p EXCEPT !.pc = "served", !.delta = 0, !.parked = q.delta,
                            !.tokenParked = IF q.IsPlayground THEN 0 ELSE q.delta,
                            !.fundingSettled = TRUE, !.settled = TRUE], s)
    BY <1>1, <1>2 DEF Request
  <1>4. o # "ok" => Cover([p EXCEPT !.pc = "served", !.delta = 0], s)
    BY <1>1, <1>2 DEF Request
  <1>5. o = "ok" =>
            Cover([p EXCEPT !.fundingSettled = TRUE,
                            !.pc = IF q.IsPlayground THEN "served" ELSE "settleToken",
                            !.delta = IF q.IsPlayground THEN 0 ELSE @,
                            !.settled = q.IsPlayground], s)
    <2>1. CASE q.IsPlayground
      BY <1>1, <1>2, <2>1 DEF Request
    <2>2. CASE ~q.IsPlayground
      BY <1>1, <1>2, <2>2 DEF Request
    <2> QED BY <2>1, <2>2
  <1> HIDE DEF Cover
  <1> QED BY <1>3, <1>4, <1>5 DEF t, SettleCharged, SettleParked

LEMMA SettleTokenCover ==
    ASSUME NEW q \in Request, NEW sure, Cover(q, sure), q.pc = "settleToken",
           NEW o \in Answers, NEW h \in BOOLEAN, NEW n
    PROVE  Cover([q EXCEPT !.pc = "served", !.delta = 0, !.settled = TRUE,
                           !.tokenTaken = @ + Amount(o, q.delta),
                           !.tokenParked = n, !.harmed = h], sure)
  <1> DEFINE t == q.tokenTaken + Amount(o, q.delta)
  <1>1. t \in Int /\ t >= 0
    BY DEF Request
  <1> HIDE DEF t
  <1>2. Cover([q EXCEPT !.pc = "served", !.delta = 0, !.settled = TRUE, !.tokenTaken = t,
                        !.tokenParked = n, !.harmed = h], sure)
    BY <1>1 DEF Request
  <1> HIDE DEF Cover
  <1> QED BY <1>2 DEF t

\* A request that stops, or returns from its handler, gives nothing back.
LEMMA EndCover ==
    ASSUME NEW q \in Request, NEW sure, Cover(q, sure), Counted(q), NEW pc \in Ended
    PROVE  Cover([q EXCEPT !.pc = pc], sure)
  BY DEF Request, Counted

\* Refund.
LEMMA AfterFundingCover ==
    ASSUME NEW q \in Request, NEW sure, q.tokenTaken >= TokenShare(q, q.tokenConsumed),
           q.tokenTaken >= 0,
           sure => q.taken >= IF q.source = "wallet" THEN 0 ELSE q.extraReserved
    PROVE  Cover([q EXCEPT !.pc = AfterFunding(q)], sure)
  <1>1. CASE AfterFunding(q) = "refundExtra"
    BY <1>1 DEF AfterFunding, AfterExtra, Request
  <1>2. CASE AfterFunding(q) = "refundToken"
    BY <1>2 DEF AfterFunding, AfterExtra, Request
  <1>3. CASE AfterFunding(q) = "refunded"
    BY <1>3 DEF AfterFunding, AfterExtra, Request
  <1> QED BY <1>1, <1>2, <1>3 DEF AfterFunding, AfterExtra

LEMMA RefundCover ==
    ASSUME NEW q \in Request, NEW sure, Cover(q, sure), Counted(q),
           q.pc \in {"sent", "failing", "served"}, ~q.settled
    PROVE  /\ q.consumed = 0 /\ q.source = "wallet" =>
                 Cover([q EXCEPT !.refunded = TRUE, !.pc = AfterFunding(q)], sure)
           /\ Cover([q EXCEPT !.refunded = TRUE, !.pc = "refund"], sure)
  <1> DEFINE p == [q EXCEPT !.refunded = TRUE]
  <1>1. Cover([q EXCEPT !.refunded = TRUE, !.pc = "refund"], sure)
    BY DEF Request
  <1>t. /\ p \in Request
        /\ p.tokenTaken = q.tokenTaken /\ p.tokenConsumed = q.tokenConsumed
        /\ p.IsPlayground = q.IsPlayground /\ p.extraReserved = q.extraReserved
        /\ p.source = q.source /\ p.taken = q.taken
    BY DEF Request
  <1>q. /\ q.tokenTaken >= TokenShare(q, q.tokenConsumed) /\ q.tokenTaken >= 0
        /\ q.taken \in Int /\ q.extraReserved \in Nat
        /\ q.source = "wallet" => (sure => q.taken >= 0)
    BY DEF Request
  <1>e. [q EXCEPT !.refunded = TRUE, !.pc = AfterFunding(q)] = [p EXCEPT !.pc = AfterFunding(q)]
    BY DEF Request
  <1>2. /\ p.tokenTaken >= TokenShare(p, p.tokenConsumed) /\ p.tokenTaken >= 0
        /\ q.source = "wallet" => (sure => p.taken >= 0) /\ p.source = "wallet"
        /\ AfterFunding(p) = AfterFunding(q)
    <2> HIDE DEF p
    <2> QED BY <1>t, <1>q DEF AfterFunding, AfterExtra
  <1>3. q.source = "wallet" => Cover([p EXCEPT !.pc = AfterFunding(p)], sure)
    <2> HIDE DEF p, Cover
    <2> QED BY <1>t, <1>2, AfterFundingCover
  <1> HIDE DEF Cover, p
  <1> QED BY <1>1, <1>2, <1>3, <1>e

LEMMA RefundWalletCover ==
    ASSUME NEW q \in Request, NEW sure, Cover(q, sure), q.pc = "refund", q.source = "wallet",
           NEW o \in Answers, NEW h \in BOOLEAN
    PROVE  Cover([q EXCEPT !.pc = AfterFunding(q), !.taken = @ - Amount(o, q.consumed),
                           !.harmed = h], sure)
  <1> DEFINE t == q.taken - Amount(o, q.consumed)
             p == [q EXCEPT !.taken = t, !.harmed = h]
  <1>1. t \in Int /\ (sure => t >= 0)
    BY DEF Request
  <1> HIDE DEF t
  <1>t. /\ p \in Request
        /\ p.tokenTaken = q.tokenTaken /\ p.tokenConsumed = q.tokenConsumed
        /\ p.IsPlayground = q.IsPlayground /\ p.extraReserved = q.extraReserved
        /\ p.source = q.source /\ p.taken = t
    BY <1>1 DEF Request
  <1>q. /\ q.tokenTaken >= TokenShare(q, q.tokenConsumed) /\ q.tokenTaken >= 0
        /\ q.taken \in Int /\ q.extraReserved \in Nat
        /\ q.source = "wallet"
    BY DEF Request
  <1>e. [q EXCEPT !.pc = AfterFunding(q), !.taken = t, !.harmed = h]
          = [p EXCEPT !.pc = AfterFunding(q)]
    BY DEF Request
  <1>2. /\ p.tokenTaken >= TokenShare(p, p.tokenConsumed) /\ p.tokenTaken >= 0
        /\ (sure => p.taken >= 0) /\ p.source = "wallet"
        /\ AfterFunding(p) = AfterFunding(q)
    <2> HIDE DEF p
    <2> QED BY <1>1, <1>t, <1>q DEF AfterFunding, AfterExtra
  <1>3. Cover([p EXCEPT !.pc = AfterFunding(p)], sure)
    <2> HIDE DEF p, Cover
    <2> QED BY <1>t, <1>2, AfterFundingCover
  <1> HIDE DEF Cover, p
  <1> QED BY <1>2, <1>3, <1>e DEF t

LEMMA NextTryCover ==
    ASSUME NEW q \in Request, NEW sure, q.tokenTaken >= TokenShare(q, q.tokenConsumed),
           q.tokenTaken >= 0, q.source = "subscription",
           sure => q.taken >= (IF q.record = "refunded" THEN 0 ELSE q.preConsumed)
                                + q.extraReserved
    PROVE  Cover(NextTry(q), sure)
  <1> DEFINE h == q.harmed \/ q.record = "consumed"
             p == [q EXCEPT !.harmed = h]
  <1>1. h \in BOOLEAN
    OBVIOUS
  <1> HIDE DEF h
  <1>t. /\ p \in Request
        /\ p.tokenTaken = q.tokenTaken /\ p.tokenConsumed = q.tokenConsumed
        /\ p.IsPlayground = q.IsPlayground /\ p.extraReserved = q.extraReserved
        /\ p.source = q.source /\ p.taken = q.taken
    BY <1>1 DEF Request
  <1>q. /\ q.tokenTaken >= TokenShare(q, q.tokenConsumed) /\ q.tokenTaken >= 0
        /\ q.taken \in Int /\ q.extraReserved \in Nat
        /\ sure => q.taken >= q.extraReserved
    BY DEF Request
  <1>e. [q EXCEPT !.pc = AfterFunding(q), !.harmed = h] = [p EXCEPT !.pc = AfterFunding(q)]
    BY DEF Request
  <1>2. /\ p.tokenTaken >= TokenShare(p, p.tokenConsumed) /\ p.tokenTaken >= 0
        /\ (sure => p.taken >= p.extraReserved) /\ p.source = "subscription"
        /\ AfterFunding(p) = AfterFunding(q)
    <2> HIDE DEF p
    <2> QED BY <1>t, <1>q DEF AfterFunding, AfterExtra
  <1>3. Cover([p EXCEPT !.pc = AfterFunding(p)], sure)
    <2> HIDE DEF p, Cover
    <2> QED BY <1>t, <1>2, AfterFundingCover
  <1>4. Cover([q EXCEPT !.pc = "refund", !.tries = @ + 1], sure)
    BY DEF Request
  <1>5. \/ NextTry(q) = [q EXCEPT !.pc = "refund", !.tries = @ + 1]
        \/ NextTry(q) = [q EXCEPT !.pc = AfterFunding(q), !.harmed = h]
    BY DEF NextTry, h
  <1> HIDE DEF Cover, p
  <1> QED BY <1>2, <1>3, <1>4, <1>5, <1>e

LEMMA RefundSubscriptionCover ==
    ASSUME NEW q \in Request, NEW sure, Cover(q, sure), q.pc = "refund",
           q.source = "subscription", NEW o \in Answers, NEW h \in BOOLEAN
    PROVE  LET p == [q EXCEPT !.taken = @ - Amount(o, q.preConsumed), !.harmed = h] IN
           /\ q.record = "refunded" => Cover([q EXCEPT !.pc = AfterFunding(q)], sure)
           /\ q.record # "refunded" =>
                 /\ o = "ok" => Cover([p EXCEPT !.pc = "mark"], sure)
                 /\ Cover(NextTry(p), sure /\ ~Runs(o))
  <1> DEFINE t == q.taken - Amount(o, q.preConsumed)
             p == [q EXCEPT !.taken = t, !.harmed = h]
  <1>1. /\ t \in Int /\ (o = "ok" => t = q.taken - q.preConsumed)
        /\ ~Runs(o) => t = q.taken
        /\ q.tokenTaken >= TokenShare(q, q.tokenConsumed) /\ q.tokenTaken >= 0
    BY DEF Request
  <1>2. q.record = "refunded" => Cover([q EXCEPT !.pc = AfterFunding(q)], sure)
    <2>1. q.record = "refunded" => (sure => q.taken >= q.extraReserved)
      BY DEF Request
    <2> HIDE DEF Cover
    <2> QED BY <1>1, <2>1, AfterFundingCover
  <1> HIDE DEF t
  <1>3. p \in Request
    BY <1>1 DEF Request
  <1>4. q.record # "refunded" /\ o = "ok" => Cover([p EXCEPT !.pc = "mark"], sure)
    BY <1>1, <1>3 DEF Request
  <1>5. q.record # "refunded" => Cover(NextTry(p), sure /\ ~Runs(o))
    <2>1. /\ p.tokenTaken >= TokenShare(p, p.tokenConsumed)
          /\ p.tokenTaken >= 0 /\ p.source = "subscription"
          /\ q.record # "refunded" =>
                (sure /\ ~Runs(o) => p.taken >= (IF p.record = "refunded" THEN 0
                                                 ELSE p.preConsumed) + p.extraReserved)
      BY <1>1 DEF Request
    <2> HIDE DEF p, Cover, Runs
    <2> QED BY <1>3, <2>1, NextTryCover
  <1> HIDE DEF Cover
  <1> QED BY <1>2, <1>4, <1>5 DEF t

LEMMA MarkRefundedCover ==
    ASSUME NEW q \in Request, NEW sure, Cover(q, sure), q.pc = "mark", Counted(q),
           NEW o \in Answers, NEW h \in BOOLEAN
    PROVE  LET p == [q EXCEPT !.record = IF Runs(o) THEN "refunded" ELSE @, !.harmed = h] IN
           /\ o = "ok" => Cover([p EXCEPT !.pc = AfterFunding(q)], sure)
           /\ Cover(NextTry(p), sure /\ Runs(o))
  <1> DEFINE c == IF Runs(o) THEN "refunded" ELSE q.record
             p == [q EXCEPT !.record = c, !.harmed = h]
  <1>1. c \in {"none", "consumed", "refunded"} /\ (Runs(o) => c = "refunded")
    BY DEF Request
  <1> HIDE DEF c
  <1>t. /\ p \in Request
        /\ p.tokenTaken = q.tokenTaken /\ p.tokenConsumed = q.tokenConsumed
        /\ p.IsPlayground = q.IsPlayground /\ p.extraReserved = q.extraReserved
        /\ p.source = q.source /\ p.taken = q.taken /\ p.record = c
    BY <1>1 DEF Request
  <1>q. /\ q.tokenTaken >= TokenShare(q, q.tokenConsumed) /\ q.tokenTaken >= 0
        /\ q.taken \in Int /\ q.extraReserved \in Nat /\ q.source = "subscription"
        /\ sure => q.taken >= q.extraReserved
    BY DEF Request, Counted
  <1>2. /\ p.tokenTaken >= TokenShare(p, p.tokenConsumed) /\ p.tokenTaken >= 0
        /\ (sure => p.taken >= p.extraReserved) /\ p.source = "subscription"
        /\ AfterFunding(p) = AfterFunding(q)
    <2> HIDE DEF p
    <2> QED BY <1>t, <1>q DEF AfterFunding, AfterExtra
  <1>3. Cover([p EXCEPT !.pc = AfterFunding(p)], sure)
    <2> HIDE DEF p, Cover
    <2> QED BY <1>t, <1>2, AfterFundingCover
  <1>4. Cover(NextTry(p), sure /\ Runs(o))
    <2>1. p.extraReserved \in Int /\ p.taken \in Int
      BY <1>t DEF Request
    <2>2. sure /\ Runs(o) =>
             p.taken >= (IF p.record = "refunded" THEN 0 ELSE p.preConsumed) + p.extraReserved
      <3> HIDE DEF p, Runs
      <3> QED BY <1>1, <1>t, <1>2, <2>1
    <2> HIDE DEF p, Cover, Runs
    <2> QED BY <1>t, <1>2, <2>2, NextTryCover
  <1> HIDE DEF Cover
  <1> QED BY <1>2, <1>3, <1>4 DEF c

LEMMA RefundExtraCover ==
    ASSUME NEW q \in Request, NEW sure, Cover(q, sure), q.pc = "refundExtra",
           NEW o \in Answers, NEW h \in BOOLEAN
    PROVE  Cover([q EXCEPT !.pc = AfterExtra(q), !.taken = @ - Amount(o, q.extraReserved),
                           !.harmed = h], sure)
  <1> DEFINE t == q.taken - Amount(o, q.extraReserved)
  <1>1. t \in Int /\ (sure => t >= 0)
    BY DEF Request
  <1> HIDE DEF t
  <1>2. CASE AfterExtra(q) = "refundToken"
    BY <1>1, <1>2 DEF AfterExtra, Request, t
  <1>3. CASE AfterExtra(q) = "refunded"
    BY <1>1, <1>3 DEF AfterExtra, Request, t
  <1> QED BY <1>2, <1>3 DEF AfterExtra

LEMMA RefundTokenCover ==
    ASSUME NEW q \in Request, NEW sure, Cover(q, sure), q.pc = "refundToken",
           NEW o \in Answers, NEW h \in BOOLEAN
    PROVE  Cover([q EXCEPT !.pc = "refunded", !.tokenTaken = @ - Amount(o, q.tokenConsumed),
                           !.harmed = h], sure)
  <1> DEFINE t == q.tokenTaken - Amount(o, q.tokenConsumed)
  <1>1. t \in Int /\ t >= 0 /\ (sure => q.taken >= 0)
    BY DEF Request
  <1> HIDE DEF t
  <1>2. Cover([q EXCEPT !.pc = "refunded", !.tokenTaken = t, !.harmed = h], sure)
    BY <1>1 DEF Request
  <1> HIDE DEF Cover
  <1> QED BY <1>2 DEF t

HIDE DEF Cover, Backed, TokenDue, FundingDue, Serving, Before, Ended


\* What a step does to the record it moves.
LEMMA CoverFacts ==
    ASSUME IInv, Covered, NEW r \in Requests
    PROVE  /\ req[r] \in Request /\ Counted(req[r]) /\ Cover(req[r], r \notin unsure)
  BY DEF IInv, Local, Covered

LEMMA QuietCover ==
    ASSUME IInv, Covered, NEW r \in Requests, NEW g, Goes(r, g), UNCHANGED unsure,
           Cover(g, r \notin unsure)
    PROVE  Covered'
  BY CoverStep

LEMMA PreConsumeBillingCovers ==
    ASSUME IInv, Covered, NEW r \in Requests, PreConsumeBilling(r)
    PROVE  Covered'
  <1> DEFINE q == req[r]
             sure == r \notin unsure
  <1>0. q \in Request /\ Counted(q) /\ Cover(q, sure)
    BY CoverFacts
  <1>1. PICK n \in Quotas, p \in BOOLEAN, s \in {"wallet", "subscription"},
             t \in {"wallet", "subscription"} :
          Goes(r, Try([q EXCEPT !.quota = n, !.IsPlayground = p], s, IF s = t THEN "none" ELSE t))
    BY DEF PreConsumeBilling
  <1>2. q.pc = "idle" /\ n \in Nat /\ UNCHANGED unsure
    BY ConstantsAssumption DEF PreConsumeBilling, NoStatement
  <1> HIDE DEF q
  <1>3. Cover(Try([q EXCEPT !.quota = n, !.IsPlayground = p], s, IF s = t THEN "none" ELSE t), sure)
    BY <1>0, <1>2, PreConsumeBillingCover
  <1> QED BY <1>1, <1>2, <1>3, QuietCover
LEMMA TryWalletCovers ==
    ASSUME IInv, Covered, NEW r \in Requests, TryWallet(r)
    PROVE  Covered'
  <1> DEFINE q == req[r]
             sure == r \notin unsure
  <1>0. q \in Request /\ Counted(q) /\ Cover(q, sure)
    BY CoverFacts
  <1>1. PICK trust \in BOOLEAN :
          \/ Goes(r, Insufficient(q))
          \/ Goes(r, [q EXCEPT !.pc = IF trust \/ q.quota = 0 THEN "fund" ELSE "tokenRead",
                               !.trusted = trust,
                               !.effectiveQuota = IF trust THEN 0 ELSE q.quota])
    BY DEF TryWallet
  <1>2. q.pc = "wallet" /\ UNCHANGED unsure
    BY DEF TryWallet, NoStatement
  <1> HIDE DEF q
  <1> QED BY <1>0, <1>1, <1>2, TryWalletCover, QuietCover
LEMMA TokenReadCovers ==
    ASSUME IInv, Covered, NEW r \in Requests, TokenRead(r)
    PROVE  Covered'
  <1> DEFINE q == req[r]
             sure == r \notin unsure
  <1>0. q \in Request /\ Counted(q) /\ Cover(q, sure)
    BY CoverFacts
  <1>1. /\ q.pc = "tokenRead" /\ UNCHANGED unsure
        /\ \/ q.IsPlayground
              /\ Goes(r, [q EXCEPT !.pc = "fund", !.tokenConsumed = q.effectiveQuota])
           \/ Goes(r, Rejected(q))
           \/ ~q.IsPlayground /\ Goes(r, [q EXCEPT !.pc = "tokenTake"])
    BY DEF TokenRead, NoStatement
  <1> HIDE DEF q
  <1> QED BY <1>0, <1>1, TokenReadCover, QuietCover
LEMMA TokenTakeCovers ==
    ASSUME IInv, Covered, NEW r \in Requests, TokenTake(r)
    PROVE  Covered'
  <1> DEFINE q == req[r]
             sure == r \notin unsure
  <1>0. q \in Request /\ Counted(q) /\ Cover(q, sure)
    BY CoverFacts
  <1>1. PICK o \in Answers :
          LET p == [q EXCEPT !.tokenTaken = @ + Amount(o, q.effectiveQuota)] IN
          Goes(r, IF o = "ok" THEN [p EXCEPT !.pc = "fund", !.tokenConsumed = q.effectiveQuota]
                  ELSE Rejected([p EXCEPT !.harmed = @ \/ Runs(o)]))
    BY DEF TokenTake
  <1>2. q.pc = "tokenTake" /\ UNCHANGED unsure
    BY DEF TokenTake, FundingUnchanged
  <1> DEFINE p == [q EXCEPT !.tokenTaken = @ + Amount(o, q.effectiveQuota)]
             h == p.harmed \/ Runs(o)
  <1>3. \/ o = "ok" /\ Goes(r, [p EXCEPT !.pc = "fund", !.tokenConsumed = q.effectiveQuota])
        \/ Goes(r, Rejected([p EXCEPT !.harmed = h]))
    BY <1>1
  <1>4. h \in BOOLEAN
    OBVIOUS
  <1> HIDE DEF q, h
  <1>5. /\ o = "ok" => Cover([p EXCEPT !.pc = "fund", !.tokenConsumed = q.effectiveQuota], sure)
        /\ Cover(Rejected([p EXCEPT !.harmed = h]), sure)
    BY <1>0, <1>2, <1>4, TokenTakeCover
  <1> HIDE DEF p
  <1> QED BY <1>2, <1>3, <1>5, QuietCover
LEMMA FundCovers ==
    ASSUME IInv, Covered, NEW r \in Requests, Fund(r)
    PROVE  Covered'
  <1> DEFINE q == req[r]
             sure == r \notin unsure
  <1>0. q \in Request /\ Counted(q) /\ Cover(q, sure)
    BY CoverFacts
  <1>u. q.pc = "fund" /\ UNCHANGED unsure
    BY DEF Fund, NoStatement
  <1> DEFINE h(o) == q.harmed \/ o = "lost"
             c(o) == IF q.source = "subscription" /\ Runs(o) THEN "consumed" ELSE q.record
             p(o) == FundCharged(q, o, c(o), h(o))
  <1>1. PICK o \in Answers, short \in BOOLEAN :
          \/ /\ q.effectiveQuota = 0 /\ q.source = "wallet"
             /\ Goes(r, [q EXCEPT !.pc = "sent", !.quota = 0, !.then = "none"])
          \/ o = "ok" /\ Goes(r, FundOpened(q, p(o)))
          \/ Goes(r, FundFailed(short, p(o)))
    BY DEF Fund, Answers, FundCharged, FundOpened, FundFailed
  <1>2. h(o) \in BOOLEAN /\ c(o) \in {"none", "consumed", "refunded"}
    BY <1>0 DEF Request
  <1> HIDE DEF q, h, c
  <1>3. /\ q.effectiveQuota = 0 /\ q.source = "wallet" =>
              Cover([q EXCEPT !.pc = "sent", !.quota = 0, !.then = "none"], sure)
        /\ o = "ok" => Cover(FundOpened(q, p(o)), sure)
        /\ Cover(FundFailed(short, p(o)), sure)
    BY <1>0, <1>u, <1>2, FundCover
  <1> HIDE DEF p
  <1> QED BY <1>u, <1>1, <1>3, QuietCover
LEMMA TokenBackCovers ==
    ASSUME IInv, Covered, NEW r \in Requests, TokenBack(r)
    PROVE  Covered'
  <1> DEFINE q == req[r]
             sure == r \notin unsure
  <1>0. q \in Request /\ Counted(q) /\ Cover(q, sure)
    BY CoverFacts
  <1> DEFINE h(o) == q.harmed \/ ~Runs(o)
             G(o) == Insufficient([q EXCEPT !.tokenTaken = @ - Amount(o, q.tokenConsumed),
                                            !.tokenConsumed = 0, !.harmed = h(o)])
  <1>1. PICK o \in Answers : Goes(r, G(o))
    BY DEF TokenBack
  <1>2. q.pc = "tokenBack" /\ UNCHANGED unsure /\ h(o) \in BOOLEAN
    BY DEF TokenBack, FundingUnchanged
  <1> HIDE DEF q, h
  <1>3. Cover(G(o), sure)
    BY <1>0, <1>2, TokenBackCover
  <1> HIDE DEF G
  <1> QED BY <1>1, <1>2, <1>3, QuietCover
LEMMA ReserveCovers ==
    ASSUME IInv, Covered, NEW r \in Requests, Reserve(r)
    PROVE  Covered'
  <1> DEFINE q == req[r]
             sure == r \notin unsure
  <1>0. q \in Request /\ Counted(q) /\ Cover(q, sure)
    BY CoverFacts
  <1>1. PICK n \in Quotas : /\ n > q.preConsumedQuota
                           /\ Goes(r, [q EXCEPT !.pc = "reserve", !.delta = n - q.preConsumedQuota])
    BY DEF Reserve
  <1>2. q.pc = "sent" /\ UNCHANGED unsure /\ n - q.preConsumedQuota \in Nat
    BY <1>0, <1>1, ConstantsAssumption DEF Reserve, NoStatement, Request
  <1> HIDE DEF q
  <1>3. Cover([q EXCEPT !.pc = "reserve", !.delta = n - q.preConsumedQuota], sure)
    BY <1>0, <1>2, ReserveCover
  <1> QED BY <1>1, <1>2, <1>3, QuietCover
LEMMA ReserveFundingCovers ==
    ASSUME IInv, Covered, NEW r \in Requests, ReserveFunding(r)
    PROVE  Covered'
  <1> DEFINE q == req[r]
             sure == r \notin unsure
  <1>0. q \in Request /\ Counted(q) /\ Cover(q, sure)
    BY CoverFacts
  <1> DEFINE h(o) == q.harmed \/ o = "lost"
             p(o) == [q EXCEPT !.taken = @ + Amount(o, q.delta), !.harmed = h(o)]
  <1>1. PICK o \in Answers :
          \/ Goes(r, [p(o) EXCEPT !.pc = "failing", !.delta = 0])
          \/ o = "ok" /\ Goes(r, FundingReserved(p(o)))
    BY DEF ReserveFunding
  <1>2. q.pc = "reserve" /\ UNCHANGED unsure /\ h(o) \in BOOLEAN
    BY DEF ReserveFunding
  <1> HIDE DEF q, h
  <1>3. /\ Cover([p(o) EXCEPT !.pc = "failing", !.delta = 0], sure)
        /\ o = "ok" => Cover(FundingReserved(p(o)), sure)
    BY <1>0, <1>2, ReserveFundingCover
  <1> HIDE DEF p
  <1> QED BY <1>1, <1>2, <1>3, QuietCover
LEMMA ReserveReadCovers ==
    ASSUME IInv, Covered, NEW r \in Requests, ReserveRead(r)
    PROVE  Covered'
  <1> DEFINE q == req[r]
             sure == r \notin unsure
  <1>0. q \in Request /\ Counted(q) /\ Cover(q, sure)
    BY CoverFacts
  <1>1. /\ q.pc = "reserveRead" /\ UNCHANGED unsure
        /\ \/ q.IsPlayground /\ Goes(r, Reserved(q))
           \/ \E pc \in {"reserveBack", "reserveToken"} : Goes(r, [q EXCEPT !.pc = pc])
    BY DEF ReserveRead, NoStatement
  <1> HIDE DEF q
  <1> QED BY <1>0, <1>1, ReserveReadCover, QuietCover
LEMMA ReserveTokenCovers ==
    ASSUME IInv, Covered, NEW r \in Requests, ReserveToken(r)
    PROVE  Covered'
  <1> DEFINE q == req[r]
             sure == r \notin unsure
  <1>0. q \in Request /\ Counted(q) /\ Cover(q, sure)
    BY CoverFacts
  <1> DEFINE p(o) == [q EXCEPT !.tokenTaken = @ + Amount(o, q.delta)]
             h(o) == p(o).harmed \/ Runs(o)
  <1>1. PICK o \in Answers :
          \/ o = "ok" /\ Goes(r, Reserved(p(o)))
          \/ Goes(r, [p(o) EXCEPT !.pc = "reserveBack", !.harmed = h(o)])
    BY DEF ReserveToken
  <1>2. q.pc = "reserveToken" /\ UNCHANGED unsure /\ h(o) \in BOOLEAN
    BY DEF ReserveToken, FundingUnchanged
  <1> HIDE DEF q, h
  <1>3. /\ o = "ok" => Cover(Reserved(p(o)), sure)
        /\ Cover([p(o) EXCEPT !.pc = "reserveBack", !.harmed = h(o)], sure)
    BY <1>0, <1>2, ReserveTokenCover
  <1> HIDE DEF p
  <1> QED BY <1>1, <1>2, <1>3, QuietCover
LEMMA RollbackCovers ==
    ASSUME IInv, Covered, NEW r \in Requests, RollbackFundingReserve(r)
    PROVE  Covered'
  <1> DEFINE q == req[r]
             sure == r \notin unsure
  <1>0. q \in Request /\ Counted(q) /\ Cover(q, sure)
    BY CoverFacts
  <1> DEFINE h(o) == q.harmed \/ IF q.source = "wallet"
                                  THEN o = "lost" \/ (o # "ok" /\ q.tokenConsumed = 0)
                                  ELSE ~Runs(o)
             g(o) == [q EXCEPT !.pc = "failing", !.delta = 0,
                               !.taken = @ - Amount(o, q.delta),
                               !.consumed = IF q.source = "wallet" /\ o = "ok"
                                            THEN @ - q.delta ELSE @,
                               !.harmed = h(o)]
  <1>1. PICK o \in Answers :
          /\ Goes(r, g(o))
          /\ unsure' = IF q.source = "wallet" /\ o = "lost" THEN unsure \cup {r} ELSE unsure
    BY DEF RollbackFundingReserve, Unsure
  <1>2. q.pc = "reserveBack" /\ h(o) \in BOOLEAN
    BY DEF RollbackFundingReserve
  <1> HIDE DEF q, h
  <1>3. Cover(g(o), sure /\ ~(q.source = "wallet" /\ o = "lost"))
    BY <1>0, <1>2, RollbackCover
  <1>4. (sure /\ ~(q.source = "wallet" /\ o = "lost")) = (r \notin unsure')
    BY <1>1
  <1> HIDE DEF g
  <1> QED BY <1>1, <1>3, <1>4, CoverStep
LEMMA SettleCovers ==
    ASSUME IInv, Covered, NEW r \in Requests, Settle(r)
    PROVE  Covered'
  <1> DEFINE q == req[r]
             sure == r \notin unsure
  <1>0. q \in Request /\ Counted(q) /\ Cover(q, sure)
    BY CoverFacts
  <1> DEFINE p(n) == [q EXCEPT !.actualQuota = n, !.delta = n - q.preConsumedQuota]
  <1>1. PICK n \in Quotas :
          \/ Goes(r, [p(n) EXCEPT !.pc = "served", !.fundingSettled = TRUE, !.settled = TRUE])
          \/ Goes(r, [p(n) EXCEPT !.pc = "settleFund"])
    BY DEF Settle
  <1>2. q.pc = "sent" /\ UNCHANGED unsure /\ n \in Nat
    BY ConstantsAssumption DEF Settle, NoStatement
  <1> HIDE DEF q
  <1>3. /\ Cover([p(n) EXCEPT !.pc = "served", !.fundingSettled = TRUE, !.settled = TRUE], sure)
        /\ Cover([p(n) EXCEPT !.pc = "settleFund"], sure)
    BY <1>0, <1>2, SettleCover
  <1> HIDE DEF p
  <1> QED BY <1>1, <1>2, <1>3, QuietCover
LEMMA SettleFundingCovers ==
    ASSUME IInv, Covered, NEW r \in Requests, SettleFunding(r)
    PROVE  Covered'
  <1> DEFINE q == req[r]
             sure == r \notin unsure
  <1>0. q \in Request /\ Counted(q) /\ Cover(q, sure)
    BY CoverFacts
  <1> DEFINE h(o) == q.harmed \/ o = "lost"
             p(o) == [q EXCEPT !.taken = @ + Amount(o, q.delta), !.harmed = h(o)]
             Charged(o) == SettleCharged(q, p(o))
             Parked(o) == SettleParked(q, p(o))
             Denied(o) == [p(o) EXCEPT !.pc = "served", !.delta = 0]
  <1>1. PICK o \in Answers :
          /\ unsure' = IF q.delta < 0 /\ o = "lost" THEN unsure \cup {r} ELSE unsure
          /\ \/ o = "ok" /\ Goes(r, Charged(o))
             \/ o = "refused" /\ Goes(r, Parked(o))
             \/ o # "ok" /\ Goes(r, Denied(o))
    BY DEF SettleFunding, Unsure, SettleCharged, SettleParked
  <1>2. q.pc = "settleFund" /\ h(o) \in BOOLEAN
    BY DEF SettleFunding
  <1> DEFINE s == sure /\ ~(q.delta < 0 /\ o = "lost")
  <1> HIDE DEF q, h
  <1>3. /\ o = "ok" => Cover(Charged(o), s)
        /\ o = "refused" => Cover(Parked(o), s)
        /\ o # "ok" => Cover(Denied(o), s)
    BY <1>0, <1>2, SettleFundingCover
  <1>4. s = (r \notin unsure')
    BY <1>1
  <1> HIDE DEF Charged, Parked, Denied, s
  <1> QED BY <1>1, <1>3, <1>4, CoverStep
LEMMA SettleTokenCovers ==
    ASSUME IInv, Covered, NEW r \in Requests, SettleToken(r)
    PROVE  Covered'
  <1> DEFINE q == req[r]
             sure == r \notin unsure
  <1>0. q \in Request /\ Counted(q) /\ Cover(q, sure)
    BY CoverFacts
  <1> DEFINE h(o) == q.harmed \/ o = "failed"
             n(o) == IF o = "refused" THEN q.delta ELSE q.tokenParked
             g(o) == [q EXCEPT !.pc = "served", !.delta = 0, !.settled = TRUE,
                               !.tokenTaken = @ + Amount(o, q.delta),
                               !.tokenParked = n(o), !.harmed = h(o)]
  <1>1. PICK o \in Answers : Goes(r, g(o))
    BY DEF SettleToken
  <1>2. q.pc = "settleToken" /\ UNCHANGED unsure /\ h(o) \in BOOLEAN
    BY DEF SettleToken, FundingUnchanged
  <1> HIDE DEF q, h, n
  <1>3. Cover(g(o), sure)
    BY <1>0, <1>2, SettleTokenCover
  <1> HIDE DEF g
  <1> QED BY <1>1, <1>2, <1>3, QuietCover
LEMMA EndCovers ==
    ASSUME IInv, Covered, NEW r \in Requests, Finish(r) \/ Crash(r)
    PROVE  Covered'
  <1> DEFINE q == req[r]
             sure == r \notin unsure
  <1>0. q \in Request /\ Counted(q) /\ Cover(q, sure)
    BY CoverFacts
  <1>1. UNCHANGED unsure /\ \E pc \in Ended : Goes(r, [q EXCEPT !.pc = pc])
    BY DEF Finish, Crash, NoStatement, Ended
  <1> HIDE DEF q
  <1> QED BY <1>0, <1>1, EndCover, QuietCover

LEMMA RefundCovers ==
    ASSUME IInv, Covered, NEW r \in Requests, Refund(r)
    PROVE  Covered'
  <1> DEFINE q == req[r]
             sure == r \notin unsure
  <1>0. q \in Request /\ Counted(q) /\ Cover(q, sure)
    BY CoverFacts
  <1>1. /\ UNCHANGED unsure /\ q.pc \in {"sent", "failing", "served"}
        /\ \/ /\ ~q.settled /\ q.consumed = 0 /\ q.source = "wallet"
              /\ Goes(r, [q EXCEPT !.refunded = TRUE, !.pc = AfterFunding(q)])
           \/ ~q.settled /\ Goes(r, [q EXCEPT !.refunded = TRUE, !.pc = "refund"])
           \/ Goes(r, [q EXCEPT !.pc = "done"])
    BY DEF Refund, NoStatement, NeedsRefund
  <1>2. "done" \in Ended
    BY DEF Ended
  <1> HIDE DEF q
  <1>3. CASE ~q.settled
    BY <1>0, <1>1, <1>2, <1>3, RefundCover, EndCover, QuietCover
  <1>4. CASE q.settled
    BY <1>0, <1>1, <1>2, <1>4, EndCover, QuietCover
  <1> QED BY <1>3, <1>4
LEMMA RefundWalletCovers ==
    ASSUME IInv, Covered, NEW r \in Requests, RefundWallet(r)
    PROVE  Covered'
  <1> DEFINE q == req[r]
             sure == r \notin unsure
  <1>0. q \in Request /\ Counted(q) /\ Cover(q, sure)
    BY CoverFacts
  <1> DEFINE h(o) == q.harmed \/ ~Runs(o)
             g(o) == [q EXCEPT !.pc = AfterFunding(q), !.taken = @ - Amount(o, q.consumed),
                               !.harmed = h(o)]
  <1>1. PICK o \in Answers : Goes(r, g(o))
    BY DEF RefundWallet
  <1>2. q.pc = "refund" /\ q.source = "wallet" /\ UNCHANGED unsure /\ h(o) \in BOOLEAN
    BY DEF RefundWallet
  <1> HIDE DEF q, h
  <1>3. Cover(g(o), sure)
    BY <1>0, <1>2, RefundWalletCover
  <1> HIDE DEF g
  <1> QED BY <1>1, <1>2, <1>3, QuietCover
LEMMA RefundSubscriptionCovers ==
    ASSUME IInv, Covered, NEW r \in Requests, RefundSubscription(r)
    PROVE  Covered'
  <1> DEFINE q == req[r]
             sure == r \notin unsure
  <1>0. q \in Request /\ Counted(q) /\ Cover(q, sure)
    BY CoverFacts
  <1> DEFINE h(o) == q.harmed \/ o = "lost"
             p(o) == [q EXCEPT !.taken = @ - Amount(o, q.preConsumed), !.harmed = h(o)]
  <1>1. PICK o \in Answers :
          \/ /\ q.record = "refunded" /\ UNCHANGED unsure
             /\ Goes(r, [q EXCEPT !.pc = AfterFunding(q)])
          \/ /\ q.record # "refunded"
             /\ unsure' = IF o = "lost" THEN unsure \cup {r} ELSE unsure
             /\ \/ o = "ok" /\ Goes(r, [p(o) EXCEPT !.pc = "mark"])
                \/ o # "ok" /\ Goes(r, NextTry(p(o)))
    BY DEF RefundSubscription, Unsure, NoStatement, Answers
  <1>2. q.pc = "refund" /\ q.source = "subscription" /\ h(o) \in BOOLEAN
    BY DEF RefundSubscription
  <1> HIDE DEF q, h
  <1>3. /\ q.record = "refunded" => Cover([q EXCEPT !.pc = AfterFunding(q)], sure)
        /\ q.record # "refunded" /\ o = "ok" => Cover([p(o) EXCEPT !.pc = "mark"], sure)
        /\ q.record # "refunded" => Cover(NextTry(p(o)), sure /\ ~Runs(o))
    BY <1>0, <1>2, RefundSubscriptionCover
  <1> HIDE DEF p
  <1>4. CASE o = "ok" \/ q.record = "refunded"
    BY <1>1, <1>3, <1>4, QuietCover
  <1>5. CASE o # "ok" /\ q.record # "refunded"
    <2>1. (sure /\ ~Runs(o)) = (r \notin unsure')
      BY <1>1, <1>5
    <2> QED BY <1>1, <1>3, <1>5, <2>1, CoverStep
  <1> QED BY <1>4, <1>5
LEMMA MarkRefundedCovers ==
    ASSUME IInv, Covered, NEW r \in Requests, MarkRefunded(r)
    PROVE  Covered'
  <1> DEFINE q == req[r]
             sure == r \notin unsure
  <1>0. q \in Request /\ Counted(q) /\ Cover(q, sure)
    BY CoverFacts
  <1> DEFINE h(o) == q.harmed \/ ~Runs(o)
             p(o) == [q EXCEPT !.record = IF Runs(o) THEN "refunded" ELSE @, !.harmed = h(o)]
  <1>1. PICK o \in Answers :
          /\ unsure' = IF ~Runs(o) THEN unsure \cup {r} ELSE unsure
          /\ \/ o = "ok" /\ Goes(r, [p(o) EXCEPT !.pc = AfterFunding(q)])
             \/ o # "ok" /\ Goes(r, NextTry(p(o)))
    BY DEF MarkRefunded, Unsure
  <1>2. q.pc = "mark" /\ h(o) \in BOOLEAN
    BY DEF MarkRefunded
  <1> HIDE DEF q, h
  <1>3. /\ o = "ok" => Cover([p(o) EXCEPT !.pc = AfterFunding(q)], sure)
        /\ Cover(NextTry(p(o)), sure /\ Runs(o))
    BY <1>0, <1>2, MarkRefundedCover
  <1>4. (sure /\ Runs(o)) = (r \notin unsure') /\ (o = "ok" => UNCHANGED unsure)
    BY <1>1
  <1> HIDE DEF p
  <1> QED BY <1>1, <1>3, <1>4, CoverStep
LEMMA RefundExtraCovers ==
    ASSUME IInv, Covered, NEW r \in Requests, RefundExtra(r)
    PROVE  Covered'
  <1> DEFINE q == req[r]
             sure == r \notin unsure
  <1>0. q \in Request /\ Counted(q) /\ Cover(q, sure)
    BY CoverFacts
  <1> DEFINE h(o) == q.harmed \/ ~Runs(o)
             g(o) == [q EXCEPT !.pc = AfterExtra(q), !.taken = @ - Amount(o, q.extraReserved),
                               !.harmed = h(o)]
  <1>1. PICK o \in Answers : Goes(r, g(o))
    BY DEF RefundExtra
  <1>2. q.pc = "refundExtra" /\ UNCHANGED unsure /\ h(o) \in BOOLEAN
    BY DEF RefundExtra
  <1> HIDE DEF q, h
  <1>3. Cover(g(o), sure)
    BY <1>0, <1>2, RefundExtraCover
  <1> HIDE DEF g
  <1> QED BY <1>1, <1>2, <1>3, QuietCover
LEMMA RefundTokenCovers ==
    ASSUME IInv, Covered, NEW r \in Requests, RefundToken(r)
    PROVE  Covered'
  <1> DEFINE q == req[r]
             sure == r \notin unsure
  <1>0. q \in Request /\ Counted(q) /\ Cover(q, sure)
    BY CoverFacts
  <1> DEFINE h(o) == q.harmed \/ ~Runs(o)
             g(o) == [q EXCEPT !.pc = "refunded", !.tokenTaken = @ - Amount(o, q.tokenConsumed),
                               !.harmed = h(o)]
  <1>1. PICK o \in Answers : Goes(r, g(o))
    BY DEF RefundToken
  <1>2. q.pc = "refundToken" /\ UNCHANGED unsure /\ h(o) \in BOOLEAN
    BY DEF RefundToken, FundingUnchanged
  <1> HIDE DEF q, h
  <1>3. Cover(g(o), sure)
    BY <1>0, <1>2, RefundTokenCover
  <1> HIDE DEF g
  <1> QED BY <1>1, <1>2, <1>3, QuietCover
LEMMA InitCovered == Init => Covered
  BY DEF Init, Idle, Covered, Cover, Backed, TokenDue, FundingDue, Before, Ended, Serving

LEMMA NextCovered == IInv /\ Covered /\ [Next]_vars => Covered'
  <1> SUFFICES ASSUME IInv, Covered, [Next]_vars PROVE Covered'
    OBVIOUS
  <1>1. CASE UNCHANGED vars
    BY <1>1 DEF vars, Covered
  <1>2. CASE ResetSubscription
    BY <1>2 DEF ResetSubscription, Covered
  <1>3. ASSUME NEW r \in Requests,
               \/ PreConsumeBilling(r) \/ TryWallet(r) \/ TokenRead(r) \/ TokenTake(r)
               \/ Fund(r) \/ TokenBack(r)
               \/ Reserve(r) \/ ReserveFunding(r) \/ ReserveRead(r) \/ ReserveToken(r)
               \/ RollbackFundingReserve(r)
        PROVE  Covered'
    BY <1>3, PreConsumeBillingCovers, TryWalletCovers, TokenReadCovers, TokenTakeCovers,
       FundCovers, TokenBackCovers, ReserveCovers, ReserveFundingCovers, ReserveReadCovers,
       ReserveTokenCovers, RollbackCovers
  <1>4. ASSUME NEW r \in Requests,
               \/ Settle(r) \/ SettleFunding(r) \/ SettleToken(r) \/ Finish(r)
               \/ Refund(r) \/ RefundWallet(r) \/ RefundSubscription(r) \/ MarkRefunded(r)
               \/ RefundExtra(r) \/ RefundToken(r) \/ Crash(r)
        PROVE  Covered'
    BY <1>4, SettleCovers, SettleFundingCovers, SettleTokenCovers, EndCovers, RefundCovers,
       RefundWalletCovers, RefundSubscriptionCovers, MarkRefundedCovers, RefundExtraCovers,
       RefundTokenCovers
  <1> QED BY <1>1, <1>2, <1>3, <1>4 DEF Next

LEMMA AlwaysCovered == Spec => []Covered
  BY InitCovered, NextCovered, Inductive, PTL DEF Spec

-----------------------------------------------------------------------------
(* Theorems.                                                                *)

\* Types, the counters of a session included: no order of reservations,
\* failures and rollbacks takes the wallet's share below zero.
THEOREM TypeCorrect == Spec => []TypeOK
  <1>1. IInv /\ Covered => TypeOK
    <2> SUFFICES ASSUME IInv, Covered PROVE TypeOK
      OBVIOUS
    <2>1. req \in [Requests -> Request]
      BY DEF IInv, Local
    <2> QED BY <2>1, ConstantsAssumption DEF IInv, Covered, Accounts, TypeOK
  <1> QED BY <1>1, Inductive, AlwaysCovered, PTL

\* PostConsumeUserSubscriptionDelta and PreConsumeUserSubscription keep the
\* usage between zero and the total through every reset, retry and refund.
THEOREM PlanHolds == Spec => []SubscriptionStaysInPlan
  <1>1. IInv => SubscriptionStaysInPlan
    BY DEF IInv, Accounts, SubscriptionStaysInPlan
  <1> QED BY <1>1, Inductive, PTL

\* TryDecreaseUserQuota keeps racing pre-charges from overdrawing the wallet.
THEOREM PrechargesFit == Spec => []OverdraftIsServed
  <1>1. IInv => OverdraftIsServed
    BY DEF IInv, Accounts, OverdraftIsServed
  <1> QED BY <1>1, Inductive, PTL

\* A request that ended unharmed has paid what its outcome says, whatever the
\* other requests did and wherever an error was made up for.
THEOREM OutcomesArePaid == Spec => []EndedIsWhole
  <1>1. IInv => EndedIsWhole
    BY DEF IInv, Local, Closing, EndedIsWhole
  <1> QED BY <1>1, Inductive, PTL

\* No request, harmed and dead ones included, has got back from the token more
\* than it paid, nor from the funding source unless a return it took for a
\* failure was none.
THEOREM ReturnsAreCovered == Spec => []NothingReturnedTwice
  <1>1. IInv /\ Covered => NothingReturnedTwice
    <2> SUFFICES ASSUME IInv, Covered, NEW r \in Requests
                 PROVE  /\ req[r].tokenTaken >= 0
                        /\ r \notin unsure => req[r].taken >= 0
      BY DEF NothingReturnedTwice
    <2> DEFINE q == req[r]
    <2>1. q \in Request /\ Counted(q) /\ Cover(q, r \notin unsure)
      BY CoverFacts
    <2> HIDE DEF q
    <2>2. TokenDue(q) \in Nat /\ FundingDue(q) \in Nat
      BY <2>1 DEF TokenDue, FundingDue, Request, Counted
    <2>3. /\ q.tokenTaken \in Int /\ q.taken \in Int /\ q.tokenTaken >= TokenDue(q)
          /\ r \notin unsure => q.taken >= FundingDue(q)
      BY <2>1 DEF Cover, Request
    <2> QED BY <2>2, <2>3 DEF q
  <1> QED BY <1>1, Inductive, AlwaysCovered, PTL

-----------------------------------------------------------------------------
(* The books.  As long as nobody has been harmed the accounts are the sums  *)
(* of what the requests have taken.  A step of one request moves an account *)
(* by the change of its own term of the sum; a subscription, which gives    *)
(* back at most down to zero, needs the fact that no term is negative.      *)

Part(source, q) == IF q.source = source THEN q.taken ELSE 0

Clamped(u) == IF u < 0 THEN 0 ELSE u

\* The step that turns the record q into g has moved the accounts accordingly.
Booked(q, g) ==
    /\ wallet' = wallet + Part("wallet", q) - Part("wallet", g)
    /\ token' = token + q.tokenTaken - g.tokenTaken
    /\ used' = Clamped(used + Part("subscription", g) - Part("subscription", q))
    /\ resets' = resets

\* Harm is not forgotten, and without it the accounts follow.
Follows(q, g) == (q.harmed => g.harmed) /\ (~q.harmed => Booked(q, g))

\* The funding source may change where nothing has been taken from it.
SameFunding(q, g) == g.taken = q.taken /\ (g.source = q.source \/ q.taken = 0)

Sessions(q, g) ==
    /\ q.taken \in Int /\ q.tokenTaken \in Int
    /\ q.source \in {"wallet", "subscription"} /\ g.source \in {"wallet", "subscription"}

LEMMA QuietBooked ==
    ASSUME Accounts, UNCHANGED <<wallet, token, used, resets>>,
           NEW q, NEW g, Sessions(q, g), SameFunding(q, g), g.tokenTaken = q.tokenTaken
    PROVE  Booked(q, g)
  BY ConstantsAssumption DEF Accounts, Sessions, SameFunding, Booked, Part, Clamped

LEMMA TokenBooked ==
    ASSUME Accounts, FundingUnchanged, NEW q, NEW g, Sessions(q, g), SameFunding(q, g),
           NEW a \in Int, NEW o \in Answers, Answered(o), AdjustToken(a, o),
           g.tokenTaken = q.tokenTaken + Amount(o, a)
    PROVE  Booked(q, g)
  BY ConstantsAssumption
     DEF Accounts, FundingUnchanged, Sessions, SameFunding, Booked, Part, Clamped, AdjustToken,
         Answered

LEMMA FundingBooked ==
    ASSUME Accounts, UNCHANGED token, NEW q, NEW g, Sessions(q, g), g.source = q.source,
           NEW a \in Int, NEW o \in Answers, Answered(o),
           \/ AdjustFunding(q, a, o)
           \/ q.source = "wallet" /\ AdjustUserQuota(a, o)
           \/ q.source = "wallet" /\ TryDecreaseUserQuota(a, o)
           \/ q.source = "subscription" /\ PostConsumeUserSubscriptionDelta(a, o)
           \/ q.source = "subscription" /\ PreConsumeUserSubscription(a, o) /\ a >= 0,
           g.taken = q.taken + Amount(o, a), g.tokenTaken = q.tokenTaken
    PROVE  Booked(q, g)
  <1>1. CASE q.source = "wallet" /\ (AdjustUserQuota(a, o) \/ TryDecreaseUserQuota(a, o))
    BY <1>1, ConstantsAssumption
       DEF Accounts, Sessions, Booked, Part, Clamped, Answered, AdjustUserQuota,
           TryDecreaseUserQuota
  <1>2. CASE q.source = "subscription" /\ PostConsumeUserSubscriptionDelta(a, o)
    BY <1>2, ConstantsAssumption
       DEF Accounts, Sessions, Booked, Part, Clamped, Answered,
           PostConsumeUserSubscriptionDelta, NewUsed
  <1>3. CASE q.source = "subscription" /\ PreConsumeUserSubscription(a, o) /\ a >= 0
    BY <1>3, ConstantsAssumption
       DEF Accounts, Sessions, Booked, Part, Clamped, Answered, PreConsumeUserSubscription
  <1> QED BY <1>1, <1>2, <1>3 DEF AdjustFunding, Sessions

\* What a step of request r leaves of its record.
LEMMA StepRecord ==
    ASSUME IInv, NEW r \in Requests, NEW g, Goes(r, g)
    PROVE  req'[r] = g /\ \A p \in Requests \ {r} : req'[p] = req[p]
  BY DEF IInv, Goes

\* Rejection and the next source leave the history of a record alone.
LEMMA InsufficientSame ==
    ASSUME NEW q \in Request
    PROVE  /\ Insufficient(q).taken = q.taken /\ Insufficient(q).tokenTaken = q.tokenTaken
           /\ Insufficient(q).harmed = q.harmed
           /\ Rejected(q).taken = q.taken /\ Rejected(q).tokenTaken = q.tokenTaken
           /\ Rejected(q).harmed = q.harmed /\ Rejected(q).source = q.source
           /\ Insufficient(q).source \in {"wallet", "subscription"}
  <1>1. CASE q.then = "none"
    BY <1>1 DEF Insufficient, Rejected, Request
  <1>2. CASE q.then # "none"
    BY <1>2 DEF Insufficient, Rejected, Try, Request
  <1> QED BY <1>1, <1>2

LEMMA NextTrySame ==
    ASSUME NEW q, {"taken", "tokenTaken", "source", "pc", "tries", "harmed"} \subseteq DOMAIN q
    PROVE  /\ NextTry(q).taken = q.taken /\ NextTry(q).tokenTaken = q.tokenTaken
           /\ NextTry(q).source = q.source /\ (~NextTry(q).harmed => ~q.harmed)
  <1> DEFINE h == q.harmed \/ q.record = "consumed"
             t == q.tries + 1
             a == [q EXCEPT !.pc = "refund", !.tries = t]
             b == [q EXCEPT !.pc = AfterFunding(q), !.harmed = h]
  <1>1. NextTry(q) = a \/ NextTry(q) = b
    BY DEF NextTry
  <1>2. ~h => ~q.harmed
    OBVIOUS
  <1> HIDE DEF h, t
  <1>3. a.taken = q.taken /\ a.tokenTaken = q.tokenTaken /\ a.source = q.source /\ a.harmed = q.harmed
    OBVIOUS
  <1>4. b.taken = q.taken /\ b.tokenTaken = q.tokenTaken /\ b.source = q.source /\ b.harmed = h
    OBVIOUS
  <1> HIDE DEF a, b
  <1> QED BY <1>1, <1>2, <1>3, <1>4

\* Steps that make no statement on an account.
LEMMA QuietStepsBooked ==
    ASSUME IInv, NEW r \in Requests,
           \/ PreConsumeBilling(r) \/ TryWallet(r) \/ TokenRead(r) \/ Reserve(r)
           \/ ReserveRead(r) \/ Settle(r) \/ Finish(r) \/ Refund(r) \/ MarkRefunded(r)
           \/ Crash(r)
    PROVE  Follows(req[r], req'[r])
  <1> DEFINE q == req[r]
             g == req'[r]
             Same(x) == /\ x.taken = q.taken /\ x.tokenTaken = q.tokenTaken
                        /\ x.source = q.source /\ (q.harmed => x.harmed)
  <1>0. /\ q \in Request /\ Local(q) /\ Accounts
        /\ \A x : Goes(r, x) => g = x
    BY StepRecord DEF IInv, Local
  <1>1. UNCHANGED <<wallet, token, used, resets>>
    BY DEF PreConsumeBilling, TryWallet, TokenRead, Reserve, ReserveRead, Settle, Finish, Refund,
           MarkRefunded, Crash, NoStatement, Answered
  <1>s. ASSUME Same(g) PROVE Follows(q, g)
    <2>1. q.taken \in Int /\ q.tokenTaken \in Int /\ q.source \in {"wallet", "subscription"}
      BY <1>0 DEF Request
    <2> HIDE DEF q, g
    <2> QED BY <1>0, <1>1, <1>s, <2>1, QuietBooked DEF Follows, Sessions, SameFunding
  <1>t. ASSUME g = Insufficient(q), ~q.harmed => q.taken = 0 PROVE Follows(q, g)
    <2>1. q.taken \in Int /\ q.tokenTaken \in Int /\ q.source \in {"wallet", "subscription"}
      BY <1>0 DEF Request
    <2> HIDE DEF q, g
    <2> QED BY <1>0, <1>1, <1>t, <2>1, InsufficientSame, QuietBooked DEF Follows, Sessions, SameFunding
  <1>2. CASE PreConsumeBilling(r)
    <2>1. PICK n \in Quotas, p \in BOOLEAN, a \in {"wallet", "subscription"},
               t \in {"wallet", "subscription"} :
            Goes(r, Try([q EXCEPT !.quota = n, !.IsPlayground = p], a,
                        IF a = t THEN "none" ELSE t))
      BY <1>2 DEF PreConsumeBilling
    <2>2. /\ ~q.harmed => q.taken = 0
          /\ q.taken \in Int /\ q.tokenTaken \in Int /\ q.source \in {"wallet", "subscription"}
      BY <1>0, <1>2 DEF PreConsumeBilling, Local, Opening, Before, Request
    <2> DEFINE w == [q EXCEPT !.quota = n, !.IsPlayground = p]
               b == IF a = t THEN "none" ELSE t
    <2>3. g = Try(w, a, b)
      BY <1>0, <2>1
    <2>4. /\ g.taken = q.taken /\ g.tokenTaken = q.tokenTaken /\ g.source = a
          /\ g.harmed = q.harmed
      <3> HIDE DEF q
      <3>1. /\ w.taken = q.taken /\ w.tokenTaken = q.tokenTaken /\ DOMAIN w = DOMAIN q
            /\ w.harmed = q.harmed
        BY <1>0 DEF Request
      <3> HIDE DEF w, b, g
      <3>2. {"taken", "tokenTaken", "source", "harmed"} \subseteq DOMAIN w
        BY <1>0, <3>1 DEF Request
      <3> QED BY <2>3, <3>1, <3>2 DEF Try
    <2>5. Follows(q, g)
      <3> HIDE DEF q, g
      <3> QED BY <1>0, <1>1, <2>2, <2>4, QuietBooked DEF Follows, Sessions, SameFunding
    <2> QED BY <2>5
  <1>3. CASE TryWallet(r)
    <2>1. ~q.harmed => q.taken = 0
      BY <1>0, <1>3 DEF TryWallet, Local, Opening, Before
    <2>2. \/ Goes(r, Insufficient(q))
          \/ \E x, y, z : Goes(r, [q EXCEPT !.pc = x, !.trusted = y, !.effectiveQuota = z])
      BY <1>3 DEF TryWallet
    <2>3. CASE Goes(r, Insufficient(q))
      BY <1>0, <1>t, <2>1, <2>3
    <2>4. CASE \E x, y, z : Goes(r, [q EXCEPT !.pc = x, !.trusted = y, !.effectiveQuota = z])
      <3>1. Same(g)
        <4> HIDE DEF q
        <4> QED BY <1>0, <2>4 DEF Request
      <3> QED BY <1>s, <3>1
    <2> QED BY <2>2, <2>3, <2>4
  <1>4. CASE TokenRead(r)
    <2>1. \/ g = Rejected(q)
          \/ \E x, y : g = [q EXCEPT !.pc = x, !.tokenConsumed = y]
          \/ \E x : g = [q EXCEPT !.pc = x]
      BY <1>0, <1>4 DEF TokenRead
    <2>2. Same(g)
      <3> HIDE DEF q
      <3> QED BY <1>0, <2>1, InsufficientSame DEF Request
    <2> QED BY <1>s, <2>2
  <1>5. CASE Reserve(r)
    <2>1. \E x, y : g = [q EXCEPT !.pc = x, !.delta = y]
      BY <1>0, <1>5 DEF Reserve
    <2>2. Same(g)
      <3> HIDE DEF q
      <3> QED BY <1>0, <2>1 DEF Request
    <2> QED BY <1>s, <2>2
  <1>6. CASE ReserveRead(r)
    <2>1. g = Reserved(q) \/ \E x : g = [q EXCEPT !.pc = x]
      BY <1>0, <1>6 DEF ReserveRead
    <2>2. Same(g)
      <3> HIDE DEF q
      <3> QED BY <1>0, <2>1 DEF Reserved, Request
    <2> QED BY <1>s, <2>2
  <1>7. CASE Settle(r)
    <2>1. PICK n, d :
            LET p == [q EXCEPT !.actualQuota = n, !.delta = d]
            IN  \/ g = [p EXCEPT !.pc = "served", !.fundingSettled = TRUE, !.settled = TRUE]
                \/ g = [p EXCEPT !.pc = "settleFund"]
      BY <1>0, <1>7 DEF Settle
    <2>2. Same(g)
      <3> HIDE DEF q
      <3> QED BY <1>0, <2>1 DEF Request
    <2> QED BY <1>s, <2>2
  <1>8. CASE Finish(r) \/ Crash(r)
    <2>1. \E x : g = [q EXCEPT !.pc = x]
      BY <1>0, <1>8 DEF Finish, Crash
    <2>2. Same(g)
      <3> HIDE DEF q
      <3> QED BY <1>0, <2>1 DEF Request
    <2> QED BY <1>s, <2>2
  <1>9. CASE Refund(r)
    <2>1. \/ \E x, y : g = [q EXCEPT !.refunded = x, !.pc = y]
          \/ \E y : g = [q EXCEPT !.pc = y]
      BY <1>0, <1>9 DEF Refund
    <2>2. Same(g)
      <3> HIDE DEF q
      <3> QED BY <1>0, <2>1 DEF Request
    <2> QED BY <1>s, <2>2
  <1>10. CASE MarkRefunded(r)
    <2>1. PICK o \in Answers :
            LET p == [q EXCEPT !.record = IF Runs(o) THEN "refunded" ELSE @,
                               !.harmed = @ \/ ~Runs(o)]
            IN  Goes(r, IF o = "ok" THEN [p EXCEPT !.pc = AfterFunding(q)] ELSE NextTry(p))
      BY <1>10 DEF MarkRefunded
    <2> DEFINE x == IF Runs(o) THEN "refunded" ELSE q.record
               y == q.harmed \/ ~Runs(o)
               p == [q EXCEPT !.record = x, !.harmed = y]
    <2>2. g = [p EXCEPT !.pc = AfterFunding(q)] \/ g = NextTry(p)
      BY <1>0, <2>1
    <2>3. Same(g)
      <3>1. q.harmed => y
        OBVIOUS
      <3> HIDE DEF q, x, y
      <3>2. /\ p.taken = q.taken /\ p.tokenTaken = q.tokenTaken /\ p.source = q.source
            /\ p.harmed = y /\ DOMAIN p = DOMAIN q
            /\ {"taken", "tokenTaken", "source", "pc", "tries", "harmed"} \subseteq DOMAIN q
        BY <1>0 DEF Request
      <3> HIDE DEF p, g
      <3> QED BY <2>2, <3>1, <3>2, NextTrySame
    <2> QED BY <1>s, <2>3
  <1> QED BY <1>2, <1>3, <1>4, <1>5, <1>6, <1>7, <1>8, <1>9, <1>10

\* Statements on the token.
LEMMA TokenStepsBooked ==
    ASSUME IInv, NEW r \in Requests,
           \/ TokenTake(r) \/ TokenBack(r) \/ ReserveToken(r) \/ SettleToken(r)
           \/ RefundToken(r)
    PROVE  Follows(req[r], req'[r])
  <1> DEFINE q == req[r]
             g == req'[r]
             Took(x, n) == /\ x.taken = q.taken /\ x.tokenTaken = q.tokenTaken + n
                           /\ (q.harmed => x.harmed)
  <1>0. /\ q \in Request /\ Local(q) /\ Accounts
        /\ \A x : Goes(r, x) => g = x
        /\ FundingUnchanged
    BY StepRecord DEF IInv, Local, TokenTake, TokenBack, ReserveToken, SettleToken, RefundToken
  <1>1. /\ q.taken \in Int /\ q.tokenTaken \in Int /\ q.source \in {"wallet", "subscription"}
        /\ q.effectiveQuota \in Nat /\ q.delta \in Int /\ q.tokenConsumed \in Nat
    BY <1>0 DEF Request
  <1>s. ASSUME NEW a \in Int, NEW o \in Answers, Answered(o), AdjustToken(a, o),
               Took(g, Amount(o, a)), g.source \in {"wallet", "subscription"},
               ~q.harmed => g.source = q.source \/ q.taken = 0
        PROVE  Follows(q, g)
    <2> HIDE DEF q, g
    <2> QED BY <1>0, <1>1, <1>s, TokenBooked DEF Follows, Sessions, SameFunding
  <1>2. CASE TokenTake(r)
    <2>1. PICK o \in Answers :
            /\ Answered(o) /\ AdjustToken(q.effectiveQuota, o)
            /\ LET p == [q EXCEPT !.tokenTaken = @ + Amount(o, q.effectiveQuota)] IN
               Goes(r, IF o = "ok"
                       THEN [p EXCEPT !.pc = "fund", !.tokenConsumed = q.effectiveQuota]
                       ELSE Rejected([p EXCEPT !.harmed = @ \/ Runs(o)]))
      BY <1>2 DEF TokenTake
    <2> DEFINE m == q.tokenTaken + Amount(o, q.effectiveQuota)
               h == q.harmed \/ Runs(o)
               p == [q EXCEPT !.tokenTaken = m]
               b == [p EXCEPT !.harmed = h]
    <2>2. h \in BOOLEAN /\ m \in Int
      BY <1>1
    <2>3. p \in Request /\ p.harmed = q.harmed
      <3> HIDE DEF q, m
      <3> QED BY <1>0, <2>2 DEF Request
    <2>4. \/ g = [p EXCEPT !.pc = "fund", !.tokenConsumed = q.effectiveQuota]
          \/ g = Rejected(b)
      BY <1>0, <2>1, <2>3
    <2>5. b \in Request
      <3> HIDE DEF q, p, h
      <3> QED BY <2>2, <2>3 DEF Request
    <2>6. /\ p.taken = q.taken /\ p.tokenTaken = m /\ p.source = q.source
          /\ b.taken = q.taken /\ b.tokenTaken = m /\ b.source = q.source /\ b.harmed = h
      <3> HIDE DEF q, m, h
      <3> QED BY <1>0, <2>2 DEF Request
    <2>7. q.harmed => h
      OBVIOUS
    <2>8. g.taken = q.taken /\ g.tokenTaken = m /\ g.source = q.source /\ (q.harmed => g.harmed)
      <3> HIDE DEF q, g, m, h, p, b
      <3> QED BY <2>3, <2>4, <2>5, <2>6, <2>7, InsufficientSame DEF Request
    <2>9. Follows(q, g)
      <3> HIDE DEF q, g
      <3> QED BY <1>1, <1>s, <2>1, <2>8
    <2> QED BY <2>9
  <1>3. CASE TokenBack(r)
    <2>1. PICK o \in Answers :
            /\ Answered(o) /\ AdjustToken(-q.tokenConsumed, o)
            /\ Goes(r, Insufficient([q EXCEPT !.tokenTaken = @ - Amount(o, q.tokenConsumed),
                                              !.tokenConsumed = 0,
                                              !.harmed = @ \/ ~Runs(o)]))
      BY <1>3 DEF TokenBack
    <2> DEFINE m == q.tokenTaken - Amount(o, q.tokenConsumed)
               h == q.harmed \/ ~Runs(o)
               p == [q EXCEPT !.tokenTaken = m, !.tokenConsumed = 0, !.harmed = h]
    <2>2. h \in BOOLEAN /\ m \in Int /\ m = q.tokenTaken + Amount(o, -q.tokenConsumed)
      BY <1>1
    <2>3. g = Insufficient(p) /\ (q.harmed => h)
      BY <1>0, <2>1
    <2>4. p \in Request /\ p.taken = q.taken /\ p.tokenTaken = m /\ p.harmed = h
      <3> HIDE DEF q, m, h
      <3> QED BY <1>0, <2>2 DEF Request
    <2>5. ~q.harmed => q.taken = 0
      BY <1>0, <1>3 DEF TokenBack, Local, Opening, Before
    <2>6. /\ g.taken = q.taken /\ g.tokenTaken = m /\ (q.harmed => g.harmed)
          /\ g.source \in {"wallet", "subscription"}
      <3> HIDE DEF q, g, m, h, p
      <3> QED BY <2>3, <2>4, InsufficientSame
    <2>7. Follows(q, g)
      <3>1. -q.tokenConsumed \in Int
        BY <1>1
      <3> HIDE DEF q, g, m
      <3> QED BY <1>s, <2>1, <2>2, <2>5, <2>6, <3>1
    <2> QED BY <2>7
  <1>4. CASE ReserveToken(r)
    <2>1. PICK o \in Answers :
            /\ Answered(o) /\ AdjustToken(q.delta, o)
            /\ LET p == [q EXCEPT !.tokenTaken = @ + Amount(o, q.delta)] IN
               Goes(r, IF o = "ok" THEN Reserved(p)
                       ELSE [p EXCEPT !.pc = "reserveBack", !.harmed = @ \/ Runs(o)])
      BY <1>4 DEF ReserveToken
    <2> DEFINE m == q.tokenTaken + Amount(o, q.delta)
               p == [q EXCEPT !.tokenTaken = m]
               h == p.harmed \/ Runs(o)
    <2>2. g = Reserved(p) \/ g = [p EXCEPT !.pc = "reserveBack", !.harmed = h]
      BY <1>0, <2>1
    <2>3. /\ p.taken = q.taken /\ p.tokenTaken = m /\ p.source = q.source /\ p.harmed = q.harmed
          /\ DOMAIN p = DOMAIN q
          /\ {"taken", "tokenTaken", "source", "harmed"} \subseteq DOMAIN p
      <3> HIDE DEF q, m
      <3> QED BY <1>0 DEF Request
    <2> HIDE DEF p
    <2>4. p.harmed => h
      OBVIOUS
    <2>5. g.taken = q.taken /\ g.tokenTaken = m /\ g.source = q.source /\ (q.harmed => g.harmed)
      <3> HIDE DEF q, g, m, h
      <3> QED BY <2>2, <2>3, <2>4 DEF Reserved
    <2>6. Follows(q, g)
      <3> HIDE DEF q, g
      <3> QED BY <1>1, <1>s, <2>1, <2>5
    <2> QED BY <2>6
  <1>5. CASE SettleToken(r)
    <2>1. PICK o \in Answers :
            /\ Answered(o) /\ AdjustToken(q.delta, o)
            /\ Goes(r, [q EXCEPT !.pc = "served", !.delta = 0, !.settled = TRUE,
                                 !.tokenTaken = @ + Amount(o, q.delta),
                                 !.tokenParked = IF o = "refused" THEN q.delta ELSE @,
                                 !.harmed = @ \/ o = "failed"])
      BY <1>5 DEF SettleToken
    <2> DEFINE m == q.tokenTaken + Amount(o, q.delta)
               k == IF o = "refused" THEN q.delta ELSE q.tokenParked
               h == q.harmed \/ o = "failed"
    <2>2. g = [q EXCEPT !.pc = "served", !.delta = 0, !.settled = TRUE, !.tokenTaken = m,
                        !.tokenParked = k, !.harmed = h]
      BY <1>0, <2>1
    <2>3. q.harmed => h
      OBVIOUS
    <2>4. g.taken = q.taken /\ g.tokenTaken = m /\ g.source = q.source /\ (q.harmed => g.harmed)
      <3> HIDE DEF q, g, m, h, k
      <3> QED BY <1>0, <2>2, <2>3 DEF Request
    <2>5. Follows(q, g)
      <3> HIDE DEF q, g
      <3> QED BY <1>1, <1>s, <2>1, <2>4
    <2> QED BY <2>5
  <1>6. CASE RefundToken(r)
    <2>1. PICK o \in Answers :
            /\ Answered(o) /\ AdjustToken(-q.tokenConsumed, o)
            /\ Goes(r, [q EXCEPT !.pc = "refunded",
                                 !.tokenTaken = @ - Amount(o, q.tokenConsumed),
                                 !.harmed = @ \/ ~Runs(o)])
      BY <1>6 DEF RefundToken
    <2> DEFINE m == q.tokenTaken - Amount(o, q.tokenConsumed)
               h == q.harmed \/ ~Runs(o)
    <2>2. g = [q EXCEPT !.pc = "refunded", !.tokenTaken = m, !.harmed = h]
      BY <1>0, <2>1
    <2>3. (q.harmed => h) /\ m = q.tokenTaken + Amount(o, -q.tokenConsumed)
      BY <1>1
    <2>4. g.taken = q.taken /\ g.tokenTaken = m /\ g.source = q.source /\ (q.harmed => g.harmed)
      <3> HIDE DEF q, g, m, h
      <3> QED BY <1>0, <2>2, <2>3 DEF Request
    <2>5. Follows(q, g)
      <3>1. -q.tokenConsumed \in Int
        BY <1>1
      <3> HIDE DEF q, g, m
      <3> QED BY <1>1, <1>s, <2>1, <2>3, <2>4, <3>1
    <2> QED BY <2>5
  <1> QED BY <1>2, <1>3, <1>4, <1>5, <1>6

\* The pre-charge of the funding source.  Another source is tried only when
\* this one has taken nothing.
LEMMA FundBooked ==
    ASSUME IInv, NEW r \in Requests, Fund(r)
    PROVE  Follows(req[r], req'[r])
  <1> DEFINE q == req[r]
             g == req'[r]
  <1>0. /\ q \in Request /\ Local(q) /\ Accounts
        /\ \A x : Goes(r, x) => g = x
        /\ ~q.harmed => q.taken = 0
    BY StepRecord DEF IInv, Local, Fund, Opening, Before
  <1>1. /\ q.taken \in Int /\ q.tokenTaken \in Int /\ q.source \in {"wallet", "subscription"}
        /\ q.effectiveQuota \in Nat
    BY <1>0 DEF Request
  <1>2. CASE NoStatement /\ Goes(r, [q EXCEPT !.pc = "sent", !.quota = 0, !.then = "none"])
    <2>1. /\ g.taken = q.taken /\ g.tokenTaken = q.tokenTaken /\ g.source = q.source
          /\ g.harmed = q.harmed
      <3> HIDE DEF q
      <3> QED BY <1>0, <1>2 DEF Request
    <2>2. UNCHANGED <<wallet, token, used, resets>>
      BY <1>2 DEF NoStatement
    <2>3. Follows(q, g)
      <3> HIDE DEF q, g
      <3> QED BY <1>0, <1>1, <2>1, <2>2, QuietBooked DEF Follows, Sessions, SameFunding
    <2> QED BY <2>3
  <1>3. CASE ~(NoStatement /\ Goes(r, [q EXCEPT !.pc = "sent", !.quota = 0, !.then = "none"]))
    <2>1. PICK o \in Answers, short \in BOOLEAN :
            /\ Answered(o)
            /\ short => o \in {"denied", "failed"}
            /\ IF q.source = "wallet" THEN TryDecreaseUserQuota(q.effectiveQuota, o)
                                      ELSE PreConsumeUserSubscription(q.effectiveQuota, o)
            /\ LET p == [q EXCEPT !.taken = @ + Amount(o, q.effectiveQuota),
                                  !.record = IF q.source = "subscription" /\ Runs(o)
                                             THEN "consumed" ELSE @,
                                  !.harmed = @ \/ o = "lost"] IN
               Goes(r, IF o = "ok"
                       THEN [p EXCEPT !.pc = "sent", !.quota = 0, !.effectiveQuota = 0,
                                      !.then = "none",
                                      !.preConsumedQuota = q.effectiveQuota,
                                      !.consumed = IF q.source = "wallet"
                                                   THEN q.effectiveQuota ELSE 0,
                                      !.preConsumed = IF q.source = "subscription"
                                                      THEN q.effectiveQuota ELSE 0]
                       ELSE AfterFundingError(
                               [p EXCEPT !.then = IF short THEN @ ELSE "none"]))
      BY <1>3 DEF Fund
    <2>u. UNCHANGED token
      BY <1>3 DEF Fund
    <2> DEFINE m == q.taken + Amount(o, q.effectiveQuota)
               h == q.harmed \/ o = "lost"
               e == IF q.source = "subscription" /\ Runs(o) THEN "consumed" ELSE q.record
               p == [q EXCEPT !.taken = m, !.record = e, !.harmed = h]
               n == IF short THEN p.then ELSE "none"
               b == [p EXCEPT !.then = n]
               c == IF q.source = "wallet" THEN q.effectiveQuota ELSE 0
               d == IF q.source = "subscription" THEN q.effectiveQuota ELSE 0
    <2>2. /\ m \in Int /\ h \in BOOLEAN /\ e \in {"none", "consumed", "refunded"}
          /\ q.harmed => h
      BY <1>0, <1>1 DEF Request
    <2>3. \/ g = [p EXCEPT !.pc = "sent", !.quota = 0, !.effectiveQuota = 0, !.then = "none",
                           !.preConsumedQuota = q.effectiveQuota, !.consumed = c,
                           !.preConsumed = d]
          \/ g = AfterFundingError(b)
      BY <1>0, <2>1
    <2>4. /\ p \in Request /\ p.taken = m /\ p.tokenTaken = q.tokenTaken
          /\ p.source = q.source /\ p.harmed = h
      <3> HIDE DEF q, m, h, e
      <3> QED BY <1>0, <2>2 DEF Request
    <2> HIDE DEF p
    <2>5. n \in {"wallet", "subscription", "none"} /\ (n # "none" => o \in {"denied", "failed"})
      BY <2>1, <2>4 DEF Request
    <2> HIDE DEF n
    <2>6. /\ b \in Request /\ b.taken = m /\ b.tokenTaken = q.tokenTaken
          /\ b.source = q.source /\ b.harmed = h /\ b.then = n
      BY <2>4, <2>5 DEF Request
    <2> HIDE DEF b, c, d, m, h, e
    <2>7. /\ g.taken = m /\ g.tokenTaken = q.tokenTaken /\ g.harmed = h
          /\ g.source \in {"wallet", "subscription"}
          /\ g.source = q.source \/ o \in {"denied", "failed"}
      <3>1. CASE g = [p EXCEPT !.pc = "sent", !.quota = 0, !.effectiveQuota = 0, !.then = "none",
                           !.preConsumedQuota = q.effectiveQuota, !.consumed = c,
                           !.preConsumed = d]
        <4> HIDE DEF g, q
        <4> QED BY <1>1, <2>4, <3>1 DEF Request
      <3>2. CASE g = [b EXCEPT !.pc = "tokenBack"]
        <4> HIDE DEF g, q
        <4> QED BY <1>1, <2>6, <3>2 DEF Request
      <3>3. CASE g = Insufficient(b)
        <4>1. g.source = b.source \/ n # "none"
          <5> HIDE DEF g, q
          <5>1. CASE b.then = "none"
            BY <2>6, <3>3, <5>1, InsufficientSame DEF Insufficient
          <5> QED BY <2>6, <5>1
        <4> HIDE DEF g, q
        <4> QED BY <2>5, <2>6, <3>3, <4>1, InsufficientSame
      <3> QED BY <2>3, <3>1, <3>2, <3>3 DEF AfterFundingError
    <2>8. Follows(q, g)
      <3>1. CASE g.source = q.source
        <4> HIDE DEF q, g
        <4> QED BY <1>0, <1>1, <2>1, <2>2, <2>u, <2>7, <3>1, FundingBooked DEF Follows, Sessions, m
      <3>2. CASE o \in {"denied", "failed"}
        <4>1. UNCHANGED <<wallet, token, used, resets>> /\ m = q.taken
          BY <1>0, <1>1, <2>1, <2>u, <3>2
             DEF Answered, TryDecreaseUserQuota, PreConsumeUserSubscription, m, Accounts
        <4> HIDE DEF q, g
        <4> QED BY <1>0, <1>1, <2>2, <2>7, <4>1, QuietBooked DEF Follows, Sessions, SameFunding
      <3> QED BY <2>7, <3>1, <3>2
    <2> QED BY <2>8
  <1> QED BY <1>2, <1>3

\* Later statements on the funding source.
LEMMA FundingStepsBooked ==
    ASSUME IInv, NEW r \in Requests,
           \/ ReserveFunding(r) \/ RollbackFundingReserve(r) \/ SettleFunding(r)
           \/ RefundWallet(r) \/ RefundSubscription(r) \/ RefundExtra(r)
    PROVE  Follows(req[r], req'[r])
  <1> DEFINE q == req[r]
             g == req'[r]
             Took(x, n) == /\ x.taken = q.taken + n /\ x.tokenTaken = q.tokenTaken
                           /\ x.source = q.source /\ (q.harmed => x.harmed)
  <1>0. /\ q \in Request /\ Local(q) /\ Accounts
        /\ \A x : Goes(r, x) => g = x
    BY StepRecord DEF IInv, Local
  <1>1. /\ q.taken \in Int /\ q.tokenTaken \in Int /\ q.source \in {"wallet", "subscription"}
        /\ q.delta \in Int /\ q.consumed \in Nat /\ q.preConsumed \in Nat
        /\ q.extraReserved \in Nat
    BY <1>0 DEF Request
  <1>d. {"pc", "taken", "tokenTaken", "source", "harmed", "tries"} \subseteq DOMAIN q
    <2> HIDE DEF q
    <2> QED BY <1>0 DEF Request
  <1>s. ASSUME NEW a \in Int, NEW o \in Answers, Answered(o), UNCHANGED token,
               \/ AdjustFunding(q, a, o)
               \/ q.source = "wallet" /\ AdjustUserQuota(a, o)
               \/ q.source = "subscription" /\ PostConsumeUserSubscriptionDelta(a, o),
               Took(g, Amount(o, a))
        PROVE  Follows(q, g)
    <2> HIDE DEF q, g
    <2> QED BY <1>0, <1>1, <1>s, FundingBooked DEF Follows, Sessions
  <1>2. CASE ReserveFunding(r)
    <2>1. PICK o \in Answers :
            /\ Answered(o) /\ AdjustFunding(q, q.delta, o)
            /\ LET p == [q EXCEPT !.taken = @ + Amount(o, q.delta), !.harmed = @ \/ o = "lost"] IN
               Goes(r, IF o # "ok" THEN [p EXCEPT !.pc = "failing", !.delta = 0]
                       ELSE FundingReserved(p))
      BY <1>2 DEF ReserveFunding
    <2>u. UNCHANGED token
      BY <1>2 DEF ReserveFunding
    <2> DEFINE m == q.taken + Amount(o, q.delta)
               h == q.harmed \/ o = "lost"
               p == [q EXCEPT !.taken = m, !.harmed = h]
    <2>2. g = [p EXCEPT !.pc = "failing", !.delta = 0] \/ g = FundingReserved(p)
      BY <1>0, <2>1
    <2>3. q.harmed => h
      OBVIOUS
    <2>4. /\ p.taken = m /\ p.tokenTaken = q.tokenTaken /\ p.source = q.source /\ p.harmed = h
          /\ DOMAIN p = DOMAIN q
      <3> HIDE DEF q, m, h
      <3> QED BY <1>d
    <2>5. g.taken = m /\ g.tokenTaken = q.tokenTaken /\ g.source = q.source /\ g.harmed = h
      <3> HIDE DEF q, g, m, h, p
      <3> QED BY <1>d, <2>2, <2>4 DEF FundingReserved
    <2>6. Follows(q, g)
      <3> HIDE DEF q, g, h
      <3> QED BY <1>1, <1>s, <2>1, <2>u, <2>3, <2>5
    <2> QED BY <2>6
  <1>3. CASE RollbackFundingReserve(r)
    <2>1. PICK o \in Answers :
            /\ Answered(o) /\ AdjustFunding(q, -q.delta, o)
            /\ Goes(r, [q EXCEPT !.pc = "failing", !.delta = 0,
                                 !.taken = @ - Amount(o, q.delta),
                                 !.consumed = IF q.source = "wallet" /\ o = "ok"
                                              THEN @ - q.delta ELSE @,
                                 !.harmed = @ \/ IF q.source = "wallet"
                                                 THEN o = "lost" \/ (o # "ok" /\ q.tokenConsumed = 0)
                                                 ELSE ~Runs(o)])
      BY <1>3 DEF RollbackFundingReserve
    <2>u. UNCHANGED token
      BY <1>3 DEF RollbackFundingReserve
    <2> DEFINE m == q.taken - Amount(o, q.delta)
               c == IF q.source = "wallet" /\ o = "ok" THEN q.consumed - q.delta ELSE q.consumed
               h == q.harmed \/ IF q.source = "wallet"
                                THEN o = "lost" \/ (o # "ok" /\ q.tokenConsumed = 0)
                                ELSE ~Runs(o)
    <2>2. g = [q EXCEPT !.pc = "failing", !.delta = 0, !.taken = m, !.consumed = c, !.harmed = h]
      BY <1>0, <2>1
    <2>3. (q.harmed => h) /\ m = q.taken + Amount(o, -q.delta)
      BY <1>1
    <2>5. g.taken = m /\ g.tokenTaken = q.tokenTaken /\ g.source = q.source /\ g.harmed = h
      <3> HIDE DEF q, g, m, h, c
      <3> QED BY <1>d, <2>2
    <2>6. Follows(q, g)
      <3>1. -q.delta \in Int
        BY <1>1
      <3> HIDE DEF q, g, h, m
      <3> QED BY <1>1, <1>s, <2>1, <2>u, <2>3, <2>5, <3>1
    <2> QED BY <2>6
  <1>4. CASE RefundWallet(r)
    <2>1. PICK o \in Answers :
            /\ Answered(o) /\ AdjustUserQuota(-q.consumed, o)
            /\ Goes(r, [q EXCEPT !.pc = AfterFunding(q),
                                 !.taken = @ - Amount(o, q.consumed),
                                 !.harmed = @ \/ ~Runs(o)])
      BY <1>4 DEF RefundWallet
    <2>u. UNCHANGED token /\ q.source = "wallet"
      BY <1>4 DEF RefundWallet
    <2> DEFINE m == q.taken - Amount(o, q.consumed)
               h == q.harmed \/ ~Runs(o)
               c == AfterFunding(q)
    <2>2. g = [q EXCEPT !.pc = c, !.taken = m, !.harmed = h]
      BY <1>0, <2>1
    <2>3. (q.harmed => h) /\ m = q.taken + Amount(o, -q.consumed)
      BY <1>1
    <2>5. g.taken = m /\ g.tokenTaken = q.tokenTaken /\ g.source = q.source /\ g.harmed = h
      <3> HIDE DEF q, g, m, h, c
      <3> QED BY <1>d, <2>2
    <2>6. Follows(q, g)
      <3>1. -q.consumed \in Int
        BY <1>1
      <3> HIDE DEF q, g, h, m
      <3> QED BY <1>1, <1>s, <2>1, <2>u, <2>3, <2>5, <3>1
    <2> QED BY <2>6
  <1>5. CASE RefundExtra(r)
    <2>1. PICK o \in Answers :
            /\ Answered(o) /\ PostConsumeUserSubscriptionDelta(-q.extraReserved, o)
            /\ Goes(r, [q EXCEPT !.pc = AfterExtra(q),
                                 !.taken = @ - Amount(o, q.extraReserved),
                                 !.harmed = @ \/ ~Runs(o)])
      BY <1>5 DEF RefundExtra
    <2>u. UNCHANGED token /\ (~q.harmed => q.source = "subscription")
      BY <1>0, <1>5 DEF RefundExtra, Local, Closing
    <2> DEFINE m == q.taken - Amount(o, q.extraReserved)
               h == q.harmed \/ ~Runs(o)
               c == AfterExtra(q)
    <2>2. g = [q EXCEPT !.pc = c, !.taken = m, !.harmed = h]
      BY <1>0, <2>1
    <2>3. (q.harmed => h) /\ m = q.taken + Amount(o, -q.extraReserved)
      BY <1>1
    <2>5. g.taken = m /\ g.tokenTaken = q.tokenTaken /\ g.source = q.source /\ g.harmed = h
      <3> HIDE DEF q, g, m, h, c
      <3> QED BY <1>d, <2>2
    <2>6. Follows(q, g)
      <3>1. -q.extraReserved \in Int
        BY <1>1
      <3> HIDE DEF q, g, h, m
      <3>2. CASE q.harmed
        BY <2>3, <2>5, <3>2 DEF Follows
      <3>3. CASE ~q.harmed
        BY <1>1, <1>s, <2>1, <2>u, <2>3, <2>5, <3>1, <3>3
      <3> QED BY <3>2, <3>3
    <2> QED BY <2>6
  <1>6. CASE SettleFunding(r)
    <2>1. PICK o \in Answers :
            /\ Answered(o) /\ AdjustFunding(q, q.delta, o)
            /\ LET p == [q EXCEPT !.taken = @ + Amount(o, q.delta), !.harmed = @ \/ o = "lost"] IN
               Goes(r, CASE o = "ok" ->
                              [p EXCEPT !.fundingSettled = TRUE,
                                        !.pc = IF q.IsPlayground THEN "served" ELSE "settleToken",
                                        !.delta = IF q.IsPlayground THEN 0 ELSE @,
                                        !.settled = q.IsPlayground]
                         [] o = "refused" /\ q.source = "wallet" ->
                              [p EXCEPT !.pc = "served", !.delta = 0, !.parked = q.delta,
                                        !.tokenParked = IF q.IsPlayground THEN 0 ELSE q.delta,
                                        !.fundingSettled = TRUE, !.settled = TRUE]
                         [] OTHER -> [p EXCEPT !.pc = "served", !.delta = 0])
      BY <1>6 DEF SettleFunding
    <2>u. UNCHANGED token
      BY <1>6 DEF SettleFunding
    <2> DEFINE m == q.taken + Amount(o, q.delta)
               h == q.harmed \/ o = "lost"
               p == [q EXCEPT !.taken = m, !.harmed = h]
               c == IF q.IsPlayground THEN "served" ELSE "settleToken"
               d == IF q.IsPlayground THEN 0 ELSE p.delta
               e == q.IsPlayground
               k == IF q.IsPlayground THEN 0 ELSE q.delta
               n == q.delta
               x1 == [p EXCEPT !.fundingSettled = TRUE, !.pc = c, !.delta = d, !.settled = e]
               x2 == [p EXCEPT !.pc = "served", !.delta = 0, !.parked = n, !.tokenParked = k,
                               !.fundingSettled = TRUE, !.settled = TRUE]
               x3 == [p EXCEPT !.pc = "served", !.delta = 0]
    <2>2. g = x1 \/ g = x2 \/ g = x3
      <3>1. g = CASE o = "ok" -> x1 [] o = "refused" /\ q.source = "wallet" -> x2 [] OTHER -> x3
        BY <1>0, <2>1
      <3> HIDE DEF x1, x2, x3, g
      <3> QED BY <3>1
    <2>3. q.harmed => h
      OBVIOUS
    <2>4. /\ p.taken = m /\ p.tokenTaken = q.tokenTaken /\ p.source = q.source /\ p.harmed = h
          /\ DOMAIN p = DOMAIN q
      <3> HIDE DEF q, m, h
      <3> QED BY <1>d
    <2>5. g.taken = m /\ g.tokenTaken = q.tokenTaken /\ g.source = q.source /\ g.harmed = h
      <3> HIDE DEF q, g, m, h, p, c, d, e, k, n
      <3> QED BY <1>d, <2>2, <2>4
    <2>6. Follows(q, g)
      <3> HIDE DEF q, g, h
      <3> QED BY <1>1, <1>s, <2>1, <2>u, <2>3, <2>5
    <2> QED BY <2>6
  <1>7. CASE RefundSubscription(r)
    <2>0. q.source = "subscription"
      BY <1>7 DEF RefundSubscription
    <2>1. CASE NoStatement /\ Goes(r, [q EXCEPT !.pc = AfterFunding(q)])
      <3> DEFINE c == AfterFunding(q)
      <3>1. g = [q EXCEPT !.pc = c]
        BY <1>0, <2>1
      <3>2. /\ g.taken = q.taken /\ g.tokenTaken = q.tokenTaken /\ g.source = q.source
            /\ g.harmed = q.harmed
        <4> HIDE DEF q, g, c
        <4> QED BY <1>d, <3>1
      <3>3. UNCHANGED <<wallet, token, used, resets>>
        BY <2>1 DEF NoStatement
      <3>4. Follows(q, g)
        <4> HIDE DEF q, g
        <4> QED BY <1>0, <1>1, <3>2, <3>3, QuietBooked DEF Follows, Sessions, SameFunding
      <3> QED BY <3>4
    <2>2. CASE ~(NoStatement /\ Goes(r, [q EXCEPT !.pc = AfterFunding(q)]))
      <3>1. PICK o \in Answers :
              /\ Answered(o) /\ PostConsumeUserSubscriptionDelta(-q.preConsumed, o)
              /\ LET p == [q EXCEPT !.taken = @ - Amount(o, q.preConsumed),
                                    !.harmed = @ \/ o = "lost"] IN
                 Goes(r, IF o = "ok" THEN [p EXCEPT !.pc = "mark"] ELSE NextTry(p))
        BY <1>7, <2>2 DEF RefundSubscription
      <3>u. UNCHANGED token
        BY <1>7, <2>2 DEF RefundSubscription
      <3> DEFINE m == q.taken - Amount(o, q.preConsumed)
                 h == q.harmed \/ o = "lost"
                 p == [q EXCEPT !.taken = m, !.harmed = h]
      <3>2. g = [p EXCEPT !.pc = "mark"] \/ g = NextTry(p)
        BY <1>0, <3>1
      <3>3. (q.harmed => h) /\ m = q.taken + Amount(o, -q.preConsumed)
        BY <1>1
      <3>4. /\ p.taken = m /\ p.tokenTaken = q.tokenTaken /\ p.source = q.source /\ p.harmed = h
            /\ DOMAIN p = DOMAIN q
        <4> HIDE DEF q, m, h
        <4> QED BY <1>d
      <3>5. /\ g.taken = m /\ g.tokenTaken = q.tokenTaken /\ g.source = q.source
            /\ (h => g.harmed)
        <4> HIDE DEF q, g, m, h, p
        <4> QED BY <1>d, <3>2, <3>4, NextTrySame
      <3>6. Follows(q, g)
        <4>1. -q.preConsumed \in Int
          BY <1>1
        <4> HIDE DEF q, g, h, m
        <4> QED BY <1>1, <1>s, <2>0, <3>1, <3>u, <3>3, <3>5, <4>1
      <3> QED BY <3>6
    <2> QED BY <2>1, <2>2
  <1> QED BY <1>2, <1>3, <1>4, <1>5, <1>6, <1>7

\* The books of a state nobody has been harmed in.
Parts(source) == [r \in Requests |-> Part(source, req[r])]
TokenParts == [r \in Requests |-> req[r].tokenTaken]
Unharmed == \A r \in Requests : ~req[r].harmed

Books ==
    Unharmed =>
        /\ wallet = InitWallet - SumFunctionOnSet(Parts("wallet"), Requests)
        /\ token = InitToken - SumFunctionOnSet(TokenParts, Requests)
        /\ resets = 0 => used = SumFunctionOnSet(Parts("subscription"), Requests)

\* A request that follows the books takes them along.
LEMMA FollowedBooks ==
    ASSUME IInv, IInv', Books, NEW r \in Requests, NEW g, Goes(r, g), Follows(req[r], req'[r])
    PROVE  Books'
  <1> SUFFICES ASSUME Unharmed' PROVE
          /\ wallet' = InitWallet - SumFunctionOnSet(Parts("wallet")', Requests)
          /\ token' = InitToken - SumFunctionOnSet(TokenParts', Requests)
          /\ resets' = 0 => used' = SumFunctionOnSet(Parts("subscription")', Requests)
    BY DEF Books
  <1>1. \A p \in Requests \ {r} : req'[p] = req[p]
    BY StepRecord
  <1>2. Unharmed /\ Booked(req[r], req'[r])
    BY <1>1 DEF Unharmed, Follows
  <1>3. \A p \in Requests : /\ req[p].taken \in Nat /\ req[p].tokenTaken \in Int
                            /\ req'[p].taken \in Nat /\ req'[p].tokenTaken \in Int
    BY <1>2 DEF IInv, Local, Request, Unharmed
  <1>4. ASSUME NEW source
        PROVE  /\ \A p \in Requests : /\ Parts(source)[p] = Part(source, req[p])
                                      /\ Parts(source)'[p] = Part(source, req'[p])
                                      /\ Parts(source)[p] \in Nat /\ Parts(source)'[p] \in Nat
               /\ \A p \in Requests \ {r} : Parts(source)'[p] = Parts(source)[p]
    BY <1>1, <1>3 DEF Parts, Part
  <1>5. ASSUME NEW source
        PROVE  /\ SumFunctionOnSet(Parts(source)', Requests) =
                    SumFunctionOnSet(Parts(source), Requests)
                      + Part(source, req'[r]) - Part(source, req[r])
               /\ SumFunctionOnSet(Parts(source)', Requests) \in Nat
               /\ SumFunctionOnSet(Parts(source), Requests) \in Nat
    <2> DEFINE f == Parts(source)
               e == Parts(source)'
    <2>1. /\ \A p \in Requests : f[p] \in Nat /\ e[p] \in Nat
          /\ \A p \in Requests : f[p] \in Int /\ e[p] \in Int
          /\ \A p \in Requests \ {r} : e[p] = f[p]
          /\ f[r] = Part(source, req[r]) /\ e[r] = Part(source, req'[r])
      BY <1>4
    <2> HIDE DEF f, e
    <2>2. SumFunctionOnSet(e, Requests) = SumFunctionOnSet(f, Requests) + e[r] - f[r]
      BY <2>1, ConstantsAssumption, SumChange
    <2>3. SumFunctionOnSet(e, Requests) \in Nat /\ SumFunctionOnSet(f, Requests) \in Nat
      BY <2>1, ConstantsAssumption, SumNatural
    <2> QED BY <2>1, <2>2, <2>3 DEF f, e
  <1>6. /\ SumFunctionOnSet(TokenParts', Requests) =
             SumFunctionOnSet(TokenParts, Requests) + req'[r].tokenTaken - req[r].tokenTaken
        /\ SumFunctionOnSet(TokenParts, Requests) \in Int
    <2> DEFINE f == TokenParts
               e == TokenParts'
    <2>1. /\ \A p \in Requests : f[p] \in Int /\ e[p] \in Int
          /\ \A p \in Requests \ {r} : e[p] = f[p]
          /\ f[r] = req[r].tokenTaken /\ e[r] = req'[r].tokenTaken
      BY <1>1, <1>3 DEF TokenParts
    <2>f. IsFiniteSet(Requests)
      BY ConstantsAssumption
    <2> HIDE DEF f, e
    <2>2. SumFunctionOnSet(e, Requests) = SumFunctionOnSet(f, Requests) + e[r] - f[r]
      BY <2>1, <2>f, SumChange
    <2>3. SumFunctionOnSet(f, Requests) \in Int
      BY <2>1, ConstantsAssumption, SumInt
    <2> QED BY <2>1, <2>2, <2>3 DEF f, e
  <1>7. Part("wallet", req[r]) \in Nat /\ Part("wallet", req'[r]) \in Nat
        /\ Part("subscription", req[r]) \in Nat /\ Part("subscription", req'[r]) \in Nat
    BY <1>3 DEF Part
  <1>8. wallet' = InitWallet - SumFunctionOnSet(Parts("wallet")', Requests)
    BY <1>2, <1>5, <1>7, ConstantsAssumption DEF Books, Booked
  <1>9. token' = InitToken - SumFunctionOnSet(TokenParts', Requests)
    BY <1>2, <1>3, <1>6, ConstantsAssumption DEF Books, Booked
  <1>10. resets' = 0 => used' = SumFunctionOnSet(Parts("subscription")', Requests)
    BY <1>2, <1>5, <1>7 DEF Books, Booked, Clamped
  <1> QED BY <1>8, <1>9, <1>10

LEMMA NextBooks == IInv /\ Books /\ [Next]_vars => Books'
  <1> SUFFICES ASSUME IInv, Books, [Next]_vars PROVE Books'
    OBVIOUS
  <1>0. IInv'
    BY NextIInv
  <1>1. CASE UNCHANGED vars
    BY <1>1 DEF vars, Books, Unharmed, Parts, Part, TokenParts
  <1>2. CASE ResetSubscription
    <2>1. UNCHANGED <<req, wallet, token>> /\ resets' # 0
      BY <1>2 DEF ResetSubscription, IInv, Accounts
    <2>2. UNCHANGED <<Unharmed, Parts("wallet"), TokenParts>>
      BY <2>1 DEF Unharmed, Parts, Part, TokenParts
    <2> QED BY <2>1, <2>2 DEF Books
  <1>3. ASSUME NEW r \in Requests,
               \/ PreConsumeBilling(r) \/ TryWallet(r) \/ TokenRead(r) \/ TokenTake(r)
               \/ Fund(r) \/ TokenBack(r)
               \/ Reserve(r) \/ ReserveFunding(r) \/ ReserveRead(r) \/ ReserveToken(r)
               \/ RollbackFundingReserve(r)
               \/ Settle(r) \/ SettleFunding(r) \/ SettleToken(r) \/ Finish(r)
               \/ Refund(r) \/ RefundWallet(r) \/ RefundSubscription(r) \/ MarkRefunded(r)
               \/ RefundExtra(r) \/ RefundToken(r) \/ Crash(r)
        PROVE  Books'
    <2>1. Follows(req[r], req'[r])
      BY <1>3, QuietStepsBooked, TokenStepsBooked, FundBooked, FundingStepsBooked
    <2>2. \E g : Goes(r, g)
      BY <1>3 DEF PreConsumeBilling, TryWallet, TokenRead, TokenTake, Fund, TokenBack, Reserve,
                  ReserveFunding, ReserveRead, ReserveToken, RollbackFundingReserve, Settle,
                  SettleFunding, SettleToken, Finish, Refund, RefundWallet, RefundSubscription,
                  MarkRefunded, RefundExtra, RefundToken, Crash
    <2> QED BY <1>0, <2>1, <2>2, FollowedBooks
  <1> QED BY <1>1, <1>2, <1>3 DEF Next

\* When every request has ended unharmed, the wallet, the token and, within
\* one period, the subscription show exactly the outcomes: whatever sessions
\* ran at the same time, their charges and returns are not mixed up.
THEOREM BooksAreQuiet == Spec => []QuietBooks
  <1>1. Init => Books
    <2> SUFFICES ASSUME Init PROVE Books
      OBVIOUS
    <2>1. /\ \A p \in Requests : /\ Parts("wallet")[p] = 0 /\ Parts("subscription")[p] = 0
                                 /\ TokenParts[p] = 0
      BY DEF Init, Idle, Parts, Part, TokenParts
    <2>2. /\ SumFunctionOnSet(Parts("wallet"), Requests) = 0
          /\ SumFunctionOnSet(Parts("subscription"), Requests) = 0
          /\ SumFunctionOnSet(TokenParts, Requests) = 0
      BY <2>1, ConstantsAssumption, SumZero
    <2> QED BY <2>2, ConstantsAssumption DEF Init, Books
  <1>2. IInv /\ Books => QuietBooks
    <2> SUFFICES ASSUME IInv, Books,
                        \A r \in Requests : req[r].pc \in Ended \ {"dead"} /\ ~req[r].harmed
                 PROVE  /\ wallet = InitWallet - SumFunctionOnSet(Bills("wallet"), Requests)
                        /\ token = InitToken - SumFunctionOnSet(TokenBills, Requests)
                        /\ resets = 0 =>
                              used = SumFunctionOnSet(Bills("subscription"), Requests)
      BY DEF QuietBooks
    <2>1. \A p \in Requests : /\ req[p].taken \in Int /\ req[p].tokenTaken \in Int
                              /\ Owed(req[p]) = req[p].taken
                              /\ TokenOwed(req[p]) = req[p].tokenTaken
      <3> TAKE p \in Requests
      <3> DEFINE q == req[p]
      <3>1. q \in Request /\ Closing(q) /\ q.pc \in {"rejected", "refunded", "done"}
        BY DEF IInv, Local, Ended
      <3> HIDE DEF q
      <3>2. /\ q.taken \in Int /\ q.tokenTaken \in Int /\ q.parked \in Int
            /\ q.tokenParked \in Int /\ q.actualQuota \in Nat /\ q.settled \in BOOLEAN
            /\ q.preConsumedQuota \in Nat
        BY <3>1 DEF Request
      <3>3. Owed(q) = q.taken
        BY <3>1, <3>2 DEF Owed, Closing
      <3>4. TokenOwed(q) = q.tokenTaken
        BY <3>1, <3>2 DEF TokenOwed, Closing
      <3> QED BY <3>2, <3>3, <3>4 DEF q
    <2>2. /\ \A p \in Requests : Parts("wallet")[p] \in Int /\ Bills("wallet")[p] = Parts("wallet")[p]
          /\ \A p \in Requests : /\ Parts("subscription")[p] \in Int
                                 /\ Bills("subscription")[p] = Parts("subscription")[p]
          /\ \A p \in Requests : TokenParts[p] \in Int /\ TokenBills[p] = TokenParts[p]
      BY <2>1 DEF Parts, Part, Bills, TokenParts, TokenBills
    <2>3. SumFunctionOnSet(Bills("wallet"), Requests) = SumFunctionOnSet(Parts("wallet"), Requests)
      BY <2>2, ConstantsAssumption, SumSame
    <2>4. SumFunctionOnSet(Bills("subscription"), Requests)
            = SumFunctionOnSet(Parts("subscription"), Requests)
      BY <2>2, ConstantsAssumption, SumSame
    <2>5. SumFunctionOnSet(TokenBills, Requests) = SumFunctionOnSet(TokenParts, Requests)
      BY <2>2, ConstantsAssumption, SumSame
    <2>6. Unharmed
      BY DEF Unharmed
    <2> QED BY <2>3, <2>4, <2>5, <2>6 DEF Books
  <1> QED BY <1>1, <1>2, NextBooks, Inductive, PTL DEF Spec
=============================================================================
