-------------------------- MODULE SettlementOutbox --------------------------
(***************************************************************************)
(* The settlement outbox: model/settlement_outbox.go, with the request     *)
(* path that feeds it (BillingSession.Settle, RecordConsumeLog) and the    *)
(* shutdown sequence of main.go.                                           *)
(*                                                                         *)
(* After a response has been served, its request moves the wallet, then    *)
(* the token, then writes the consume log row.  A statement the database   *)
(* refused before running it is parked, in the Redis list or in the memory *)
(* of the node, and replayed by the worker of a node.  Requests, workers,  *)
(* outages, crashes, restarts and shutdowns interleave between statements. *)
(* Amounts do not matter here: what is counted is how often the delta of a *)
(* request reached each resource.                                          *)
(***************************************************************************)
EXTENDS Integers, FiniteSets, Sequences, SequencesExt

CONSTANTS
  Requests,        \* request ids
  Nodes,           \* console processes
  Masters,         \* those with common.IsMasterNode
  NoNode,          \* the home of a request nobody serves yet
  NoItem,          \* nothing in hand
  RedisEnabled,    \* common.RedisEnabled
  MemoryLimit,     \* settlementOutboxMemoryLimit
  MaxAttempts,     \* settlementOutboxMaxAttempts
  Batch,           \* settlementOutboxBatch
  LostReplies,     \* whether a Redis command that failed may have run
  Stragglers,      \* whether srv.Shutdown may time out on running requests
  LatePasses,      \* whether a shutdown may begin between the worker's look at
                   \* settlementOutbox.stopped and its pass
  MaxFaults,       \* bound: statements that fail for another reason
  MaxCrashes,      \* bound: processes killed
  MaxStops,        \* bound: orderly shutdowns
  MaxOutages       \* bound: times the database or Redis starts to refuse

ASSUME SettlementOutboxAssumption ==
  /\ Masters \subseteq Nodes /\ NoNode \notin Nodes
  /\ RedisEnabled \in BOOLEAN /\ LostReplies \in BOOLEAN
  /\ Stragglers \in BOOLEAN /\ LatePasses \in BOOLEAN
  /\ MemoryLimit \in Nat /\ MaxAttempts \in Nat \ {0} /\ Batch \in Nat \ {0}
  /\ MaxFaults \in Nat /\ MaxCrashes \in Nat /\ MaxStops \in Nat /\ MaxOutages \in Nat

-----------------------------------------------------------------------------
(* What is parked *)

Resources == {"wallet", "token", "log"}
Kinds == {"charge", "token", "log"}

\* PendingSettlement, by its key kind:requestId.
Items == [kind: Kinds, req: Requests]
Item(kind, r) == [kind |-> kind, req |-> r]

ASSUME NoItemAssumption == NoItem \notin Items

\* A refused wallet charge carries the token adjustment that would have
\* followed it; a refused token adjustment stands alone.
Moves(k) ==
  IF k.kind = "charge" THEN {"wallet", "token"}
  ELSE IF k.kind = "token" THEN {"token"} ELSE {"log"}

\* A pass over the outbox, and beside it the shutdown flush: it waits for its
\* own pass, makes it, takes the memory and pushes what is left.  A late worker
\* still has its last pass to make.
Drain == [pc: {"idle", "memory", "lrange", "redis"},
          todo: SUBSET Items, done: SUBSET Items, raws: Seq(Items),
          step: {"pick", "insert", "dequeue"}, item: Items \cup {NoItem},
          flush: {"off", "wait", "pass", "take", "push"}, left: SUBSET Items,
          late: {"none", "due"}]

Idle == [pc |-> "idle", todo |-> {}, done |-> {}, raws |-> <<>>, step |-> "pick",
         item |-> NoItem, flush |-> "off", left |-> {}, late |-> "none"]

VARIABLES
  stage,      \* how far the settlement of each request is
  home,       \* the node serving it
  applied,    \* how often its delta reached each resource
  ledger,     \* settlement_ledgers, by key
  parked,     \* every item ever parked (the "parked" lines of the process logs)
  redis,      \* the list settlement:outbox
  memory,     \* settlementOutbox.memory of each node
  attempts,   \* settlementOutbox.attempts of each node
  dead,       \* items set aside, in memory or in settlement:outbox:dead
  byHand,     \* items written to a process log in full, to recover by hand
  errors,     \* items the request path dropped, logging the error
  lost,       \* items that went down with the memory of a process
  mode,       \* each node: "up", "stopping", "down"
  drain,      \* the drain pass of each node (drainMu admits one) and its flush
  dbUp, redisUp,
  faults, crashes, stops, outages

requestVars == <<stage, home, errors>>
queueVars == <<parked, redis, memory, byHand>>
replayVars == <<attempts, dead>>
nodeVars == <<lost, mode>>
worldVars == <<dbUp, redisUp, crashes, stops, outages>>
vars == <<stage, home, applied, ledger, parked, redis, memory, attempts, dead, byHand,
          errors, lost, mode, drain, dbUp, redisUp, faults, crashes, stops, outages>>

Init ==
  /\ stage = [r \in Requests |-> "new"] /\ home = [r \in Requests |-> NoNode]
  /\ applied = [r \in Requests |-> [x \in Resources |-> 0]]
  /\ ledger = {} /\ parked = {} /\ redis = <<>>
  /\ memory = [n \in Nodes |-> {}]
  /\ attempts = [n \in Nodes |-> [k \in Items |-> 0]]
  /\ dead = {} /\ byHand = {} /\ errors = {} /\ lost = {}
  /\ mode = [n \in Nodes |-> "up"] /\ drain = [n \in Nodes |-> Idle]
  /\ dbUp = TRUE /\ redisUp = RedisEnabled
  /\ faults = 0 /\ crashes = 0 /\ stops = 0 /\ outages = 0

\* The statement ran: the delta of r reached the resources in X.
Hit(r, X) ==
  applied' = [applied EXCEPT ![r] =
                [x \in Resources |-> IF x \in X THEN applied[r][x] + 1 ELSE applied[r][x]]]

\* A statement that fails for another reason than a refused connection may
\* still have run (a reply lost with the connection).
MaybeHit(r, X) ==
  /\ faults < MaxFaults /\ faults' = faults + 1
  /\ Hit(r, X) \/ UNCHANGED applied

-----------------------------------------------------------------------------
(* Parking *)

\* The memory of a node is bounded; what does not fit goes to the process log.
ParkInMemory(n, k) ==
  IF Cardinality(memory[n]) >= MemoryLimit
  THEN byHand' = byHand \cup {k} /\ UNCHANGED memory
  ELSE memory' = [memory EXCEPT ![n] = @ \cup {k}] /\ UNCHANGED byHand

\* parkSettlement: the Redis list, or else memory.  When the reply of RPUSH is
\* lost the item is in both.
ParkSettlement(n, k) ==
  /\ parked' = parked \cup {k}
  /\ \/ /\ redisUp /\ redis' = Append(redis, k)
        /\ UNCHANGED <<memory, byHand>>
     \/ /\ ~redisUp
        /\ \/ UNCHANGED redis
           \/ RedisEnabled /\ LostReplies /\ redis' = Append(redis, k)
        /\ ParkInMemory(n, k)

-----------------------------------------------------------------------------
(* The request path.  A refusal that outlives retryConnectionClass's four  *)
(* attempts is parked; any other error is returned and logged.             *)

Serving(r, s) == stage[r] = s /\ home[r] \in Nodes /\ mode[home[r]] # "down"

Serve(r, n) ==
  /\ stage[r] = "new" /\ mode[n] = "up"
  /\ stage' = [stage EXCEPT ![r] = "wallet"] /\ home' = [home EXCEPT ![r] = n]
  /\ UNCHANGED <<errors, applied, ledger, queueVars, replayVars, nodeVars, drain,
                 worldVars, faults>>

\* One statement of the request path: it runs, or is refused and parked, or
\* fails and is dropped.
Statement(r, X, k, whenRun, whenNot) ==
  \/ /\ Hit(r, X)
     /\ stage' = [stage EXCEPT ![r] = whenRun]
     /\ UNCHANGED <<errors, queueVars, faults>>
  \/ /\ ~dbUp /\ ParkSettlement(home[r], k)
     /\ stage' = [stage EXCEPT ![r] = whenNot]
     /\ UNCHANGED <<errors, applied, faults>>
  \/ /\ MaybeHit(r, X)
     /\ errors' = errors \cup {k}
     /\ stage' = [stage EXCEPT ![r] = whenNot]
     /\ UNCHANGED queueVars

\* Mutant of SettleWallet: the token is adjusted although it was parked too.
SettleWalletThenToken(r) ==
  /\ Serving(r, "wallet")
  /\ Statement(r, {"wallet"}, Item("charge", r), "token", "token")
  /\ UNCHANGED <<home, ledger, replayVars, nodeVars, drain, worldVars>>

\* BillingSession.Settle, the funding source.  When it fails or is parked the
\* token is not adjusted here.
SettleWallet(r) ==
  /\ Serving(r, "wallet")
  /\ Statement(r, {"wallet"}, Item("charge", r), "token", "log")
  /\ UNCHANGED <<home, ledger, replayVars, nodeVars, drain, worldVars>>

\* BillingSession.Settle, the token.
SettleToken(r) ==
  /\ Serving(r, "token")
  /\ Statement(r, {"token"}, Item("token", r), "log", "log")
  /\ UNCHANGED <<home, ledger, replayVars, nodeVars, drain, worldVars>>

\* createConsumeLogDurably.
CreateConsumeLogDurably(r) ==
  /\ Serving(r, "log")
  /\ Statement(r, {"log"}, Item("log", r), "done", "done")
  /\ UNCHANGED <<home, ledger, replayVars, nodeVars, drain, worldVars>>

-----------------------------------------------------------------------------
(* A drain pass *)

SetDrain(n, d) == drain' = [drain EXCEPT ![n] = d]

\* A pass begins with a copy of the memory.
Began(n) == [drain[n] EXCEPT !.pc = "memory", !.todo = memory[n]]

\* Mutant of DrainSettlementOutbox: only the master replays, memory included.
DrainMasterOnly(n) ==
  /\ drain[n].pc = "idle"
  /\ \/ mode[n] = "up" /\ n \in Masters /\ SetDrain(n, Began(n))
     \/ drain[n].late = "due" /\ SetDrain(n, [Began(n) EXCEPT !.late = "none"])
     \/ drain[n].flush = "wait" /\ SetDrain(n, [Began(n) EXCEPT !.flush = "pass"])
  /\ UNCHANGED <<requestVars, applied, ledger, queueVars, replayVars, nodeVars, worldVars,
                 faults>>

\* DrainSettlementOutbox, by the worker of a running node, by one that found it
\* running before the shutdown began, and once by the shutdown flush.
DrainSettlementOutbox(n) ==
  /\ drain[n].pc = "idle"
  /\ \/ mode[n] = "up" /\ SetDrain(n, Began(n))
     \/ drain[n].late = "due" /\ SetDrain(n, [Began(n) EXCEPT !.late = "none"])
     \/ drain[n].flush = "wait" /\ SetDrain(n, [Began(n) EXCEPT !.flush = "pass"])
  /\ UNCHANGED <<requestVars, applied, ledger, queueVars, replayVars, nodeVars, worldVars,
                 faults>>

\* The item a pass works on next.
Upcoming(d) ==
  IF d.pc = "memory" THEN d.todo
  ELSE IF d.pc = "redis" /\ d.raws # <<>> THEN {Head(d.raws)} ELSE {}

\* The pass goes on with the next item, this one being finished with or not.
Onward(d, k, finished) ==
  IF d.pc = "memory"
  THEN [d EXCEPT !.todo = @ \ {k}, !.done = IF finished THEN @ \cup {k} ELSE @,
                 !.step = "pick", !.item = NoItem]
  ELSE IF finished THEN [d EXCEPT !.step = "dequeue", !.item = k]
       ELSE [d EXCEPT !.raws = Tail(@), !.step = "pick", !.item = NoItem]

\* Mutant of Succeed: an attempt is given back instead of all forgotten.
SucceedAndCountDown(n, k) ==
  /\ SetDrain(n, Onward(drain[n], k, TRUE))
  /\ attempts' = [attempts EXCEPT ![n] = [@ EXCEPT ![k] = @ - 1]]
  /\ UNCHANGED <<dead, byHand>>

\* applyPendingSettlement returned nil.
Succeed(n, k) ==
  /\ SetDrain(n, Onward(drain[n], k, TRUE))
  /\ attempts' = [attempts EXCEPT ![n] = [@ EXCEPT ![k] = 0]]
  /\ UNCHANGED <<dead, byHand>>

\* Mutant of Refuse: a refused connection counts as an attempt.
RefuseAndCount(n, k) ==
  LET tries == attempts[n][k] + 1  over == tries >= MaxAttempts
  IN /\ ~dbUp
     /\ SetDrain(n, Onward(drain[n], k, over))
     /\ attempts' = [attempts EXCEPT ![n] = [@ EXCEPT ![k] = tries]]
     /\ dead' = IF over THEN dead \cup {k} ELSE dead
     /\ byHand' = IF over THEN byHand \cup {k} ELSE byHand
     /\ UNCHANGED <<applied, ledger, faults>>

\* It returned a connection-class error: the database is just still down.
Refuse(n, k) ==
  /\ ~dbUp
  /\ SetDrain(n, Onward(drain[n], k, FALSE))
  /\ UNCHANGED <<applied, ledger, attempts, dead, byHand, faults>>

\* It returned another error (recordReplayFailure).  The last one sets the
\* item aside; the Redis dead list is written only if Redis accepts it.
Misfire(n, k) ==
  LET tries == attempts[n][k] + 1  over == tries >= MaxAttempts
  IN /\ SetDrain(n, Onward(drain[n], k, over))
     /\ attempts' = [attempts EXCEPT ![n] = [@ EXCEPT ![k] = tries]]
     /\ dead' = IF over /\ (redisUp \/ drain[n].pc = "memory") THEN dead \cup {k} ELSE dead
     /\ byHand' = IF over THEN byHand \cup {k} ELSE byHand

\* Mutant of ApplyPendingCharge: the ledger row is not looked at.
ApplyPendingChargeBlindly(n, k) ==
  LET commit == Hit(k.req, Moves(k)) /\ ledger' = ledger \cup {k}
  IN \/ Succeed(n, k) /\ commit /\ UNCHANGED faults
     \/ Refuse(n, k)
     \/ /\ Misfire(n, k) /\ faults < MaxFaults /\ faults' = faults + 1
        /\ commit \/ UNCHANGED <<applied, ledger>>

\* applyPendingCharge: one transaction inserts the ledger row and moves wallet
\* and token, or finds the row and moves nothing.
ApplyPendingCharge(n, k) ==
  LET commit == IF k \in ledger THEN UNCHANGED <<applied, ledger>>
                ELSE Hit(k.req, Moves(k)) /\ ledger' = ledger \cup {k}
  IN \/ Succeed(n, k) /\ commit /\ UNCHANGED faults
     \/ Refuse(n, k)
     \/ /\ Misfire(n, k) /\ faults < MaxFaults /\ faults' = faults + 1
        /\ commit \/ UNCHANGED <<applied, ledger>>

\* Mutant of CountLogRows: the row is inserted without looking for it.
CountNothing(n, k) ==
  \/ /\ SetDrain(n, [drain[n] EXCEPT !.step = "insert", !.item = k])
     /\ UNCHANGED <<applied, ledger, attempts, dead, byHand, faults>>
  \/ Refuse(n, k)

\* applyPendingLog looks for the row ...
CountLogRows(n, k) ==
  \/ /\ applied[k.req]["log"] > 0 /\ Succeed(n, k)
     /\ UNCHANGED <<applied, ledger, faults>>
  \/ /\ applied[k.req]["log"] = 0
     /\ SetDrain(n, [drain[n] EXCEPT !.step = "insert", !.item = k])
     /\ UNCHANGED <<applied, ledger, attempts, dead, byHand, faults>>
  \/ Refuse(n, k)
  \/ /\ Misfire(n, k) /\ faults < MaxFaults /\ faults' = faults + 1
     /\ UNCHANGED <<applied, ledger>>

\* ... and inserts it in a statement of its own.
InsertLogRow(n, k) ==
  \/ Succeed(n, k) /\ Hit(k.req, {"log"}) /\ UNCHANGED <<ledger, faults>>
  \/ Refuse(n, k)
  \/ Misfire(n, k) /\ MaybeHit(k.req, {"log"}) /\ UNCHANGED ledger

\* applyPendingSettlement of the next item of the pass.
ApplyPendingSettlement(n) ==
  LET d == drain[n]
  IN /\ \/ /\ d.step = "pick"
           /\ \E k \in Upcoming(d) :
                IF k.kind = "log" THEN CountLogRows(n, k) ELSE ApplyPendingCharge(n, k)
        \/ d.step = "insert" /\ InsertLogRow(n, d.item)
     /\ UNCHANGED <<requestVars, parked, redis, memory, nodeVars, worldVars>>

\* Mutant of KeepUnfinished: memory is emptied at the end of a pass.
KeepNothing(n) == memory' = [memory EXCEPT ![n] = {}]

\* Items parked during the pass are kept along with the unfinished ones.
KeepUnfinished(n) == memory' = [memory EXCEPT ![n] = @ \ drain[n].done]

\* The pass is over; if it was the flush's own, the flush goes on.
Finished(d) == [Idle EXCEPT !.flush = IF d.flush = "pass" THEN "take" ELSE d.flush,
                            !.left = d.left, !.late = d.late]

\* The end of drainMemoryOutbox; only a master goes on to the Redis list.
EndMemoryPass(n) ==
  LET d == drain[n]
  IN /\ d.pc = "memory" /\ d.step = "pick" /\ d.todo = {}
     /\ KeepUnfinished(n)
     /\ SetDrain(n, IF RedisEnabled /\ n \in Masters
                    THEN [d EXCEPT !.pc = "lrange", !.done = {}]
                    ELSE Finished(d))
     /\ UNCHANGED <<requestVars, applied, ledger, parked, redis, byHand, replayVars,
                    nodeVars, worldVars, faults>>

\* LRANGE of the head of the list, or an error that ends the pass.
ReadRedisOutbox(n) ==
  LET d == drain[n]
  IN /\ d.pc = "lrange"
     /\ SetDrain(n, IF ~redisUp THEN Finished(d)
                    ELSE [d EXCEPT !.pc = "redis",
                                   !.raws = IF Len(redis) <= Batch THEN redis
                                            ELSE SubSeq(redis, 1, Batch)])
     /\ UNCHANGED <<requestVars, applied, ledger, queueVars, replayVars, nodeVars,
                    worldVars, faults>>

\* Mutant of Dequeue: the value handed to LREM never matches.
DequeueNothing(n) ==
  LET d == drain[n]
  IN /\ d.pc = "redis" /\ d.step = "dequeue"
     /\ SetDrain(n, [d EXCEPT !.raws = Tail(@), !.step = "pick", !.item = NoItem])
     /\ UNCHANGED <<requestVars, applied, ledger, queueVars, replayVars, nodeVars,
                    worldVars, faults>>

\* LREM takes the first copy of the item out, or fails and leaves it.
Dequeue(n) ==
  LET d == drain[n]
      here(i) == redis[i] = d.item /\ \A j \in 1 .. i - 1 : redis[j] # d.item
  IN /\ d.pc = "redis" /\ d.step = "dequeue"
     /\ \/ /\ redisUp \/ LostReplies
           /\ \E i \in DOMAIN redis : here(i) /\ redis' = RemoveAt(redis, i)
        \/ /\ redisUp => \A i \in DOMAIN redis : redis[i] # d.item
           /\ UNCHANGED redis
     /\ SetDrain(n, [d EXCEPT !.raws = Tail(@), !.step = "pick", !.item = NoItem])
     /\ UNCHANGED <<requestVars, applied, ledger, parked, memory, byHand, replayVars,
                    nodeVars, worldVars, faults>>

EndRedisPass(n) ==
  LET d == drain[n]
  IN /\ d.pc = "redis" /\ d.step = "pick" /\ d.raws = <<>>
     /\ SetDrain(n, Finished(d))
     /\ UNCHANGED <<requestVars, applied, ledger, queueVars, replayVars, nodeVars,
                    worldVars, faults>>

-----------------------------------------------------------------------------
(* Shutdown, crashes and outages *)

InFlight(r, n) == home[r] = n /\ stage[r] \in {"wallet", "token", "log"}

\* main.go: srv.Shutdown waits for the running requests, or times out, and
\* FlushSettlementOutboxOnShutdown stops the worker, which may be about to
\* begin a pass.
Stop(n) ==
  /\ mode[n] = "up" /\ stops < MaxStops
  /\ Stragglers \/ \A r \in Requests : ~InFlight(r, n)
  /\ mode' = [mode EXCEPT ![n] = "stopping"] /\ stops' = stops + 1
  /\ \E late \in IF LatePasses /\ drain[n].pc = "idle" THEN {"none", "due"}
               ELSE {"none"} :
       SetDrain(n, [drain[n] EXCEPT !.flush = "wait", !.late = late])
  /\ UNCHANGED <<requestVars, applied, ledger, queueVars, replayVars, lost,
                 dbUp, redisUp, crashes, outages, faults>>

\* After its own pass the flush takes the memory ...
TakeMemory(n) ==
  LET d == drain[n]
  IN /\ d.flush = "take"
     /\ SetDrain(n, [d EXCEPT !.flush = "push", !.left = memory[n]])
     /\ memory' = [memory EXCEPT ![n] = {}]
     /\ UNCHANGED <<requestVars, applied, ledger, parked, redis, byHand, replayVars,
                    nodeVars, worldVars, faults>>

\* ... and hands each item to Redis or, failing that, to the process log.
PushLeft(n, k) ==
  LET d == drain[n]
  IN /\ d.flush = "push" /\ k \in d.left
     /\ SetDrain(n, [d EXCEPT !.left = @ \ {k}])
     /\ \/ redisUp /\ redis' = Append(redis, k) /\ UNCHANGED byHand
        \/ /\ ~redisUp /\ byHand' = byHand \cup {k}
           /\ UNCHANGED redis \/ (RedisEnabled /\ LostReplies /\ redis' = Append(redis, k))
     /\ UNCHANGED <<requestVars, applied, ledger, parked, memory, replayVars, nodeVars,
                    worldVars, faults>>

\* The process is gone: its memory with it, and the requests it was serving.
Down(n) ==
  /\ mode' = [mode EXCEPT ![n] = "down"]
  /\ lost' = lost \cup memory[n] \cup drain[n].left
  /\ memory' = [memory EXCEPT ![n] = {}]
  /\ attempts' = [attempts EXCEPT ![n] = [k \in Items |-> 0]]
  /\ drain' = [drain EXCEPT ![n] = Idle]
  /\ stage' = [r \in Requests |-> IF InFlight(r, n) THEN "gone" ELSE stage[r]]
  /\ UNCHANGED <<home, errors, applied, ledger, parked, redis, byHand, dead,
                 dbUp, redisUp, stops, outages, faults>>

\* Mutant of Exit: the process ends without waiting for the flush.
ExitEarly(n) == drain[n].flush \in {"take", "push"} /\ Down(n) /\ UNCHANGED crashes

Exit(n) == drain[n].flush = "push" /\ drain[n].left = {} /\ Down(n) /\ UNCHANGED crashes

Crash(n) == mode[n] # "down" /\ crashes < MaxCrashes /\ crashes' = crashes + 1 /\ Down(n)

Restart(n) ==
  /\ mode[n] = "down" /\ mode' = [mode EXCEPT ![n] = "up"]
  /\ UNCHANGED <<requestVars, applied, ledger, queueVars, replayVars, lost, drain, worldVars,
                 faults>>

\* The database, or Redis, refuses connections for a while.
Outage ==
  /\ outages < MaxOutages /\ outages' = outages + 1
  /\ \/ dbUp /\ dbUp' = FALSE /\ UNCHANGED redisUp
     \/ redisUp /\ redisUp' = FALSE /\ UNCHANGED dbUp
  /\ UNCHANGED <<requestVars, applied, ledger, queueVars, replayVars, nodeVars, drain,
                 crashes, stops, faults>>

Recover ==
  /\ \/ ~dbUp /\ dbUp' = TRUE /\ UNCHANGED redisUp
     \/ RedisEnabled /\ ~redisUp /\ redisUp' = TRUE /\ UNCHANGED dbUp
  /\ UNCHANGED <<requestVars, applied, ledger, queueVars, replayVars, nodeVars, drain,
                 crashes, stops, outages, faults>>

-----------------------------------------------------------------------------
Settling(r) == SettleWallet(r) \/ SettleToken(r) \/ CreateConsumeLogDurably(r)

\* The worker and the shutdown flush of a node.
Working(n) ==
  \/ DrainSettlementOutbox(n) \/ ApplyPendingSettlement(n) \/ EndMemoryPass(n)
  \/ ReadRedisOutbox(n) \/ Dequeue(n) \/ EndRedisPass(n)
  \/ TakeMemory(n) \/ (\E k \in Items : PushLeft(n, k)) \/ Exit(n)

Next ==
  \/ \E r \in Requests : Settling(r) \/ \E n \in Nodes : Serve(r, n)
  \/ \E n \in Nodes : Working(n) \/ Stop(n) \/ Crash(n) \/ Restart(n)
  \/ Outage \/ Recover

Spec == Init /\ [][Next]_vars

\* The worker's loop and the requests go on, a process that ended is started
\* again, and an outage ends.
FairSpec ==
  /\ Spec
  /\ \A r \in Requests : WF_vars(Settling(r))
  /\ \A n \in Nodes : WF_vars(Working(n)) /\ WF_vars(Restart(n))
  /\ WF_vars(Recover)

-----------------------------------------------------------------------------
(* Properties *)

\* Every variable has its type; a node that is down does nothing.
TypeOK ==
  /\ stage \in [Requests -> {"new", "wallet", "token", "log", "done", "gone"}]
  /\ home \in [Requests -> Nodes \cup {NoNode}]
  /\ applied \in [Requests -> [Resources -> Nat]]
  /\ ledger \subseteq Items /\ parked \subseteq Items /\ redis \in Seq(Items)
  /\ memory \in [Nodes -> SUBSET Items] /\ attempts \in [Nodes -> [Items -> Nat]]
  /\ dead \subseteq Items /\ byHand \subseteq Items
  /\ errors \subseteq Items /\ lost \subseteq Items
  /\ mode \in [Nodes -> {"up", "stopping", "down"}] /\ drain \in [Nodes -> Drain]
  /\ dbUp \in BOOLEAN /\ redisUp \in BOOLEAN
  /\ faults \in Nat /\ crashes \in Nat /\ stops \in Nat /\ outages \in Nat

\* Exactly once, the "at most" half: however often a settlement is parked,
\* replayed, half dequeued, replayed by another node or after a crash, and
\* whatever replies are lost, its request is charged at most once in the wallet
\* and at most once on the token.
ChargedAtMostOnce ==
  \A r \in Requests : applied[r]["wallet"] <= 1 /\ applied[r]["token"] <= 1

\* The ledger and the request path never both charge: what is parked was not
\* charged by its request, and is charged by replay, wallet and token together,
\* exactly when its ledger row exists.
ReplayExclusive ==
  \A k \in parked : k.kind # "log" =>
    \A x \in Moves(k) : applied[k.req][x] = IF k \in ledger THEN 1 ELSE 0

\* Where an item can wait: the Redis list, the memory of a node, or the hands
\* of its shutdown flush.
Waiting ==
  ToSet(redis) \cup
    {k \in Items : \E n \in Nodes : k \in memory[n] \cup drain[n].left}

Replayed(k) == \A x \in Moves(k) : applied[k.req][x] > 0

\* Nothing disappears: a parked settlement or log row has been applied, or is
\* still waiting somewhere, or is written out in full for a human, or went down
\* with the process that held it in memory.  A finished request has applied,
\* parked or reported everything it owed.
NothingVanishes ==
  /\ \A k \in parked : Replayed(k) \/ k \in Waiting \cup byHand \cup lost
  /\ \A r \in Requests : stage[r] = "done" =>
       \A x \in Resources :
         applied[r][x] > 0 \/ \E k \in parked \cup errors : k.req = r /\ x \in Moves(k)

\* Only crashes lose parked items: an orderly shutdown leaves nothing behind in
\* the memory of the process.
ShutdownKeepsItems == crashes = 0 => lost = {}

\* One consume log row per request, although a replay looks for the row and
\* inserts it in two statements.  It takes a second replay at the same time to
\* break it: that of a second master, of a copy a lost reply left behind, or of
\* a late worker whose item the flush has handed to the master.
LoggedAtMostOnce == \A r \in Requests : applied[r]["log"] <= 1

\* Only repeated failures of another kind set an item aside for a human; an
\* outage, however long, does not.
SetAsideOnlyAfterFailures == dead # {} => faults >= MaxAttempts

\* The worker replays a parked item until the database accepts it: it is
\* applied, unless it is set aside or lost with its process.
ParkedIsReplayed ==
  \A k \in Items : (k \in parked) ~> (Replayed(k) \/ k \in byHand \cup lost)

\* An item that has been applied or set aside is taken off the queues.
QueuesDrain == \A k \in Items : (k \in parked) ~> (k \notin Waiting)
=============================================================================
