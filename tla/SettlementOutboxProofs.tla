----------------------- MODULE SettlementOutboxProofs -----------------------
(* The at-most-once argument of the settlement outbox, for every number of *)
(* requests and nodes and for every schedule of faults, crashes and lost   *)
(* replies.                                                                *)
EXTENDS SettlementOutbox, SequenceTheorems, TLAPS

\* What a drain pass has in hand was parked before.
DrainOK(P, d) ==
  /\ d.todo \subseteq P /\ d.left \subseteq P /\ d.raws \in Seq(P)
  /\ d.step # "pick" => d.item \in P /\ d.pc \in {"memory", "redis"}
  /\ d.step = "insert" => d.item.kind = "log"
  /\ d.pc = "redis" /\ d.step # "pick" => d.raws # <<>>

\* So was everything on a queue or in the ledger.
QueueOK ==
  /\ redis \in Seq(parked) /\ ledger \subseteq parked
  /\ \A n \in Nodes : memory[n] \subseteq parked /\ DrainOK(parked, drain[n])

\* A request parks its charge or its token delta, not both, and only after the
\* last statement that could have moved the same resource.
Charged(r) ==
  LET c == Item("charge", r)  t == Item("token", r)
  IN /\ applied[r]["wallet"] <= 1 /\ applied[r]["token"] <= 1
     /\ stage[r] \in {"new", "wallet"} => applied[r]["wallet"] = 0
     /\ stage[r] \in {"new", "wallet", "token"} =>
          applied[r]["token"] = 0 /\ c \notin parked /\ t \notin parked
     /\ c \in parked =>
          /\ t \notin parked
          /\ applied[r]["wallet"] = IF c \in ledger THEN 1 ELSE 0
          /\ applied[r]["token"] = IF c \in ledger THEN 1 ELSE 0
     /\ t \in parked => applied[r]["token"] = IF t \in ledger THEN 1 ELSE 0

ChargeOK == \A r \in Requests : Charged(r)

IInv == TypeOK /\ QueueOK /\ ChargeOK

-----------------------------------------------------------------------------
(* Facts about the operators *)

\* An item is its kind and its request.
LEMMA ItemFacts ==
  /\ \A kind \in Kinds, r \in Requests :
       Item(kind, r) \in Items /\ Item(kind, r).kind = kind /\ Item(kind, r).req = r
  /\ \A k \in Items : k = Item(k.kind, k.req) /\ k.kind \in Kinds /\ k.req \in Requests
  BY DEF Item, Items, Kinds

\* A statement that ran adds one to the resources it moves, for its request.
LEMMA HitFacts ==
  ASSUME applied \in [Requests -> [Resources -> Nat]],
         NEW r \in Requests, NEW X, Hit(r, X)
  PROVE  /\ applied' \in [Requests -> [Resources -> Nat]]
         /\ \A q \in Requests : q # r => applied'[q] = applied[q]
         /\ \A x \in Resources :
              applied'[r][x] = IF x \in X THEN applied[r][x] + 1 ELSE applied[r][x]
<1>1. [x \in Resources |-> IF x \in X THEN applied[r][x] + 1 ELSE applied[r][x]]
        \in [Resources -> Nat]
  OBVIOUS
<1> QED BY <1>1 DEF Hit

\* A sequence stays a sequence of parked items when more is parked.
LEMMA SeqGrows ==
  ASSUME NEW P, NEW Q, P \subseteq Q, NEW s \in Seq(P)
  PROVE  s \in Seq(Q)
  BY SeqMonotonic

\* Nothing is in the hands of an idle worker.
LEMMA IdleFacts ==
  ASSUME NEW P
  PROVE  Idle \in Drain /\ DrainOK(P, Idle)
<1>1. <<>> \in Seq(P) /\ <<>> \in Seq(Items)
  BY EmptySeq
<1> QED BY <1>1 DEF Idle, Drain, DrainOK

\* At the end of a pass only the shutdown flush has something in hand.
LEMMA FinishedFacts ==
  ASSUME NEW P, NEW d \in Drain, DrainOK(P, d)
  PROVE  /\ Finished(d) \in Drain /\ DrainOK(P, Finished(d))
         /\ Finished(d).pc = "idle" /\ Finished(d).step = "pick" /\ Finished(d).done = {}
         /\ Finished(d).todo = {} /\ Finished(d).left = d.left /\ Finished(d).late = d.late
         /\ Finished(d).flush = IF d.flush = "pass" THEN "take" ELSE d.flush
<1>1. <<>> \in Seq(P) /\ <<>> \in Seq(Items)
  BY EmptySeq
<1> DEFINE f == IF d.flush = "pass" THEN "take" ELSE d.flush
           l == d.late
           g == d.left
<1>2. /\ f \in {"off", "wait", "pass", "take", "push"} /\ l \in {"none", "due"}
      /\ g \subseteq Items /\ g \subseteq P
  <2>1. /\ d.flush \in {"off", "wait", "pass", "take", "push"} /\ d.late \in {"none", "due"}
        /\ d.left \subseteq Items
    BY DEF Drain
  <2>2. d.left \subseteq P
    BY DEF DrainOK
  <2> QED BY <2>1, <2>2
<1>3. Finished(d) = [pc |-> "idle", todo |-> {}, done |-> {}, raws |-> <<>>, step |-> "pick",
                     item |-> NoItem, flush |-> f, left |-> g, late |-> l]
  <2>1. Finished(d) = [Idle EXCEPT !.flush = f, !.left = g, !.late = l]
    BY DEF Finished
  <2> HIDE DEF f, l, g
  <2> QED BY <2>1 DEF Idle
<1> HIDE DEF f, l, g
<1>4. /\ Finished(d) \in Drain /\ DrainOK(P, Finished(d))
      /\ Finished(d).pc = "idle" /\ Finished(d).step = "pick" /\ Finished(d).done = {}
      /\ Finished(d).todo = {} /\ Finished(d).left = g /\ Finished(d).flush = f
  BY <1>1, <1>2, <1>3 DEF Drain, DrainOK
<1>5. Finished(d).late = l
  BY <1>3
<1> QED BY <1>4, <1>5 DEF f, l, g

\* A pass that begins has the memory of its node in hand.
LEMMA BeganFacts ==
  ASSUME NEW n \in Nodes, drain \in [Nodes -> Drain], memory \in [Nodes -> SUBSET Items],
         DrainSettlementOutbox(n)
  PROVE  \E d \in Drain :
           /\ drain' = [drain EXCEPT ![n] = d] /\ drain[n].pc = "idle"
           /\ d.pc = "memory" /\ d.todo = memory[n] /\ d.done = drain[n].done
           /\ d.raws = drain[n].raws /\ d.step = drain[n].step /\ d.item = drain[n].item
           /\ d.left = drain[n].left
           /\ \/ d.flush = drain[n].flush /\ (mode[n] = "up" \/ drain[n].late = "due")
              \/ d.flush = "pass" /\ drain[n].flush = "wait"
           /\ d.late \in {"none", drain[n].late}
<1> DEFINE b == Began(n)
<1>1. drain[n] \in Drain /\ memory[n] \subseteq Items /\ drain[n].pc = "idle"
  BY DEF DrainSettlementOutbox
<1>2. /\ b \in Drain /\ b.pc = "memory" /\ b.todo = memory[n] /\ b.done = drain[n].done
      /\ b.raws = drain[n].raws /\ b.step = drain[n].step /\ b.item = drain[n].item
      /\ b.left = drain[n].left /\ b.flush = drain[n].flush /\ b.late = drain[n].late
  BY <1>1 DEF Began, Drain
<1> HIDE DEF b
<1>3. CASE mode[n] = "up" /\ SetDrain(n, b)
  <2> b \in Drain
    BY <1>2
  <2> WITNESS b \in Drain
  <2> QED BY <1>1, <1>2, <1>3 DEF SetDrain
<1>4. CASE drain[n].late = "due" /\ SetDrain(n, [b EXCEPT !.late = "none"])
  <2> DEFINE d == [b EXCEPT !.late = "none"]
  <2>1. /\ d \in Drain /\ d.pc = "memory" /\ d.todo = memory[n] /\ d.done = drain[n].done
        /\ d.raws = drain[n].raws /\ d.step = drain[n].step /\ d.item = drain[n].item
        /\ d.left = drain[n].left /\ d.flush = drain[n].flush /\ d.late = "none"
    BY <1>2 DEF Drain
  <2> HIDE DEF d
  <2>2. drain' = [drain EXCEPT ![n] = d]
    BY <1>4 DEF SetDrain, d
  <2> d \in Drain
    BY <2>1
  <2> WITNESS d \in Drain
  <2> QED BY <1>1, <1>4, <2>1, <2>2
<1>5. CASE drain[n].flush = "wait" /\ SetDrain(n, [b EXCEPT !.flush = "pass"])
  <2> DEFINE d == [b EXCEPT !.flush = "pass"]
  <2>1. /\ d \in Drain /\ d.pc = "memory" /\ d.todo = memory[n] /\ d.done = drain[n].done
        /\ d.raws = drain[n].raws /\ d.step = drain[n].step /\ d.item = drain[n].item
        /\ d.left = drain[n].left /\ d.flush = "pass" /\ d.late = drain[n].late
    BY <1>2 DEF Drain
  <2> HIDE DEF d
  <2>2. drain' = [drain EXCEPT ![n] = d]
    BY <1>5 DEF SetDrain, d
  <2> d \in Drain
    BY <2>1
  <2> WITNESS d \in Drain
  <2> QED BY <1>1, <1>5, <2>1, <2>2
<1> QED BY <1>3, <1>4, <1>5 DEF DrainSettlementOutbox, b

\* Going on with the next item keeps a pass in order.
LEMMA OnwardFacts ==
  ASSUME NEW P, P \subseteq Items, NEW d \in Drain, DrainOK(P, d), NEW k \in P,
         d.pc \in {"memory", "redis"}, d.pc = "redis" => d.raws # <<>>,
         NEW f \in BOOLEAN
  PROVE  Onward(d, k, f) \in Drain /\ DrainOK(P, Onward(d, k, f))
<1>1. d.raws \in Seq(P) /\ d.raws \in Seq(Items)
  BY DEF DrainOK, Drain
<1>2. d.raws # <<>> => Tail(d.raws) \in Seq(P) /\ Tail(d.raws) \in Seq(Items)
  BY <1>1, HeadTailProperties
<1>3. CASE d.pc = "memory"
  <2> DEFINE e == [d EXCEPT !.todo = d.todo \ {k},
                            !.done = IF f THEN d.done \cup {k} ELSE d.done,
                            !.step = "pick", !.item = NoItem]
  <2>1. Onward(d, k, f) = e
    BY <1>3 DEF Onward
  <2>2. e \in Drain
    BY <1>3 DEF Drain
  <2>3. DrainOK(P, e)
    BY <1>3, <1>1 DEF DrainOK, Drain
  <2> QED BY <2>1, <2>2, <2>3
<1>4. CASE d.pc = "redis" /\ f
  <2> DEFINE e == [d EXCEPT !.step = "dequeue", !.item = k]
  <2>1. Onward(d, k, f) = e
    BY <1>4 DEF Onward
  <2>2. e \in Drain
    BY <1>4 DEF Drain
  <2>3. DrainOK(P, e)
    BY <1>4, <1>1 DEF DrainOK, Drain
  <2> QED BY <2>1, <2>2, <2>3
<1>5. CASE d.pc = "redis" /\ ~f
  <2> DEFINE e == [d EXCEPT !.raws = Tail(d.raws), !.step = "pick", !.item = NoItem]
  <2>1. Onward(d, k, f) = e
    BY <1>5 DEF Onward
  <2>2. e \in Drain
    BY <1>5, <1>2 DEF Drain
  <2>3. DrainOK(P, e)
    BY <1>5, <1>2 DEF DrainOK, Drain
  <2> QED BY <2>1, <2>2, <2>3
<1> QED BY <1>3, <1>4, <1>5

\* LREM leaves a sequence of the same items.
LEMMA RemoveAtFacts ==
  ASSUME NEW P, NEW s \in Seq(P), NEW i \in DOMAIN s
  PROVE  RemoveAt(s, i) \in Seq(P)
<1>1. i \in 1 .. Len(s) /\ Len(s) \in Nat
  BY LenProperties
<1>2. SubSeq(s, 1, i - 1) \in Seq(P) /\ SubSeq(s, i + 1, Len(s)) \in Seq(P)
  BY <1>1, SubSeqProperties
<1> QED BY <1>2, ConcatProperties DEF RemoveAt

-----------------------------------------------------------------------------
(* Steps that leave the charges alone *)

\* The charges do not change with the place an item waits in.
LEMMA ChargesKept ==
  ASSUME ChargeOK, UNCHANGED <<parked, ledger>>,
         \A r \in Requests :
           /\ stage'[r] = stage[r]
                \/ (stage[r] = "new" /\ stage'[r] = "wallet")
                \/ stage'[r] \in {"log", "done", "gone"}
           /\ applied'[r]["wallet"] = applied[r]["wallet"]
           /\ applied'[r]["token"] = applied[r]["token"]
  PROVE  ChargeOK'
  BY DEF ChargeOK, Charged

\* One node takes a step of its pass; what it has in hand stays in order.
LEMMA PassKept ==
  ASSUME IInv, NEW n \in Nodes, NEW d \in Drain, DrainOK(parked, d),
         drain' = [drain EXCEPT ![n] = d],
         parked' = parked, redis' \in Seq(parked), ledger' \subseteq parked,
         memory' \in [Nodes -> SUBSET Items],
         \A m \in Nodes : memory'[m] \subseteq memory[m],
         applied' \in [Requests -> [Resources -> Nat]],
         attempts' \in [Nodes -> [Items -> Nat]],
         dead' \subseteq Items, byHand' \subseteq Items, faults' \in Nat,
         UNCHANGED <<stage, home, errors, lost, mode, dbUp, redisUp, crashes, stops, outages>>
  PROVE  TypeOK' /\ QueueOK'
<1>1. redis' \in Seq(Items)
  BY SeqGrows DEF IInv, TypeOK
<1>2. ledger' \subseteq Items
  BY DEF IInv, TypeOK
<1>3. drain' \in [Nodes -> Drain]
  BY DEF IInv, TypeOK
<1>4. TypeOK'
  BY <1>1, <1>2, <1>3 DEF IInv, TypeOK
<1>5. \A m \in Nodes : memory'[m] \subseteq parked
  BY DEF IInv, QueueOK
<1>6. \A m \in Nodes : DrainOK(parked, drain'[m])
  <2> TAKE m \in Nodes
  <2>1. CASE m = n
    BY <2>1 DEF IInv, TypeOK
  <2>2. CASE m # n
    BY <2>2 DEF IInv, TypeOK, QueueOK
  <2> QED BY <2>1, <2>2
<1>7. QueueOK'
  BY <1>5, <1>6 DEF QueueOK
<1> QED BY <1>4, <1>7

\* An outage, its end or a restart moves no item.
LEMMA WorldKept ==
  ASSUME IInv,
         UNCHANGED <<requestVars, applied, ledger, queueVars, replayVars, lost, drain, faults>>,
         mode' \in [Nodes -> {"up", "stopping", "down"}],
         dbUp' \in BOOLEAN, redisUp' \in BOOLEAN,
         crashes' \in Nat, stops' \in Nat, outages' \in Nat
  PROVE  IInv'
<1> USE DEF requestVars, queueVars, replayVars
<1>1. TypeOK'
  BY DEF IInv, TypeOK
<1>2. QueueOK'
  BY DEF IInv, QueueOK
<1>3. ChargeOK'
  BY DEF IInv, ChargeOK, Charged
<1> QED BY <1>1, <1>2, <1>3 DEF IInv

\* What the signal to stop does to the record of its node.
LEMMA StopFacts ==
  ASSUME NEW n \in Nodes, drain \in [Nodes -> Drain], Stop(n)
  PROVE  \E d \in Drain :
           /\ drain' = [drain EXCEPT ![n] = d]
           /\ d.pc = drain[n].pc /\ d.todo = drain[n].todo /\ d.done = drain[n].done
           /\ d.raws = drain[n].raws /\ d.step = drain[n].step /\ d.item = drain[n].item
           /\ d.left = drain[n].left /\ d.flush = "wait" /\ (d.late = "due" => LatePasses)
<1>1. PICK late \in {"none", "due"} :
         /\ SetDrain(n, [drain[n] EXCEPT !.flush = "wait", !.late = late])
         /\ late = "due" => LatePasses
  BY DEF Stop
<1> DEFINE d == [drain[n] EXCEPT !.flush = "wait", !.late = late]
<1>2. drain[n] \in Drain
  OBVIOUS
<1>3. /\ d \in Drain
      /\ d.pc = drain[n].pc /\ d.todo = drain[n].todo /\ d.done = drain[n].done
      /\ d.raws = drain[n].raws /\ d.step = drain[n].step /\ d.item = drain[n].item
      /\ d.left = drain[n].left /\ d.flush = "wait"
  BY <1>2 DEF Drain
<1>4. d.late = late
  BY <1>2 DEF Drain
<1>5. drain' = [drain EXCEPT ![n] = d]
  BY <1>1 DEF SetDrain
<1> HIDE DEF d
<1> d \in Drain
  BY <1>3
<1> WITNESS d \in Drain
<1> QED BY <1>1, <1>3, <1>4, <1>5

LEMMA StopKeeps ==
  ASSUME IInv, NEW n \in Nodes, Stop(n)
  PROVE  IInv'
<1> USE DEF requestVars, queueVars, replayVars
<1>0. drain \in [Nodes -> Drain] /\ stops \in Nat
  BY DEF IInv, TypeOK
<1>1. PICK d \in Drain :
         /\ drain' = [drain EXCEPT ![n] = d]
         /\ d.pc = drain[n].pc /\ d.todo = drain[n].todo /\ d.raws = drain[n].raws
         /\ d.step = drain[n].step /\ d.item = drain[n].item /\ d.left = drain[n].left
  BY <1>0, StopFacts
<1>2. /\ UNCHANGED <<stage, home, errors, applied, ledger, parked, redis, memory, byHand,
                     attempts, dead, lost, dbUp, redisUp, crashes, outages, faults>>
      /\ mode' = [mode EXCEPT ![n] = "stopping"] /\ stops' = stops + 1
  BY DEF Stop
<1>3. drain' \in [Nodes -> Drain] /\ stops' \in Nat
  BY <1>0, <1>1, <1>2
<1>4. mode' \in [Nodes -> {"up", "stopping", "down"}]
  BY <1>2 DEF IInv, TypeOK
<1>5. TypeOK'
  BY <1>2, <1>3, <1>4 DEF IInv, TypeOK
<1>6. \A m \in Nodes : DrainOK(parked, drain'[m])
  <2> TAKE m \in Nodes
  <2>1. DrainOK(parked, drain[m])
    BY DEF IInv, QueueOK
  <2>2. CASE m = n
    BY <1>0, <1>1, <2>1, <2>2 DEF DrainOK
  <2>3. CASE m # n
    BY <1>0, <1>1, <2>1, <2>3
  <2> QED BY <2>2, <2>3
<1>7. QueueOK'
  BY <1>2, <1>6 DEF IInv, QueueOK
<1>8. ChargeOK'
  BY <1>2 DEF IInv, ChargeOK, Charged
<1> QED BY <1>5, <1>7, <1>8 DEF IInv

\* A request is taken up by a node.
LEMMA ServeKeeps ==
  ASSUME IInv, NEW r \in Requests, NEW n \in Nodes, Serve(r, n)
  PROVE  IInv'
<1> USE DEF queueVars, replayVars, nodeVars, worldVars
<1>1. TypeOK'
  BY DEF IInv, TypeOK, Serve
<1>2. QueueOK'
  BY DEF IInv, QueueOK, Serve
<1>3. ChargeOK'
  BY ChargesKept DEF IInv, TypeOK, Serve
<1> QED BY <1>1, <1>2, <1>3 DEF IInv

\* A process ends, in order or not.
LEMMA DownKeeps ==
  ASSUME IInv, NEW n \in Nodes, Down(n), crashes' \in Nat
  PROVE  IInv'
<1>1. Idle \in Drain /\ DrainOK(parked, Idle)
  BY IdleFacts
<1>2. TypeOK'
  <2>1. stage' \in [Requests -> {"new", "wallet", "token", "log", "done", "gone"}]
    BY DEF IInv, TypeOK, Down
  <2>2. lost' \subseteq Items
    BY DEF IInv, TypeOK, Down, Drain
  <2>3. attempts' \in [Nodes -> [Items -> Nat]]
    BY DEF IInv, TypeOK, Down
  <2>4. drain' \in [Nodes -> Drain]
    BY <1>1 DEF IInv, TypeOK, Down
  <2>5. memory' \in [Nodes -> SUBSET Items] /\ mode' \in [Nodes -> {"up", "stopping", "down"}]
    BY DEF IInv, TypeOK, Down
  <2> QED BY <2>1, <2>2, <2>3, <2>4, <2>5 DEF IInv, TypeOK, Down
<1>3. QueueOK'
  <2>1. \A m \in Nodes : memory'[m] \subseteq parked
    BY DEF IInv, TypeOK, QueueOK, Down
  <2>2. \A m \in Nodes : DrainOK(parked, drain'[m])
    <3> TAKE m \in Nodes
    <3>1. drain'[m] = Idle \/ drain'[m] = drain[m]
      BY DEF IInv, TypeOK, Down
    <3> QED BY <3>1, <1>1 DEF IInv, QueueOK
  <2> QED BY <2>1, <2>2 DEF IInv, QueueOK, Down
<1>4. ChargeOK'
  BY ChargesKept DEF IInv, TypeOK, Down
<1> QED BY <1>2, <1>3, <1>4 DEF IInv

-----------------------------------------------------------------------------
(* The request path *)

\* Parking adds the item to what was parked, and only that.
LEMMA ParkKeepsQueues ==
  ASSUME IInv, NEW n \in Nodes, NEW k \in Items, ParkSettlement(n, k),
         UNCHANGED <<ledger, drain>>
  PROVE  /\ QueueOK' /\ parked' = parked \cup {k}
         /\ redis' \in Seq(Items) /\ memory' \in [Nodes -> SUBSET Items]
         /\ byHand' \subseteq Items /\ parked' \subseteq Items
<1>1. parked' = parked \cup {k} /\ parked' \subseteq Items
  BY DEF ParkSettlement, IInv, TypeOK
<1>2. redis \in Seq(parked')
  BY <1>1, SeqGrows DEF IInv, QueueOK
<1>3. Append(redis, k) \in Seq(parked')
  BY <1>1, <1>2, AppendProperties
<1>4. redis' \in Seq(parked')
  BY <1>2, <1>3 DEF ParkSettlement
<1>5. /\ memory' = memory \/ memory' = [memory EXCEPT ![n] = @ \cup {k}]
      /\ byHand' = byHand \/ byHand' = byHand \cup {k}
  <2>1. ParkInMemory(n, k) \/ UNCHANGED <<memory, byHand>>
    BY DEF ParkSettlement
  <2> QED BY <2>1 DEF ParkInMemory
<1>6. memory' \in [Nodes -> SUBSET Items] /\ byHand' \subseteq Items
  <2>1. memory \in [Nodes -> SUBSET Items] /\ byHand \subseteq Items
    BY DEF IInv, TypeOK
  <2>2. memory[n] \cup {k} \in SUBSET Items
    BY <2>1
  <2> QED BY <1>5, <2>1, <2>2
<1>7. \A m \in Nodes : memory'[m] \subseteq parked'
  BY <1>1, <1>5 DEF IInv, TypeOK, QueueOK
<1>8. \A m \in Nodes : DrainOK(parked', drain[m])
  <2> TAKE m \in Nodes
  <2>1. DrainOK(parked, drain[m])
    BY DEF IInv, QueueOK
  <2>2. drain[m].raws \in Seq(parked')
    BY <1>1, <2>1, SeqGrows DEF DrainOK
  <2> QED BY <1>1, <2>1, <2>2 DEF DrainOK
<1>9. ledger' \subseteq parked'
  BY <1>1 DEF IInv, QueueOK
<1>10. QueueOK'
  BY <1>4, <1>7, <1>8, <1>9 DEF QueueOK
<1>11. redis' \in Seq(Items)
  BY <1>1, <1>4, SeqGrows
<1> QED BY <1>1, <1>6, <1>10, <1>11

\* A statement of the request path keeps types and queues.
LEMMA StatementKeepsQueues ==
  ASSUME IInv, NEW r \in Requests, home[r] \in Nodes, NEW X, NEW k \in Items,
         NEW a \in {"token", "log", "done"}, NEW b \in {"token", "log", "done"},
         Statement(r, X, k, a, b),
         UNCHANGED <<home, ledger, replayVars, nodeVars, drain, worldVars>>
  PROVE  TypeOK' /\ QueueOK'
<1> USE DEF queueVars, replayVars, nodeVars, worldVars
<1>1. CASE /\ Hit(r, X) \/ UNCHANGED applied
           /\ UNCHANGED queueVars
           /\ errors' = errors \/ errors' = errors \cup {k}
           /\ stage' = [stage EXCEPT ![r] = a] \/ stage' = [stage EXCEPT ![r] = b]
           /\ faults' = faults \/ faults' = faults + 1
  <2>1. applied' \in [Requests -> [Resources -> Nat]]
    BY <1>1, HitFacts DEF IInv, TypeOK
  <2>2. stage' \in [Requests -> {"new", "wallet", "token", "log", "done", "gone"}]
    BY <1>1 DEF IInv, TypeOK
  <2>3. faults' \in Nat /\ errors' \subseteq Items
    BY <1>1 DEF IInv, TypeOK
  <2>4. TypeOK'
    BY <1>1, <2>1, <2>2, <2>3 DEF IInv, TypeOK
  <2>5. QueueOK'
    BY <1>1 DEF IInv, QueueOK
  <2> QED BY <2>4, <2>5
<1>2. CASE /\ ParkSettlement(home[r], k) /\ stage' = [stage EXCEPT ![r] = b]
           /\ UNCHANGED <<errors, applied, faults>>
  <2>1. /\ QueueOK' /\ redis' \in Seq(Items) /\ memory' \in [Nodes -> SUBSET Items]
        /\ byHand' \subseteq Items /\ parked' \subseteq Items
    BY <1>2, ParkKeepsQueues
  <2>2. stage' \in [Requests -> {"new", "wallet", "token", "log", "done", "gone"}]
    BY <1>2 DEF IInv, TypeOK
  <2>3. TypeOK'
    BY <1>2, <2>1, <2>2 DEF IInv, TypeOK
  <2> QED BY <2>1, <2>3
<1> QED BY <1>1, <1>2 DEF Statement, MaybeHit

\* What a statement does to the charges of its request.
LEMMA StatementFacts ==
  ASSUME IInv, NEW r \in Requests, home[r] \in Nodes, NEW X, NEW k \in Items,
         NEW a, NEW b, Statement(r, X, k, a, b)
  PROVE  /\ stage' = [stage EXCEPT ![r] = a] \/ stage' = [stage EXCEPT ![r] = b]
         /\ \A q \in Requests : q # r => applied'[q] = applied[q]
         /\ \/ /\ stage' = [stage EXCEPT ![r] = a] /\ parked' = parked
               /\ \A x \in Resources :
                    applied'[r][x] = IF x \in X THEN applied[r][x] + 1 ELSE applied[r][x]
            \/ /\ stage' = [stage EXCEPT ![r] = b] /\ parked' = parked
               /\ \/ applied' = applied
                  \/ \A x \in Resources :
                       applied'[r][x] = IF x \in X THEN applied[r][x] + 1 ELSE applied[r][x]
            \/ /\ stage' = [stage EXCEPT ![r] = b] /\ parked' = parked \cup {k}
               /\ applied' = applied
<1>1. Hit(r, X) => /\ \A q \in Requests : q # r => applied'[q] = applied[q]
                  /\ \A x \in Resources :
                       applied'[r][x] = IF x \in X THEN applied[r][x] + 1 ELSE applied[r][x]
  BY HitFacts DEF IInv, TypeOK
<1>2. ParkSettlement(home[r], k) => parked' = parked \cup {k}
  BY DEF ParkSettlement
<1> QED BY <1>1, <1>2 DEF Statement, MaybeHit, queueVars

\* The settlement of a request keeps the invariant: what it parks it has not
\* charged, and will not.
LEMMA SettlingKeeps ==
  ASSUME IInv, NEW r \in Requests, Settling(r)
  PROVE  IInv'
<1> DEFINE c == Item("charge", r)
           t == Item("token", r)
           l == Item("log", r)
<1>1. /\ c \in Items /\ t \in Items /\ l \in Items
      /\ c # t /\ c # l /\ t # l
  BY ItemFacts DEF Kinds
<1>2. \A q \in Requests : q # r =>
        /\ Item("charge", q) \notin {c, t, l} /\ Item("token", q) \notin {c, t, l}
  BY DEF Item
<1>3. "wallet" \in Resources /\ "token" \in Resources /\ "log" \in Resources
  BY DEF Resources
<1>4. applied[r]["wallet"] \in Nat /\ applied[r]["token"] \in Nat
  BY <1>3 DEF IInv, TypeOK
<1>5. stage \in [Requests -> {"new", "wallet", "token", "log", "done", "gone"}]
  BY DEF IInv, TypeOK
<1>6. Charged(r) /\ \A q \in Requests : Charged(q)
  BY DEF IInv, ChargeOK
<1>10. ledger \subseteq parked
  BY DEF IInv, QueueOK
<1> HIDE DEF c, t, l
<1>7. CASE SettleWallet(r)
  <2>1. /\ stage[r] = "wallet" /\ home[r] \in Nodes /\ ledger' = ledger
        /\ Statement(r, {"wallet"}, c, "token", "log")
    BY <1>7 DEF SettleWallet, Serving, c
  <2>2. TypeOK' /\ QueueOK'
    BY <1>7, <2>1, <1>1, StatementKeepsQueues DEF SettleWallet
  <2>5. /\ stage' = [stage EXCEPT ![r] = "token"] \/ stage' = [stage EXCEPT ![r] = "log"]
        /\ \A q \in Requests : q # r => applied'[q] = applied[q]
        /\ \/ /\ stage' = [stage EXCEPT ![r] = "token"] /\ parked' = parked
              /\ \A x \in Resources :
                   applied'[r][x] = IF x \in {"wallet"} THEN applied[r][x] + 1 ELSE applied[r][x]
           \/ /\ stage' = [stage EXCEPT ![r] = "log"] /\ parked' = parked
              /\ \/ applied' = applied
                 \/ \A x \in Resources :
                      applied'[r][x] = IF x \in {"wallet"} THEN applied[r][x] + 1 ELSE applied[r][x]
           \/ /\ stage' = [stage EXCEPT ![r] = "log"] /\ parked' = parked \cup {c}
              /\ applied' = applied
    BY <1>1, <2>1, StatementFacts
  <2>3. Charged(r)'
    BY <1>1, <1>3, <1>4, <1>5, <1>6, <1>10, <2>1, <2>5 DEF Charged, c, t, Item
  <2>4. \A q \in Requests : q # r => Charged(q)'
    <3> SUFFICES ASSUME NEW q \in Requests, q # r PROVE Charged(q)'
      OBVIOUS
    <3>1. stage'[q] = stage[q] /\ applied'[q] = applied[q]
      BY <1>5, <2>5
    <3>2. /\ Item("charge", q) \in parked' <=> Item("charge", q) \in parked
          /\ Item("token", q) \in parked' <=> Item("token", q) \in parked
      BY <1>2, <2>5
    <3>3. Charged(q)
      BY <1>6
    <3> QED BY <2>1, <3>1, <3>2, <3>3 DEF Charged, Item
  <2> QED BY <2>2, <2>3, <2>4 DEF IInv, ChargeOK
<1>8. CASE SettleToken(r)
  <2>1. /\ stage[r] = "token" /\ home[r] \in Nodes /\ ledger' = ledger
        /\ Statement(r, {"token"}, t, "log", "log")
    BY <1>8 DEF SettleToken, Serving, t
  <2>2. TypeOK' /\ QueueOK'
    BY <1>8, <2>1, <1>1, StatementKeepsQueues DEF SettleToken
  <2>5. /\ stage' = [stage EXCEPT ![r] = "log"] \/ stage' = [stage EXCEPT ![r] = "log"]
        /\ \A q \in Requests : q # r => applied'[q] = applied[q]
        /\ \/ /\ stage' = [stage EXCEPT ![r] = "log"] /\ parked' = parked
              /\ \A x \in Resources :
                   applied'[r][x] = IF x \in {"token"} THEN applied[r][x] + 1 ELSE applied[r][x]
           \/ /\ stage' = [stage EXCEPT ![r] = "log"] /\ parked' = parked
              /\ \/ applied' = applied
                 \/ \A x \in Resources :
                      applied'[r][x] = IF x \in {"token"} THEN applied[r][x] + 1 ELSE applied[r][x]
           \/ /\ stage' = [stage EXCEPT ![r] = "log"] /\ parked' = parked \cup {t}
              /\ applied' = applied
    BY <1>1, <2>1, StatementFacts
  <2>3. Charged(r)'
    BY <1>1, <1>3, <1>4, <1>5, <1>6, <1>10, <2>1, <2>5 DEF Charged, c, t, Item
  <2>4. \A q \in Requests : q # r => Charged(q)'
    <3> SUFFICES ASSUME NEW q \in Requests, q # r PROVE Charged(q)'
      OBVIOUS
    <3>1. stage'[q] = stage[q] /\ applied'[q] = applied[q]
      BY <1>5, <2>5
    <3>2. /\ Item("charge", q) \in parked' <=> Item("charge", q) \in parked
          /\ Item("token", q) \in parked' <=> Item("token", q) \in parked
      BY <1>2, <2>5
    <3>3. Charged(q)
      BY <1>6
    <3> QED BY <2>1, <3>1, <3>2, <3>3 DEF Charged, Item
  <2> QED BY <2>2, <2>3, <2>4 DEF IInv, ChargeOK
<1>9. CASE CreateConsumeLogDurably(r)
  <2>1. /\ stage[r] = "log" /\ home[r] \in Nodes /\ ledger' = ledger
        /\ Statement(r, {"log"}, l, "done", "done")
    BY <1>9 DEF CreateConsumeLogDurably, Serving, l
  <2>2. TypeOK' /\ QueueOK'
    BY <1>9, <2>1, <1>1, StatementKeepsQueues DEF CreateConsumeLogDurably
  <2>5. /\ stage' = [stage EXCEPT ![r] = "done"] \/ stage' = [stage EXCEPT ![r] = "done"]
        /\ \A q \in Requests : q # r => applied'[q] = applied[q]
        /\ \/ /\ stage' = [stage EXCEPT ![r] = "done"] /\ parked' = parked
              /\ \A x \in Resources :
                   applied'[r][x] = IF x \in {"log"} THEN applied[r][x] + 1 ELSE applied[r][x]
           \/ /\ stage' = [stage EXCEPT ![r] = "done"] /\ parked' = parked
              /\ \/ applied' = applied
                 \/ \A x \in Resources :
                      applied'[r][x] = IF x \in {"log"} THEN applied[r][x] + 1 ELSE applied[r][x]
           \/ /\ stage' = [stage EXCEPT ![r] = "done"] /\ parked' = parked \cup {l}
              /\ applied' = applied
    BY <1>1, <2>1, StatementFacts
  <2>3. Charged(r)'
    BY <1>1, <1>3, <1>4, <1>5, <1>6, <1>10, <2>1, <2>5 DEF Charged, c, t, Item
  <2>4. \A q \in Requests : q # r => Charged(q)'
    <3> SUFFICES ASSUME NEW q \in Requests, q # r PROVE Charged(q)'
      OBVIOUS
    <3>1. stage'[q] = stage[q] /\ applied'[q] = applied[q]
      BY <1>5, <2>5
    <3>2. /\ Item("charge", q) \in parked' <=> Item("charge", q) \in parked
          /\ Item("token", q) \in parked' <=> Item("token", q) \in parked
      BY <1>2, <2>5
    <3>3. Charged(q)
      BY <1>6
    <3> QED BY <2>1, <3>1, <3>2, <3>3 DEF Charged, Item
  <2> QED BY <2>2, <2>3, <2>4 DEF IInv, ChargeOK
<1> QED BY <1>7, <1>8, <1>9 DEF Settling

-----------------------------------------------------------------------------
(* The drain pass *)

\* The item a pass is about to replay is a parked one.
LEMMA UpcomingFacts ==
  ASSUME IInv, NEW n \in Nodes, NEW k,
         \/ drain[n].step = "pick" /\ k \in Upcoming(drain[n])
         \/ drain[n].step = "insert" /\ k = drain[n].item
  PROVE  /\ k \in parked /\ k \in Items /\ parked \subseteq Items
         /\ drain[n] \in Drain /\ DrainOK(parked, drain[n])
         /\ drain[n].pc \in {"memory", "redis"}
         /\ drain[n].pc = "redis" => drain[n].raws # <<>>
         /\ drain[n].step = "insert" => k.kind = "log"
<1>1. drain[n] \in Drain /\ DrainOK(parked, drain[n]) /\ parked \subseteq Items
  BY DEF IInv, TypeOK, QueueOK
<1>2. drain[n].raws # <<>> => Head(drain[n].raws) \in parked
  BY <1>1, HeadTailProperties DEF DrainOK
<1>3. CASE drain[n].step = "pick" /\ k \in Upcoming(drain[n])
  BY <1>1, <1>2, <1>3 DEF Upcoming, DrainOK
<1>4. CASE drain[n].step = "insert" /\ k = drain[n].item
  BY <1>1, <1>4 DEF DrainOK
<1> QED BY <1>1, <1>3, <1>4

\* A replay that succeeds, is refused or fails goes on with the next item.
LEMMA OutcomeFacts ==
  ASSUME IInv, NEW n \in Nodes, NEW k \in parked, k \in Items,
         drain[n].pc \in {"memory", "redis"},
         drain[n].pc = "redis" => drain[n].raws # <<>>,
         Succeed(n, k) \/ Refuse(n, k) \/ Misfire(n, k)
  PROVE  /\ \E d \in Drain : DrainOK(parked, d) /\ drain' = [drain EXCEPT ![n] = d]
         /\ attempts' \in [Nodes -> [Items -> Nat]]
         /\ dead' \subseteq Items /\ byHand' \subseteq Items
<1>1. /\ drain[n] \in Drain /\ DrainOK(parked, drain[n]) /\ parked \subseteq Items
      /\ dead \subseteq Items /\ byHand \subseteq Items
      /\ attempts \in [Nodes -> [Items -> Nat]]
  BY DEF IInv, TypeOK, QueueOK
<1>2. \A f \in BOOLEAN :
        Onward(drain[n], k, f) \in Drain /\ DrainOK(parked, Onward(drain[n], k, f))
  BY <1>1, OnwardFacts
<1>3. \A v \in Nat : [attempts EXCEPT ![n] = [@ EXCEPT ![k] = v]]
                       \in [Nodes -> [Items -> Nat]]
  BY <1>1
<1>4. attempts[n][k] + 1 \in Nat
  BY <1>1
<1>5. (attempts[n][k] + 1 >= MaxAttempts) \in BOOLEAN
  OBVIOUS
<1>6. \E f \in BOOLEAN : drain' = [drain EXCEPT ![n] = Onward(drain[n], k, f)]
  BY <1>5 DEF Succeed, Refuse, Misfire, SetDrain
<1>7. attempts' \in [Nodes -> [Items -> Nat]]
  <2>1. CASE Succeed(n, k)
    BY <1>3, <2>1 DEF Succeed
  <2>2. CASE Refuse(n, k)
    BY <1>1, <2>2 DEF Refuse
  <2>3. CASE Misfire(n, k)
    BY <1>3, <1>4, <2>3 DEF Misfire
  <2> QED BY <2>1, <2>2, <2>3
<1>8. dead' \subseteq Items /\ byHand' \subseteq Items
  BY <1>1 DEF Succeed, Refuse, Misfire
<1> QED BY <1>2, <1>6, <1>7, <1>8

\* A replayed charge that commits is charged once: its ledger row is new.
LEMMA CommitKeepsCharges ==
  ASSUME IInv, NEW k \in parked, k \in Items, k.kind # "log", k \notin ledger,
         Hit(k.req, Moves(k)), ledger' = ledger \cup {k}, UNCHANGED <<stage, parked>>
  PROVE  ChargeOK'
<1> DEFINE r == k.req
           c == Item("charge", r)
           t == Item("token", r)
<1>1. r \in Requests /\ (k = c \/ k = t) /\ c # t
  BY ItemFacts DEF Kinds
<1>2. /\ \A q \in Requests : q # r => applied'[q] = applied[q]
      /\ \A x \in Resources :
           applied'[r][x] = IF x \in Moves(k) THEN applied[r][x] + 1 ELSE applied[r][x]
  BY <1>1, HitFacts DEF IInv, TypeOK
<1>3. "wallet" \in Resources /\ "token" \in Resources
  BY DEF Resources
<1>4. Charged(r) /\ \A q \in Requests : Charged(q)
  BY <1>1 DEF IInv, ChargeOK
<1>5. /\ k = c => Moves(k) = {"wallet", "token"}
      /\ k = t => Moves(k) = {"token"}
  BY DEF Moves, Item
<1>6. \A q \in Requests : q # r =>
        /\ Item("charge", q) \in ledger' <=> Item("charge", q) \in ledger
        /\ Item("token", q) \in ledger' <=> Item("token", q) \in ledger
  BY <1>1 DEF Item
<1>7. Charged(r)'
  <2>1. CASE k = c
    <3>1. t \notin parked /\ applied[r]["wallet"] = 0 /\ applied[r]["token"] = 0
          /\ stage[r] \notin {"new", "wallet", "token"}
      BY <1>4, <2>1 DEF Charged
    <3>2. applied'[r]["wallet"] = 1 /\ applied'[r]["token"] = 1 /\ c \in ledger'
      BY <1>2, <1>3, <1>5, <2>1, <3>1
    <3> QED BY <1>1, <2>1, <3>1, <3>2 DEF Charged, Item
  <2>2. CASE k = t
    <3>1. c \notin parked /\ applied[r]["token"] = 0 /\ applied[r]["wallet"] <= 1
          /\ stage[r] \notin {"new", "wallet", "token"}
      BY <1>4, <2>2 DEF Charged
    <3>2. applied'[r]["wallet"] = applied[r]["wallet"] /\ applied'[r]["token"] = 1
          /\ t \in ledger'
      BY <1>2, <1>3, <1>5, <2>2, <3>1
    <3> QED BY <1>1, <2>2, <3>1, <3>2 DEF Charged, Item
  <2> QED BY <1>1, <2>1, <2>2
<1>8. \A q \in Requests : q # r => Charged(q)'
  BY <1>2, <1>4, <1>6 DEF Charged, Item
<1> QED BY <1>7, <1>8 DEF ChargeOK

\* A replayed log row moves no charge.
LEMMA LogRowKeepsCharges ==
  ASSUME IInv, NEW r \in Requests, Hit(r, {"log"}) \/ UNCHANGED applied,
         UNCHANGED <<stage, parked, ledger>>
  PROVE  ChargeOK' /\ applied' \in [Requests -> [Resources -> Nat]]
<1>1. \A q \in Requests : applied'[q]["wallet"] = applied[q]["wallet"]
                          /\ applied'[q]["token"] = applied[q]["token"]
  <2>1. CASE UNCHANGED applied
    BY <2>1
  <2>2. CASE Hit(r, {"log"})
    <3>1. /\ \A q \in Requests : q # r => applied'[q] = applied[q]
          /\ \A x \in Resources :
               applied'[r][x] = IF x \in {"log"} THEN applied[r][x] + 1 ELSE applied[r][x]
      BY <2>2, HitFacts DEF IInv, TypeOK
    <3>2. "wallet" \in Resources /\ "token" \in Resources
      BY DEF Resources
    <3> QED BY <3>1, <3>2
  <2> QED BY <2>1, <2>2
<1>2. applied' \in [Requests -> [Resources -> Nat]]
  BY HitFacts DEF IInv, TypeOK
<1> QED BY <1>1, <1>2, ChargesKept DEF IInv

\* A pass that goes on keeps the invariant if the charges are kept.
LEMMA OutcomeKeeps ==
  ASSUME IInv, NEW n \in Nodes, NEW k \in parked, k \in Items,
         drain[n].pc \in {"memory", "redis"},
         drain[n].pc = "redis" => drain[n].raws # <<>>,
         Succeed(n, k) \/ Refuse(n, k) \/ Misfire(n, k),
         UNCHANGED <<stage, home, errors, parked, redis, memory, lost, mode, dbUp, redisUp,
                     crashes, stops, outages>>,
         ledger' \subseteq parked, ChargeOK',
         applied' \in [Requests -> [Resources -> Nat]], faults' \in Nat
  PROVE  IInv'
<1>1. PICK d \in Drain : DrainOK(parked, d) /\ drain' = [drain EXCEPT ![n] = d]
  BY OutcomeFacts
<1>2. /\ attempts' \in [Nodes -> [Items -> Nat]]
      /\ dead' \subseteq Items /\ byHand' \subseteq Items
  BY OutcomeFacts
<1>3. redis' \in Seq(parked) /\ memory' \in [Nodes -> SUBSET Items]
  BY DEF IInv, TypeOK, QueueOK
<1>4. TypeOK' /\ QueueOK'
  BY <1>1, <1>2, <1>3, PassKept
<1> QED BY <1>4 DEF IInv

\* Replaying an item keeps the invariant, whatever the database answers.
LEMMA ApplyKeeps ==
  ASSUME IInv, NEW n \in Nodes, ApplyPendingSettlement(n)
  PROVE  IInv'
<1> USE DEF requestVars, nodeVars, worldVars
<1>0. /\ UNCHANGED <<stage, home, errors, parked, redis, memory, lost, mode, dbUp, redisUp,
                     crashes, stops, outages>>
      /\ redis' \in Seq(parked) /\ ledger \subseteq parked
      /\ memory' \in [Nodes -> SUBSET Items] /\ faults \in Nat
      /\ applied \in [Requests -> [Resources -> Nat]]
  BY DEF ApplyPendingSettlement, IInv, TypeOK, QueueOK
<1>1. PICK k : \/ /\ drain[n].step = "pick" /\ k \in Upcoming(drain[n])
                  /\ IF k.kind = "log" THEN CountLogRows(n, k) ELSE ApplyPendingCharge(n, k)
               \/ drain[n].step = "insert" /\ k = drain[n].item /\ InsertLogRow(n, k)
  BY DEF ApplyPendingSettlement
<1>2. /\ k \in parked /\ k \in Items /\ parked \subseteq Items
      /\ drain[n] \in Drain /\ DrainOK(parked, drain[n])
      /\ drain[n].pc \in {"memory", "redis"}
      /\ drain[n].pc = "redis" => drain[n].raws # <<>>
      /\ drain[n].step = "insert" => k.kind = "log"
  BY <1>1, UpcomingFacts
<1>3. k.req \in Requests
  BY <1>2, ItemFacts
<1>8. Refuse(n, k) => UNCHANGED <<applied, ledger, faults>>
  BY DEF Refuse
<1>9. faults + 1 \in Nat
  BY <1>0
<1>4. ASSUME Succeed(n, k) \/ Refuse(n, k) \/ Misfire(n, k),
             UNCHANGED <<applied, ledger>>, faults' \in Nat
      PROVE  IInv'
  <2>1. ChargeOK'
    BY <1>0, <1>4, ChargesKept DEF IInv
  <2> QED BY <1>0, <1>2, <1>4, <2>1, OutcomeKeeps
<1>5. CASE drain[n].step = "pick" /\ k.kind = "log" /\ CountLogRows(n, k)
  <2>1. CASE /\ drain' = [drain EXCEPT ![n] = [drain[n] EXCEPT !.step = "insert", !.item = k]]
             /\ UNCHANGED <<applied, ledger, attempts, dead, byHand, faults>>
    <3> DEFINE e == [drain[n] EXCEPT !.step = "insert", !.item = k]
    <3>1. e \in Drain
      BY <1>2 DEF Drain
    <3>2. DrainOK(parked, e)
      BY <1>2, <1>5 DEF DrainOK, Drain
    <3>3. /\ attempts' \in [Nodes -> [Items -> Nat]]
          /\ dead' \subseteq Items /\ byHand' \subseteq Items
          /\ drain' = [drain EXCEPT ![n] = e]
      BY <2>1 DEF IInv, TypeOK
    <3> HIDE DEF e
    <3>4. TypeOK' /\ QueueOK'
      BY <1>0, <2>1, <3>1, <3>2, <3>3, PassKept
    <3>5. ChargeOK'
      BY <1>0, <2>1, ChargesKept DEF IInv
    <3> QED BY <3>4, <3>5 DEF IInv
  <2>2. CASE /\ Succeed(n, k) \/ Refuse(n, k) \/ Misfire(n, k)
             /\ UNCHANGED <<applied, ledger>> /\ faults' \in Nat
    BY <1>4, <2>2
  <2> QED BY <1>0, <1>5, <1>8, <1>9, <2>1, <2>2 DEF CountLogRows, SetDrain
<1>6. CASE drain[n].step = "pick" /\ k.kind # "log" /\ ApplyPendingCharge(n, k)
  <2>1. CASE /\ Succeed(n, k) \/ Refuse(n, k) \/ Misfire(n, k)
             /\ UNCHANGED <<applied, ledger>> /\ faults' \in Nat
    BY <1>4, <2>1
  <2>2. CASE /\ Succeed(n, k) \/ Misfire(n, k)
             /\ k \notin ledger /\ Hit(k.req, Moves(k)) /\ ledger' = ledger \cup {k}
             /\ faults' \in Nat
    <3>1. ChargeOK'
      BY <1>0, <1>2, <1>6, <2>2, CommitKeepsCharges
    <3>2. applied' \in [Requests -> [Resources -> Nat]]
      BY <1>0, <1>3, <2>2, HitFacts
    <3>3. ledger' \subseteq parked
      BY <1>0, <1>2, <2>2
    <3> QED BY <1>0, <1>2, <2>2, <3>1, <3>2, <3>3, OutcomeKeeps
  <2> QED BY <1>0, <1>6, <1>8, <1>9, <2>1, <2>2 DEF ApplyPendingCharge
<1>7. CASE drain[n].step = "insert" /\ k = drain[n].item /\ InsertLogRow(n, k)
  <2>1. /\ Succeed(n, k) \/ Refuse(n, k) \/ Misfire(n, k)
        /\ Hit(k.req, {"log"}) \/ UNCHANGED applied
        /\ ledger' = ledger /\ faults' \in Nat
    BY <1>0, <1>7, <1>8, <1>9 DEF InsertLogRow, MaybeHit
  <2>2. ChargeOK' /\ applied' \in [Requests -> [Resources -> Nat]]
    BY <1>0, <1>3, <2>1, LogRowKeepsCharges
  <2>3. ledger' \subseteq parked
    BY <1>0, <2>1
  <2> QED BY <1>0, <1>2, <2>1, <2>2, <2>3, OutcomeKeeps
<1> QED BY <1>1, <1>5, <1>6, <1>7

\* A step of a pass that applies nothing: items only change the place they
\* wait in.
LEMMA CarryKeeps ==
  ASSUME IInv, NEW n \in Nodes, NEW d \in Drain, DrainOK(parked, d),
         drain' = [drain EXCEPT ![n] = d], redis' \in Seq(parked),
         memory' \in [Nodes -> SUBSET Items],
         \A m \in Nodes : memory'[m] \subseteq memory[m], byHand' \subseteq Items,
         UNCHANGED <<requestVars, applied, ledger, parked, replayVars, nodeVars, worldVars,
                     faults>>
  PROVE  IInv'
<1> USE DEF requestVars, replayVars, nodeVars, worldVars
<1>1. /\ attempts' \in [Nodes -> [Items -> Nat]] /\ dead' \subseteq Items
      /\ applied' \in [Requests -> [Resources -> Nat]] /\ faults' \in Nat
      /\ ledger' \subseteq parked
  BY DEF IInv, TypeOK, QueueOK
<1>2. TypeOK' /\ QueueOK'
  BY <1>1, PassKept
<1>3. ChargeOK'
  BY ChargesKept DEF IInv
<1> QED BY <1>2, <1>3 DEF IInv

\* Every step of the worker and of the shutdown flush keeps the invariant.
LEMMA WorkingKeeps ==
  ASSUME IInv, NEW n \in Nodes, Working(n)
  PROVE  IInv'
<1> USE DEF queueVars
<1>0. /\ drain[n] \in Drain /\ DrainOK(parked, drain[n]) /\ parked \subseteq Items
      /\ redis \in Seq(parked) /\ memory \in [Nodes -> SUBSET Items]
      /\ memory[n] \subseteq parked /\ byHand \subseteq Items /\ crashes \in Nat
      /\ drain \in [Nodes -> Drain]
  BY DEF IInv, TypeOK, QueueOK
<1>1. Idle \in Drain /\ DrainOK(parked, Idle)
  BY IdleFacts
<1>2. <<>> \in Seq(parked) /\ <<>> \in Seq(Items)
  BY EmptySeq
<1>3. \A k \in parked : Append(redis, k) \in Seq(parked)
  BY <1>0, AppendProperties
<1>4. Finished(drain[n]) \in Drain /\ DrainOK(parked, Finished(drain[n]))
  BY <1>0, FinishedFacts
<1>5. redis \in Seq(Items)
  BY <1>0, SeqGrows
<1>6. CASE DrainSettlementOutbox(n)
  <2>1. PICK d \in Drain :
           /\ drain' = [drain EXCEPT ![n] = d] /\ drain[n].pc = "idle"
           /\ d.pc = "memory" /\ d.todo = memory[n]
           /\ d.raws = drain[n].raws /\ d.step = drain[n].step /\ d.left = drain[n].left
    BY <1>0, <1>6, BeganFacts
  <2>2. DrainOK(parked, d)
    BY <1>0, <2>1 DEF DrainOK
  <2> QED BY <1>0, <1>6, <2>1, <2>2, CarryKeeps DEF DrainSettlementOutbox
<1>7. CASE EndMemoryPass(n)
  <2> DEFINE e == [drain[n] EXCEPT !.pc = "lrange", !.done = {}]
             d == IF RedisEnabled /\ n \in Masters THEN e ELSE Finished(drain[n])
  <2>0. drain[n].step = "pick"
    BY <1>7 DEF EndMemoryPass
  <2>1. e \in Drain /\ DrainOK(parked, e)
    BY <1>0, <2>0 DEF Drain, DrainOK
  <2>2. d \in Drain /\ DrainOK(parked, d)
    BY <1>4, <2>1
  <2>3. drain' = [drain EXCEPT ![n] = d]
    BY <1>7 DEF EndMemoryPass, SetDrain
  <2>4. /\ memory' \in [Nodes -> SUBSET Items]
        /\ \A m \in Nodes : memory'[m] \subseteq memory[m]
    BY <1>0, <1>7 DEF EndMemoryPass, KeepUnfinished
  <2> HIDE DEF d
  <2> QED BY <1>0, <1>7, <2>2, <2>3, <2>4, CarryKeeps DEF EndMemoryPass
<1>8. CASE ReadRedisOutbox(n)
  <2> DEFINE s == IF Len(redis) <= Batch THEN redis ELSE SubSeq(redis, 1, Batch)
             e == [drain[n] EXCEPT !.pc = "redis", !.raws = s]
             d == IF ~redisUp THEN Finished(drain[n]) ELSE e
  <2>1. s \in Seq(parked) /\ s \in Seq(Items)
    <3>1. Len(redis) \in Nat /\ Batch \in Nat \ {0}
      BY <1>0, LenProperties, SettlementOutboxAssumption
    <3>2. Len(redis) > Batch => SubSeq(redis, 1, Batch) \in Seq(parked)
      BY <1>0, <3>1, SubSeqProperties
    <3>3. s \in Seq(parked)
      BY <1>0, <3>1, <3>2
    <3> QED BY <1>0, <3>3, SeqGrows
  <2> HIDE DEF s
  <2>2. drain[n].pc = "lrange"
    BY <1>8 DEF ReadRedisOutbox
  <2>3. drain[n].step = "pick"
    BY <1>0, <2>2 DEF DrainOK
  <2>4. e \in Drain
    BY <1>0, <2>1 DEF Drain
  <2>5. DrainOK(parked, e)
    BY <1>0, <2>1, <2>3 DEF DrainOK, Drain
  <2>6. d \in Drain /\ DrainOK(parked, d)
    BY <1>4, <2>4, <2>5
  <2>7. drain' = [drain EXCEPT ![n] = d]
    BY <1>8 DEF ReadRedisOutbox, SetDrain, s
  <2> HIDE DEF d
  <2> QED BY <1>0, <1>8, <2>6, <2>7, CarryKeeps DEF ReadRedisOutbox
<1>9. CASE Dequeue(n)
  <2> DEFINE d == [drain[n] EXCEPT !.raws = Tail(drain[n].raws), !.step = "pick",
                                   !.item = NoItem]
  <2>1. drain[n].pc = "redis" /\ drain[n].raws # <<>>
    BY <1>0, <1>9 DEF Dequeue, DrainOK
  <2>2. drain[n].raws \in Seq(parked) /\ drain[n].raws \in Seq(Items)
    BY <1>0 DEF DrainOK, Drain
  <2>3. Tail(drain[n].raws) \in Seq(parked) /\ Tail(drain[n].raws) \in Seq(Items)
    BY <2>1, <2>2, HeadTailProperties
  <2>4. d \in Drain
    BY <1>0, <2>3 DEF Drain
  <2>5. DrainOK(parked, d)
    BY <1>0, <2>3 DEF DrainOK, Drain
  <2>6. redis' \in Seq(parked)
    <3>1. redis' = redis \/ \E i \in DOMAIN redis : redis' = RemoveAt(redis, i)
      BY <1>9 DEF Dequeue
    <3> QED BY <1>0, <3>1, RemoveAtFacts
  <2>7. drain' = [drain EXCEPT ![n] = d]
    BY <1>9 DEF Dequeue, SetDrain
  <2> HIDE DEF d
  <2> QED BY <1>0, <1>9, <2>4, <2>5, <2>6, <2>7, CarryKeeps DEF Dequeue
<1>10. CASE EndRedisPass(n)
  <2>1. drain' = [drain EXCEPT ![n] = Finished(drain[n])]
    BY <1>10 DEF EndRedisPass, SetDrain
  <2> QED BY <1>0, <1>4, <1>10, <2>1, CarryKeeps DEF EndRedisPass
<1>11. CASE TakeMemory(n)
  <2> DEFINE d == [drain[n] EXCEPT !.flush = "push", !.left = memory[n]]
  <2>1. d \in Drain
    BY <1>0 DEF Drain
  <2>2. DrainOK(parked, d)
    BY <1>0, <1>11 DEF DrainOK, Drain, TakeMemory
  <2>3. drain' = [drain EXCEPT ![n] = d]
    BY <1>11 DEF TakeMemory, SetDrain
  <2>4. /\ memory' \in [Nodes -> SUBSET Items]
        /\ \A m \in Nodes : memory'[m] \subseteq memory[m]
    BY <1>0, <1>11 DEF TakeMemory
  <2> HIDE DEF d
  <2> QED BY <1>0, <1>11, <2>1, <2>2, <2>3, <2>4, CarryKeeps DEF TakeMemory
<1>12. CASE \E k \in Items : PushLeft(n, k)
  <2>1. PICK k \in Items : PushLeft(n, k)
    BY <1>12
  <2> DEFINE d == [drain[n] EXCEPT !.left = drain[n].left \ {k}]
  <2>2. k \in parked
    BY <1>0, <2>1 DEF PushLeft, DrainOK
  <2>3. d \in Drain
    BY <1>0 DEF Drain
  <2>4. DrainOK(parked, d)
    BY <1>0 DEF DrainOK, Drain
  <2>5. drain' = [drain EXCEPT ![n] = d]
    BY <2>1 DEF PushLeft, SetDrain
  <2>6. redis' \in Seq(parked) /\ byHand' \subseteq Items
    BY <1>0, <1>3, <2>1, <2>2 DEF PushLeft
  <2> HIDE DEF d
  <2> QED BY <1>0, <2>1, <2>3, <2>4, <2>5, <2>6, CarryKeeps DEF PushLeft
<1>13. CASE Exit(n)
  BY <1>0, <1>13, DownKeeps DEF Exit
<1>14. CASE ApplyPendingSettlement(n)
  BY <1>14, ApplyKeeps
<1> QED BY <1>6, <1>7, <1>8, <1>9, <1>10, <1>11, <1>12, <1>13, <1>14 DEF Working

-----------------------------------------------------------------------------
(* The theorems *)

LEMMA InitKeeps == Init => IInv
<1> SUFFICES ASSUME Init PROVE IInv
  OBVIOUS
<1>1. \A P : Idle \in Drain /\ DrainOK(P, Idle)
  BY IdleFacts
<1>2. redis \in Seq(Items) /\ redis \in Seq(parked)
  BY EmptySeq DEF Init
<1>3. TypeOK
  BY <1>1, <1>2, SettlementOutboxAssumption DEF Init, TypeOK
<1>4. QueueOK
  BY <1>1, <1>2 DEF Init, QueueOK
<1>5. ChargeOK
  BY DEF Init, ChargeOK, Charged, Resources
<1> QED BY <1>3, <1>4, <1>5 DEF IInv

LEMMA NextKeeps == IInv /\ [Next]_vars => IInv'
<1> SUFFICES ASSUME IInv, [Next]_vars PROVE IInv'
  OBVIOUS
<1>1. /\ mode \in [Nodes -> {"up", "stopping", "down"}]
      /\ dbUp \in BOOLEAN /\ redisUp \in BOOLEAN
      /\ crashes \in Nat /\ stops \in Nat /\ outages \in Nat
  BY DEF IInv, TypeOK
<1>2. CASE \E r \in Requests : Settling(r)
  BY <1>2, SettlingKeeps
<1>3. CASE \E r \in Requests, n \in Nodes : Serve(r, n)
  BY <1>3, ServeKeeps
<1>4. CASE \E n \in Nodes : Working(n)
  BY <1>4, WorkingKeeps
<1>5. CASE \E n \in Nodes : Stop(n)
  BY <1>5, StopKeeps
<1>6. CASE \E n \in Nodes : Crash(n)
  BY <1>1, <1>6, DownKeeps DEF Crash
<1>7. CASE \E n \in Nodes : Restart(n)
  BY <1>1, <1>7, WorldKept DEF Restart, worldVars
<1>8. CASE Outage
  <2>1. outages' \in Nat
    BY <1>1, <1>8 DEF Outage
  <2>2. dbUp' \in BOOLEAN /\ redisUp' \in BOOLEAN
    BY <1>1, <1>8, Zenon DEF Outage
  <2>3. /\ UNCHANGED <<requestVars, applied, ledger, queueVars, replayVars, lost, drain, faults>>
        /\ UNCHANGED <<mode, crashes, stops>>
    BY <1>8 DEF Outage, nodeVars
  <2> QED BY <1>1, <2>1, <2>2, <2>3, WorldKept
<1>9. CASE Recover
  BY <1>1, <1>9, WorldKept DEF Recover, nodeVars
<1>10. CASE UNCHANGED vars
  BY <1>1, <1>10, WorldKept DEF vars, requestVars, queueVars, replayVars
<1> QED BY <1>2, <1>3, <1>4, <1>5, <1>6, <1>7, <1>8, <1>9, <1>10 DEF Next

THEOREM OutboxInvariant == Spec => []IInv
  BY InitKeeps, NextKeeps, PTL DEF Spec

\* Every state is well typed (model/settlement_outbox.go, all of it).
THEOREM OutboxTypes == Spec => []TypeOK
<1>1. IInv => TypeOK
  BY DEF IInv
<1> QED BY <1>1, OutboxInvariant, PTL

\* Wallet and token of a request are charged at most once, for any number of
\* requests, nodes, masters, crashes, failures and lost replies
\* (applyPendingCharge and BillingSession.Settle together).
THEOREM AtMostOnce == Spec => []ChargedAtMostOnce
<1>1. IInv => ChargedAtMostOnce
  BY DEF IInv, ChargeOK, Charged, ChargedAtMostOnce
<1> QED BY <1>1, OutboxInvariant, PTL

\* A parked charge has moved its resources exactly when its ledger row exists,
\* so the row tells whether a settlement still has to be recovered by hand.
THEOREM LedgerTells == Spec => []ReplayExclusive
<1>1. IInv => ReplayExclusive
  <2> SUFFICES ASSUME IInv, NEW k \in parked, k.kind # "log", NEW x \in Moves(k)
               PROVE  applied[k.req][x] = IF k \in ledger THEN 1 ELSE 0
    BY DEF ReplayExclusive
  <2>1. /\ k \in Items /\ k.req \in Requests
        /\ k = Item("charge", k.req) \/ k = Item("token", k.req)
    BY ItemFacts DEF IInv, TypeOK, Kinds
  <2>2. Charged(k.req)
    BY <2>1 DEF IInv, ChargeOK
  <2>3. CASE k = Item("charge", k.req)
    BY <2>2, <2>3 DEF Charged, Moves, Item
  <2>4. CASE k = Item("token", k.req)
    BY <2>2, <2>4 DEF Charged, Moves, Item
  <2> QED BY <2>1, <2>3, <2>4
<1> QED BY <1>1, OutboxInvariant, PTL

-----------------------------------------------------------------------------
(* The shutdown flush beside the passes of its node *)

\* Only a node that is stopping flushes, and only its push has items in hand.
\* Unless a worker may be late, nothing runs beside the taking and pushing.
FlushOrder(n) ==
  /\ mode[n] # "stopping" => drain[n].flush = "off"
  /\ drain[n].flush # "push" => drain[n].left = {}
  /\ ~LatePasses => /\ drain[n].late = "none"
                    /\ drain[n].flush \in {"take", "push"} => drain[n].pc = "idle"

FlushesOrdered == \A n \in Nodes : FlushOrder(n)

\* The ways the record of a node moves.
PassMoves(n) ==
  /\ drain[n].pc # "idle" /\ drain'[n].pc # "idle" /\ drain'[n].flush = drain[n].flush
  /\ drain'[n].left = drain[n].left /\ drain'[n].late = drain[n].late
  /\ memory'[n] \subseteq memory[n]

PassBegins(n) ==
  /\ drain[n].pc = "idle" /\ memory'[n] = memory[n]
  /\ drain'[n].left = drain[n].left /\ drain'[n].late \in {"none", drain[n].late}
  /\ \/ drain'[n].flush = drain[n].flush /\ (mode[n] = "up" \/ drain[n].late = "due")
     \/ drain'[n].flush = "pass" /\ drain[n].flush = "wait"

PassEnds(n) ==
  /\ drain'[n].pc = "idle" /\ memory'[n] \subseteq memory[n]
  /\ drain'[n].left = drain[n].left /\ drain'[n].late = drain[n].late
  /\ drain'[n].flush = IF drain[n].flush = "pass" THEN "take" ELSE drain[n].flush

FlushMoves(n) ==
  /\ drain[n].flush \in {"take", "push"} /\ drain'[n].flush = "push"
  /\ drain'[n].pc = drain[n].pc /\ drain'[n].late = drain[n].late
  /\ memory'[n] = {} \/ (drain[n].flush = "push" /\ memory'[n] = memory[n])

\* What a step of the worker or of the flush does to it.
LEMMA WorkingMoves ==
  ASSUME IInv, NEW n \in Nodes, Working(n), ~Exit(n)
  PROVE  /\ UNCHANGED <<home, stage, mode, lost, crashes>>
         /\ \A m \in Nodes : m # n => drain'[m] = drain[m] /\ memory'[m] = memory[m]
         /\ PassMoves(n) \/ PassBegins(n) \/ PassEnds(n) \/ FlushMoves(n)
<1>1. /\ drain \in [Nodes -> Drain] /\ memory \in [Nodes -> SUBSET Items]
      /\ drain[n] \in Drain /\ DrainOK(parked, drain[n])
  BY DEF IInv, TypeOK, QueueOK
<1>2. UNCHANGED <<home, stage, mode, lost, crashes>>
  <2> USE DEF requestVars, nodeVars, worldVars
  <2>1. CASE DrainSettlementOutbox(n) \/ EndMemoryPass(n) \/ ReadRedisOutbox(n)
    BY <2>1 DEF DrainSettlementOutbox, EndMemoryPass, ReadRedisOutbox
  <2>2. CASE ApplyPendingSettlement(n)
    BY <2>2 DEF ApplyPendingSettlement
  <2>3. CASE Dequeue(n) \/ EndRedisPass(n)
    BY <2>3 DEF Dequeue, EndRedisPass
  <2>4. CASE TakeMemory(n) \/ \E k \in Items : PushLeft(n, k)
    BY <2>4 DEF TakeMemory, PushLeft
  <2> QED BY <2>1, <2>2, <2>3, <2>4 DEF Working
<1>3. \A m \in Nodes : m # n => drain'[m] = drain[m] /\ memory'[m] = memory[m]
  <2>1. ASSUME NEW e, drain' = [drain EXCEPT ![n] = e]
        PROVE  \A m \in Nodes : m # n => drain'[m] = drain[m]
    BY <1>1, <2>1
  <2>2. ASSUME NEW e, memory' = [memory EXCEPT ![n] = e]
        PROVE  \A m \in Nodes : m # n => memory'[m] = memory[m]
    BY <1>1, <2>2
  <2>3. \E e : drain' = [drain EXCEPT ![n] = e]
    <3>1. CASE ApplyPendingSettlement(n)
      <4>1. PICK k : \/ CountLogRows(n, k) \/ ApplyPendingCharge(n, k) \/ InsertLogRow(n, k)
        BY <3>1 DEF ApplyPendingSettlement
      <4>2. \/ Succeed(n, k) \/ Refuse(n, k) \/ Misfire(n, k)
            \/ SetDrain(n, [drain[n] EXCEPT !.step = "insert", !.item = k])
        BY <4>1 DEF CountLogRows, ApplyPendingCharge, InsertLogRow
      <4> QED BY <4>2 DEF Succeed, Refuse, Misfire, SetDrain
    <3>2. CASE DrainSettlementOutbox(n) \/ EndMemoryPass(n) \/ ReadRedisOutbox(n)
      BY <3>2 DEF DrainSettlementOutbox, EndMemoryPass, ReadRedisOutbox, SetDrain
    <3>3. CASE Dequeue(n) \/ EndRedisPass(n) \/ TakeMemory(n) \/ \E k \in Items : PushLeft(n, k)
      BY <3>3 DEF Dequeue, EndRedisPass, TakeMemory, PushLeft, SetDrain
    <3> QED BY <3>1, <3>2, <3>3 DEF Working
  <2>4. memory' = memory \/ \E e : memory' = [memory EXCEPT ![n] = e]
    <3>1. CASE \/ DrainSettlementOutbox(n) \/ ApplyPendingSettlement(n) \/ ReadRedisOutbox(n)
               \/ Dequeue(n) \/ EndRedisPass(n) \/ \E k \in Items : PushLeft(n, k)
      BY <3>1 DEF DrainSettlementOutbox, ApplyPendingSettlement, ReadRedisOutbox, Dequeue,
                  EndRedisPass, PushLeft, queueVars
    <3>2. CASE EndMemoryPass(n) \/ TakeMemory(n)
      BY <3>2 DEF EndMemoryPass, KeepUnfinished, TakeMemory
    <3> QED BY <3>1, <3>2 DEF Working
  <2> QED BY <2>1, <2>2, <2>3, <2>4
<1>4. /\ Finished(drain[n]).pc = "idle" /\ Finished(drain[n]).left = drain[n].left
      /\ Finished(drain[n]).late = drain[n].late
      /\ Finished(drain[n]).flush = IF drain[n].flush = "pass" THEN "take" ELSE drain[n].flush
  BY <1>1, FinishedFacts
<1>5. CASE DrainSettlementOutbox(n)
  <2>1. PICK d \in Drain :
           /\ drain' = [drain EXCEPT ![n] = d] /\ drain[n].pc = "idle"
           /\ d.left = drain[n].left
           /\ \/ d.flush = drain[n].flush /\ (mode[n] = "up" \/ drain[n].late = "due")
              \/ d.flush = "pass" /\ drain[n].flush = "wait"
           /\ d.late \in {"none", drain[n].late}
    BY <1>1, <1>5, BeganFacts
  <2>2. drain'[n] = d /\ memory' = memory
    BY <1>1, <1>5, <2>1 DEF DrainSettlementOutbox, queueVars
  <2>3. PassBegins(n)
    BY <2>1, <2>2 DEF PassBegins
  <2> QED BY <1>2, <1>3, <2>3
<1>6. CASE ApplyPendingSettlement(n)
  <2>1. PICK k : \/ CountLogRows(n, k) \/ ApplyPendingCharge(n, k) \/ InsertLogRow(n, k)
    BY <1>6 DEF ApplyPendingSettlement
  <2>2. \/ Succeed(n, k) \/ Refuse(n, k) \/ Misfire(n, k)
        \/ SetDrain(n, [drain[n] EXCEPT !.step = "insert", !.item = k])
    BY <2>1 DEF CountLogRows, ApplyPendingCharge, InsertLogRow
  <2>3. memory' = memory
    BY <1>6 DEF ApplyPendingSettlement
  <2>4. drain[n].pc # "idle"
    BY <1>1, <1>6 DEF ApplyPendingSettlement, Upcoming, DrainOK
  <2>5. ASSUME NEW f \in BOOLEAN, drain' = [drain EXCEPT ![n] = Onward(drain[n], k, f)]
        PROVE  PassMoves(n)
    <3>1. drain'[n] = Onward(drain[n], k, f)
      BY <1>1, <2>5
    <3>2. /\ drain'[n].pc = drain[n].pc /\ drain'[n].flush = drain[n].flush
          /\ drain'[n].left = drain[n].left /\ drain'[n].late = drain[n].late
      BY <1>1, <3>1 DEF Onward, Drain
    <3> QED BY <2>3, <2>4, <3>2 DEF PassMoves
  <2>6. CASE Misfire(n, k)
    <3> DEFINE over == attempts[n][k] + 1 >= MaxAttempts
    <3>1. drain' = [drain EXCEPT ![n] = Onward(drain[n], k, over)]
      BY <2>6 DEF Misfire, SetDrain
    <3>2. over \in BOOLEAN
      OBVIOUS
    <3> HIDE DEF over
    <3> QED BY <1>2, <1>3, <2>5, <3>1, <3>2
  <2>7. CASE Succeed(n, k) \/ Refuse(n, k)
    <3>1. \E f \in BOOLEAN : drain' = [drain EXCEPT ![n] = Onward(drain[n], k, f)]
      BY <2>7 DEF Succeed, Refuse, SetDrain
    <3> QED BY <1>2, <1>3, <2>5, <3>1
  <2>8. CASE SetDrain(n, [drain[n] EXCEPT !.step = "insert", !.item = k])
    <3>1. drain'[n] = [drain[n] EXCEPT !.step = "insert", !.item = k]
      BY <1>1, <2>8 DEF SetDrain
    <3>2. /\ drain'[n].pc = drain[n].pc /\ drain'[n].flush = drain[n].flush
          /\ drain'[n].left = drain[n].left /\ drain'[n].late = drain[n].late
      BY <1>1, <3>1 DEF Drain
    <3>3. PassMoves(n)
      BY <2>3, <2>4, <3>2 DEF PassMoves
    <3> QED BY <1>2, <1>3, <3>3
  <2> QED BY <2>2, <2>6, <2>7, <2>8
<1>7. CASE EndMemoryPass(n) \/ ReadRedisOutbox(n) \/ EndRedisPass(n)
  <2>1. memory'[n] \subseteq memory[n] /\ drain[n].pc # "idle"
    BY <1>1, <1>7 DEF EndMemoryPass, ReadRedisOutbox, EndRedisPass, KeepUnfinished, queueVars
  <2>2. PICK e : /\ drain' = [drain EXCEPT ![n] = e]
                 /\ \/ e = Finished(drain[n])
                    \/ e = [drain[n] EXCEPT !.pc = "lrange", !.done = {}]
                    \/ \E q : e = [drain[n] EXCEPT !.pc = "redis", !.raws = q]
    <3>1. CASE EndMemoryPass(n)
      BY <3>1, Zenon DEF EndMemoryPass, SetDrain
    <3>2. CASE EndRedisPass(n)
      BY <3>2, Zenon DEF EndRedisPass, SetDrain
    <3>3. CASE ReadRedisOutbox(n)
      <4>1. PICK q : SetDrain(n, IF ~redisUp THEN Finished(drain[n])
                                 ELSE [drain[n] EXCEPT !.pc = "redis", !.raws = q])
        BY <3>3 DEF ReadRedisOutbox
      <4> QED BY <4>1, Zenon DEF SetDrain
    <3> QED BY <1>7, <3>1, <3>2, <3>3
  <2>5. drain'[n] = e
    BY <1>1, <2>2
  <2>3. CASE e = Finished(drain[n])
    <3>1. PassEnds(n)
      BY <1>4, <2>1, <2>3, <2>5 DEF PassEnds
    <3> QED BY <1>2, <1>3, <3>1
  <2>4. ASSUME e.pc # "idle", e.flush = drain[n].flush, e.left = drain[n].left,
               e.late = drain[n].late
        PROVE  PassMoves(n)
    BY <2>1, <2>4, <2>5 DEF PassMoves
  <2>6. CASE e = [drain[n] EXCEPT !.pc = "lrange", !.done = {}]
    <3>1. /\ e.pc # "idle" /\ e.flush = drain[n].flush /\ e.left = drain[n].left
          /\ e.late = drain[n].late
      BY <1>1, <2>6 DEF Drain
    <3> QED BY <1>2, <1>3, <2>4, <3>1
  <2>7. ASSUME NEW q, e = [drain[n] EXCEPT !.pc = "redis", !.raws = q]
        PROVE  PassMoves(n)
    <3>1. /\ e.pc # "idle" /\ e.flush = drain[n].flush /\ e.left = drain[n].left
          /\ e.late = drain[n].late
      BY <1>1, <2>7 DEF Drain
    <3> QED BY <2>4, <3>1
  <2> QED BY <1>2, <1>3, <2>2, <2>3, <2>6, <2>7
<1>8. CASE Dequeue(n)
  <2>1. /\ drain'[n].pc = drain[n].pc /\ drain'[n].flush = drain[n].flush
        /\ drain'[n].left = drain[n].left /\ drain'[n].late = drain[n].late
        /\ drain[n].pc = "redis" /\ memory' = memory
    BY <1>1, <1>8 DEF Dequeue, SetDrain, Drain
  <2>2. PassMoves(n)
    BY <2>1 DEF PassMoves
  <2> QED BY <1>2, <1>3, <2>2
<1>9. CASE TakeMemory(n)
  <2>1. /\ drain'[n].pc = drain[n].pc /\ drain'[n].late = drain[n].late
        /\ drain[n].flush = "take" /\ drain'[n].flush = "push" /\ memory'[n] = {}
    BY <1>1, <1>9 DEF TakeMemory, SetDrain, Drain
  <2>2. FlushMoves(n)
    BY <2>1 DEF FlushMoves
  <2> QED BY <1>2, <1>3, <2>2
<1>10. CASE \E k \in Items : PushLeft(n, k)
  <2>1. /\ drain'[n].pc = drain[n].pc /\ drain'[n].late = drain[n].late
        /\ drain[n].flush = "push" /\ drain'[n].flush = "push" /\ memory' = memory
    BY <1>1, <1>10 DEF PushLeft, SetDrain, Drain
  <2>2. FlushMoves(n)
    BY <2>1 DEF FlushMoves
  <2> QED BY <1>2, <1>3, <2>2
<1> QED BY <1>5, <1>6, <1>7, <1>8, <1>9, <1>10 DEF Working

LEMMA NextOrders ==
  ASSUME IInv, FlushesOrdered, [Next]_vars
  PROVE  FlushesOrdered'
<1>0. /\ drain \in [Nodes -> Drain] /\ mode \in [Nodes -> {"up", "stopping", "down"}]
      /\ LatePasses \in BOOLEAN
  BY SettlementOutboxAssumption DEF IInv, TypeOK
<1>1. CASE \/ \E r \in Requests : Settling(r) \/ \E n \in Nodes : Serve(r, n)
           \/ Outage \/ Recover \/ UNCHANGED vars
  <2>1. UNCHANGED <<drain, mode>>
    BY <1>1 DEF Settling, SettleWallet, SettleToken, CreateConsumeLogDurably, Serve, Outage,
                Recover, vars, nodeVars
  <2> QED BY <2>1 DEF FlushesOrdered, FlushOrder
<1>2. ASSUME NEW n \in Nodes, Working(n), ~Exit(n) PROVE FlushesOrdered'
  <2>1. /\ mode' = mode /\ \A m \in Nodes : m # n => drain'[m] = drain[m]
        /\ PassMoves(n) \/ PassBegins(n) \/ PassEnds(n) \/ FlushMoves(n)
    BY <1>2, WorkingMoves
  <2>2. FlushOrder(n) /\ drain[n] \in Drain
    BY <1>0 DEF FlushesOrdered
  <2>3. CASE PassMoves(n)
    BY <2>1, <2>2, <2>3 DEF FlushesOrdered, FlushOrder, PassMoves
  <2>4. CASE PassBegins(n)
    BY <2>1, <2>2, <2>4 DEF FlushesOrdered, FlushOrder, PassBegins
  <2>5. CASE PassEnds(n)
    BY <2>1, <2>2, <2>5 DEF FlushesOrdered, FlushOrder, PassEnds
  <2>6. CASE FlushMoves(n)
    BY <2>1, <2>2, <2>6 DEF FlushesOrdered, FlushOrder, FlushMoves
  <2> QED BY <2>1, <2>3, <2>4, <2>5, <2>6
<1>3. ASSUME NEW n \in Nodes, Down(n) PROVE FlushesOrdered'
  <2>1. drain' = [drain EXCEPT ![n] = Idle] /\ \A m \in Nodes : m # n => mode'[m] = mode[m]
    BY <1>0, <1>3 DEF Down
  <2>2. drain'[n] = Idle /\ \A m \in Nodes : m # n => drain'[m] = drain[m]
    BY <1>0, <2>1
  <2>3. Idle.flush = "off" /\ Idle.left = {} /\ Idle.late = "none" /\ Idle.pc = "idle"
    BY DEF Idle
  <2> QED BY <2>1, <2>2, <2>3 DEF FlushesOrdered, FlushOrder
<1>4. ASSUME NEW n \in Nodes, Stop(n) PROVE FlushesOrdered'
  <2>1. PICK d \in Drain : /\ drain' = [drain EXCEPT ![n] = d] /\ d.left = drain[n].left
                           /\ d.flush = "wait" /\ (d.late = "due" => LatePasses)
    BY <1>0, <1>4, StopFacts
  <2>2. mode[n] = "up" /\ mode' = [mode EXCEPT ![n] = "stopping"]
    BY <1>4 DEF Stop
  <2>3. /\ drain'[n] = d /\ \A m \in Nodes : m # n => drain'[m] = drain[m] /\ mode'[m] = mode[m]
        /\ mode'[n] = "stopping"
    BY <1>0, <2>1, <2>2
  <2>4. d.late \in {"none", "due"}
    BY DEF Drain
  <2> QED BY <2>1, <2>2, <2>3, <2>4 DEF FlushesOrdered, FlushOrder
<1>5. ASSUME NEW n \in Nodes, Restart(n) PROVE FlushesOrdered'
  <2>1. drain' = drain /\ mode[n] = "down" /\ \A m \in Nodes : m # n => mode'[m] = mode[m]
    BY <1>0, <1>5 DEF Restart
  <2> QED BY <2>1 DEF FlushesOrdered, FlushOrder
<1> QED BY <1>1, <1>2, <1>3, <1>4, <1>5 DEF Next, Exit, Crash

LEMMA FlushInvariance == Spec => []FlushesOrdered
<1>1. Init => FlushesOrdered
  BY DEF Init, Idle, FlushesOrdered, FlushOrder
<1>2. IInv /\ FlushesOrdered /\ [Next]_vars => FlushesOrdered'
  BY NextOrders
<1> QED BY <1>1, <1>2, OutboxInvariant, PTL DEF Spec

-----------------------------------------------------------------------------
(* Nothing vanishes *)

\* An item needs no worker any more: it was applied, or written out in full.
Accounted(k) == Replayed(k) \/ k \in byHand

\* What a pass is about to take off a queue is accounted for.
Hands(d) == (\A k \in d.done : Accounted(k)) /\ (d.step = "dequeue" => Accounted(d.item))

\* What a request owes to a resource was applied, parked or reported.
Covered(r, x) ==
  applied[r][x] > 0 \/ \E k \in parked \cup errors : k.req = r /\ x \in Moves(k)

\* A request has covered the resources of the statements it is past.
Past(r) ==
  /\ stage[r] \in {"token", "log", "done"} => Covered(r, "wallet")
  /\ stage[r] \in {"log", "done"} => Covered(r, "token")
  /\ stage[r] = "done" => Covered(r, "log")

Accountable ==
  /\ \A k \in parked : Accounted(k) \/ k \in Waiting \cup lost
  /\ \A n \in Nodes : Hands(drain[n])
  /\ \A r \in Requests : Past(r)

\* What is only ever added to.
Grew ==
  /\ \A r \in Requests, x \in Resources : applied'[r][x] >= applied[r][x]
  /\ byHand \subseteq byHand' /\ lost \subseteq lost'
  /\ parked \subseteq parked' /\ errors \subseteq errors'

\* The resources an item moves.
LEMMA MovesFacts ==
  ASSUME NEW k \in Items
  PROVE  k.req \in Requests /\ Moves(k) \subseteq Resources
  BY ItemFacts DEF Moves, Resources

\* An item stays accounted for.
LEMMA AccountedStays ==
  ASSUME IInv, IInv', Grew, NEW k \in Items, Accounted(k)
  PROVE  Accounted(k)'
<1>1. k.req \in Requests /\ Moves(k) \subseteq Resources
  BY MovesFacts
<1>2. CASE k \in byHand
  BY <1>2 DEF Accounted, Grew
<1>3. CASE Replayed(k)
  <2>1. \A x \in Moves(k) : applied[k.req][x] \in Nat /\ applied'[k.req][x] \in Nat
    BY <1>1 DEF IInv, TypeOK
  <2>2. \A x \in Moves(k) : applied'[k.req][x] > 0
    BY <1>1, <1>3, <2>1 DEF Replayed, Grew
  <2> QED BY <2>2 DEF Accounted, Replayed
<1> QED BY <1>2, <1>3 DEF Accounted

\* So does what a request owed.
LEMMA CoveredStays ==
  ASSUME IInv, IInv', Grew, NEW r \in Requests, NEW x \in Resources, Covered(r, x)
  PROVE  Covered(r, x)'
<1>1. applied[r][x] \in Nat /\ applied'[r][x] \in Nat
  BY DEF IInv, TypeOK
<1>2. CASE applied[r][x] > 0
  BY <1>1, <1>2 DEF Grew, Covered
<1>3. CASE \E k \in parked \cup errors : k.req = r /\ x \in Moves(k)
  BY <1>3 DEF Grew, Covered
<1> QED BY <1>2, <1>3 DEF Covered

\* A request that does not move stays past what it was past.
LEMMA PastStays ==
  ASSUME IInv, IInv', Grew, NEW r \in Requests, Past(r),
         stage'[r] = stage[r] \/ stage'[r] \in {"wallet", "gone"}
  PROVE  Past(r)'
<1>1. "wallet" \in Resources /\ "token" \in Resources /\ "log" \in Resources
  BY DEF Resources
<1>2. /\ Covered(r, "wallet") => Covered(r, "wallet")'
      /\ Covered(r, "token") => Covered(r, "token")'
      /\ Covered(r, "log") => Covered(r, "log")'
  BY <1>1, CoveredStays
<1> QED BY <1>2 DEF Past

\* Nor does a pass that does not move lose what it has in hand.
LEMMA HandsStay ==
  ASSUME IInv, IInv', Grew, NEW n \in Nodes, Hands(drain[n]), drain'[n] = drain[n]
  PROVE  Hands(drain[n])'
<1>1. drain[n] \in Drain /\ DrainOK(parked, drain[n]) /\ parked \subseteq Items
  BY DEF IInv, TypeOK, QueueOK
<1>2. drain[n].done \subseteq Items /\ (drain[n].step = "dequeue" => drain[n].item \in Items)
  BY <1>1 DEF Drain, DrainOK
<1>3. \A k \in Items : Accounted(k) => Accounted(k)'
  BY AccountedStays
<1>4. \A k \in drain'[n].done : Accounted(k)'
  BY <1>2, <1>3 DEF Hands
<1>5. ASSUME drain'[n].step = "dequeue" PROVE \E k : k = drain'[n].item /\ Accounted(k)'
  BY <1>2, <1>3, <1>5 DEF Hands
<1> QED BY <1>4, <1>5 DEF Hands, Accounted, Replayed

\* The places an item can wait in.
LEMMA WaitingIs ==
  ASSUME NEW k \in Items
  PROVE  k \in Waiting <=>
           \/ k \in ToSet(redis)
           \/ \E n \in Nodes : k \in memory[n] \/ k \in drain[n].left
  BY DEF Waiting

\* A step that adds to what is parked only what waits or is accounted for, and
\* takes away from the queues only what is accounted for or lost.
LEMMA AccountsKept ==
  ASSUME IInv, IInv', Accountable, Grew,
         \A k \in Items : k \in Waiting => Accounted(k)' \/ k \in Waiting' \/ k \in lost',
         \A k \in Items : k \in parked' \ parked => Accounted(k)' \/ k \in Waiting',
         \A n \in Nodes : Hands(drain[n])',
         \A r \in Requests : Past(r)'
  PROVE  Accountable'
<1>1. parked' \subseteq Items
  BY DEF IInv, TypeOK
<1>2. \A k \in Items : Accounted(k) => Accounted(k)'
  BY AccountedStays
<1>3. ASSUME NEW k \in parked'
      PROVE  Accounted(k)' \/ k \in Waiting' \/ k \in lost'
  <2>1. k \in Items
    BY <1>1
  <2>2. CASE k \notin parked
    BY <2>1, <2>2
  <2>3. CASE k \in parked
    <3>1. Accounted(k) \/ k \in Waiting \/ k \in lost
      BY <2>3 DEF Accountable
    <3> QED BY <1>2, <2>1, <3>1 DEF Grew
  <2> QED BY <2>2, <2>3
<1> QED BY <1>3 DEF Accountable

\* Items appended to a list and taken out of it.
LEMMA AppendToSet ==
  ASSUME NEW P, NEW s \in Seq(P), NEW k \in P
  PROVE  ToSet(Append(s, k)) = ToSet(s) \cup {k}
<1>1. Len(s) \in Nat /\ DOMAIN s = 1 .. Len(s)
  BY LenProperties
<1>2. /\ Append(s, k) \in Seq(P) /\ Len(Append(s, k)) = Len(s) + 1
      /\ \A i \in 1 .. Len(s) : Append(s, k)[i] = s[i]
      /\ Append(s, k)[Len(s) + 1] = k
  BY AppendProperties
<1>3. DOMAIN Append(s, k) = 1 .. Len(s) + 1
  BY <1>2, LenProperties
<1> DEFINE a == Append(s, k)
<1> HIDE DEF a
<1>4. a \in Seq(P) /\ DOMAIN a = (1 .. Len(s)) \cup {Len(s) + 1}
  BY <1>1, <1>2, <1>3 DEF a
<1>5. (\A i \in 1 .. Len(s) : a[i] = s[i]) /\ a[Len(s) + 1] = k
  BY <1>2 DEF a
<1>6. ToSet(a) = ToSet(s) \cup {k}
  BY <1>1, <1>4, <1>5 DEF ToSet
<1> QED BY <1>6 DEF a

\* LREM closes the gap.
LEMMA RemoveAtIs ==
  ASSUME NEW P, NEW s \in Seq(P), NEW i \in DOMAIN s
  PROVE  /\ DOMAIN RemoveAt(s, i) = 1 .. Len(s) - 1
         /\ \A j \in 1 .. Len(s) - 1 : RemoveAt(s, i)[j] = IF j < i THEN s[j] ELSE s[j + 1]
<1>1. Len(s) \in Nat /\ DOMAIN s = 1 .. Len(s) /\ \A j \in 1 .. Len(s) : s[j] \in P
  BY LenProperties, ElementOfSeq
<1> DEFINE n == Len(s)
           a == SubSeq(s, 1, i - 1)
           b == SubSeq(s, i + 1, n)
           c == a \o b
<1>2. i \in 1 .. n /\ n \in Nat
  BY <1>1
<1>3. /\ a \in Seq(P) /\ Len(a) = i - 1
      /\ \A j \in 1 .. i - 1 : a[j] = s[j]
  <2>1. \A j \in 1 .. i - 1 : s[j] \in P
    BY <1>1
  <2>2. /\ a \in Seq(P) /\ Len(a) = IF 1 <= i - 1 THEN (i - 1) - 1 + 1 ELSE 0
        /\ \A j \in 1 .. (i - 1) - 1 + 1 : a[j] = s[1 + j - 1]
    BY <1>2, <2>1, SubSeqProperties
  <2> QED BY <1>2, <2>2
<1>4. /\ b \in Seq(P) /\ Len(b) = n - i
      /\ \A j \in 1 .. n - i : b[j] = s[i + j]
  <2>1. \A j \in i + 1 .. n : s[j] \in P
    BY <1>1, <1>2
  <2>2. /\ b \in Seq(P) /\ Len(b) = IF i + 1 <= n THEN n - (i + 1) + 1 ELSE 0
        /\ \A j \in 1 .. n - (i + 1) + 1 : b[j] = s[(i + 1) + j - 1]
    BY <1>2, <2>1, SubSeqProperties
  <2> QED BY <1>2, <2>2
<1>5. /\ c \in Seq(P) /\ Len(c) = Len(a) + Len(b)
      /\ \A j \in 1 .. Len(a) + Len(b) : c[j] = IF j <= Len(a) THEN a[j] ELSE b[j - Len(a)]
  BY <1>3, <1>4, ConcatProperties
<1>6. DOMAIN c = 1 .. Len(c)
  BY <1>5, LenProperties
<1> HIDE DEF a, b, c, n
<1>7. DOMAIN c = 1 .. n - 1
  BY <1>2, <1>3, <1>4, <1>5, <1>6
<1>8. \A j \in 1 .. n - 1 : c[j] = IF j < i THEN s[j] ELSE s[j + 1]
  <2> TAKE j \in 1 .. n - 1
  <2>1. c[j] = IF j <= i - 1 THEN a[j] ELSE b[j - (i - 1)]
    <3>1. Len(a) = i - 1 /\ j \in 1 .. Len(a) + Len(b)
      BY <1>2, <1>3, <1>4
    <3> QED BY <1>5, <3>1
  <2>2. CASE j < i
    BY <1>2, <1>3, <2>1, <2>2
  <2>3. CASE j >= i
    <3>1. j - (i - 1) \in 1 .. n - i /\ i + (j - (i - 1)) = j + 1
      BY <1>2, <2>3
    <3>2. b[j - (i - 1)] = s[j + 1]
      BY <1>4, <3>1
    <3> QED BY <1>2, <2>1, <2>3, <3>2
  <2> QED BY <1>2, <2>2, <2>3
<1> QED BY <1>7, <1>8 DEF RemoveAt, a, b, c, n

LEMMA RemoveFromSet ==
  ASSUME NEW P, NEW s \in Seq(P), NEW i \in DOMAIN s
  PROVE  ToSet(s) \ {s[i]} \subseteq ToSet(RemoveAt(s, i)) /\ ToSet(RemoveAt(s, i)) \subseteq ToSet(s)
<1> DEFINE n == Len(s)
           c == RemoveAt(s, i)
<1>1. DOMAIN s = 1 .. n
  BY LenProperties
<1>2. i \in 1 .. n /\ n \in Nat
  BY <1>1, LenProperties
<1>3. DOMAIN c = 1 .. n - 1
  BY RemoveAtIs
<1>4. \A j \in 1 .. n - 1 : c[j] = IF j < i THEN s[j] ELSE s[j + 1]
  BY RemoveAtIs
<1> HIDE DEF c, n
<1>5. ASSUME NEW j \in 1 .. n, j # i PROVE s[j] \in ToSet(c)
  <2>1. CASE j < i
    <3>1. j \in 1 .. n - 1
      BY <1>2, <2>1
    <3>2. c[j] = s[j]
      BY <1>4, <2>1, <3>1
    <3> QED BY <1>3, <3>1, <3>2 DEF ToSet
  <2>2. CASE j > i
    <3>1. j - 1 \in 1 .. n - 1 /\ ~(j - 1 < i) /\ (j - 1) + 1 = j
      BY <1>2, <2>2
    <3>2. c[j - 1] = s[j]
      BY <1>4, <3>1
    <3> QED BY <1>3, <3>1, <3>2 DEF ToSet
  <2> QED BY <1>2, <1>5, <2>1, <2>2
<1>6. ASSUME NEW j \in 1 .. n - 1 PROVE c[j] \in ToSet(s)
  <2>1. j \in 1 .. n /\ j + 1 \in 1 .. n
    BY <1>2
  <2>2. c[j] = s[j] \/ c[j] = s[j + 1]
    BY <1>4
  <2> QED BY <1>1, <2>1, <2>2 DEF ToSet, n
<1>7. ToSet(s) \ {s[i]} \subseteq ToSet(c)
  BY <1>1, <1>5 DEF ToSet, n
<1>8. ToSet(c) \subseteq ToSet(s)
  BY <1>3, <1>6 DEF ToSet
<1> QED BY <1>7, <1>8 DEF c

\* A step that moves no item, applies nothing and finishes no statement.
LEMMA NothingMoves ==
  ASSUME IInv, IInv', Accountable,
         UNCHANGED <<applied, parked, redis, memory, byHand, errors, lost, drain>>,
         \A r \in Requests : stage'[r] = stage[r] \/ stage'[r] \in {"wallet", "gone"}
  PROVE  Accountable'
<1>1. Grew
  <2>1. \A r \in Requests, x \in Resources : applied[r][x] \in Nat
    BY DEF IInv, TypeOK
  <2> QED BY <2>1 DEF Grew
<1>2. Waiting' = Waiting
  BY DEF Waiting
<1>3. \A n \in Nodes : Hands(drain[n])'
  BY <1>1, HandsStay DEF Accountable
<1>4. \A r \in Requests : Past(r)'
  BY <1>1, PastStays DEF Accountable
<1> QED BY <1>1, <1>2, <1>3, <1>4, AccountsKept

\* A step of a pass that applies nothing and whose pass goes on as d: what it
\* takes off a queue waits elsewhere or is accounted for.
LEMMA CarryAccounts ==
  ASSUME IInv, IInv', Accountable, NEW n \in Nodes, NEW d \in Drain,
         drain' = [drain EXCEPT ![n] = d],
         d.step # "dequeue" \/ (d.step = drain[n].step /\ d.item = drain[n].item),
         d.done = {} \/ d.done = drain[n].done,
         UNCHANGED <<stage, errors, lost, applied, parked>>, byHand \subseteq byHand',
         \A k \in Items : k \in Waiting => Accounted(k) \/ k \in Waiting' \/ k \in byHand'
  PROVE  Accountable'
<1>1. Grew
  <2>1. \A r \in Requests, x \in Resources : applied[r][x] \in Nat
    BY DEF IInv, TypeOK
  <2> QED BY <2>1 DEF Grew
<1>2. drain \in [Nodes -> Drain]
  BY DEF IInv, TypeOK
<1>3. \A k \in Items : Accounted(k) => Accounted(k)'
  BY <1>1, AccountedStays
<1>4. \A m \in Nodes : Hands(drain[m])'
  <2> TAKE m \in Nodes
  <2>1. CASE m # n
    <3>1. drain'[m] = drain[m]
      BY <1>2, <2>1
    <3> QED BY <1>1, <3>1, HandsStay DEF Accountable
  <2>2. CASE m = n
    <3>1. drain'[m] = d /\ d.done \subseteq Items
      BY <1>2, <2>2 DEF Drain
    <3>2. \A k \in d.done : Accounted(k)
      BY <2>2 DEF Accountable, Hands
    <3>3. \A k \in d.done : Accounted(k)'
      BY <1>3, <3>1, <3>2
    <3>4. ASSUME d.step = "dequeue" PROVE \E k : k = d.item /\ Accounted(k)'
      <4>1. d.item = drain[n].item /\ drain[n].step = "dequeue"
        BY <3>4
      <4>2. drain[n].item \in Items
        BY <4>1 DEF IInv, TypeOK, QueueOK, DrainOK
      <4>3. Accounted(drain[n].item)
        BY <4>1 DEF Accountable, Hands
      <4> QED BY <1>3, <4>1, <4>2, <4>3
    <3> QED BY <3>1, <3>3, <3>4 DEF Hands, Accounted, Replayed
  <2> QED BY <2>1, <2>2
<1>5. \A r \in Requests : Past(r)'
  BY <1>1, PastStays DEF Accountable
<1>6. \A k \in Items : k \in Waiting => Accounted(k)' \/ k \in Waiting' \/ k \in lost'
  <2>1. \A k \in Items : k \in byHand' => Accounted(k)'
    BY DEF Accounted
  <2> QED BY <1>3, <2>1
<1> QED BY <1>1, <1>4, <1>5, <1>6, AccountsKept

\* The pass and the shutdown flush, except for the replay itself.
LEMMA PassAccounts ==
  ASSUME IInv, FlushesOrdered, IInv', Accountable, NEW n \in Nodes,
         \/ DrainSettlementOutbox(n) \/ EndMemoryPass(n) \/ ReadRedisOutbox(n)
         \/ Dequeue(n) \/ EndRedisPass(n) \/ TakeMemory(n) \/ \E k \in Items : PushLeft(n, k)
  PROVE  Accountable'
<1> USE DEF queueVars, requestVars, nodeVars
<1>0. /\ drain[n] \in Drain /\ drain \in [Nodes -> Drain] /\ DrainOK(parked, drain[n])
      /\ parked \subseteq Items /\ redis \in Seq(Items)
      /\ memory \in [Nodes -> SUBSET Items] /\ drain' \in [Nodes -> Drain]
      /\ memory' \in [Nodes -> SUBSET Items]
  BY DEF IInv, TypeOK, QueueOK
<1>1. \A k \in Items : k \in Waiting <=>
           \/ k \in ToSet(redis)
           \/ \E m \in Nodes : k \in memory[m] \/ k \in drain[m].left
  BY WaitingIs
<1>2. \A k \in Items : k \in Waiting' <=>
           \/ k \in ToSet(redis')
           \/ \E m \in Nodes : k \in memory'[m] \/ k \in drain'[m].left
  BY DEF Waiting
<1>3. ASSUME NEW d, drain' = [drain EXCEPT ![n] = d]
      PROVE  drain'[n] = d /\ \A m \in Nodes : m # n => drain'[m] = drain[m]
  BY <1>0, <1>3
<1>4. ASSUME NEW d \in Drain, drain' = [drain EXCEPT ![n] = d], UNCHANGED <<redis, memory>>,
             d.left = drain[n].left
      PROVE  \A k \in Items : k \in Waiting => k \in Waiting'
  <2>1. \A m \in Nodes : drain'[m].left = drain[m].left
    BY <1>3, <1>4
  <2> QED BY <1>1, <1>2, <1>4, <2>1
<1>5. /\ Finished(drain[n]).step = "pick" /\ Finished(drain[n]).done = {}
      /\ Finished(drain[n]) \in Drain /\ Finished(drain[n]).left = drain[n].left
  BY <1>0, FinishedFacts
<1>6. CASE DrainSettlementOutbox(n)
  <2>1. PICK d \in Drain :
           /\ drain' = [drain EXCEPT ![n] = d] /\ d.left = drain[n].left
           /\ d.step = drain[n].step /\ d.item = drain[n].item /\ d.done = drain[n].done
    BY <1>0, <1>6, BeganFacts
  <2>4. UNCHANGED <<stage, errors, lost, applied, parked, redis, memory, byHand>>
    BY <1>6 DEF DrainSettlementOutbox
  <2>5. \A k \in Items : k \in Waiting => k \in Waiting'
    BY <1>4, <2>1, <2>4
  <2> QED BY <2>1, <2>4, <2>5, CarryAccounts
<1>7. CASE EndMemoryPass(n)
  <2> DEFINE e == [drain[n] EXCEPT !.pc = "lrange", !.done = {}]
             d == IF RedisEnabled /\ n \in Masters THEN e ELSE Finished(drain[n])
  <2>1. /\ drain' = [drain EXCEPT ![n] = d] /\ drain[n].pc = "memory"
        /\ drain[n].step = "pick"
    BY <1>7 DEF EndMemoryPass, SetDrain
  <2>2. d \in Drain
    BY <1>0, <1>3, <2>1
  <2>3. d.step = "pick" /\ d.done = {} /\ d.left = drain[n].left
    <3>1. e.step = "pick" /\ e.done = {} /\ e.left = drain[n].left
      BY <1>0, <2>1 DEF Drain
    <3> QED BY <1>5, <3>1
  <2>4. /\ UNCHANGED <<stage, errors, lost, applied, parked, redis, byHand>>
        /\ memory' = [memory EXCEPT ![n] = @ \ drain[n].done]
    BY <1>7 DEF EndMemoryPass, KeepUnfinished
  <2> HIDE DEF d
  <2>5. \A k \in drain[n].done : Accounted(k)
    BY DEF Accountable, Hands
  <2>6. \A m \in Nodes : drain'[m].left = drain[m].left
    BY <1>3, <2>1, <2>3
  <2>7. \A k \in Items : \A m \in Nodes : k \in memory[m] => k \in memory'[m] \/ Accounted(k)
    BY <1>0, <2>4, <2>5
  <2>8. \A k \in Items : k \in Waiting => Accounted(k) \/ k \in Waiting'
    <3> TAKE k \in Items
    <3>1. k \in ToSet(redis) => k \in ToSet(redis')
      BY <2>4
    <3> QED BY <1>1, <1>2, <2>6, <2>7, <3>1
  <2> QED BY <2>1, <2>2, <2>3, <2>4, <2>8, CarryAccounts
<1>8. CASE ReadRedisOutbox(n)
  <2> DEFINE s == IF Len(redis) <= Batch THEN redis ELSE SubSeq(redis, 1, Batch)
             e == [drain[n] EXCEPT !.pc = "redis", !.raws = s]
             d == IF ~redisUp THEN Finished(drain[n]) ELSE e
  <2>1. drain' = [drain EXCEPT ![n] = d] /\ drain[n].pc = "lrange"
    BY <1>8 DEF ReadRedisOutbox, SetDrain
  <2>2. d \in Drain
    BY <1>0, <1>3, <2>1
  <2>3. /\ d.step = "pick" /\ (d.done = {} \/ d.done = drain[n].done)
        /\ d.left = drain[n].left
    <3>1. drain[n].step = "pick"
      BY <1>0, <2>1 DEF DrainOK
    <3> HIDE DEF s
    <3>2. e.step = "pick" /\ e.done = drain[n].done /\ e.left = drain[n].left
      BY <1>0, <3>1 DEF Drain
    <3> QED BY <1>5, <3>2
  <2>4. UNCHANGED <<stage, errors, lost, applied, parked, redis, memory, byHand>>
    BY <1>8 DEF ReadRedisOutbox
  <2> HIDE DEF d
  <2>5. \A k \in Items : k \in Waiting => k \in Waiting'
    BY <1>4, <2>1, <2>2, <2>3, <2>4
  <2> QED BY <2>1, <2>2, <2>3, <2>4, <2>5, CarryAccounts
<1>9. CASE Dequeue(n)
  <2> DEFINE d == [drain[n] EXCEPT !.raws = Tail(drain[n].raws), !.step = "pick",
                                   !.item = NoItem]
  <2>1. drain' = [drain EXCEPT ![n] = d] /\ drain[n].pc = "redis" /\ drain[n].step = "dequeue"
    BY <1>9 DEF Dequeue, SetDrain
  <2>2. d \in Drain
    BY <1>0, <1>3, <2>1
  <2>3. d.step = "pick" /\ d.done = drain[n].done /\ d.left = drain[n].left
    BY <1>0 DEF Drain
  <2>4. /\ UNCHANGED <<stage, errors, lost, applied, parked, memory, byHand>>
        /\ redis' = redis \/ \E i \in DOMAIN redis : redis[i] = drain[n].item
                                                     /\ redis' = RemoveAt(redis, i)
    BY <1>9 DEF Dequeue
  <2> HIDE DEF d
  <2>5. Accounted(drain[n].item)
    BY <2>1 DEF Accountable, Hands
  <2>6. ToSet(redis) \ {drain[n].item} \subseteq ToSet(redis')
    BY <1>0, <2>4, RemoveFromSet
  <2>7. \A m \in Nodes : drain'[m].left = drain[m].left
    BY <1>3, <2>1, <2>3
  <2>8. \A k \in Items : k \in Waiting => Accounted(k) \/ k \in Waiting'
    <3> TAKE k \in Items
    <3>1. k = drain[n].item \/ (k \in ToSet(redis) => k \in ToSet(redis'))
      BY <2>6
    <3>2. k = drain[n].item => Accounted(k)
      BY <2>5
    <3> QED BY <1>1, <1>2, <2>4, <2>7, <3>1, <3>2
  <2> QED BY <2>1, <2>2, <2>3, <2>4, <2>8, CarryAccounts
<1>10. CASE EndRedisPass(n)
  <2>1. drain' = [drain EXCEPT ![n] = Finished(drain[n])] /\ drain[n].pc = "redis"
    BY <1>10 DEF EndRedisPass, SetDrain
  <2>4. UNCHANGED <<stage, errors, lost, applied, parked, redis, memory, byHand>>
    BY <1>10 DEF EndRedisPass
  <2>5. \A k \in Items : k \in Waiting => k \in Waiting'
    BY <1>4, <1>5, <2>1, <2>4
  <2> QED BY <1>5, <2>1, <2>4, <2>5, CarryAccounts
<1>11. CASE TakeMemory(n)
  <2> DEFINE d == [drain[n] EXCEPT !.flush = "push", !.left = memory[n]]
  <2>1. drain' = [drain EXCEPT ![n] = d] /\ drain[n].flush = "take"
    BY <1>11 DEF TakeMemory, SetDrain
  <2>2. d \in Drain
    BY <1>0, <1>3, <2>1
  <2>3. /\ d.step = drain[n].step /\ d.item = drain[n].item /\ d.done = drain[n].done
        /\ d.left = memory[n]
    BY <1>0 DEF Drain
  <2>4. /\ UNCHANGED <<stage, errors, lost, applied, parked, redis, byHand>>
        /\ memory' = [memory EXCEPT ![n] = {}]
    BY <1>11 DEF TakeMemory
  <2> HIDE DEF d
  <2>5. drain'[n] = d /\ \A m \in Nodes : m # n => drain'[m] = drain[m] /\ memory'[m] = memory[m]
    BY <1>0, <1>3, <2>1, <2>4
  <2>6. \A k \in Items : k \in Waiting => k \in Waiting'
    <3> TAKE k \in Items
    <3>1. k \in memory[n] => k \in Waiting'
      BY <1>2, <2>3, <2>5
    <3>2. drain[n].left = {}
      BY <2>1 DEF FlushesOrdered, FlushOrder
    <3> QED BY <1>1, <1>2, <2>4, <2>5, <3>1, <3>2
  <2> QED BY <2>1, <2>2, <2>3, <2>4, <2>6, CarryAccounts
<1>12. ASSUME NEW k \in Items, PushLeft(n, k)
       PROVE  Accountable'
  <2> DEFINE d == [drain[n] EXCEPT !.left = drain[n].left \ {k}]
  <2>1. drain' = [drain EXCEPT ![n] = d] /\ k \in drain[n].left
    BY <1>12 DEF PushLeft, SetDrain
  <2>2. d \in Drain
    BY <1>0, <1>3, <2>1
  <2>3. /\ d.step = drain[n].step /\ d.item = drain[n].item /\ d.done = drain[n].done
        /\ d.left = drain[n].left \ {k}
    BY <1>0 DEF Drain
  <2>4. /\ UNCHANGED <<stage, errors, lost, applied, parked, memory>>
        /\ byHand \subseteq byHand'
        /\ redis' = Append(redis, k) \/ (redis' = redis /\ k \in byHand')
    BY <1>12 DEF PushLeft
  <2> HIDE DEF d
  <2>5. drain'[n] = d /\ \A m \in Nodes : m # n => drain'[m] = drain[m]
    BY <1>3, <2>1, <2>2
  <2>6. ToSet(Append(redis, k)) = ToSet(redis) \cup {k}
    BY <1>0, AppendToSet
  <2>7. \A l \in Items : l \in Waiting => l \in Waiting' \/ l \in byHand'
    <3> TAKE l \in Items
    <3>1. l \in ToSet(redis) => l \in ToSet(redis')
      BY <2>4, <2>6
    <3>2. k \in ToSet(redis') \/ k \in byHand'
      BY <2>4, <2>6
    <3>3. k \in Waiting' \/ k \in byHand'
      BY <1>2, <3>2
    <3>4. l \in drain[n].left => l = k \/ l \in drain'[n].left
      BY <2>3, <2>5
    <3> QED BY <1>1, <1>2, <2>3, <2>4, <2>5, <3>1, <3>3, <3>4
  <2> QED BY <2>1, <2>2, <2>3, <2>4, <2>7, CarryAccounts
<1> QED BY <1>6, <1>7, <1>8, <1>9, <1>10, <1>11, <1>12

\* The signal to stop moves nothing.
LEMMA StopAccounts ==
  ASSUME IInv, IInv', Accountable, NEW n \in Nodes, Stop(n)
  PROVE  Accountable'
<1>0. drain \in [Nodes -> Drain]
  BY DEF IInv, TypeOK
<1>1. PICK d \in Drain :
         /\ drain' = [drain EXCEPT ![n] = d] /\ d.left = drain[n].left
         /\ d.step = drain[n].step /\ d.item = drain[n].item /\ d.done = drain[n].done
  BY <1>0, StopFacts
<1>2. UNCHANGED <<stage, errors, lost, applied, parked, redis, memory, byHand>>
  BY DEF Stop, requestVars, queueVars
<1>3. \A m \in Nodes : drain'[m].left = drain[m].left
  BY <1>0, <1>1
<1>4. \A k \in Items : k \in Waiting => k \in Waiting'
  BY <1>2, <1>3 DEF Waiting
<1> QED BY <1>1, <1>2, <1>4, CarryAccounts

\* What was in the memory of a process that ends is lost, and known to be.
LEMMA DownAccounts ==
  ASSUME IInv, IInv', Accountable, NEW n \in Nodes, Down(n)
  PROVE  Accountable'
<1>0. /\ drain \in [Nodes -> Drain] /\ memory \in [Nodes -> SUBSET Items]
      /\ stage \in [Requests -> {"new", "wallet", "token", "log", "done", "gone"}]
  BY DEF IInv, TypeOK
<1>1. /\ UNCHANGED <<applied, parked, redis, byHand, errors>>
      /\ lost' = lost \cup memory[n] \cup drain[n].left
      /\ \A m \in Nodes : m # n => drain'[m] = drain[m] /\ memory'[m] = memory[m]
      /\ drain'[n] = Idle
      /\ \A r \in Requests : stage'[r] = stage[r] \/ stage'[r] = "gone"
  BY <1>0 DEF Down
<1>2. Grew
  <2>1. \A r \in Requests, x \in Resources : applied[r][x] \in Nat
    BY DEF IInv, TypeOK
  <2> QED BY <1>1, <2>1 DEF Grew
<1>3. \A m \in Nodes : Hands(drain[m])'
  <2> TAKE m \in Nodes
  <2>1. CASE m = n
    BY <1>1, <2>1 DEF Hands, Idle
  <2>2. CASE m # n
    BY <1>1, <1>2, <2>2, HandsStay DEF Accountable
  <2> QED BY <2>1, <2>2
<1>4. \A r \in Requests : Past(r)'
  BY <1>1, <1>2, PastStays DEF Accountable
<1>5. ASSUME NEW k \in Items, k \in Waiting
      PROVE  k \in Waiting' \/ k \in lost'
  <2>1. k \in Waiting' <=>
           \/ k \in ToSet(redis')
           \/ \E m \in Nodes : k \in memory'[m] \/ k \in drain'[m].left
    BY DEF Waiting
  <2>2. \/ k \in ToSet(redis)
        \/ \E m \in Nodes : k \in memory[m] \/ k \in drain[m].left
    BY <1>5, WaitingIs
  <2> QED BY <1>1, <2>1, <2>2
<1> QED BY <1>1, <1>2, <1>3, <1>4, <1>5, AccountsKept

\* A statement of the request path runs, parks its item or reports it.
LEMMA StatementAccounts ==
  ASSUME IInv, IInv', Accountable, NEW r \in Requests, home[r] \in Nodes,
         NEW X, NEW k \in Items, k.req = r, X \subseteq Moves(k), NEW a, NEW b,
         Statement(r, X, k, a, b), UNCHANGED <<lost, drain>>
  PROVE  /\ Past(r)' => Accountable'
         /\ Grew
         /\ \/ stage'[r] = a /\ \A x \in X : Covered(r, x)'
            \/ stage'[r] = b /\ \A x \in Moves(k) : Covered(r, x)'
<1>0. /\ stage \in [Requests -> {"new", "wallet", "token", "log", "done", "gone"}]
      /\ memory \in [Nodes -> SUBSET Items] /\ redis \in Seq(Items)
      /\ applied \in [Requests -> [Resources -> Nat]] /\ Moves(k) \subseteq Resources
  BY MovesFacts DEF IInv, TypeOK
<1>1. Hit(r, X) => /\ \A q \in Requests : q # r => applied'[q] = applied[q]
                   /\ \A x \in Resources :
                        applied'[r][x] = IF x \in X THEN applied[r][x] + 1 ELSE applied[r][x]
  BY <1>0, HitFacts
<1>2. Hit(r, X) => \A q \in Requests, x \in Resources : applied'[q][x] >= applied[q][x]
  <2> SUFFICES ASSUME Hit(r, X), NEW q \in Requests, NEW x \in Resources
               PROVE  applied'[q][x] >= applied[q][x]
    OBVIOUS
  <2>1. applied[q][x] \in Nat
    BY <1>0
  <2>2. CASE q = r
    BY <1>1, <2>1, <2>2
  <2>3. CASE q # r
    BY <1>1, <2>1, <2>3
  <2> QED BY <2>2, <2>3
<1>3. UNCHANGED applied => \A q \in Requests, x \in Resources : applied'[q][x] >= applied[q][x]
  BY <1>0
<1>4. ParkSettlement(home[r], k) =>
        /\ parked' = parked \cup {k} /\ byHand \subseteq byHand'
        /\ \A l \in Items : l \in Waiting => l \in Waiting'
        /\ k \in Waiting' \/ k \in byHand'
  <2> SUFFICES ASSUME ParkSettlement(home[r], k)
               PROVE  /\ parked' = parked \cup {k} /\ byHand \subseteq byHand'
                      /\ \A l \in Items : l \in Waiting => l \in Waiting'
                      /\ k \in Waiting' \/ k \in byHand'
    OBVIOUS
  <2>1. \A l \in Items : l \in Waiting <=>
           \/ l \in ToSet(redis)
           \/ \E m \in Nodes : l \in memory[m] \/ l \in drain[m].left
    BY WaitingIs
  <2>2. \A l \in Items : l \in Waiting' <=>
           \/ l \in ToSet(redis')
           \/ \E m \in Nodes : l \in memory'[m] \/ l \in drain'[m].left
    BY DEF Waiting
  <2>3. ToSet(Append(redis, k)) = ToSet(redis) \cup {k}
    BY <1>0, AppendToSet
  <2>4. /\ byHand \subseteq byHand' /\ \A m \in Nodes : memory[m] \subseteq memory'[m]
        /\ redis' = Append(redis, k) \/ redis' = redis
        /\ redis' = Append(redis, k) \/ k \in memory'[home[r]] \/ k \in byHand'
    <3>1. CASE redis' = Append(redis, k) /\ UNCHANGED <<memory, byHand>>
      BY <3>1
    <3>2. CASE ParkInMemory(home[r], k) /\ (redis' = Append(redis, k) \/ redis' = redis)
      BY <1>0, <3>2 DEF ParkInMemory
    <3> QED BY <3>1, <3>2 DEF ParkSettlement
  <2>5. ToSet(redis) \subseteq ToSet(redis') /\ (redis' = Append(redis, k) => k \in ToSet(redis'))
    BY <2>3, <2>4
  <2>6. \A l \in Items : l \in Waiting => l \in Waiting'
    BY <2>1, <2>2, <2>4, <2>5
  <2>7. k \in Waiting' \/ k \in byHand'
    BY <2>2, <2>4, <2>5
  <2> QED BY <2>4, <2>6, <2>7 DEF ParkSettlement
<1>5. UNCHANGED queueVars => /\ UNCHANGED <<parked, byHand>>
                             /\ \A l \in Items : l \in Waiting => l \in Waiting'
  BY DEF queueVars, Waiting
<1>6. /\ \A q \in Requests, x \in Resources : applied'[q][x] >= applied[q][x]
      /\ byHand \subseteq byHand' /\ errors \subseteq errors'
      /\ parked \subseteq parked' /\ parked' \subseteq parked \cup {k}
      /\ \A l \in Items : l \in Waiting => l \in Waiting'
      /\ k \in parked' \ parked => k \in Waiting' \/ k \in byHand'
      /\ \A q \in Requests : q # r => stage'[q] = stage[q]
  <2>1. CASE /\ Hit(r, X) \/ UNCHANGED applied
             /\ UNCHANGED queueVars /\ errors \subseteq errors'
             /\ stage' = [stage EXCEPT ![r] = a] \/ stage' = [stage EXCEPT ![r] = b]
    BY <1>0, <1>2, <1>3, <1>5, <2>1
  <2>2. CASE /\ ParkSettlement(home[r], k) /\ stage' = [stage EXCEPT ![r] = b]
             /\ UNCHANGED <<errors, applied>>
    BY <1>0, <1>3, <1>4, <2>2
  <2> QED BY <2>1, <2>2 DEF Statement, MaybeHit
<1>7. Grew
  BY <1>6 DEF Grew
<1>8. \/ stage'[r] = a /\ \A x \in X : Covered(r, x)'
      \/ stage'[r] = b /\ \A x \in Moves(k) : Covered(r, x)'
  <2>1. CASE Hit(r, X) /\ stage' = [stage EXCEPT ![r] = a]
    <3>1. \A x \in X : applied'[r][x] = applied[r][x] + 1 /\ applied[r][x] \in Nat
      BY <1>0, <1>1, <2>1
    <3>2. \A x \in X : applied'[r][x] > 0
      BY <3>1
    <3> QED BY <1>0, <2>1, <3>2 DEF Covered
  <2>2. CASE stage' = [stage EXCEPT ![r] = b] /\ k \in parked' \cup errors'
    BY <1>0, <2>2 DEF Covered
  <2> QED BY <1>4, <2>1, <2>2 DEF Statement
<1>9. ASSUME Past(r)' PROVE Accountable'
  <2>1. \A m \in Nodes : Hands(drain[m])'
    BY <1>7, HandsStay DEF Accountable
  <2>2. \A q \in Requests : q # r => Past(q)'
    BY <1>6, <1>7, PastStays DEF Accountable
  <2>3. \A q \in Requests : Past(q)'
    <3> TAKE q \in Requests
    <3> QED BY <1>9, <2>2
  <2>4. \A l \in Items : l \in parked' \ parked => Accounted(l)' \/ l \in Waiting'
    BY <1>6 DEF Accounted
  <2>5. \A l \in Items : l \in Waiting => l \in Waiting'
    BY <1>6
  <2> QED BY <1>7, <2>1, <2>3, <2>4, <2>5, AccountsKept
<1> QED BY <1>7, <1>8, <1>9

\* The request path covers everything it is past.
LEMMA SettlingAccounts ==
  ASSUME IInv, IInv', Accountable, NEW r \in Requests, Settling(r)
  PROVE  Accountable'
<1>0. /\ \A kind \in Kinds : Item(kind, r) \in Items /\ Item(kind, r).req = r
      /\ Moves(Item("charge", r)) = {"wallet", "token"}
      /\ Moves(Item("token", r)) = {"token"} /\ Moves(Item("log", r)) = {"log"}
  BY ItemFacts DEF Moves, Item
<1>1. /\ "charge" \in Kinds /\ "token" \in Kinds /\ "log" \in Kinds
      /\ "wallet" \in Resources /\ "token" \in Resources /\ "log" \in Resources
  BY DEF Kinds, Resources
<1>2. Past(r)
  BY DEF Accountable
<1>3. Grew /\ Covered(r, "wallet") => Covered(r, "wallet")'
  BY <1>1, CoveredStays
<1>4. Grew /\ Covered(r, "token") => Covered(r, "token")'
  BY <1>1, CoveredStays
<1>5. CASE SettleWallet(r)
  <2> DEFINE c == Item("charge", r)
  <2>1. /\ home[r] \in Nodes /\ Statement(r, {"wallet"}, c, "token", "log")
        /\ UNCHANGED <<lost, drain>>
    BY <1>5 DEF SettleWallet, Serving, nodeVars
  <2>2. c \in Items /\ c.req = r /\ {"wallet"} \subseteq Moves(c)
    BY <1>0, <1>1
  <2> HIDE DEF c
  <2>3. /\ Past(r)' => Accountable'
        /\ \/ stage'[r] = "token" /\ \A x \in {"wallet"} : Covered(r, x)'
           \/ stage'[r] = "log" /\ \A x \in Moves(c) : Covered(r, x)'
    BY <2>1, <2>2, StatementAccounts
  <2>4. Past(r)'
    BY <1>0, <2>3 DEF Past, c
  <2> QED BY <2>3, <2>4
<1>6. CASE SettleToken(r)
  <2> DEFINE c == Item("token", r)
  <2>1. /\ home[r] \in Nodes /\ Statement(r, {"token"}, c, "log", "log")
        /\ UNCHANGED <<lost, drain>> /\ stage[r] = "token"
    BY <1>6 DEF SettleToken, Serving, nodeVars
  <2>2. c \in Items /\ c.req = r /\ {"token"} \subseteq Moves(c)
    BY <1>0, <1>1
  <2> HIDE DEF c
  <2>3. /\ Past(r)' => Accountable'
        /\ Grew
        /\ \/ stage'[r] = "log" /\ \A x \in {"token"} : Covered(r, x)'
           \/ stage'[r] = "log" /\ \A x \in Moves(c) : Covered(r, x)'
    BY <2>1, <2>2, StatementAccounts
  <2>4. Covered(r, "wallet")'
    BY <1>2, <1>3, <2>1, <2>3 DEF Past
  <2>5. Past(r)'
    BY <1>0, <2>3, <2>4 DEF Past, c
  <2> QED BY <2>3, <2>5
<1>7. CASE CreateConsumeLogDurably(r)
  <2> DEFINE c == Item("log", r)
  <2>1. /\ home[r] \in Nodes /\ Statement(r, {"log"}, c, "done", "done")
        /\ UNCHANGED <<lost, drain>> /\ stage[r] = "log"
    BY <1>7 DEF CreateConsumeLogDurably, Serving, nodeVars
  <2>2. c \in Items /\ c.req = r /\ {"log"} \subseteq Moves(c)
    BY <1>0, <1>1
  <2> HIDE DEF c
  <2>3. /\ Past(r)' => Accountable'
        /\ Grew
        /\ \/ stage'[r] = "done" /\ \A x \in {"log"} : Covered(r, x)'
           \/ stage'[r] = "done" /\ \A x \in Moves(c) : Covered(r, x)'
    BY <2>1, <2>2, StatementAccounts
  <2>4. Covered(r, "wallet")' /\ Covered(r, "token")'
    BY <1>2, <1>3, <1>4, <2>1, <2>3 DEF Past
  <2>5. Past(r)'
    BY <1>0, <2>3, <2>4 DEF Past, c
  <2> QED BY <2>3, <2>5
<1> QED BY <1>5, <1>6, <1>7 DEF Settling

\* A pass finishes with an item only once it is accounted for.
LEMMA ReplayAccounts ==
  ASSUME IInv, IInv', Accountable, Grew, NEW n \in Nodes, NEW k \in Items, NEW f \in BOOLEAN,
         drain[n].pc \in {"memory", "redis"}, drain[n].step # "dequeue",
         drain' = [drain EXCEPT ![n] = Onward(drain[n], k, f)],
         f => Accounted(k)',
         UNCHANGED <<stage, parked, redis, memory, errors, lost>>
  PROVE  Accountable'
<1> DEFINE o == Onward(drain[n], k, f)
<1>0. drain \in [Nodes -> Drain] /\ drain[n] \in Drain
  BY DEF IInv, TypeOK
<1>1. /\ o.pc = drain[n].pc /\ o.left = drain[n].left
      /\ \A l \in o.done : l \in drain[n].done \/ (f /\ l = k)
      /\ o.step = "dequeue" => f /\ o.item = k
  <2>1. CASE drain[n].pc = "memory"
    BY <1>0, <2>1 DEF Onward, Drain
  <2>2. CASE drain[n].pc = "redis"
    BY <1>0, <2>2 DEF Onward, Drain
  <2> QED BY <2>1, <2>2
<1>2. drain'[n] = o /\ \A m \in Nodes : m # n => drain'[m] = drain[m]
  BY <1>0
<1> HIDE DEF o
<1>3. \A l \in Items : Accounted(l) => Accounted(l)'
  BY AccountedStays
<1>4. \A m \in Nodes : Hands(drain[m])'
  <2> TAKE m \in Nodes
  <2>1. CASE m # n
    BY <1>2, <2>1, HandsStay DEF Accountable
  <2>2. CASE m = n
    <3>1. \A l \in drain[n].done : Accounted(l) /\ l \in Items
      BY <1>0 DEF Accountable, Hands, Drain
    <3>2. \A l \in o.done : Accounted(l)'
      BY <1>1, <1>3, <3>1
    <3>3. o.step = "dequeue" => o.item = k /\ Accounted(k)'
      BY <1>1
    <3>4. drain'[m] = o
      BY <1>2, <2>2
    <3> QED BY <3>2, <3>3, <3>4 DEF Hands, Accounted, Replayed
  <2> QED BY <2>1, <2>2
<1>5. \A r \in Requests : Past(r)'
  BY PastStays DEF Accountable
<1>6. \A l \in Items : l \in Waiting => l \in Waiting'
  <2> TAKE l \in Items
  <2>1. l \in Waiting' <=>
           \/ l \in ToSet(redis')
           \/ \E m \in Nodes : l \in memory'[m] \/ l \in drain'[m].left
    BY DEF Waiting
  <2>2. l \in Waiting <=>
           \/ l \in ToSet(redis)
           \/ \E m \in Nodes : l \in memory[m] \/ l \in drain[m].left
    BY WaitingIs
  <2>3. \A m \in Nodes : drain'[m].left = drain[m].left
    BY <1>1, <1>2
  <2> QED BY <2>1, <2>2, <2>3
<1> QED BY <1>4, <1>5, <1>6, AccountsKept

\* What the outcome of a replay does to the pass and to byHand.
LEMMA OutcomeAccounts ==
  ASSUME IInv, IInv', NEW n \in Nodes, NEW k \in Items,
         (Succeed(n, k) /\ Replayed(k)') \/ Refuse(n, k) \/ Misfire(n, k)
  PROVE  /\ byHand \subseteq byHand'
         /\ \E f \in BOOLEAN : /\ drain' = [drain EXCEPT ![n] = Onward(drain[n], k, f)]
                               /\ f => Accounted(k)'
<1>1. CASE Succeed(n, k) /\ Replayed(k)'
  BY <1>1 DEF Succeed, SetDrain, Accounted
<1>2. CASE Refuse(n, k)
  BY <1>2 DEF Refuse, SetDrain
<1>3. CASE Misfire(n, k)
  <2> DEFINE over == attempts[n][k] + 1 >= MaxAttempts
  <2>1. /\ drain' = [drain EXCEPT ![n] = Onward(drain[n], k, over)]
        /\ byHand' = IF over THEN byHand \cup {k} ELSE byHand
    BY <1>3 DEF Misfire, SetDrain
  <2>2. over \in BOOLEAN
    OBVIOUS
  <2> HIDE DEF over
  <2>3. over => Accounted(k)'
    BY <2>1 DEF Accounted
  <2> QED BY <2>1, <2>2, <2>3
<1> QED BY <1>1, <1>2, <1>3

\* The replay of an item.
LEMMA ApplyAccounts ==
  ASSUME IInv, IInv', Accountable, NEW n \in Nodes, ApplyPendingSettlement(n)
  PROVE  Accountable'
<1>0. /\ UNCHANGED <<stage, errors, parked, redis, memory, lost>>
      /\ applied \in [Requests -> [Resources -> Nat]]
      /\ applied' \in [Requests -> [Resources -> Nat]]
  BY DEF ApplyPendingSettlement, requestVars, nodeVars, IInv, TypeOK
<1>1. PICK k : \/ /\ drain[n].step = "pick" /\ k \in Upcoming(drain[n])
                  /\ IF k.kind = "log" THEN CountLogRows(n, k) ELSE ApplyPendingCharge(n, k)
               \/ drain[n].step = "insert" /\ k = drain[n].item /\ InsertLogRow(n, k)
  BY DEF ApplyPendingSettlement
<1>2. /\ k \in parked /\ k \in Items
      /\ drain[n] \in Drain /\ DrainOK(parked, drain[n])
      /\ drain[n].pc \in {"memory", "redis"} /\ drain[n].step # "dequeue"
      /\ drain[n].step = "insert" => k.kind = "log"
  BY <1>1, UpcomingFacts
<1>3. k.req \in Requests /\ Moves(k) \subseteq Resources
  BY <1>2, MovesFacts
<1>4. ASSUME NEW X, Hit(k.req, X) \/ UNCHANGED applied
      PROVE  /\ \A q \in Requests, x \in Resources : applied'[q][x] >= applied[q][x]
             /\ Hit(k.req, X) => \A x \in X \cap Resources : applied'[k.req][x] > 0
  <2>1. \A q \in Requests, x \in Resources : applied[q][x] \in Nat
    BY <1>0
  <2>2. CASE UNCHANGED applied /\ ~Hit(k.req, X)
    BY <2>1, <2>2
  <2>3. CASE Hit(k.req, X)
    <3>1. /\ \A q \in Requests : q # k.req => applied'[q] = applied[q]
          /\ \A x \in Resources : applied'[k.req][x] =
                                    IF x \in X THEN applied[k.req][x] + 1 ELSE applied[k.req][x]
      BY <1>0, <1>3, <2>3, HitFacts
    <3>2. ASSUME NEW q \in Requests, NEW x \in Resources PROVE applied'[q][x] >= applied[q][x]
      <4>1. CASE q = k.req
        BY <2>1, <3>1, <4>1
      <4>2. CASE q # k.req
        BY <2>1, <3>1, <4>2
      <4> QED BY <4>1, <4>2
    <3>3. ASSUME NEW x \in X \cap Resources PROVE applied'[k.req][x] > 0
      BY <1>3, <2>1, <3>1
    <3> QED BY <3>2, <3>3
  <2> QED BY <1>4, <2>2, <2>3
<1>5. ASSUME (Succeed(n, k) /\ Replayed(k)') \/ Refuse(n, k) \/ Misfire(n, k),
             \A q \in Requests, x \in Resources : applied'[q][x] >= applied[q][x]
      PROVE  Accountable'
  <2>1. PICK f \in BOOLEAN : /\ drain' = [drain EXCEPT ![n] = Onward(drain[n], k, f)]
                             /\ f => Accounted(k)'
    BY <1>2, <1>5, OutcomeAccounts
  <2>2. byHand \subseteq byHand'
    BY <1>2, <1>5, OutcomeAccounts
  <2>3. Grew
    BY <1>0, <1>5, <2>2 DEF Grew
  <2> QED BY <1>0, <1>2, <2>1, <2>3, ReplayAccounts
<1>6. CASE k.kind = "log" /\ CountLogRows(n, k)
  <2>1. Moves(k) = {"log"} /\ "log" \in Resources
    BY <1>6 DEF Moves, Resources
  <2>2. CASE /\ drain' = [drain EXCEPT ![n] = [drain[n] EXCEPT !.step = "insert", !.item = k]]
             /\ UNCHANGED <<applied, byHand>>
    <3> DEFINE e == [drain[n] EXCEPT !.step = "insert", !.item = k]
    <3>1. /\ e \in Drain /\ e.step = "insert" /\ e.done = drain[n].done
          /\ e.left = drain[n].left
      BY <1>2 DEF Drain
    <3>2. drain' = [drain EXCEPT ![n] = e]
      BY <2>2
    <3> HIDE DEF e
    <3>3. \A m \in Nodes : drain'[m].left = drain[m].left
      BY <1>2, <3>1, <3>2 DEF IInv, TypeOK
    <3>4. \A l \in Items : l \in Waiting => l \in Waiting'
      <4> TAKE l \in Items
      <4>1. l \in Waiting' <=>
               \/ l \in ToSet(redis')
               \/ \E m \in Nodes : \/ l \in memory'[m]
                                   \/ l \in drain'[m].left
        BY DEF Waiting
      <4>2. l \in Waiting <=>
               \/ l \in ToSet(redis)
               \/ \E m \in Nodes : \/ l \in memory[m]
                                   \/ l \in drain[m].left
        BY WaitingIs
      <4> QED BY <1>0, <3>3, <4>1, <4>2
    <3> QED BY <1>0, <2>2, <3>1, <3>2, <3>4, CarryAccounts
  <2>3. CASE /\ \/ Succeed(n, k) /\ applied[k.req]["log"] > 0
                \/ Refuse(n, k) \/ Misfire(n, k)
             /\ UNCHANGED applied
    <3>1. \A q \in Requests, x \in Resources : applied'[q][x] >= applied[q][x]
      BY <1>4, <2>3
    <3>2. applied[k.req]["log"] > 0 => Replayed(k)'
      BY <2>1, <2>3 DEF Replayed
    <3> QED BY <1>5, <2>3, <3>1, <3>2
  <2>4. Refuse(n, k) => UNCHANGED applied
    BY DEF Refuse
  <2> QED BY <1>6, <2>2, <2>3, <2>4 DEF CountLogRows, SetDrain
<1>7. CASE k.kind # "log" /\ ApplyPendingCharge(n, k)
  <2>1. /\ Hit(k.req, Moves(k)) \/ UNCHANGED applied
        /\ (Succeed(n, k) /\ k \in ledger') \/ Refuse(n, k) \/ Misfire(n, k)
    BY <1>7 DEF ApplyPendingCharge, Refuse
  <2>2. \A q \in Requests, x \in Resources : applied'[q][x] >= applied[q][x]
    BY <1>4, <2>1
  <2>3. k \in ledger' => Replayed(k)'
    <3>1. Charged(k.req)'
      BY <1>3 DEF IInv, ChargeOK
    <3>2. k = Item("charge", k.req) \/ k = Item("token", k.req)
      BY <1>2, <1>7, ItemFacts DEF Kinds
    <3>3. k \in parked'
      BY <1>0, <1>2
    <3>4. CASE k = Item("charge", k.req)
      BY <1>7, <3>1, <3>3, <3>4 DEF Charged, Replayed, Moves, Item
    <3>5. CASE k = Item("token", k.req)
      BY <1>7, <3>1, <3>3, <3>5 DEF Charged, Replayed, Moves, Item
    <3> QED BY <3>2, <3>4, <3>5
  <2> QED BY <1>5, <2>1, <2>2, <2>3
<1>8. CASE k.kind = "log" /\ InsertLogRow(n, k)
  <2>1. Moves(k) = {"log"} /\ "log" \in Resources
    BY <1>8 DEF Moves, Resources
  <2>2. /\ Hit(k.req, {"log"}) \/ UNCHANGED applied
        /\ (Succeed(n, k) /\ Hit(k.req, {"log"})) \/ Refuse(n, k) \/ Misfire(n, k)
    BY <1>8 DEF InsertLogRow, MaybeHit, Refuse
  <2>3. \A q \in Requests, x \in Resources : applied'[q][x] >= applied[q][x]
    BY <1>4, <2>2
  <2>4. Hit(k.req, {"log"}) => Replayed(k)'
    <3>1. Hit(k.req, {"log"}) => \A x \in {"log"} \cap Resources : applied'[k.req][x] > 0
      BY <1>4
    <3> QED BY <2>1, <3>1 DEF Replayed
  <2> QED BY <1>5, <2>2, <2>3, <2>4
<1> QED BY <1>1, <1>2, <1>6, <1>7, <1>8

LEMMA InitAccounts ==
  ASSUME Init
  PROVE  Accountable
<1>1. \A n \in Nodes : Hands(drain[n])
  BY DEF Init, Hands, Idle
<1>2. \A r \in Requests : Past(r)
  BY DEF Init, Past
<1> QED BY <1>1, <1>2 DEF Init, Accountable

LEMMA NextAccounts ==
  ASSUME IInv, FlushesOrdered, Accountable, [Next]_vars
  PROVE  Accountable'
<1>0. IInv'
  BY NextKeeps
<1>1. CASE \E r \in Requests : Settling(r)
  BY <1>0, <1>1, SettlingAccounts
<1>2. CASE \E r \in Requests, n \in Nodes : Serve(r, n)
  <2>1. /\ UNCHANGED <<applied, parked, redis, memory, byHand, errors, lost, drain>>
        /\ \A q \in Requests : stage'[q] = stage[q] \/ stage'[q] = "wallet"
    BY <1>2 DEF Serve, queueVars, nodeVars, IInv, TypeOK
  <2> QED BY <1>0, <2>1, NothingMoves
<1>3. CASE \E n \in Nodes : Working(n)
  <2>1. PICK n \in Nodes : Working(n)
    BY <1>3
  <2>2. CASE ApplyPendingSettlement(n)
    BY <1>0, <2>2, ApplyAccounts
  <2>3. CASE Exit(n)
    BY <1>0, <2>3, DownAccounts DEF Exit
  <2> QED BY <1>0, <2>1, <2>2, <2>3, PassAccounts DEF Working
<1>4. CASE \E n \in Nodes : Crash(n)
  BY <1>0, <1>4, DownAccounts DEF Crash
<1>5. CASE (\E n \in Nodes : Restart(n)) \/ Outage \/ Recover \/ UNCHANGED vars
  <2>1. UNCHANGED <<applied, parked, redis, memory, byHand, errors, lost, drain, stage>>
    BY <1>5 DEF Restart, Outage, Recover, vars, requestVars, queueVars, nodeVars
  <2> QED BY <1>0, <2>1, NothingMoves
<1>6. CASE \E n \in Nodes : Stop(n)
  BY <1>0, <1>6, StopAccounts
<1> QED BY <1>1, <1>2, <1>3, <1>4, <1>5, <1>6 DEF Next

\* A parked settlement is applied, waiting, written out in full or known to be
\* lost with a process, and a finished request has applied, parked or reported
\* everything it owed: for any number of nodes, crashes, outages, shutdowns and
\* lost replies (parkSettlement, DrainSettlementOutbox and the shutdown flush).
THEOREM OutboxKeepsTrack == Spec => []NothingVanishes
<1>1. Init => Accountable
  BY InitAccounts
<1>2. IInv /\ FlushesOrdered /\ Accountable /\ [Next]_vars => Accountable'
  BY NextAccounts
<1>3. Accountable => NothingVanishes
  <2> SUFFICES ASSUME Accountable PROVE NothingVanishes
    OBVIOUS
  <2>1. \A k \in parked : Replayed(k) \/ k \in Waiting \cup byHand \cup lost
    BY DEF Accountable, Accounted
  <2>2. ASSUME NEW r \in Requests, stage[r] = "done", NEW x \in Resources
        PROVE  Covered(r, x)
    BY <2>2 DEF Accountable, Past, Resources
  <2> QED BY <2>1, <2>2 DEF NothingVanishes, Covered
<1> QED BY <1>1, <1>2, <1>3, OutboxInvariant, FlushInvariance, PTL DEF Spec

-----------------------------------------------------------------------------
(* Setting aside *)

\* Every attempt a node remembers was a failure of the database.
FailuresCounted ==
  /\ \A n \in Nodes : \A k \in Items : attempts[n][k] <= faults
  /\ dead # {} => faults >= MaxAttempts

\* Replays count a failure as one attempt; nothing else does.
LEMMA NextCounts ==
  ASSUME IInv, FailuresCounted, [Next]_vars
  PROVE  FailuresCounted'
<1>0. /\ attempts \in [Nodes -> [Items -> Nat]] /\ faults \in Nat /\ MaxAttempts \in Nat
      /\ \A n \in Nodes : \A k \in Items : attempts[n][k] \in Nat
  BY SettlementOutboxAssumption DEF IInv, TypeOK
<1>1. CASE UNCHANGED <<attempts, dead>> /\ (faults' = faults \/ faults' = faults + 1)
  BY <1>0, <1>1 DEF FailuresCounted
<1>2. ASSUME NEW n \in Nodes, Down(n) PROVE FailuresCounted'
  <2>1. faults' = faults /\ dead' = dead
    BY <1>2 DEF Down
  <2>2. \A m \in Nodes : \A k \in Items : attempts'[m][k] = attempts[m][k] \/ attempts'[m][k] = 0
    BY <1>0, <1>2 DEF Down
  <2> QED BY <1>0, <2>1, <2>2 DEF FailuresCounted
<1>3. ASSUME NEW n \in Nodes, NEW k \in Items, Succeed(n, k), faults' = faults
      PROVE  FailuresCounted'
  <2>1. \A m \in Nodes : \A l \in Items : attempts'[m][l] = attempts[m][l] \/ attempts'[m][l] = 0
    BY <1>0, <1>3 DEF Succeed
  <2>2. dead' = dead
    BY <1>3 DEF Succeed
  <2> QED BY <1>0, <1>3, <2>1, <2>2 DEF FailuresCounted
<1>4. ASSUME NEW n \in Nodes, NEW k \in Items, Misfire(n, k), faults' = faults + 1
      PROVE  FailuresCounted'
  <2> DEFINE tries == attempts[n][k] + 1
  <2>1. \A m \in Nodes : \A l \in Items : attempts'[m][l] = attempts[m][l] \/ attempts'[m][l] = tries
    BY <1>0, <1>4 DEF Misfire
  <2>2. tries <= faults' /\ tries \in Nat
    BY <1>0, <1>4 DEF FailuresCounted
  <2>3. dead' = dead \/ tries >= MaxAttempts
    BY <1>4 DEF Misfire
  <2> HIDE DEF tries
  <2>4. \A m \in Nodes : \A l \in Items : attempts'[m][l] <= faults'
    BY <1>0, <1>4, <2>1, <2>2 DEF FailuresCounted
  <2>5. dead' # {} => faults' >= MaxAttempts
    BY <1>0, <1>4, <2>2, <2>3 DEF FailuresCounted
  <2> QED BY <2>4, <2>5 DEF FailuresCounted
<1>5. ASSUME NEW n \in Nodes, ApplyPendingSettlement(n) PROVE FailuresCounted'
  <2>1. PICK k : \/ /\ drain[n].step = "pick" /\ k \in Upcoming(drain[n])
                    /\ IF k.kind = "log" THEN CountLogRows(n, k) ELSE ApplyPendingCharge(n, k)
                 \/ drain[n].step = "insert" /\ k = drain[n].item /\ InsertLogRow(n, k)
    BY <1>5 DEF ApplyPendingSettlement
  <2>2. k \in Items
    BY <2>1, UpcomingFacts
  <2>3. \/ UNCHANGED <<attempts, dead, faults>>
        \/ Succeed(n, k) /\ faults' = faults
        \/ Misfire(n, k) /\ faults' = faults + 1
    BY <2>1 DEF CountLogRows, ApplyPendingCharge, InsertLogRow, MaybeHit, Refuse
  <2> QED BY <1>1, <1>3, <1>4, <2>2, <2>3
<1>6. CASE \E r \in Requests : Settling(r) \/ \E n \in Nodes : Serve(r, n)
  <2>1. UNCHANGED <<attempts, dead>> /\ (faults' = faults \/ faults' = faults + 1)
    BY <1>6 DEF Settling, SettleWallet, SettleToken, CreateConsumeLogDurably, Statement, MaybeHit,
                Serve, replayVars
  <2> QED BY <1>1, <2>1
<1>7. ASSUME NEW n \in Nodes, Working(n) PROVE FailuresCounted'
  <2>1. CASE Exit(n)
    BY <1>2, <2>1 DEF Exit
  <2>2. CASE ApplyPendingSettlement(n)
    BY <1>5, <2>2
  <2>3. CASE ~Exit(n) /\ ~ApplyPendingSettlement(n)
    <3>1. UNCHANGED <<attempts, dead, faults>>
      BY <1>7, <2>3 DEF Working, DrainSettlementOutbox, EndMemoryPass, ReadRedisOutbox, Dequeue,
                        EndRedisPass, TakeMemory, PushLeft, replayVars
    <3> QED BY <1>1, <3>1
  <2> QED BY <2>1, <2>2, <2>3
<1>8. CASE \E n \in Nodes : Crash(n)
  BY <1>2, <1>8 DEF Crash
<1>9. CASE \/ (\E n \in Nodes : Stop(n) \/ Restart(n)) \/ Outage \/ Recover \/ UNCHANGED vars
  <2>1. UNCHANGED <<attempts, dead, faults>>
    BY <1>9 DEF Stop, Restart, Outage, Recover, vars, replayVars
  <2> QED BY <1>1, <2>1
<1> QED BY <1>6, <1>7, <1>8, <1>9 DEF Next

\* An item is set aside only after as many failures of the database as
\* recordReplayFailure allows; refused connections, outages and restarts,
\* however many, set nothing aside.
THEOREM OutagesSetNothingAside == Spec => []SetAsideOnlyAfterFailures
<1>1. Init => FailuresCounted
  BY DEF Init, FailuresCounted
<1>2. IInv /\ FailuresCounted /\ [Next]_vars => FailuresCounted'
  BY NextCounts
<1>3. FailuresCounted => SetAsideOnlyAfterFailures
  BY DEF FailuresCounted, SetAsideOnlyAfterFailures
<1> QED BY <1>1, <1>2, <1>3, OutboxInvariant, PTL DEF Spec

-----------------------------------------------------------------------------
(* What an orderly shutdown leaves behind.  srv.Shutdown has waited for the *)
(* requests, so nothing is parked in the memory of a node that is stopping; *)
(* a late pass of its worker only takes items out of it; and so the memory  *)
(* the flush has taken stays empty until the process exits.                 *)

FlushOK(n) ==
  /\ mode[n] = "stopping" => \A r \in Requests : ~InFlight(r, n)
  /\ drain[n].flush = "push" => memory[n] = {}

Orderly == (\A n \in Nodes : FlushOK(n)) /\ ShutdownKeepsItems

\* No request parks anything on a node that runs its flush.
LEMMA SettlingIsOrderly ==
  ASSUME IInv, FlushesOrdered, Orderly, NEW r \in Requests, Settling(r)
  PROVE  Orderly'
<1> DEFINE h == home[r]
<1>1. h \in Nodes /\ InFlight(r, h)
  BY DEF Settling, SettleWallet, SettleToken, CreateConsumeLogDurably, Serving, InFlight
<1>2. UNCHANGED <<home, mode, drain, lost, crashes>>
  BY DEF Settling, SettleWallet, SettleToken, CreateConsumeLogDurably, nodeVars, worldVars
<1>3. \A m \in Nodes : m # h => memory'[m] = memory[m]
  BY DEF Settling, SettleWallet, SettleToken, CreateConsumeLogDurably, Statement, ParkSettlement,
         ParkInMemory, queueVars, IInv, TypeOK
<1>4. /\ \A q \in Requests : q # r => stage'[q] = stage[q]
      /\ drain \in [Nodes -> Drain] /\ mode \in [Nodes -> {"up", "stopping", "down"}]
  BY DEF Settling, SettleWallet, SettleToken, CreateConsumeLogDurably, Statement, IInv, TypeOK
<1>5. mode[h] # "stopping" /\ drain[h].flush = "off"
  BY <1>1 DEF Orderly, FlushOK, FlushesOrdered, FlushOrder
<1> HIDE DEF h
<1>6. ASSUME NEW m \in Nodes PROVE FlushOK(m)'
  <2>1. CASE m = h
    BY <1>2, <1>5, <2>1 DEF Orderly, FlushOK
  <2>2. CASE m # h
    BY <1>2, <1>3, <1>4, <2>2 DEF Orderly, FlushOK, InFlight, h
  <2> QED BY <2>1, <2>2
<1> QED BY <1>2, <1>6 DEF Orderly, ShutdownKeepsItems

\* A process goes down with empty hands, or by a crash.
LEMMA DownIsOrderly ==
  ASSUME IInv, Orderly, NEW n \in Nodes, Exit(n) \/ Crash(n)
  PROVE  Orderly'
<1>1. Down(n)
  BY DEF Exit, Crash
<1>2. /\ drain \in [Nodes -> Drain] /\ mode \in [Nodes -> {"up", "stopping", "down"}]
      /\ memory \in [Nodes -> SUBSET Items] /\ crashes \in Nat
  BY DEF IInv, TypeOK
<1>3. /\ mode'[n] = "down" /\ drain'[n] = Idle /\ memory'[n] = {} /\ home' = home
      /\ \A m \in Nodes : m # n => mode'[m] = mode[m] /\ drain'[m] = drain[m]
                                  /\ memory'[m] = memory[m]
  BY <1>1, <1>2 DEF Down
<1>4. \A q \in Requests : stage'[q] = stage[q] \/ stage'[q] = "gone"
  BY <1>1 DEF Down
<1>5. ASSUME NEW m \in Nodes PROVE FlushOK(m)'
  <2>1. CASE m = n
    BY <1>3, <2>1 DEF FlushOK, Idle
  <2>2. CASE m # n
    BY <1>3, <1>4, <2>2 DEF Orderly, FlushOK, InFlight
  <2> QED BY <2>1, <2>2
<1>6. ShutdownKeepsItems'
  <2>1. CASE Crash(n)
    BY <1>2, <2>1 DEF Crash, ShutdownKeepsItems
  <2>2. CASE Exit(n)
    <3>1. lost' = lost /\ crashes' = crashes
      BY <1>1, <2>2 DEF Exit, Down, Orderly, FlushOK
    <3> QED BY <3>1 DEF Orderly, ShutdownKeepsItems
  <2> QED BY <2>1, <2>2
<1> QED BY <1>5, <1>6 DEF Orderly

\* A pass only takes items out of the memory, a late one too, and the flush
\* leaves it empty.
LEMMA WorkingIsOrderly ==
  ASSUME IInv, FlushesOrdered, Orderly, NEW n \in Nodes, Working(n), ~Exit(n)
  PROVE  Orderly'
<1>1. /\ UNCHANGED <<home, stage, mode, lost, crashes>>
      /\ \A m \in Nodes : m # n => drain'[m] = drain[m] /\ memory'[m] = memory[m]
      /\ PassMoves(n) \/ PassBegins(n) \/ PassEnds(n) \/ FlushMoves(n)
  BY WorkingMoves
<1>2. FlushOK(n)
  BY DEF Orderly
<1>3. drain'[n].flush = "push" => memory'[n] = {}
  <2>1. CASE PassMoves(n)
    BY <1>2, <2>1 DEF FlushOK, PassMoves
  <2>2. CASE PassBegins(n)
    BY <1>2, <2>2 DEF FlushOK, PassBegins
  <2>3. CASE PassEnds(n)
    BY <1>2, <2>3 DEF FlushOK, PassEnds
  <2>4. CASE FlushMoves(n)
    BY <1>2, <2>4 DEF FlushOK, FlushMoves
  <2> QED BY <1>1, <2>1, <2>2, <2>3, <2>4
<1>4. ASSUME NEW m \in Nodes PROVE FlushOK(m)'
  <2>1. CASE m # n
    BY <1>1, <2>1 DEF Orderly, FlushOK, InFlight
  <2>2. CASE m = n
    BY <1>1, <1>2, <1>3, <2>2 DEF FlushOK, InFlight
  <2> QED BY <2>1, <2>2
<1> QED BY <1>1, <1>4 DEF Orderly, ShutdownKeepsItems

\* When srv.Shutdown waits for the requests (no Stragglers), only a crash
\* loses what is parked in the memory of a process: the flush of an orderly
\* shutdown (FlushSettlementOutboxOnShutdown) hands everything on.
THEOREM OrderlyShutdown == Spec => [](~Stragglers => ShutdownKeepsItems)
<1> DEFINE Inv == ~Stragglers => Orderly
<1>1. Init => Inv
  BY DEF Init, Orderly, FlushOK, ShutdownKeepsItems, Idle, InFlight
<1>2. IInv /\ FlushesOrdered /\ Inv /\ [Next]_vars => Inv'
  <2> SUFFICES ASSUME IInv, FlushesOrdered, Orderly, ~Stragglers, [Next]_vars PROVE Orderly'
    OBVIOUS
  <2>0. mode \in [Nodes -> {"up", "stopping", "down"}] /\ drain \in [Nodes -> Drain]
    BY DEF IInv, TypeOK
  <2>1. CASE \E r \in Requests : Settling(r)
    BY <2>1, SettlingIsOrderly
  <2>2. CASE \E r \in Requests : \E n \in Nodes : Serve(r, n)
    <3>1. PICK r \in Requests, n \in Nodes : Serve(r, n)
      BY <2>2
    <3>2. /\ UNCHANGED <<mode, drain, memory, lost, crashes>> /\ mode[n] = "up"
          /\ home'[r] = n /\ \A q \in Requests : q # r => home'[q] = home[q] /\ stage'[q] = stage[q]
      BY <3>1 DEF Serve, nodeVars, queueVars, worldVars, IInv, TypeOK
    <3> QED BY <3>2 DEF Orderly, FlushOK, InFlight, ShutdownKeepsItems
  <2>3. CASE \E n \in Nodes : Working(n) \/ Crash(n)
    BY <2>3, DownIsOrderly, WorkingIsOrderly
  <2>4. CASE \E n \in Nodes : Stop(n)
    <3>1. PICK n \in Nodes : Stop(n)
      BY <2>4
    <3>2. /\ UNCHANGED <<stage, home, memory, lost, crashes>>
          /\ mode' = [mode EXCEPT ![n] = "stopping"] /\ \A r \in Requests : ~InFlight(r, n)
      BY <3>1 DEF Stop, requestVars, queueVars
    <3>3. PICK d \in Drain : drain' = [drain EXCEPT ![n] = d] /\ d.flush = "wait"
      BY <2>0, <3>1, StopFacts
    <3>4. /\ drain'[n].flush = "wait" /\ \A m \in Nodes : m # n => drain'[m] = drain[m]
          /\ \A m \in Nodes : m # n => mode'[m] = mode[m]
      BY <2>0, <3>2, <3>3
    <3> QED BY <3>2, <3>4 DEF Orderly, FlushOK, InFlight, ShutdownKeepsItems
  <2>5. CASE \E n \in Nodes : Restart(n)
    <3>1. PICK n \in Nodes : Restart(n)
      BY <2>5
    <3>2. /\ UNCHANGED <<stage, home, drain, memory, lost, crashes>>
          /\ mode' = [mode EXCEPT ![n] = "up"] /\ mode[n] = "down"
      BY <3>1 DEF Restart, requestVars, queueVars, worldVars
    <3> QED BY <2>0, <3>2 DEF Orderly, FlushOK, InFlight, ShutdownKeepsItems
  <2>6. CASE Outage \/ Recover \/ UNCHANGED vars
    <3>1. UNCHANGED <<stage, home, mode, drain, memory, lost, crashes>>
      BY <2>6 DEF Outage, Recover, vars, requestVars, queueVars, nodeVars
    <3> QED BY <3>1 DEF Orderly, FlushOK, InFlight, ShutdownKeepsItems
  <2> QED BY <2>1, <2>2, <2>3, <2>4, <2>5, <2>6 DEF Next
<1>3. Inv => (~Stragglers => ShutdownKeepsItems)
  BY DEF Orderly
<1> QED BY <1>1, <1>2, <1>3, OutboxInvariant, FlushInvariance, PTL DEF Spec

-----------------------------------------------------------------------------
(* One log row per request.  A replay looks for the row and inserts it in   *)
(* two statements, so this rests on no two passes having the same item in   *)
(* hand: every item waits in one place only, the memory of a node is read   *)
(* by that node, and the Redis list by the master.  A late pass breaks it:  *)
(* it holds a copy of the memory that the flush of its node pushes to Redis *)
(* (settlement_outbox.go, 495-528), where the master finds it.              *)

\* One process is the master, a Redis command that fails has not run, and no
\* worker begins a pass after its node began to stop.
SingleReplay == ~LostReplies /\ ~LatePasses /\ \A m, n \in Masters : m = n

Distinct(s) == \A i, j \in DOMAIN s : s[i] = s[j] => i = j

Holds(n, k) == k \in memory[n] \/ k \in drain[n].left

OnePlace ==
  /\ Distinct(redis)
  /\ \A n \in Nodes, k \in Items : Holds(n, k) =>
       k \notin ToSet(redis) /\ \A m \in Nodes : Holds(m, k) => m = n
  /\ \A n \in Nodes : memory[n] \cap drain[n].left = {}

\* A pass has in hand what still waits in the place it reads.
PassOK(n) ==
  LET d == drain[n]
  IN /\ d.pc \in {"lrange", "redis"} => n \in Masters
     /\ d.pc = "memory" => /\ d.todo \subseteq memory[n]
                           /\ d.step # "pick" => d.item \in memory[n]
     /\ d.pc = "redis" => /\ Distinct(d.raws) /\ ToSet(d.raws) \subseteq ToSet(redis)
                          /\ d.step # "pick" => d.item = Head(d.raws)

\* Between its two statements the row is not there.
InsertOK(n) == drain[n].step = "insert" => applied[drain[n].item.req]["log"] = 0

\* Before the last statement of a request nobody has written its row.
LogOK(r) ==
  /\ applied[r]["log"] <= 1
  /\ stage[r] \in {"new", "wallet", "token", "log"} =>
       applied[r]["log"] = 0 /\ Item("log", r) \notin parked

Logged ==
  /\ OnePlace
  /\ \A n \in Nodes : PassOK(n) /\ InsertOK(n)
  /\ \A r \in Requests : LogOK(r)

\* Lists without repetition stay so.
LEMMA DistinctAppend ==
  ASSUME NEW P, NEW s \in Seq(P), NEW k \in P, Distinct(s), k \notin ToSet(s)
  PROVE  Distinct(Append(s, k))
<1> DEFINE a == Append(s, k)
<1>1. /\ Len(s) \in Nat /\ DOMAIN s = 1 .. Len(s) /\ DOMAIN a = 1 .. Len(s) + 1
      /\ a[Len(s) + 1] = k /\ \A i \in 1 .. Len(s) : a[i] = s[i]
  BY AppendProperties, LenProperties
<1> HIDE DEF a
<1>2. \A i \in 1 .. Len(s) : s[i] # k
  BY <1>1 DEF ToSet
<1>3. \A i \in 1 .. Len(s) + 1 : i \in 1 .. Len(s) \/ i = Len(s) + 1
  BY <1>1
<1>4. Distinct(a)
  BY <1>1, <1>2, <1>3 DEF Distinct
<1> QED BY <1>4 DEF a

LEMMA DistinctRemove ==
  ASSUME NEW P, NEW s \in Seq(P), NEW i \in DOMAIN s, Distinct(s)
  PROVE  Distinct(RemoveAt(s, i))
<1> DEFINE c == RemoveAt(s, i)
           n == Len(s)
<1>1. n \in Nat /\ DOMAIN s = 1 .. n
  BY LenProperties
<1>2. /\ DOMAIN c = 1 .. n - 1
      /\ \A j \in 1 .. n - 1 : c[j] = IF j < i THEN s[j] ELSE s[j + 1]
  BY RemoveAtIs
<1> HIDE DEF c, n
<1>3. ASSUME NEW j \in 1 .. n - 1, NEW l \in 1 .. n - 1, c[j] = c[l] PROVE j = l
  <2>1. i \in 1 .. n /\ j \in 1 .. n /\ l \in 1 .. n /\ j + 1 \in 1 .. n /\ l + 1 \in 1 .. n
    BY <1>1
  <2>2. CASE j < i /\ l < i
    BY <1>1, <1>2, <1>3, <2>1, <2>2 DEF Distinct
  <2>3. CASE j >= i /\ l >= i
    <3>1. s[j + 1] = s[l + 1]
      BY <1>2, <1>3, <2>1, <2>3
    <3>2. j + 1 = l + 1
      BY <1>1, <2>1, <3>1 DEF Distinct
    <3> QED BY <2>1, <3>2
  <2>4. CASE j < i /\ l >= i
    <3>1. s[j] = s[l + 1]
      BY <1>2, <1>3, <2>1, <2>4
    <3>2. j = l + 1
      BY <1>1, <2>1, <3>1 DEF Distinct
    <3> QED BY <2>1, <2>4, <3>2
  <2>5. CASE j >= i /\ l < i
    <3>1. s[j + 1] = s[l]
      BY <1>2, <1>3, <2>1, <2>5
    <3>2. j + 1 = l
      BY <1>1, <2>1, <3>1 DEF Distinct
    <3> QED BY <2>1, <2>5, <3>2
  <2> QED BY <2>1, <2>2, <2>3, <2>4, <2>5
<1>4. Distinct(c)
  BY <1>2, <1>3 DEF Distinct
<1> QED BY <1>4 DEF c

LEMMA DistinctTail ==
  ASSUME NEW P, NEW s \in Seq(P), s # <<>>, Distinct(s)
  PROVE  /\ Distinct(Tail(s)) /\ Head(s) \in ToSet(s)
         /\ ToSet(Tail(s)) \subseteq ToSet(s) \ {Head(s)}
<1> DEFINE c == Tail(s)
           n == Len(s)
<1>1. n \in Nat /\ DOMAIN s = 1 .. n /\ n > 0 /\ Head(s) = s[1]
  BY LenProperties, HeadTailProperties, EmptySeq
<1>2. DOMAIN c = 1 .. n - 1 /\ \A j \in 1 .. n - 1 : c[j] = s[j + 1]
  BY LenProperties, HeadTailProperties
<1> HIDE DEF c, n
<1>3. \A j \in 1 .. n - 1 : j \in Int /\ j + 1 \in 1 .. n /\ j + 1 # 1
  BY <1>1
<1>4. Distinct(c)
  <2> SUFFICES ASSUME NEW j \in 1 .. n - 1, NEW l \in 1 .. n - 1, c[j] = c[l] PROVE j = l
    BY <1>2 DEF Distinct
  <2>1. j + 1 = l + 1
    BY <1>1, <1>2, <1>3 DEF Distinct
  <2> QED BY <2>1, <1>3
<1>5. 1 \in 1 .. n
  BY <1>1
<1>6. Head(s) \in ToSet(s)
  BY <1>1, <1>5 DEF ToSet
<1>7. ToSet(c) \subseteq ToSet(s) \ {Head(s)}
  <2> SUFFICES ASSUME NEW j \in 1 .. n - 1 PROVE c[j] \in ToSet(s) /\ c[j] # Head(s)
    BY <1>2 DEF ToSet
  <2>1. c[j] = s[j + 1] /\ j + 1 \in 1 .. n /\ j + 1 # 1
    BY <1>2, <1>3
  <2>2. c[j] # s[1]
    BY <1>1, <1>5, <2>1 DEF Distinct
  <2> QED BY <1>1, <2>1, <2>2 DEF ToSet
<1> QED BY <1>4, <1>6, <1>7 DEF c

LEMMA DistinctPrefix ==
  ASSUME NEW P, NEW s \in Seq(P), NEW b \in Nat, b <= Len(s), Distinct(s)
  PROVE  Distinct(SubSeq(s, 1, b)) /\ ToSet(SubSeq(s, 1, b)) \subseteq ToSet(s)
<1> DEFINE c == SubSeq(s, 1, b)
<1>1. Len(s) \in Nat /\ DOMAIN s = 1 .. Len(s) /\ \A j \in 1 .. Len(s) : s[j] \in P
  BY LenProperties, ElementOfSeq
<1>2. /\ c \in Seq(P) /\ Len(c) = b /\ \A j \in 1 .. b : c[j] = s[j]
  <2>1. \A j \in 1 .. b : s[j] \in P
    BY <1>1
  <2>2. /\ c \in Seq(P) /\ Len(c) = IF 1 <= b THEN b - 1 + 1 ELSE 0
        /\ \A j \in 1 .. b - 1 + 1 : c[j] = s[1 + j - 1]
    BY <2>1, SubSeqProperties
  <2> QED BY <2>2
<1>3. DOMAIN c = 1 .. b
  BY <1>2, LenProperties
<1> HIDE DEF c
<1>4. \A j \in 1 .. b : j \in 1 .. Len(s)
  BY <1>1
<1>5. Distinct(c) /\ ToSet(c) \subseteq ToSet(s)
  BY <1>1, <1>2, <1>3, <1>4 DEF Distinct, ToSet
<1> QED BY <1>5 DEF c

\* Items that are taken away, or change hands in one node, wait in one place.
LEMMA PlacesKept ==
  ASSUME IInv, OnePlace, Distinct(redis'), ToSet(redis') \subseteq ToSet(redis),
         \A m \in Nodes, k \in Items : Holds(m, k)' => Holds(m, k),
         \A m \in Nodes : memory'[m] \cap drain'[m].left = {}
  PROVE  OnePlace'
<1>1. \A n \in Nodes, k \in Items : Holds(n, k)' =>
        k \notin ToSet(redis') /\ \A m \in Nodes : Holds(m, k)' => m = n
  BY DEF OnePlace
<1>2. Distinct(redis)'
  BY DEF Distinct
<1> QED BY <1>1, <1>2 DEF OnePlace

\* A request parks what was never parked before: it was nowhere.
LEMMA ParkOnce ==
  ASSUME IInv, SingleReplay, OnePlace, \A m \in Nodes : PassOK(m),
         NEW n \in Nodes, NEW k \in Items, k \notin parked, ParkSettlement(n, k), drain' = drain
  PROVE  OnePlace' /\ \A m \in Nodes : PassOK(m)'
<1>1. /\ redis \in Seq(Items) /\ redis \in Seq(parked) /\ memory \in [Nodes -> SUBSET Items]
      /\ drain \in [Nodes -> Drain] /\ parked \subseteq Items
      /\ \A m \in Nodes : memory[m] \subseteq parked /\ drain[m].left \subseteq parked
  BY DEF IInv, TypeOK, QueueOK, DrainOK
<1>2. k \notin ToSet(redis) /\ \A m \in Nodes : ~Holds(m, k)
  <2>1. DOMAIN redis = 1 .. Len(redis) /\ \A i \in 1 .. Len(redis) : redis[i] \in parked
    BY <1>1, LenProperties, ElementOfSeq
  <2>2. k \notin ToSet(redis)
    BY <2>1 DEF ToSet
  <2> QED BY <1>1, <2>2 DEF Holds
<1>3. CASE redis' = Append(redis, k) /\ memory' = memory
  <2>1. ToSet(redis') = ToSet(redis) \cup {k} /\ Distinct(redis')
    BY <1>1, <1>2, <1>3, AppendToSet, DistinctAppend DEF OnePlace
  <2>2. \A m \in Nodes, j \in Items : Holds(m, j)' <=> Holds(m, j)
    BY <1>3 DEF Holds
  <2>3. OnePlace'
    <3>1. \A m \in Nodes, j \in Items : Holds(m, j)' =>
            j \notin ToSet(redis') /\ \A l \in Nodes : Holds(l, j)' => l = m
      BY <1>2, <2>1, <2>2 DEF OnePlace
    <3> QED BY <1>3, <2>1, <3>1 DEF OnePlace, Distinct
  <2>4. \A m \in Nodes : PassOK(m)'
    BY <1>3, <2>1 DEF PassOK, Distinct
  <2> QED BY <2>3, <2>4
<1>4. CASE redis' = redis /\ memory' = [memory EXCEPT ![n] = @ \cup {k}]
  <2>1. /\ memory'[n] = memory[n] \cup {k} /\ \A m \in Nodes : m # n => memory'[m] = memory[m]
    BY <1>1, <1>4
  <2>2. \A m \in Nodes, j \in Items : Holds(m, j)' <=> (Holds(m, j) \/ (m = n /\ j = k))
    BY <2>1 DEF Holds
  <2>3. OnePlace'
    <3>1. \A m \in Nodes, j \in Items : Holds(m, j)' =>
            j \notin ToSet(redis) /\ \A l \in Nodes : Holds(l, j)' => l = m
      BY <1>2, <2>2 DEF OnePlace
    <3>2. \A m \in Nodes : memory'[m] \cap drain[m].left = {}
      BY <1>1, <2>1 DEF OnePlace
    <3> QED BY <1>4, <3>1, <3>2 DEF OnePlace, Distinct
  <2>4. \A m \in Nodes : PassOK(m)'
    <3>1. \A m \in Nodes : memory[m] \subseteq memory'[m]
      BY <2>1
    <3> QED BY <1>4, <3>1 DEF PassOK, Distinct
  <2> QED BY <2>3, <2>4
<1>5. CASE redis' = redis /\ memory' = memory
  <2>1. OnePlace'
    BY <1>5 DEF OnePlace, Holds, Distinct
  <2> QED BY <1>5, <2>1 DEF PassOK, Distinct
<1>6. \/ redis' = Append(redis, k) /\ memory' = memory
      \/ redis' = redis /\ ParkInMemory(n, k)
  BY DEF ParkSettlement, SingleReplay
<1> QED BY <1>3, <1>4, <1>5, <1>6 DEF ParkInMemory

\* The request path: a request that writes its own row has parked none.
LEMMA SettlingLogs ==
  ASSUME IInv, SingleReplay, Logged, NEW r \in Requests, Settling(r)
  PROVE  Logged'
<1> DEFINE l == Item("log", r)
<1>0. /\ applied \in [Requests -> [Resources -> Nat]] /\ drain \in [Nodes -> Drain]
      /\ stage \in [Requests -> {"new", "wallet", "token", "log", "done", "gone"}]
      /\ Charged(r) /\ LogOK(r) /\ home[r] \in Nodes /\ drain' = drain
  BY DEF IInv, TypeOK, ChargeOK, Logged, Settling, SettleWallet, SettleToken,
         CreateConsumeLogDurably, Serving
<1>1. PICK k \in {Item("charge", r), Item("token", r), l}, x \in {"wallet", "token", "log"},
           a \in {"token", "log", "done"}, b \in {"token", "log", "done"} :
        /\ Statement(r, {x}, k, a, b) /\ k \notin parked
        /\ stage[r] \in {"wallet", "token", "log"}
        /\ (k = l \/ x = "log" \/ a = "done" \/ b = "done") => 
             k = l /\ x = "log" /\ a = "done" /\ b = "done" /\ stage[r] = "log"
  <2>1. CASE SettleWallet(r)
    <3>1. /\ Statement(r, {"wallet"}, Item("charge", r), "token", "log")
          /\ Item("charge", r) \notin parked /\ stage[r] = "wallet" /\ Item("charge", r) # l
      BY <1>0, <2>1, ItemFacts DEF SettleWallet, Serving, Charged, Kinds
    <3> QED BY <3>1
  <2>2. CASE SettleToken(r)
    <3>1. /\ Statement(r, {"token"}, Item("token", r), "log", "log")
          /\ Item("token", r) \notin parked /\ stage[r] = "token" /\ Item("token", r) # l
      BY <1>0, <2>2, ItemFacts DEF SettleToken, Serving, Charged, Kinds
    <3> QED BY <3>1
  <2>3. CASE CreateConsumeLogDurably(r)
    <3>1. /\ Statement(r, {"log"}, l, "done", "done") /\ l \notin parked /\ stage[r] = "log"
      BY <1>0, <2>3 DEF CreateConsumeLogDurably, Serving, LogOK
    <3> QED BY <3>1
  <2> QED BY <2>1, <2>2, <2>3 DEF Settling
<1>2. k \in Items /\ k.req = r /\ l \in Items /\ l.kind = "log" /\ l.req = r
  BY ItemFacts DEF Kinds
<1> HIDE DEF l
<1>3. /\ stage' = [stage EXCEPT ![r] = a] \/ stage' = [stage EXCEPT ![r] = b]
      /\ \A q \in Requests : q # r => applied'[q] = applied[q]
      /\ parked' = parked \/ (parked' = parked \cup {k} /\ applied' = applied)
      /\ \/ applied' = applied
         \/ \A y \in Resources :
              applied'[r][y] = IF y \in {x} THEN applied[r][y] + 1 ELSE applied[r][y]
  <2> DEFINE X == {x}
  <2>1. Statement(r, X, k, a, b) /\ k \in Items /\ home[r] \in Nodes
    BY <1>0, <1>1, <1>2
  <2> HIDE DEF X
  <2>2. /\ stage' = [stage EXCEPT ![r] = a] \/ stage' = [stage EXCEPT ![r] = b]
        /\ \A q \in Requests : q # r => applied'[q] = applied[q]
        /\ \/ /\ stage' = [stage EXCEPT ![r] = a] /\ parked' = parked
              /\ \A y \in Resources :
                   applied'[r][y] = IF y \in X THEN applied[r][y] + 1 ELSE applied[r][y]
           \/ /\ stage' = [stage EXCEPT ![r] = b] /\ parked' = parked
              /\ \/ applied' = applied
                 \/ \A y \in Resources :
                      applied'[r][y] = IF y \in X THEN applied[r][y] + 1 ELSE applied[r][y]
           \/ /\ stage' = [stage EXCEPT ![r] = b] /\ parked' = parked \cup {k}
              /\ applied' = applied
    BY ONLY IInv, <2>1, StatementFacts
  <2> QED BY <2>2 DEF X
<1>4. \A q \in Requests : q # r => stage'[q] = stage[q]
  BY <1>0, <1>3
<1>5. stage'[r] \in {a, b}
  BY <1>0, <1>3
<1>6. applied[r]["log"] = 0 /\ l \notin parked
  BY <1>0, <1>1 DEF LogOK, l
<1>7. applied'[r]["log"] = 0 \/ (x = "log" /\ applied'[r]["log"] = 1)
  BY <1>3, <1>6 DEF Resources
<1>8. ASSUME NEW q \in Requests PROVE LogOK(q)'
  <2>1. CASE q = r
    <3>1. applied'[r]["log"] <= 1
      BY <1>7
    <3>2. stage'[r] # "done" => applied'[r]["log"] = 0 /\ l \notin parked'
      BY <1>1, <1>3, <1>5, <1>6, <1>7
    <3> QED BY <2>1, <3>1, <3>2 DEF LogOK, l
  <2>2. CASE q # r
    <3>1. Item("log", q) # k
      BY <1>2, <2>2, ItemFacts DEF Kinds
    <3>2. applied'[q] = applied[q] /\ stage'[q] = stage[q] /\ LogOK(q)
      BY <1>3, <1>4, <2>2 DEF Logged
    <3> QED BY <1>3, <3>1, <3>2 DEF LogOK
  <2> QED BY <2>1, <2>2
<1>9. ASSUME NEW m \in Nodes PROVE InsertOK(m)'
  <2> SUFFICES ASSUME drain[m].step = "insert" PROVE applied'[drain[m].item.req]["log"] = 0
    BY <1>0 DEF InsertOK
  <2>1. /\ drain[m].item \in parked /\ drain[m].item.kind = "log" /\ drain[m].item \in Items
        /\ applied[drain[m].item.req]["log"] = 0
    BY DEF IInv, TypeOK, QueueOK, DrainOK, Logged, InsertOK
  <2>2. drain[m].item.req # r /\ drain[m].item.req \in Requests
    BY <1>6, <2>1, ItemFacts DEF l
  <2> QED BY <1>3, <2>1, <2>2
<1>10. OnePlace' /\ \A m \in Nodes : PassOK(m)'
  <2>1. ParkSettlement(home[r], k) \/ UNCHANGED <<redis, memory>>
    BY <1>1 DEF Statement, queueVars
  <2>2. CASE ParkSettlement(home[r], k)
    BY <1>0, <1>1, <1>2, <2>2, ParkOnce DEF Logged
  <2>3. CASE UNCHANGED <<redis, memory>>
    BY <1>0, <2>3 DEF Logged, OnePlace, Holds, Distinct, PassOK
  <2> QED BY <2>1, <2>2, <2>3
<1> QED BY <1>8, <1>9, <1>10 DEF Logged

\* A step of the pass of node n that applies nothing.
LEMMA CarryLogs ==
  ASSUME IInv, SingleReplay, Logged, NEW n \in Nodes, NEW d, drain' = [drain EXCEPT ![n] = d],
         d.step # "insert", \A m \in Nodes : m # n => memory'[m] = memory[m],
         UNCHANGED <<stage, applied, parked>>, OnePlace', PassOK(n)',
         ToSet(redis) \subseteq ToSet(redis') \/ n \in Masters
  PROVE  Logged'
<1>1. drain'[n] = d /\ \A m \in Nodes : m # n => drain'[m] = drain[m]
  BY DEF IInv, TypeOK
<1>2. ASSUME NEW m \in Nodes, m # n PROVE PassOK(m)'
  <2>1. PassOK(m) /\ drain'[m] = drain[m] /\ memory'[m] = memory[m]
    BY <1>1, <1>2 DEF Logged
  <2>2. drain[m].pc = "redis" => ToSet(redis) \subseteq ToSet(redis')
    BY <1>2, <2>1 DEF PassOK, SingleReplay
  <2> QED BY <2>1, <2>2 DEF PassOK, Distinct
<1>3. \A m \in Nodes : InsertOK(m)'
  BY <1>1 DEF Logged, InsertOK
<1>4. \A r \in Requests : LogOK(r)'
  BY DEF Logged, LogOK
<1> QED BY <1>2, <1>3, <1>4 DEF Logged

LEMMA PassLogs ==
  ASSUME IInv, FlushesOrdered, SingleReplay, Logged, NEW n \in Nodes,
         \/ DrainSettlementOutbox(n) \/ EndMemoryPass(n) \/ ReadRedisOutbox(n)
         \/ Dequeue(n) \/ EndRedisPass(n) \/ TakeMemory(n) \/ \E k \in Items : PushLeft(n, k)
  PROVE  Logged'
<1> USE DEF queueVars, requestVars
<1>0. /\ drain[n] \in Drain /\ drain \in [Nodes -> Drain] /\ DrainOK(parked, drain[n])
      /\ redis \in Seq(Items) /\ memory \in [Nodes -> SUBSET Items] /\ PassOK(n) /\ OnePlace
      /\ Finished(drain[n]).pc = "idle" /\ Finished(drain[n]).step = "pick"
      /\ Finished(drain[n]).left = drain[n].left
  BY FinishedFacts DEF IInv, TypeOK, QueueOK, Logged
<1>1. ASSUME NEW d, drain' = [drain EXCEPT ![n] = d]
      PROVE  drain'[n] = d /\ \A m \in Nodes : m # n => drain'[m] = drain[m]
  BY <1>0, <1>1
<1>2. ASSUME NEW d, drain' = [drain EXCEPT ![n] = d], d.left = drain[n].left,
             \A m \in Nodes : memory'[m] \subseteq memory[m],
             Distinct(redis'), ToSet(redis') \subseteq ToSet(redis)
      PROVE  OnePlace'
  <2>1. \A m \in Nodes : drain'[m].left = drain[m].left
    BY <1>1, <1>2
  <2>2. \A m \in Nodes, k \in Items : Holds(m, k)' => Holds(m, k)
    BY <1>2, <2>1 DEF Holds
  <2>3. \A m \in Nodes : memory'[m] \cap drain'[m].left = {}
    BY <1>0, <1>2, <2>1 DEF OnePlace
  <2> QED BY <1>0, <1>2, <2>2, <2>3, PlacesKept
<1>3. Distinct(redis)
  BY <1>0 DEF OnePlace
<1>4. CASE DrainSettlementOutbox(n)
  <2>0. PICK d \in Drain :
           /\ drain' = [drain EXCEPT ![n] = d] /\ drain[n].pc = "idle" /\ d.pc = "memory"
           /\ d.todo = memory[n] /\ d.step = drain[n].step /\ d.left = drain[n].left
    BY <1>0, <1>4, BeganFacts
  <2>1. drain' = [drain EXCEPT ![n] = d] /\ UNCHANGED <<stage, applied, parked, redis, memory>>
    BY <1>4, <2>0 DEF DrainSettlementOutbox
  <2>2. d.pc = "memory" /\ d.step = "pick" /\ d.todo = memory[n] /\ d.left = drain[n].left
    BY <1>0, <2>0 DEF DrainOK
  <2>3. OnePlace'
    BY <1>2, <1>3, <2>1, <2>2
  <2>4. PassOK(n)'
    BY <1>1, <2>1, <2>2 DEF PassOK
  <2> QED BY <2>1, <2>2, <2>3, <2>4, CarryLogs
<1>5. CASE EndMemoryPass(n)
  <2> DEFINE e == [drain[n] EXCEPT !.pc = "lrange", !.done = {}]
             d == IF RedisEnabled /\ n \in Masters THEN e ELSE Finished(drain[n])
  <2>1. /\ drain' = [drain EXCEPT ![n] = d] /\ drain[n].pc = "memory" /\ drain[n].step = "pick"
        /\ UNCHANGED <<stage, applied, parked, redis>>
        /\ memory' = [memory EXCEPT ![n] = @ \ drain[n].done]
    BY <1>5 DEF EndMemoryPass, SetDrain, KeepUnfinished
  <2>2. /\ d.pc \in {"lrange", "idle"} /\ d.step = "pick" /\ d.left = drain[n].left
        /\ d.pc = "lrange" => n \in Masters
    <3>1. e.pc = "lrange" /\ e.step = "pick" /\ e.left = drain[n].left
      BY <1>0, <2>1 DEF Drain
    <3> HIDE DEF e
    <3> QED BY <1>0, <3>1
  <2> HIDE DEF d
  <2>3. \A m \in Nodes : memory'[m] \subseteq memory[m] /\ (m # n => memory'[m] = memory[m])
    BY <1>0, <2>1
  <2>4. OnePlace'
    BY <1>2, <1>3, <2>1, <2>2, <2>3
  <2>5. PassOK(n)'
    BY <1>1, <2>1, <2>2 DEF PassOK
  <2> QED BY <2>1, <2>2, <2>3, <2>4, <2>5, CarryLogs
<1>6. CASE ReadRedisOutbox(n)
  <2> DEFINE s == IF Len(redis) <= Batch THEN redis ELSE SubSeq(redis, 1, Batch)
             e == [drain[n] EXCEPT !.pc = "redis", !.raws = s]
             d == IF ~redisUp THEN Finished(drain[n]) ELSE e
  <2>1. /\ drain' = [drain EXCEPT ![n] = d] /\ drain[n].pc = "lrange"
        /\ UNCHANGED <<stage, applied, parked, redis, memory>>
    BY <1>6 DEF ReadRedisOutbox, SetDrain
  <2>2. Distinct(s) /\ ToSet(s) \subseteq ToSet(redis)
    <3>1. Len(redis) \in Nat /\ Batch \in Nat
      BY <1>0, LenProperties, SettlementOutboxAssumption
    <3>2. Len(redis) > Batch => /\ Distinct(SubSeq(redis, 1, Batch))
                                /\ ToSet(SubSeq(redis, 1, Batch)) \subseteq ToSet(redis)
      BY <1>0, <1>3, <3>1, DistinctPrefix
    <3> QED BY <1>3, <3>1, <3>2
  <2> HIDE DEF s
  <2>3. n \in Masters /\ drain[n].step = "pick"
    BY <1>0, <2>1 DEF PassOK, DrainOK
  <2>4. e.pc = "redis" /\ e.step = "pick" /\ e.raws = s /\ e.left = drain[n].left
    BY <1>0, <2>3 DEF Drain
  <2>6. /\ d.pc \in {"redis", "idle"} /\ d.step = "pick" /\ d.left = drain[n].left
        /\ d.pc = "redis" => d.raws = s
    <3> HIDE DEF e
    <3> QED BY <1>0, <2>4
  <2> HIDE DEF d
  <2>7. OnePlace'
    BY <1>2, <1>3, <2>1, <2>6
  <2>8. PassOK(n)'
    BY <1>1, <2>1, <2>2, <2>3, <2>6 DEF PassOK, Distinct
  <2> QED BY <2>1, <2>3, <2>6, <2>7, <2>8, CarryLogs
<1>7. CASE Dequeue(n)
  <2> DEFINE w == drain[n].raws
             d == [drain[n] EXCEPT !.raws = Tail(w), !.step = "pick", !.item = NoItem]
  <2>1. /\ drain' = [drain EXCEPT ![n] = d] /\ drain[n].pc = "redis" /\ drain[n].step = "dequeue"
        /\ UNCHANGED <<stage, applied, parked, memory>>
    BY <1>7 DEF Dequeue, SetDrain
  <2>2. /\ n \in Masters /\ w \in Seq(Items) /\ w # <<>> /\ Distinct(w)
        /\ ToSet(w) \subseteq ToSet(redis) /\ drain[n].item = Head(w)
    BY <1>0, <2>1 DEF PassOK, DrainOK, Drain
  <2>3. Distinct(Tail(w)) /\ ToSet(Tail(w)) \subseteq ToSet(w) \ {Head(w)}
    BY <2>2, DistinctTail
  <2>4. d.pc = "redis" /\ d.step = "pick" /\ d.raws = Tail(w) /\ d.left = drain[n].left
    BY <1>0, <2>1 DEF Drain
  <2>5. redis' = redis \/ \E i \in DOMAIN redis : redis[i] = Head(w) /\ redis' = RemoveAt(redis, i)
    BY <1>7, <2>2 DEF Dequeue
  <2>6. /\ Distinct(redis') /\ ToSet(redis') \subseteq ToSet(redis)
        /\ ToSet(redis) \ {Head(w)} \subseteq ToSet(redis')
    BY <1>0, <1>3, <2>5, RemoveFromSet, DistinctRemove
  <2> HIDE DEF d, w
  <2>7. OnePlace'
    BY <1>2, <2>1, <2>4, <2>6
  <2>8. PassOK(n)'
    <3>1. ToSet(Tail(w)) \subseteq ToSet(redis')
      BY <2>2, <2>3, <2>6
    <3> DEFINE v == Tail(w)
    <3>2. /\ drain'[n].pc = "redis" /\ drain'[n].step = "pick" /\ drain'[n].raws = v
          /\ n \in Masters /\ Distinct(v) /\ ToSet(v) \subseteq ToSet(redis')
      BY <1>1, <2>1, <2>2, <2>3, <2>4, <3>1
    <3> HIDE DEF v
    <3> QED BY <3>2 DEF PassOK, Distinct
  <2> QED BY <2>1, <2>2, <2>4, <2>7, <2>8, CarryLogs
<1>8. CASE EndRedisPass(n)
  <2> DEFINE d == Finished(drain[n])
  <2>1. /\ drain' = [drain EXCEPT ![n] = d] /\ drain[n].pc = "redis"
        /\ UNCHANGED <<stage, applied, parked, redis, memory>>
    BY <1>8 DEF EndRedisPass, SetDrain
  <2>2. d.pc = "idle" /\ d.step = "pick" /\ d.left = drain[n].left
    BY <1>0
  <2> HIDE DEF d
  <2>3. OnePlace'
    BY <1>2, <1>3, <2>1, <2>2
  <2>4. PassOK(n)'
    BY <1>1, <2>1, <2>2 DEF PassOK
  <2> QED BY <2>1, <2>2, <2>3, <2>4, CarryLogs
<1>9. CASE TakeMemory(n)
  <2> DEFINE d == [drain[n] EXCEPT !.flush = "push", !.left = memory[n]]
  <2>1. /\ drain' = [drain EXCEPT ![n] = d] /\ drain[n].flush = "take"
        /\ UNCHANGED <<stage, applied, parked, redis>> /\ memory' = [memory EXCEPT ![n] = {}]
    BY <1>9 DEF TakeMemory, SetDrain
  <2>2. d.pc = "idle" /\ d.step = "pick" /\ d.left = memory[n]
    <3>1. drain[n].pc = "idle" /\ drain[n].step = "pick"
      BY <1>0, <2>1 DEF FlushesOrdered, FlushOrder, SingleReplay, DrainOK
    <3> QED BY <1>0, <3>1 DEF Drain
  <2> HIDE DEF d
  <2>3. memory'[n] = {} /\ \A m \in Nodes : m # n => memory'[m] = memory[m]
    BY <1>0, <2>1
  <2>4. \A m \in Nodes, k \in Items : Holds(m, k)' => Holds(m, k)
    BY <1>1, <2>1, <2>2, <2>3 DEF Holds
  <2>5. \A m \in Nodes : memory'[m] \cap drain'[m].left = {}
    BY <1>0, <1>1, <2>1, <2>3 DEF OnePlace
  <2>6. OnePlace'
    BY <1>0, <1>3, <2>1, <2>4, <2>5, PlacesKept
  <2>7. PassOK(n)'
    BY <1>1, <2>1, <2>2 DEF PassOK
  <2> QED BY <2>1, <2>2, <2>3, <2>6, <2>7, CarryLogs
<1>10. CASE \E k \in Items : PushLeft(n, k)
  <2>1. PICK k \in Items : PushLeft(n, k)
    BY <1>10
  <2> DEFINE d == [drain[n] EXCEPT !.left = drain[n].left \ {k}]
  <2>2. /\ drain' = [drain EXCEPT ![n] = d] /\ drain[n].flush = "push" /\ k \in drain[n].left
        /\ UNCHANGED <<stage, applied, parked, memory>>
        /\ redis' = redis \/ redis' = Append(redis, k)
    BY <2>1 DEF PushLeft, SetDrain
  <2>3. d.pc = "idle" /\ d.step = "pick" /\ d.left = drain[n].left \ {k}
    <3>1. drain[n].pc = "idle" /\ drain[n].step = "pick"
      BY <1>0, <2>2 DEF FlushesOrdered, FlushOrder, SingleReplay, DrainOK
    <3> QED BY <1>0, <3>1 DEF Drain
  <2> HIDE DEF d
  <2>4. /\ k \notin ToSet(redis) /\ k \notin memory[n]
        /\ \A m \in Nodes : Holds(m, k) => m = n
    BY <1>0, <2>2 DEF OnePlace, Holds
  <2>5. Distinct(redis') /\ ToSet(redis) \subseteq ToSet(redis')
                         /\ ToSet(redis') \subseteq ToSet(redis) \cup {k}
    <3>1. /\ Distinct(Append(redis, k))
          /\ ToSet(Append(redis, k)) = ToSet(redis) \cup {k}
      BY <1>0, <1>3, <2>4, AppendToSet, DistinctAppend
    <3> QED BY <1>3, <2>2, <3>1
  <2>6. \A m \in Nodes, j \in Items : Holds(m, j)' => Holds(m, j) /\ j # k
    BY <1>1, <2>2, <2>3, <2>4 DEF Holds
  <2>7. \A m \in Nodes : memory'[m] \cap drain'[m].left = {}
    BY <1>0, <1>1, <2>2, <2>3 DEF OnePlace
  <2>8. OnePlace'
    <3>1. \A m \in Nodes, j \in Items : Holds(m, j)' =>
            j \notin ToSet(redis') /\ \A l \in Nodes : Holds(l, j)' => l = m
      BY <1>0, <2>5, <2>6 DEF OnePlace
    <3> QED BY <2>5, <2>7, <3>1 DEF OnePlace, Distinct
  <2>9. PassOK(n)'
    BY <1>1, <2>2, <2>3 DEF PassOK
  <2> QED BY <2>2, <2>3, <2>5, <2>8, <2>9, CarryLogs
<1> QED BY <1>4, <1>5, <1>6, <1>7, <1>8, <1>9, <1>10

\* What a replay does to the pass and to the log rows.
LEMMA ReplaySteps ==
  ASSUME IInv, NEW n \in Nodes, ApplyPendingSettlement(n)
  PROVE  \E k :
           /\ \/ drain[n].step = "pick" /\ k \in Upcoming(drain[n])
              \/ drain[n].step = "insert" /\ k = drain[n].item
           /\ \/ \E f \in BOOLEAN : drain' = [drain EXCEPT ![n] = Onward(drain[n], k, f)]
              \/ /\ drain' = [drain EXCEPT ![n] = [drain[n] EXCEPT !.step = "insert", !.item = k]]
                 /\ applied[k.req]["log"] = 0 /\ applied' = applied
           /\ \/ applied' = applied
              \/ k.kind # "log" /\ Hit(k.req, Moves(k))
              \/ drain[n].step = "insert" /\ Hit(k.req, {"log"})
<1>1. PICK k : \/ /\ drain[n].step = "pick" /\ k \in Upcoming(drain[n])
                  /\ IF k.kind = "log" THEN CountLogRows(n, k) ELSE ApplyPendingCharge(n, k)
               \/ drain[n].step = "insert" /\ k = drain[n].item /\ InsertLogRow(n, k)
  BY DEF ApplyPendingSettlement
<1> DEFINE over == attempts[n][k] + 1 >= MaxAttempts
           goes(f) == drain' = [drain EXCEPT ![n] = Onward(drain[n], k, f)]
<1>2. Succeed(n, k) \/ Refuse(n, k) \/ Misfire(n, k) => \E f \in BOOLEAN : goes(f)
  <2>1. Misfire(n, k) => goes(over)
    BY DEF Misfire, SetDrain
  <2>2. over \in BOOLEAN
    OBVIOUS
  <2> HIDE DEF over
  <2>3. Succeed(n, k) \/ Refuse(n, k) => goes(TRUE) \/ goes(FALSE)
    BY DEF Succeed, Refuse, SetDrain
  <2> HIDE DEF goes
  <2> QED BY <2>1, <2>2, <2>3
<1>3. CASE drain[n].step = "pick" /\ k \in Upcoming(drain[n]) /\ k.kind = "log" /\ CountLogRows(n, k)
  <2>1. /\ applied' = applied
        /\ \/ Succeed(n, k) \/ Refuse(n, k) \/ Misfire(n, k)
           \/ /\ drain' = [drain EXCEPT ![n] = [drain[n] EXCEPT !.step = "insert", !.item = k]]
              /\ applied[k.req]["log"] = 0
    BY <1>3 DEF CountLogRows, Refuse, SetDrain
  <2> QED BY <1>2, <1>3, <2>1
<1>4. CASE /\ drain[n].step = "pick" /\ k \in Upcoming(drain[n]) /\ k.kind # "log"
           /\ ApplyPendingCharge(n, k)
  <2>1. /\ applied' = applied \/ Hit(k.req, Moves(k))
        /\ Succeed(n, k) \/ Refuse(n, k) \/ Misfire(n, k)
    BY <1>4 DEF ApplyPendingCharge, Refuse
  <2> QED BY <1>2, <1>4, <2>1
<1>5. CASE drain[n].step = "insert" /\ k = drain[n].item /\ InsertLogRow(n, k)
  <2>1. /\ applied' = applied \/ Hit(k.req, {"log"})
        /\ Succeed(n, k) \/ Refuse(n, k) \/ Misfire(n, k)
    BY <1>5 DEF InsertLogRow, Refuse, MaybeHit
  <2> QED BY <1>2, <1>5, <2>1
<1> QED BY <1>1, <1>3, <1>4, <1>5

\* The item in hand waits where the pass found it, so no other pass has it.
LEMMA ApplyLogs ==
  ASSUME IInv, SingleReplay, Logged, NEW n \in Nodes, ApplyPendingSettlement(n)
  PROVE  Logged'
<1>0. /\ drain \in [Nodes -> Drain] /\ applied \in [Requests -> [Resources -> Nat]]
      /\ UNCHANGED <<stage, parked, redis, memory>> /\ OnePlace /\ PassOK(n)
  BY DEF IInv, TypeOK, Logged, ApplyPendingSettlement, requestVars
<1>1. PICK k :
           /\ \/ drain[n].step = "pick" /\ k \in Upcoming(drain[n])
              \/ drain[n].step = "insert" /\ k = drain[n].item
           /\ \/ \E f \in BOOLEAN : drain' = [drain EXCEPT ![n] = Onward(drain[n], k, f)]
              \/ /\ drain' = [drain EXCEPT ![n] = [drain[n] EXCEPT !.step = "insert", !.item = k]]
                 /\ applied[k.req]["log"] = 0 /\ applied' = applied
           /\ \/ applied' = applied
              \/ k.kind # "log" /\ Hit(k.req, Moves(k))
              \/ drain[n].step = "insert" /\ Hit(k.req, {"log"})
  BY ReplaySteps
<1>2. /\ k \in parked /\ k \in Items /\ drain[n] \in Drain
      /\ drain[n].pc \in {"memory", "redis"}
      /\ drain[n].pc = "redis" => drain[n].raws # <<>>
      /\ drain[n].step = "insert" => k.kind = "log"
  BY <1>1, UpcomingFacts
<1>3. k.req \in Requests /\ k = Item(k.kind, k.req)
  BY <1>2, ItemFacts
<1> DEFINE w == drain[n].raws
<1>4. drain[n].pc = "redis" =>
        /\ Distinct(w) /\ Distinct(Tail(w)) /\ ToSet(w) \subseteq ToSet(redis)
        /\ ToSet(Tail(w)) \subseteq ToSet(redis) /\ Head(w) \in ToSet(redis)
  <2> SUFFICES ASSUME drain[n].pc = "redis"
               PROVE  /\ Distinct(w) /\ Distinct(Tail(w)) /\ ToSet(w) \subseteq ToSet(redis)
                      /\ ToSet(Tail(w)) \subseteq ToSet(redis) /\ Head(w) \in ToSet(redis)
    OBVIOUS
  <2>1. w \in Seq(Items) /\ w # <<>> /\ Distinct(w) /\ ToSet(w) \subseteq ToSet(redis)
    BY <1>0, <1>2 DEF PassOK, Drain
  <2>2. /\ Distinct(Tail(w)) /\ Head(w) \in ToSet(w)
        /\ ToSet(Tail(w)) \subseteq ToSet(w) \ {Head(w)}
    BY <2>1, DistinctTail
  <2> QED BY <2>1, <2>2
<1>5. /\ drain[n].pc = "memory" => k \in memory[n]
      /\ drain[n].pc = "redis" => k = Head(w) /\ k \in ToSet(redis) /\ n \in Masters
  BY <1>0, <1>1, <1>2, <1>4 DEF PassOK, Upcoming
<1>6. /\ drain'[n].pc = drain[n].pc /\ drain'[n].left = drain[n].left
      /\ \A m \in Nodes : m # n => drain'[m] = drain[m]
  <2>1. ASSUME NEW f PROVE /\ Onward(drain[n], k, f).pc = drain[n].pc
                           /\ Onward(drain[n], k, f).left = drain[n].left
    BY <1>2 DEF Onward, Drain
  <2>2. /\ [drain[n] EXCEPT !.step = "insert", !.item = k].pc = drain[n].pc
        /\ [drain[n] EXCEPT !.step = "insert", !.item = k].left = drain[n].left
    BY <1>2 DEF Drain
  <2> QED BY <1>0, <1>1, <2>1, <2>2
<1>7. OnePlace'
  <2>1. \A m \in Nodes : drain'[m].left = drain[m].left
    BY <1>6
  <2>2. \A m \in Nodes, j \in Items : Holds(m, j)' => Holds(m, j)
    BY <1>0, <2>1 DEF Holds
  <2>3. \A m \in Nodes : memory'[m] \cap drain'[m].left = {}
    BY <1>0, <2>1 DEF OnePlace
  <2> QED BY <1>0, <2>2, <2>3, PlacesKept DEF OnePlace
<1>8. ASSUME NEW m \in Nodes, m # n PROVE PassOK(m)'
  BY <1>0, <1>6, <1>8 DEF Logged, PassOK, Distinct
<1>9. PassOK(n)' /\ (drain'[n].step = "insert" => /\ drain'[n].item = k /\ applied' = applied
                                                  /\ applied[k.req]["log"] = 0)
  <2> DEFINE e == drain'[n]
  <2>1. \/ e.step = "insert" /\ e.item = k /\ e.pc = drain[n].pc /\ e.todo = drain[n].todo
           /\ e.raws = w /\ applied' = applied /\ applied[k.req]["log"] = 0
        \/ e.pc = "memory" /\ e.step = "pick" /\ e.todo = drain[n].todo \ {k}
        \/ e.pc = "redis" /\ e.step = "dequeue" /\ e.item = k /\ e.raws = w
        \/ e.pc = "redis" /\ e.step = "pick" /\ e.raws = Tail(w)
    <3>1. CASE /\ drain' = [drain EXCEPT ![n] = [drain[n] EXCEPT !.step = "insert", !.item = k]]
               /\ applied[k.req]["log"] = 0 /\ applied' = applied
      <4>1. e = [drain[n] EXCEPT !.step = "insert", !.item = k]
        BY <1>0, <3>1
      <4> HIDE DEF e
      <4> QED BY <1>2, <3>1, <4>1 DEF Drain
    <3>2. CASE \E f \in BOOLEAN : drain' = [drain EXCEPT ![n] = Onward(drain[n], k, f)]
      <4>1. PICK f \in BOOLEAN : e = Onward(drain[n], k, f)
        BY <1>0, <3>2
      <4> HIDE DEF e
      <4> QED BY <1>2, <4>1 DEF Onward, Drain
    <3> QED BY <1>1, <3>1, <3>2
  <2>2. /\ e.pc \in {"memory", "redis"} /\ e.pc = drain[n].pc
        /\ e.pc = "redis" => n \in Masters
    BY <1>2, <1>5, <1>6
  <2>3. e.pc = "memory" => /\ e.todo \subseteq memory[n]
                           /\ e.step # "pick" => e.item \in memory[n]
    BY <1>0, <1>5, <2>1, <2>2 DEF PassOK
  <2>4. e.pc = "redis" => /\ Distinct(e.raws) /\ ToSet(e.raws) \subseteq ToSet(redis)
                          /\ e.step # "pick" => e.item = Head(e.raws)
    BY <1>4, <1>5, <2>1, <2>2
  <2>5. PassOK(n)'
    BY <1>0, <2>2, <2>3, <2>4 DEF PassOK, Distinct
  <2> QED BY <2>1, <2>5
<1>10. ASSUME NEW m \in Nodes, m # n, drain[m].step = "insert"
       PROVE  drain[m].item # k
  <2>1. PassOK(m) /\ drain[m].pc \in {"memory", "redis"}
    BY <1>10 DEF Logged, IInv, QueueOK, DrainOK
  <2>2. CASE drain[m].pc = "memory"
    <3>1. drain[m].item \in memory[m]
      BY <1>10, <2>1, <2>2 DEF PassOK
    <3> QED BY <1>0, <1>2, <1>5, <1>10, <3>1 DEF OnePlace, Holds
  <2>3. CASE drain[m].pc = "redis"
    <3>1. /\ m \in Masters /\ drain[m].item = Head(drain[m].raws)
          /\ ToSet(drain[m].raws) \subseteq ToSet(redis) /\ Distinct(drain[m].raws)
      BY <1>10, <2>1, <2>3 DEF PassOK
    <3>2. drain[m].raws \in Seq(Items) /\ drain[m].raws # <<>>
      BY <1>0, <1>10, <2>3 DEF IInv, QueueOK, DrainOK, Drain
    <3>3. drain[m].item \in ToSet(redis)
      BY <3>1, <3>2, DistinctTail
    <3>4. CASE drain[n].pc = "redis"
      BY <1>5, <1>10, <3>1, <3>4 DEF SingleReplay
    <3>5. CASE drain[n].pc = "memory"
      BY <1>0, <1>2, <1>5, <3>3, <3>5 DEF OnePlace, Holds
    <3> QED BY <1>2, <3>4, <3>5
  <2> QED BY <2>1, <2>2, <2>3
<1>11. /\ \A q \in Requests : applied'[q]["log"] = applied[q]["log"]
                              \/ (q = k.req /\ drain[n].step = "insert")
       /\ drain[n].step = "insert" => applied[k.req]["log"] = 0 /\ applied'[k.req]["log"] <= 1
  <2>1. drain[n].step = "insert" => applied[k.req]["log"] = 0
    BY <1>1 DEF Logged, InsertOK
  <2>2. \A X : Hit(k.req, X) =>
          /\ \A q \in Requests : q # k.req => applied'[q] = applied[q]
          /\ \A x \in Resources : applied'[k.req][x] = IF x \in X THEN applied[k.req][x] + 1
                                                      ELSE applied[k.req][x]
    BY <1>0, <1>3, HitFacts
  <2>3. k.kind # "log" => "log" \notin Moves(k)
    BY <1>2, ItemFacts DEF Moves, Items, Kinds
  <2>4. CASE applied' = applied
    BY <2>1, <2>4
  <2>5. CASE k.kind # "log" /\ Hit(k.req, Moves(k))
    <3>1. drain[n].step # "insert"
      BY <1>2, <2>5
    <3>2. \A q \in Requests : applied'[q]["log"] = applied[q]["log"]
      BY <2>2, <2>3, <2>5 DEF Resources
    <3> QED BY <3>1, <3>2
  <2>6. CASE drain[n].step = "insert" /\ Hit(k.req, {"log"})
    BY <2>1, <2>2, <2>6 DEF Resources
  <2> QED BY <1>1, <2>4, <2>5, <2>6
<1>12. ASSUME NEW m \in Nodes PROVE InsertOK(m)'
  <2>1. CASE m = n
    BY <1>9, <2>1 DEF InsertOK
  <2>2. CASE m # n
    <3> SUFFICES ASSUME drain[m].step = "insert" PROVE applied'[drain[m].item.req]["log"] = 0
      BY <1>6, <2>2 DEF InsertOK
    <3>1. /\ drain[m].item \in Items /\ drain[m].item.kind = "log" /\ drain[m].item # k
          /\ applied[drain[m].item.req]["log"] = 0
      BY <1>10, <2>2 DEF IInv, TypeOK, QueueOK, DrainOK, Logged, InsertOK
    <3>2. /\ drain[m].item = Item("log", drain[m].item.req) /\ drain[m].item.req \in Requests
      BY <3>1, ItemFacts
    <3>3. drain[n].step = "insert" => drain[m].item.req # k.req
      BY <1>2, <1>3, <3>1, <3>2
    <3> QED BY <1>11, <3>1, <3>2, <3>3
  <2> QED BY <2>1, <2>2
<1>13. ASSUME NEW q \in Requests PROVE LogOK(q)'
  <2>1. LogOK(q)
    BY DEF Logged
  <2>2. CASE q = k.req /\ drain[n].step = "insert"
    <3>1. Item("log", q) \in parked
      BY <1>2, <1>3, <2>2
    <3> QED BY <1>0, <1>11, <2>1, <2>2, <3>1 DEF LogOK
  <2>3. CASE ~(q = k.req /\ drain[n].step = "insert")
    BY <1>0, <1>11, <2>1, <2>3 DEF LogOK
  <2> QED BY <2>2, <2>3
<1> QED BY <1>7, <1>8, <1>9, <1>12, <1>13 DEF Logged

\* A process that ends takes its hands and its memory with it.
LEMMA DownLogs ==
  ASSUME IInv, SingleReplay, Logged, NEW n \in Nodes, Down(n)
  PROVE  Logged'
<1>1. /\ drain \in [Nodes -> Drain] /\ memory \in [Nodes -> SUBSET Items] /\ OnePlace
      /\ UNCHANGED <<applied, parked, redis>>
  BY DEF IInv, TypeOK, Logged, Down
<1>2. /\ drain'[n] = Idle /\ memory'[n] = {}
      /\ \A m \in Nodes : m # n => drain'[m] = drain[m] /\ memory'[m] = memory[m]
  BY <1>1 DEF Down
<1>3. Idle.pc = "idle" /\ Idle.step = "pick" /\ Idle.left = {}
  BY DEF Idle
<1>4. \A r \in Requests : stage'[r] = stage[r] \/ stage'[r] = "gone"
  BY DEF Down
<1> HIDE DEF Idle
<1>5. OnePlace'
  <2>1. \A m \in Nodes, k \in Items : Holds(m, k)' => Holds(m, k)
    BY <1>2, <1>3 DEF Holds
  <2>2. \A m \in Nodes : memory'[m] \cap drain'[m].left = {}
    BY <1>1, <1>2 DEF OnePlace
  <2> QED BY <1>1, <2>1, <2>2, PlacesKept DEF OnePlace
<1>6. \A m \in Nodes : PassOK(m)' /\ InsertOK(m)'
  <2> TAKE m \in Nodes
  <2>1. CASE m = n
    BY <1>2, <1>3, <2>1 DEF PassOK, InsertOK
  <2>2. CASE m # n
    <3>1. PassOK(m) /\ InsertOK(m) /\ drain'[m] = drain[m] /\ memory'[m] = memory[m]
      BY <1>2, <2>2 DEF Logged
    <3> QED BY <1>1, <3>1 DEF PassOK, InsertOK, Distinct
  <2> QED BY <2>1, <2>2
<1>7. \A r \in Requests : LogOK(r)'
  BY <1>1, <1>4 DEF Logged, LogOK
<1> QED BY <1>5, <1>6, <1>7 DEF Logged

\* The signal to stop leaves the pass of its node as it is.
LEMMA StopLogs ==
  ASSUME IInv, Logged, NEW n \in Nodes, Stop(n)
  PROVE  Logged'
<1>0. drain \in [Nodes -> Drain]
  BY DEF IInv, TypeOK
<1>1. PICK d \in Drain :
         /\ drain' = [drain EXCEPT ![n] = d] /\ d.pc = drain[n].pc /\ d.todo = drain[n].todo
         /\ d.raws = drain[n].raws /\ d.step = drain[n].step /\ d.item = drain[n].item
         /\ d.left = drain[n].left
  BY <1>0, StopFacts
<1>2. UNCHANGED <<stage, applied, parked, redis, memory>>
  BY DEF Stop, requestVars, queueVars
<1>3. \A m \in Nodes :
        /\ drain'[m].pc = drain[m].pc /\ drain'[m].todo = drain[m].todo
        /\ drain'[m].raws = drain[m].raws /\ drain'[m].step = drain[m].step
        /\ drain'[m].item = drain[m].item /\ drain'[m].left = drain[m].left
  BY <1>0, <1>1
<1>4. OnePlace'
  BY <1>2, <1>3 DEF Logged, OnePlace, Holds, Distinct
<1>5. ASSUME NEW m \in Nodes PROVE PassOK(m)' /\ InsertOK(m)'
  BY <1>2, <1>3 DEF Logged, PassOK, InsertOK, Distinct
<1> QED BY <1>2, <1>4, <1>5 DEF Logged, LogOK

\* With a single master, a Redis that does not lose replies and no worker that
\* looked at settlementOutbox.stopped before the shutdown and begins its pass
\* after it, every request gets at most one consume log row, however requests,
\* passes, flushes, crashes and outages interleave (applyPendingLog counts and
\* inserts in two statements).  Without any one of the three it may get two.
THEOREM OneLogRow == Spec => [](SingleReplay => LoggedAtMostOnce)
<1> DEFINE Inv == SingleReplay => Logged
<1>1. Init => Inv
  <2> SUFFICES ASSUME Init PROVE Logged
    OBVIOUS
  <2>1. redis = <<>> /\ \A n \in Nodes : drain[n] = Idle /\ memory[n] = {}
    BY DEF Init
  <2>2. Distinct(redis) /\ ToSet(redis) = {}
    BY <2>1, EmptySeq DEF Distinct, ToSet
  <2>3. Idle.pc = "idle" /\ Idle.step = "pick" /\ Idle.left = {}
    BY DEF Idle
  <2>4. OnePlace /\ \A n \in Nodes : PassOK(n) /\ InsertOK(n)
    BY <2>1, <2>2, <2>3 DEF OnePlace, Holds, PassOK, InsertOK
  <2>5. \A r \in Requests : LogOK(r)
    BY DEF Init, LogOK, Resources
  <2> QED BY <2>4, <2>5 DEF Logged
<1>2. IInv /\ FlushesOrdered /\ Inv /\ [Next]_vars => Inv'
  <2> SUFFICES ASSUME IInv, FlushesOrdered, Logged, SingleReplay, [Next]_vars PROVE Logged'
    BY DEF SingleReplay
  <2>1. CASE \E r \in Requests : Settling(r)
    BY <2>1, SettlingLogs
  <2>2. CASE \E n \in Nodes : Working(n) \/ Crash(n)
    BY <2>2, PassLogs, ApplyLogs, DownLogs DEF Working, Exit, Crash
  <2>3. ASSUME UNCHANGED <<applied, parked, redis, memory, drain>>,
               \A r \in Requests : stage'[r] = stage[r] \/ (stage[r] = "new" /\ stage'[r] = "wallet")
        PROVE  Logged'
    BY <2>3 DEF Logged, OnePlace, Holds, Distinct, PassOK, InsertOK, LogOK
  <2>4. CASE \E r \in Requests : \E n \in Nodes : Serve(r, n)
    BY <2>3, <2>4 DEF Serve, queueVars, IInv, TypeOK
  <2>5. CASE \E n \in Nodes : Restart(n)
    BY <2>3, <2>5 DEF Restart, requestVars, queueVars
  <2>6. CASE Outage \/ Recover \/ UNCHANGED vars
    BY <2>3, <2>6 DEF Outage, Recover, vars, requestVars, queueVars
  <2>7. CASE \E n \in Nodes : Stop(n)
    BY <2>7, StopLogs
  <2> QED BY <2>1, <2>2, <2>4, <2>5, <2>6, <2>7 DEF Next
<1>3. Inv => (SingleReplay => LoggedAtMostOnce)
  BY DEF Logged, LogOK, LoggedAtMostOnce
<1> QED BY <1>1, <1>2, <1>3, OutboxInvariant, FlushInvariance, PTL DEF Spec
=============================================================================
