------------------------- MODULE UserSessionProofs -------------------------
(***************************************************************************)
(* Proofs about UserSession, for every number of requests and all times to *)
(* live.  The invariant has a part for the shared state (Shared), a part   *)
(* for every request by itself (Local), and CreatedOnce, which relates two *)
(* requests.  The heart of it are two facts.  A snapshot that no longer is *)
(* what the row says ends within CacheTTL of the row's change: its         *)
(* deadline was taken before the row was read.  And a deny entry that was  *)
(* published at time t keeps active entries out up to t + CacheTTL         *)
(* (Wall), by when every snapshot older than t has run out.                *)
(* A second invariant on top of it (Races) is about refreshes that race    *)
(* for one rotation: the grace window of the rotation that overtook a      *)
(* refresh began after the refresh was sent, less what the rotation took.  *)
(***************************************************************************)
EXTENDS UserSession, TLAPS

USE DEF NoGen, NoTime

\* Active entries are kept out until t + CacheTTL or the end of the session.
Wall(t) ==
    LET end == Min2(t + CacheTTL, ExpiresAt)
    IN  \/ Denied /\ cache.until >= end
        \/ now >= end

Outdated(version) == row.status # "active" \/ row.version # version

Shared ==
    /\ now \in Nat /\ user \in Nat /\ row \in Row /\ cache \in Entry
    /\ began \in Nat /\ sealed \in BOOLEAN /\ slow \in Nat
    /\ row.changedAt <= now /\ began <= now
    /\ cache.status = "active" => /\ cache.until <= now + CacheTTL
                                  /\ cache.until <= ExpiresAt
    /\ cache.status = "active" /\ Outdated(cache.version)
          => cache.until <= row.changedAt + CacheTTL
    /\ row.status = "revoked" => Wall(began)
    /\ row.status = "revoked" /\ sealed => Wall(row.changedAt)
    /\ row.status \in {"none", "active"} => ~sealed
    /\ row.prev # NoGen => row.refresh = row.prev + 1

Local(h) ==
    /\ h \in Handler
    /\ h.deadline <= now + CacheTTL
    /\ h.at <= now
    /\ h.pc \in {"cas", "fill", "written"} /\ Outdated(h.version)
          => h.deadline <= row.changedAt + CacheTTL
    /\ h.pc = "commit" => Wall(h.at)
    /\ h.pc = "tombstone" => row.status \notin {"none", "active"}
    /\ h.pc = "insert" => row.status = "none"
    /\ h.pc \notin {"idle", "insert"} => row.status # "none"

CreatedOnce ==
    \A p, q \in Handlers : handler[p].pc = "insert" /\ p # q => handler[q].pc = "idle"

IInv ==
    /\ Shared
    /\ DOMAIN handler = Handlers
    /\ handler = [p \in Handlers |-> handler[p]]
    /\ \A p \in Handlers : Local(handler[p])
    /\ CreatedOnce

-----------------------------------------------------------------------------
(* Steps that leave the shared state alone.                                 *)

shared == <<now, user, row, cache, began, sealed, slow>>

\* The records of idle requests have their type.
LEMMA IdleLocal == Shared => Local(Idle)
  BY ConstantsAssumption DEF Shared, Local, Idle, Handler, Ops, Pcs, Outdated

\* A request that is neither writing nor inserting is right by itself.
LEMMA QuietLocal ==
    ASSUME NEW g \in Handler, g.deadline <= now + CacheTTL, g.at <= now,
           g.pc \notin {"cas", "fill", "written", "commit", "tombstone", "insert"},
           row.status # "none"
    PROVE  Local(g)
  BY DEF Local

\* A request about to write what it has just read is right by itself.
LEMMA ReaderLocal ==
    ASSUME NEW g \in Handler, g.deadline = now + CacheTTL, g.at <= now, Shared,
           g.pc \in {"cas", "fill"}, ~Outdated(g.version)
    PROVE  Local(g)
  BY ConstantsAssumption DEF Local, Shared, Outdated

\* A step that only gives request p another record, one that is right by
\* itself and is not about to insert, keeps the invariant.
LEMMA RequestStep ==
    ASSUME IInv, NEW p \in Handlers, NEW g, UNCHANGED shared,
           handler' = [handler EXCEPT ![p] = g], Local(g), g.pc # "insert",
           g.pc = "idle" \/ row.status # "none"
    PROVE  IInv'
  <1>1. Shared' = Shared /\ \A h : Local(h)' = Local(h)
    BY DEF shared, Shared, Local, Wall, Denied, Entered, Outdated
  <1>2. DOMAIN handler' = Handlers /\ handler' = [q \in Handlers |-> handler'[q]]
    BY DEF IInv
  <1>3. \A q \in Handlers : handler'[q] = IF q = p THEN g ELSE handler[q]
    BY DEF IInv
  <1>4. \A q \in Handlers : Local(handler'[q])
    BY <1>3 DEF IInv
  <1>5. CreatedOnce'
    <2> SUFFICES ASSUME NEW a \in Handlers, NEW b \in Handlers,
                        handler'[a].pc = "insert", a # b
                 PROVE  handler'[b].pc = "idle"
      BY DEF CreatedOnce
    <2>1. a # p /\ handler[a].pc = "insert"
      BY <1>3
    <2>2. handler[b].pc = "idle" /\ row.status = "none"
      BY <2>1 DEF IInv, CreatedOnce, Local
    <2> QED BY <1>3, <2>1, <2>2
  <1> QED BY <1>1, <1>2, <1>4, <1>5 DEF IInv

\* The same for a request that ends.
LEMMA DoneStep ==
    ASSUME IInv, NEW p \in Handlers, UNCHANGED shared, Done(p)
    PROVE  IInv'
  <1>1. Local(Idle)
    BY IdleLocal DEF IInv
  <1> QED BY <1>1, RequestStep DEF Done, Idle

\* What a request knows once it has read the row.
Reader(h, pc) == [[Snapshot(h) EXCEPT !.deadline = now + CacheTTL] EXCEPT !.pc = pc]

LEMMA ReaderFields ==
    ASSUME NEW h \in Handler, row \in Row, now \in Nat, NEW pc \in Pcs
    PROVE  LET g == Reader(h, pc) IN
           /\ g \in Handler /\ g.version = row.version /\ g.deadline = now + CacheTTL
           /\ g.pc = pc /\ g.at = h.at
  <1> DEFINE s == Snapshot(h)
  <1>1. now + CacheTTL \in Nat
    BY ConstantsAssumption
  <1>2. s \in Handler /\ s.version = row.version /\ s.at = h.at
    BY DEF Snapshot, Handler, Row
  <1> HIDE DEF s
  <1> DEFINE r == [s EXCEPT !.deadline = now + CacheTTL]
  <1>3. r \in Handler /\ r.version = row.version /\ r.at = h.at /\ r.deadline = now + CacheTTL
    BY <1>1, <1>2 DEF Handler
  <1> HIDE DEF r
  <1>4. Reader(h, pc) = [r EXCEPT !.pc = pc]
    BY DEF r, s, Reader
  <1> QED BY <1>3, <1>4 DEF Handler

\* Requests that read, decide or end.
LEMMA ReadingSteps ==
    ASSUME IInv, NEW p \in Handlers,
           \/ Start(p) \/ StartAdvance(p) \/ LookupCache(p) \/ LoadRow(p)
           \/ ReturnSnapshot(p) \/ CompareUser(p) \/ ReadForRotation(p)
           \/ ReadCandidate(p) \/ MatchRefreshHash(p) \/ BeginAdvance(p) \/ Crash(p)
    PROVE  IInv'
  <1> USE ConstantsAssumption
  <1> DEFINE h == handler[p]
  <1>0. /\ Shared /\ Local(h) /\ h \in Handler /\ row \in Row /\ cache \in Entry
        /\ now \in Nat /\ h.at <= now /\ h.deadline <= now + CacheTTL
        /\ row.status = "none" => h.pc \in {"idle", "insert"}
    BY DEF IInv, Shared, Local
  <1>q. ASSUME NEW g \in Handler, g.deadline \in {0, h.deadline, now + CacheTTL}, g.at \in {0, h.at, now},
               g.pc \notin {"cas", "fill", "written", "commit", "tombstone", "insert"},
               row.status # "none", UNCHANGED shared, handler' = [handler EXCEPT ![p] = g]
        PROVE  IInv'
    <2>1. g.deadline <= now + CacheTTL /\ g.at <= now
      BY <1>0, <1>q
    <2>2. Local(g)
      BY <1>q, <2>1, QuietLocal
    <2> QED BY <1>q, <2>2, RequestStep
  <1>1. CASE Start(p)
    <2>1. PICK op \in {"check", "refresh"}, gen \in Nat : StartRequest(p, op, gen)
      BY <1>1, <1>0 DEF Start, Row
    <2> DEFINE sent == IF op = "refresh" /\ gen = row.refresh /\ Live(now) THEN now ELSE NoTime
               g == [Idle EXCEPT !.op = op, !.pc = "lookup", !.present = gen, !.sent = sent]
    <2>a. sent \in Nat \cup {NoTime}
      BY <1>0
    <2>3. row.status # "none" /\ UNCHANGED shared /\ handler' = [handler EXCEPT ![p] = g]
      BY <2>1 DEF StartRequest, shared
    <2> HIDE DEF sent
    <2>2. g.pc = "lookup" /\ g \in Handler /\ g.deadline = 0 /\ g.at = 0
      BY <2>1, <2>a DEF Idle, Handler, Ops, Pcs
    <2> HIDE DEF g
    <2> QED BY <2>2, <2>3, <1>q
  <1>2. CASE StartAdvance(p)
    <2> DEFINE g == [Snapshot([Idle EXCEPT !.op = "advance"]) EXCEPT !.pc = "bump"]
    <2>1. g \in Handler /\ g.pc = "bump" /\ g.deadline = 0 /\ g.at = 0
      BY <1>0 DEF Snapshot, Idle, Handler, Ops, Pcs, Row
    <2>2. row.status # "none" /\ UNCHANGED shared /\ handler' = [handler EXCEPT ![p] = g]
      BY <1>2 DEF StartAdvance, Goto, shared, Live
    <2> HIDE DEF g
    <2> QED BY <2>1, <2>2, <1>q
  <1>3. CASE LookupCache(p)
    <2>1. row.status # "none" /\ UNCHANGED shared
      BY <1>0, <1>3 DEF LookupCache, At, shared
    <2> DEFINE g == [Found(h, cache.version, cache.auth) EXCEPT !.pc = "user"]
    <2>2. g \in Handler /\ g.pc = "user" /\ g.deadline = 0 /\ g.at = 0
      BY <1>0 DEF Found, Idle, Handler, Ops, Pcs, Entry
    <2>3. Done(p) \/ handler' = [handler EXCEPT ![p] = g]
      BY <1>3 DEF LookupCache, Goto
    <2> HIDE DEF g
    <2> QED BY <2>1, <2>2, <2>3, <1>q, DoneStep
  <1>4. CASE LoadRow(p)
    <2>1. row.status # "none" /\ UNCHANGED shared
      BY <1>0, <1>4 DEF LoadRow, At, shared
    <2> DEFINE g == Reader(h, "fill")
               k == [Revoking("check", 0) EXCEPT !.pc = "denyfill"]
    <2>2. g.version = row.version /\ g.deadline = now + CacheTTL /\ g.pc = "fill" /\ g \in Handler
          /\ g.at = h.at
      <3>1. "fill" \in Pcs
        BY DEF Pcs
      <3> QED BY <1>0, <3>1, ReaderFields
    <2>3. k \in Handler /\ k.pc = "denyfill" /\ k.deadline = 0 /\ k.at = 0
      BY <1>0 DEF Revoking, Idle, Handler, Ops, Pcs, Row
    <2>4. \/ Done(p)
          \/ Live(now) /\ handler' = [handler EXCEPT ![p] = g]
          \/ handler' = [handler EXCEPT ![p] = k]
      BY <1>4 DEF LoadRow, Goto, Reader
    <2> HIDE DEF g, k
    <2>5. Live(now) => Local(g)
      BY <1>0, <2>2, ReaderLocal DEF Live, Outdated
    <2> QED BY <2>1, <2>2, <2>3, <2>4, <2>5, <1>q, RequestStep, DoneStep
  <1>5. CASE ReturnSnapshot(p)
    <2>1. row.status # "none" /\ UNCHANGED shared
      BY <1>0, <1>5 DEF ReturnSnapshot, At, shared
    <2> DEFINE g == [Found(h, h.version, h.auth) EXCEPT !.pc = "user"]
    <2>2. g \in Handler /\ g.pc = "user" /\ g.deadline = 0 /\ g.at = 0
      BY <1>0 DEF Found, Idle, Handler, Ops, Pcs
    <2>3. Done(p) \/ handler' = [handler EXCEPT ![p] = g]
      BY <1>5 DEF ReturnSnapshot, Goto
    <2> HIDE DEF g
    <2> QED BY <2>1, <2>2, <2>3, <1>q, DoneStep
  <1>6. CASE CompareUser(p)
    <2>1. row.status # "none" /\ UNCHANGED shared
      BY <1>0, <1>6 DEF CompareUser, At, shared
    <2> DEFINE g == [[Idle EXCEPT !.op = "refresh", !.present = h.present,
                                !.sent = h.sent, !.at = now]
                       EXCEPT !.pc = "rotate"]
               k == [[Idle EXCEPT !.op = "revoke"] EXCEPT !.pc = "candidate"]
    <2>2. g \in Handler /\ g.pc = "rotate" /\ g.deadline = 0 /\ g.at = now
      BY <1>0 DEF Idle, Handler, Ops, Pcs
    <2>3. k \in Handler /\ k.pc = "candidate" /\ k.deadline = 0 /\ k.at = 0
      BY DEF Idle, Handler, Ops, Pcs
    <2>4. Done(p) \/ handler' = [handler EXCEPT ![p] = g] \/ handler' = [handler EXCEPT ![p] = k]
      BY <1>6 DEF CompareUser, Goto
    <2> HIDE DEF g, k
    <2> QED BY <2>1, <2>2, <2>3, <2>4, <1>q, DoneStep
  <1>7. CASE ReadForRotation(p)
    <2>1. row.status # "none" /\ UNCHANGED shared
      BY <1>0, <1>7 DEF ReadForRotation, At, shared
    <2> DEFINE g == Reader(h, "cas")
               k == [Revoking("revoke", h.at) EXCEPT !.pc = "fence"]
    <2>2. g.version = row.version /\ g.deadline = now + CacheTTL /\ g.pc = "cas" /\ g \in Handler
          /\ g.at = h.at
      <3>1. "cas" \in Pcs
        BY DEF Pcs
      <3> QED BY <1>0, <3>1, ReaderFields
    <2>3. k \in Handler /\ k.pc = "fence" /\ k.deadline = 0 /\ k.at = h.at
      BY <1>0 DEF Revoking, Idle, Handler, Ops, Pcs, Row
    <2>4. \/ Done(p)
          \/ Live(h.at) /\ handler' = [handler EXCEPT ![p] = g]
          \/ handler' = [handler EXCEPT ![p] = k]
      BY <1>7 DEF ReadForRotation, RotationAnswer, Goto, Reader
    <2> HIDE DEF g, k
    <2>5. Live(h.at) => Local(g)
      BY <1>0, <2>2, ReaderLocal DEF Live, Outdated
    <2> QED BY <2>1, <2>2, <2>3, <2>4, <2>5, <1>q, RequestStep, DoneStep
  <1>8. CASE ReadCandidate(p) \/ MatchRefreshHash(p)
    <2>1. row.status # "none" /\ UNCHANGED shared
      BY <1>0, <1>8 DEF ReadCandidate, MatchRefreshHash, At, Live, shared
    <2> DEFINE g(op) == [Revoking(op, now) EXCEPT !.pc = "fence"]
    <2>2. \A op \in Ops : /\ g(op) \in Handler /\ g(op).pc = "fence"
                         /\ g(op).deadline = 0 /\ g(op).at = now
      BY <1>0 DEF Revoking, Idle, Handler, Pcs, Row
    <2>3. Done(p) \/ \E op \in Ops : handler' = [handler EXCEPT ![p] = g(op)]
      <3>1. {"revoke", "bulk"} \subseteq Ops
        BY DEF Ops
      <3> QED BY <1>8, <3>1 DEF ReadCandidate, MatchRefreshHash, Goto
    <2> HIDE DEF g
    <2> QED BY <2>1, <2>2, <2>3, <1>q, DoneStep
  <1>9. CASE BeginAdvance(p)
    <2>1. row.status # "none" /\ UNCHANGED shared
      BY <1>0, <1>9 DEF BeginAdvance, At, shared
    <2>2. PICK next \in {h.next, user} :
             Goto(p, [h EXCEPT !.next = next, !.at = now, !.deadline = now + CacheTTL], "advance")
      BY <1>9 DEF BeginAdvance
    <2>3. next \in Nat /\ now + CacheTTL \in Nat
      BY <1>0 DEF Handler, Shared
    <2> DEFINE g == [[h EXCEPT !.next = next, !.at = now, !.deadline = now + CacheTTL]
                       EXCEPT !.pc = "advance"]
    <2>4. g \in Handler /\ g.pc = "advance" /\ g.deadline = now + CacheTTL /\ g.at = now
      BY <1>0, <2>3 DEF Handler, Pcs
    <2>5. handler' = [handler EXCEPT ![p] = g]
      BY <2>2 DEF Goto
    <2> HIDE DEF g
    <2> QED BY <2>1, <2>4, <2>5, <1>q
  <1>10. CASE Crash(p)
    BY <1>10, DoneStep DEF Crash, shared
  <1> QED BY <1>1, <1>2, <1>3, <1>4, <1>5, <1>6, <1>7, <1>8, <1>9, <1>10

-----------------------------------------------------------------------------
(* Steps that change the shared state.                                      *)

\* A step of request p that changes the shared state keeps the invariant when
\* it keeps the shared part, what is known of the others, and leaves p right.
\* While one request is about to insert no other is under way.
LEMMA ChangingStep ==
    ASSUME IInv, NEW p \in Handlers, NEW g, handler[p].pc # "idle",
           handler' = [handler EXCEPT ![p] = g], Shared', Local(g)', g.pc # "insert",
           \A h : Local(h) /\ h.pc # "insert" => Local(h)'
    PROVE  IInv'
  <1>1. DOMAIN handler' = Handlers /\ handler' = [q \in Handlers |-> handler'[q]]
    BY DEF IInv
  <1>2. \A q \in Handlers : handler'[q] = IF q = p THEN g ELSE handler[q]
    BY DEF IInv
  <1>3. \A q \in Handlers : q # p => handler[q].pc # "insert"
    BY DEF IInv, CreatedOnce
  <1>4. \A q \in Handlers : Local(handler[q])'
    <2> SUFFICES ASSUME NEW q \in Handlers PROVE Local(handler[q])'
      OBVIOUS
    <2>1. CASE q = p
      BY <2>1, <1>2 DEF Local, Wall, Denied, Entered, Outdated
    <2>2. CASE q # p
      <3> DEFINE k == handler[q]
      <3>1. Local(k) /\ k.pc # "insert" /\ handler'[q] = k
        BY <1>2, <1>3, <2>2 DEF IInv
      <3> HIDE DEF k
      <3>2. \A h : h = handler'[q] /\ Local(h)' => Local(handler[q])'
        BY DEF Local, Wall, Denied, Entered, Outdated
      <3> QED BY <3>1, <3>2
    <2> QED BY <2>1, <2>2
  <1>5. CreatedOnce'
    BY <1>2, <1>3 DEF CreatedOnce
  <1> QED BY <1>1, <1>4, <1>5 DEF IInv

\* The same for a step that no request takes.
LEMMA FrameStep ==
    ASSUME IInv, UNCHANGED handler, Shared', \A h : Local(h) => Local(h)'
    PROVE  IInv'
  <1>1. \A q \in Handlers : Local(handler[q])'
    <2> SUFFICES ASSUME NEW q \in Handlers PROVE Local(handler[q])'
      OBVIOUS
    <2> DEFINE k == handler[q]
    <2>1. Local(k) /\ handler'[q] = k
      BY DEF IInv
    <2> HIDE DEF k
    <2>2. \A h : h = handler'[q] /\ Local(h)' => Local(handler[q])'
      BY DEF Local, Wall, Denied, Entered, Outdated
    <2> QED BY <2>1, <2>2
  <1> QED BY <1>1 DEF IInv, CreatedOnce

\* Publishing a deny entry puts up the wall of this and of every earlier time.
LEMMA DenyWall ==
    ASSUME Shared, NEW h \in Handler, NEW status \in {"revoking", "revoked"},
           now' = now, cache' = DenyEntry(status, h)
    PROVE  /\ cache' \in Entry /\ cache'.status # "active"
           /\ \A t \in Nat : t <= now => Wall(t)'
  <1> USE ConstantsAssumption
  <1>1. /\ now \in Nat /\ ExpiresAt \in Nat
        /\ h.version \in Nat
    BY DEF Shared, ExpiresAt, Handler
  <1> DEFINE until == IF ExpiresAt <= now THEN now + 1 ELSE Min2(now + CacheTTL, ExpiresAt)
  <1>2. until \in Nat /\ now < until
        /\ (ExpiresAt > now => until = Min2(now + CacheTTL, ExpiresAt))
    BY <1>1 DEF Min2
  <1>3. cache' = [status |-> status, version |-> h.version, auth |-> 0, until |-> until]
    BY DEF DenyEntry
  <1> HIDE DEF until
  <1>4. cache' \in Entry /\ cache'.status # "active" /\ cache'.until = until
        /\ cache'.status = status
    BY <1>1, <1>2, <1>3 DEF Entry
  <1>5. Denied'
    BY <1>2, <1>4 DEF Denied, Entered
  <1>6. ASSUME NEW t \in Nat, t <= now PROVE Wall(t)'
    <2>1. CASE ExpiresAt <= now
      BY <2>1, <1>1, <1>6 DEF Wall, Min2
    <2>2. CASE ExpiresAt > now
      BY <2>2, <1>1, <1>2, <1>4, <1>5, <1>6 DEF Wall, Min2
    <2> QED BY <2>1, <2>2, <1>1
  <1> QED BY <1>4, <1>6

\* An active entry is only published where no wall stands any more.
LEMMA ActiveWall ==
    ASSUME Shared, NEW h \in Handler, ~Refused("active", h.version),
           now' = now, cache' = ActiveEntry(h)
    PROVE  /\ cache' \in Entry
           /\ \A t \in Nat : Wall(t) => Wall(t)'
           /\ cache'.status = "active" => /\ cache'.version = h.version
                                          /\ cache'.until <= h.deadline
                                          /\ cache'.until <= ExpiresAt
  <1> USE ConstantsAssumption
  <1>1. /\ now \in Nat /\ ExpiresAt \in Nat
        /\ h.version \in Nat /\ h.auth \in Nat /\ h.deadline \in Nat
    BY DEF Shared, ExpiresAt, Handler
  <1>2. ~Denied
    BY DEF Refused, Denied, Entered
  <1>3. \A t \in Nat : Wall(t) => Wall(t)'
    BY <1>2 DEF Wall
  <1> DEFINE until == Min2(h.deadline, ExpiresAt)
  <1>4. until \in Nat /\ until <= h.deadline /\ until <= ExpiresAt
    BY <1>1 DEF Min2
  <1>5. cache' = IF until <= now THEN NoEntry
                 ELSE [status |-> "active", version |-> h.version, auth |-> h.auth,
                       until |-> until]
    BY DEF ActiveEntry
  <1> HIDE DEF until
  <1> QED BY <1>1, <1>3, <1>4, <1>5 DEF Entry, NoEntry

\* What is known of a request does not depend on the entry but for the walls.
LEMMA LocalKept ==
    ASSUME now' = now, row' = row, \A t \in Nat : t <= now /\ Wall(t) => Wall(t)'
    PROVE  \A h : Local(h) => Local(h)'
  BY DEF Local, Outdated, Handler

LEMMA FillDenyStep ==
    ASSUME IInv, NEW p \in Handlers, FillDeny(p)
    PROVE  IInv'
  <1> DEFINE h == handler[p]
  <1>0. Shared /\ Local(h) /\ h \in Handler /\ h.pc = "denyfill"
    BY DEF IInv, Local, FillDeny, At
  <1>1. CASE cache' = cache
    BY <1>1, DoneStep DEF FillDeny, shared
  <1>2. CASE cache' = DenyEntry("revoked", h)
    <2>0. UNCHANGED <<now, user, row, began, sealed, slow>> /\ handler' = [handler EXCEPT ![p] = Idle]
      BY DEF FillDeny, Done
    <2>1. /\ cache' \in Entry /\ cache'.status # "active"
          /\ \A t \in Nat : t <= now => Wall(t)'
      BY <1>0, <1>2, <2>0, DenyWall
    <2>2. \A k : Local(k) => Local(k)'
      BY <2>0, <2>1, LocalKept
    <2>3. Shared'
      BY <1>0, <2>0, <2>1 DEF Shared, Outdated, Row
    <2>4. Local(Idle)' /\ Idle.pc = "idle"
      BY <1>0, <2>2, IdleLocal DEF Idle
    <2> QED BY <1>0, <2>0, <2>2, <2>3, <2>4, ChangingStep
  <1> QED BY <1>1, <1>2 DEF FillDeny

LEMMA PublishFenceStep ==
    ASSUME IInv, NEW p \in Handlers, PublishFence(p)
    PROVE  IInv'
  <1> DEFINE h == handler[p]
  <1>0. /\ Shared /\ Local(h) /\ h \in Handler /\ h.pc = "fence"
        /\ UNCHANGED <<now, user, row, began, sealed, slow>>
    BY DEF IInv, Local, PublishFence, At
  <1>1. CASE cache' = cache /\ Done(p)
    BY <1>0, <1>1, DoneStep DEF shared
  <1>2. CASE cache' = DenyEntry("revoking", h) /\ Goto(p, h, "commit")
    <2>0. PICK g : g = [h EXCEPT !.pc = "commit"]
      OBVIOUS
    <2>1. /\ cache' \in Entry /\ cache'.status # "active"
          /\ \A t \in Nat : t <= now => Wall(t)'
      BY <1>0, <1>2, DenyWall
    <2>2. \A k : Local(k) => Local(k)'
      BY <1>0, <2>1, LocalKept
    <2>3. Shared'
      BY <1>0, <2>1 DEF Shared, Outdated, Row
    <2>4. /\ g \in Handler /\ g.pc = "commit" /\ g.at = h.at /\ g.deadline = h.deadline
          /\ h.at \in Nat /\ h.at <= now /\ h.deadline <= now + CacheTTL /\ row.status # "none"
      BY <1>0, <2>0 DEF Handler, Pcs, Local
    <2>5. handler' = [handler EXCEPT ![p] = g]
      BY <1>2, <2>0 DEF Goto
    <2>6. Local(g)'
      BY <1>0, <2>1, <2>4 DEF Local
    <2> QED BY <1>0, <2>2, <2>3, <2>4, <2>5, <2>6, ChangingStep
  <1> QED BY <1>1, <1>2 DEF PublishFence

LEMMA PublishTombstoneStep ==
    ASSUME IInv, NEW p \in Handlers, PublishTombstone(p)
    PROVE  IInv'
  <1> DEFINE h == handler[p]
  <1>0. /\ Shared /\ Local(h) /\ h \in Handler /\ h.pc = "tombstone"
        /\ UNCHANGED <<now, user, row, began, slow>> /\ Done(p)
        /\ row.status \notin {"none", "active"}
    BY DEF IInv, Local, PublishTombstone, At
  <1>1. CASE UNCHANGED <<cache, sealed>>
    BY <1>0, <1>1, DoneStep DEF shared
  <1>2. CASE cache' = DenyEntry("revoked", h) /\ sealed' = TRUE
    <2>1. /\ cache' \in Entry /\ cache'.status # "active"
          /\ \A t \in Nat : t <= now => Wall(t)'
      BY <1>0, <1>2, DenyWall
    <2>2. \A k : Local(k) => Local(k)'
      BY <1>0, <2>1, LocalKept
    <2>3. Shared'
      BY <1>0, <1>2, <2>1 DEF Shared, Outdated, Row
    <2>4. Local(Idle)' /\ Idle.pc = "idle"
      BY <1>0, <2>2, IdleLocal DEF Idle
    <2> QED BY <1>0, <2>2, <2>3, <2>4, ChangingStep DEF Done
  <1> QED BY <1>1, <1>2 DEF PublishTombstone

LEMMA FillActiveStep ==
    ASSUME IInv, NEW p \in Handlers, FillActive(p)
    PROVE  IInv'
  <1> USE ConstantsAssumption
  <1> DEFINE h == handler[p]
  <1>0. /\ Shared /\ Local(h) /\ h \in Handler /\ h.pc = "fill" /\ row.status # "none"
        /\ UNCHANGED <<now, user, row, began, sealed, slow>>
        /\ now \in Nat /\ row \in Row /\ h.at <= now /\ h.deadline <= now + CacheTTL
    BY DEF IInv, Shared, Local, FillActive, At
  <1>1. PICK g, k : /\ g = [h EXCEPT !.pc = "written"]
                    /\ k = [Found(h, h.version, h.auth) EXCEPT !.pc = "user"]
    OBVIOUS
  <1>2. /\ g \in Handler /\ g.pc = "written" /\ g.at = h.at /\ g.deadline = h.deadline
        /\ g.version = h.version
    BY <1>0, <1>1 DEF Handler, Pcs
  <1>3. k \in Handler /\ k.pc = "user" /\ k.deadline = 0 /\ k.at = 0
    BY <1>0, <1>1 DEF Found, Idle, Handler, Ops, Pcs
  <1>4. Local(g)
    BY <1>0, <1>2 DEF Local
  <1>5. Local(k)
    BY <1>0, <1>3, QuietLocal
  <1>6. CASE cache' = cache
    <2>1. UNCHANGED shared
      BY <1>0, <1>6 DEF shared
    <2>2. Done(p) \/ handler' = [handler EXCEPT ![p] = g] \/ handler' = [handler EXCEPT ![p] = k]
      BY <1>1 DEF FillActive, Goto
    <2> QED BY <1>0, <1>2, <1>3, <1>4, <1>5, <2>1, <2>2, RequestStep, DoneStep
  <1>7. CASE ~Refused("active", h.version) /\ cache' = ActiveEntry(h) /\ Goto(p, h, "written")
    <2>1. /\ cache' \in Entry
          /\ \A t \in Nat : Wall(t) => Wall(t)'
          /\ cache'.status = "active" => /\ cache'.version = h.version
                                         /\ cache'.until <= h.deadline
                                         /\ cache'.until <= ExpiresAt
      BY <1>0, <1>7, ActiveWall
    <2>2. \A q : Local(q) => Local(q)'
      BY <1>0, <2>1, LocalKept
    <2>3. h.deadline \in Nat /\ row.changedAt \in Nat /\ cache'.until \in Nat
          /\ (Outdated(h.version) => h.deadline <= row.changedAt + CacheTTL)
      BY <1>0, <2>1 DEF Handler, Row, Entry, Local
    <2>4. cache'.status = "active" =>
             /\ cache'.until <= now + CacheTTL /\ cache'.until <= ExpiresAt
             /\ Outdated(cache.version)' => cache'.until <= row.changedAt + CacheTTL
      BY <1>0, <2>1, <2>3 DEF Outdated
    <2>5. row.status = "revoked" => Wall(began)'
      BY <1>0, <2>1 DEF Shared
    <2>6. row.status = "revoked" /\ sealed => Wall(row.changedAt)'
      BY <1>0, <2>1, <2>3 DEF Shared
    <2>7. Shared'
      BY <1>0, <2>1, <2>4, <2>5, <2>6 DEF Shared
    <2>8. handler' = [handler EXCEPT ![p] = g]
      BY <1>1, <1>7 DEF Goto
    <2> QED BY <1>0, <1>2, <1>4, <2>2, <2>7, <2>8, ChangingStep
  <1> QED BY <1>6, <1>7 DEF FillActive

\* The row changes, at this moment, and the clock and the entry do not: what
\* was read before is outdated from now on.
LEMMA RowChanged ==
    ASSUME Shared, UNCHANGED <<now, cache>>, row' \in Row, row.status # "none",
           row'.changedAt = now, row'.status # "none",
           row.status \notin {"none", "active"} => row'.status \notin {"none", "active"}
    PROVE  /\ \A h : Local(h) => Local(h)'
           /\ cache.status = "active" /\ Outdated(cache.version)'
                 => cache.until <= row'.changedAt + CacheTTL
  <1>1. \A t \in Nat : Wall(t)' = Wall(t)
    BY DEF Wall, Denied, Entered
  <1>2. ASSUME NEW h, Local(h) PROVE Local(h)'
    BY <1>1, <1>2 DEF Local, Handler
  <1> QED BY <1>2 DEF Shared

LEMMA CreateStep ==
    ASSUME IInv, NEW p \in Handlers, CreateUserSession(p)
    PROVE  IInv'
  <1> USE ConstantsAssumption
  <1> DEFINE h == handler[p]
  <1>0. /\ Shared /\ Local(h) /\ h \in Handler /\ h.pc = "insert" /\ row.status = "none"
        /\ UNCHANGED <<now, user, cache, began, sealed, slow>>
        /\ now \in Nat /\ user \in Nat /\ row \in Row /\ cache \in Entry
        /\ h.at <= now
        /\ row' = [row EXCEPT !.status = "active", !.version = 1, !.auth = user, !.changedAt = now]
    BY DEF IInv, Shared, Local, CreateUserSession, At
  <1>1. PICK g : g = [h EXCEPT !.op = "stored", !.pc = "fill", !.version = 1, !.auth = user,
                               !.deadline = now + CacheTTL]
    OBVIOUS
  <1>2. now + CacheTTL \in Nat
    BY <1>0
  <1>3. /\ g \in Handler /\ g.pc = "fill" /\ g.version = 1 /\ g.at = h.at
        /\ g.deadline = now + CacheTTL
    BY <1>0, <1>1, <1>2 DEF Handler, Pcs, Ops
  <1>4. /\ row' \in Row /\ row'.status = "active" /\ row'.version = 1
        /\ row'.changedAt = now /\ row'.prev = row.prev /\ row'.refresh = row.refresh
    BY <1>0 DEF Row
  <1>5. Shared'
    BY <1>0, <1>4 DEF Shared, Outdated
  <1>6. Local(g)'
    BY <1>0, <1>2, <1>3, <1>4 DEF Local, Outdated
  <1>7. \A k : Local(k) /\ k.pc # "insert" => Local(k)'
    BY <1>0, <1>4 DEF Local
  <1>8. handler' = [handler EXCEPT ![p] = g]
    BY <1>1 DEF CreateUserSession
  <1> QED BY <1>0, <1>3, <1>5, <1>6, <1>7, <1>8, ChangingStep

LEMMA RotateStep ==
    ASSUME IInv, NEW p \in Handlers, RotateRefresh(p)
    PROVE  IInv'
  <1> USE ConstantsAssumption
  <1> DEFINE h == handler[p]
  <1>0. /\ Shared /\ Local(h) /\ h \in Handler /\ h.pc = "cas" /\ row.status # "none"
        /\ UNCHANGED <<now, user, cache, began, sealed>>
        /\ now \in Nat /\ row \in Row /\ h.at <= now /\ h.deadline <= now + CacheTTL
    BY DEF IInv, Shared, Local, RotateRefresh, At
  <1>1. CASE ~RotationMatches(h)
    <2>1. PICK g : g = [[h EXCEPT !.version = 0, !.auth = 0, !.deadline = 0] EXCEPT !.pc = "rotate"]
      OBVIOUS
    <2>2. g \in Handler /\ g.pc = "rotate" /\ g.at = h.at /\ g.deadline = 0
      BY <1>0, <2>1 DEF Handler, Pcs
    <2>3. UNCHANGED shared /\ handler' = [handler EXCEPT ![p] = g]
      BY <1>0, <1>1, <2>1 DEF RotateRefresh, Goto, shared
    <2>4. Local(g)
      BY <1>0, <2>2, QuietLocal
    <2> QED BY <1>0, <2>2, <2>3, <2>4, RequestStep
  <1>2. CASE RotationMatches(h)
    <2>1. PICK g : g = [[h EXCEPT !.op = "stored", !.present = 0, !.at = 0,
                                 !.sent = NoTime] EXCEPT !.pc = "fill"]
      OBVIOUS
    <2>2. /\ g \in Handler /\ g.pc = "fill" /\ g.at = 0 /\ g.deadline = h.deadline
          /\ g.version = h.version
      BY <1>0, <2>1 DEF Handler, Pcs, Ops
    <2>3. row' = Rotated(h) /\ handler' = [handler EXCEPT ![p] = g]
      BY <1>2, <2>1 DEF RotateRefresh, Goto
    <2>4. /\ h.present \in Nat /\ h.at \in Nat /\ h.at + Grace \in Nat /\ h.present + 1 \in Nat
          /\ slow' \in Nat
      <3>1. h.present \in Nat /\ h.at \in Nat
        BY <1>0 DEF Handler
      <3>2. slow' = now - h.at \/ slow' = 0
        BY <1>2 DEF RotateRefresh
      <3> QED BY <1>0, <3>1, <3>2
    <2>5. /\ row' \in Row /\ row'.status = row.status /\ row'.version = row.version
          /\ row'.changedAt = row.changedAt
          /\ row'.prev = h.present /\ row'.refresh = h.present + 1
      BY <1>0, <2>3, <2>4 DEF Rotated, Row
    <2>6. \A v : Outdated(v)' = Outdated(v)
      BY <2>5 DEF Outdated
    <2>7. \A t : Wall(t)' = Wall(t)
      BY <1>0 DEF Wall, Denied, Entered
    <2>8. Shared'
      <3>1. Wall(row.changedAt)' = Wall(row.changedAt)
        BY <1>0, <2>5 DEF Wall, Denied, Entered
      <3>2. Outdated(cache.version)' = Outdated(cache.version)
        BY <1>0, <2>5 DEF Outdated
      <3>3. Wall(began)' = Wall(began)
        BY <1>0 DEF Wall, Denied, Entered
      <3> QED BY <1>0, <2>4, <2>5, <3>1, <3>2, <3>3 DEF Shared
    <2>9. \A k : Local(k) => Local(k)'
      BY <1>0, <2>5, <2>6, <2>7 DEF Local
    <2>10. Local(g)'
      BY <1>0, <2>2, <2>5, <2>6 DEF Local
    <2> QED BY <1>0, <2>2, <2>3, <2>8, <2>9, <2>10, ChangingStep
  <1> QED BY <1>1, <1>2

LEMMA CommitStep ==
    ASSUME IInv, NEW p \in Handlers, CommitRevocation(p)
    PROVE  IInv'
  <1> USE ConstantsAssumption
  <1> DEFINE h == handler[p]
  <1>0. /\ Shared /\ Local(h) /\ h \in Handler /\ h.pc = "commit" /\ row.status # "none"
        /\ UNCHANGED <<now, user, cache, sealed>>
        /\ now \in Nat /\ row \in Row /\ h.at \in Nat /\ h.at <= now
        /\ h.deadline <= now + CacheTTL /\ Wall(h.at)
    BY DEF IInv, Shared, Local, CommitRevocation, At, Handler
  <1>1. CASE ~Live(h.at)
    BY <1>0, <1>1, DoneStep DEF CommitRevocation, shared
  <1>2. CASE Live(h.at)
    <2>1. PICK g : g = [[h EXCEPT !.at = 0,
                          !.version = IF h.op = "bulk" THEN row.version ELSE @] EXCEPT !.pc = "tombstone"]
      OBVIOUS
    <2>2. g \in Handler /\ g.pc = "tombstone" /\ g.at = 0 /\ g.deadline = h.deadline
      BY <1>0, <2>1 DEF Handler, Pcs, Row
    <2>3. /\ row' = [row EXCEPT !.status = "revoked", !.changedAt = now]
          /\ began' = h.at /\ slow' = 0 /\ handler' = [handler EXCEPT ![p] = g]
          /\ row.status = "active"
      BY <1>2, <2>1 DEF CommitRevocation, Goto, Live
    <2>4. /\ row' \in Row /\ row'.status = "revoked" /\ row'.version = row.version
          /\ row'.changedAt = now /\ row'.prev = row.prev /\ row'.refresh = row.refresh
      BY <1>0, <2>3 DEF Row
    <2>5. /\ \A k : Local(k) => Local(k)'
          /\ cache.status = "active" /\ Outdated(cache.version)'
                => cache.until <= row'.changedAt + CacheTTL
      BY <1>0, <2>3, <2>4, RowChanged
    <2>6. Wall(began)'
      BY <1>0, <2>3 DEF Wall, Denied, Entered
    <2>7. Shared'
      BY <1>0, <2>3, <2>4, <2>5, <2>6 DEF Shared
    <2>8. Local(g)'
      BY <1>0, <2>2, <2>4 DEF Local
    <2> QED BY <1>0, <2>2, <2>3, <2>5, <2>7, <2>8, ChangingStep
  <1> QED BY <1>1, <1>2

LEMMA AdvanceStep ==
    ASSUME IInv, NEW p \in Handlers, AdvanceSession(p)
    PROVE  IInv'
  <1> USE ConstantsAssumption
  <1> DEFINE h == handler[p]
             kept == Live(h.at) /\ row.version = h.version /\ row.auth = h.auth
  <1>0. /\ Shared /\ Local(h) /\ h \in Handler /\ h.pc = "advance" /\ row.status # "none"
        /\ UNCHANGED <<now, user, cache, began, sealed, slow>>
        /\ now \in Nat /\ user \in Nat /\ row \in Row /\ h.deadline <= now + CacheTTL
    BY DEF IInv, Shared, Local, AdvanceSession, At
  <1>1. CASE ~kept
    BY <1>0, <1>1, DoneStep DEF AdvanceSession, shared
  <1>2. CASE kept
    <2>1. PICK g : g = [[h EXCEPT !.op = "stored", !.version = @ + 1, !.auth = h.next,
                                  !.next = 0, !.at = 0] EXCEPT !.pc = "fill"]
      OBVIOUS
    <2>2. h.next \in Nat /\ h.version \in Nat /\ h.version + 1 \in Nat
          /\ row.version = h.version
      BY <1>0, <1>2 DEF Handler
    <2>3. /\ g \in Handler /\ g.pc = "fill" /\ g.at = 0 /\ g.deadline = h.deadline
          /\ g.version = row.version + 1
      BY <1>0, <2>1, <2>2 DEF Handler, Pcs, Ops
    <2>4. /\ row' = [row EXCEPT !.version = @ + 1, !.auth = h.next, !.changedAt = now]
          /\ handler' = [handler EXCEPT ![p] = g] /\ row.status = "active"
      BY <1>2, <2>1 DEF AdvanceSession, Goto, Live
    <2>5. /\ row' \in Row /\ row'.status = "active" /\ row'.version = row.version + 1
          /\ row'.changedAt = now /\ row'.prev = row.prev /\ row'.refresh = row.refresh
      BY <1>0, <2>2, <2>4 DEF Row
    <2>6. /\ \A k : Local(k) => Local(k)'
          /\ cache.status = "active" /\ Outdated(cache.version)'
                => cache.until <= row'.changedAt + CacheTTL
      BY <1>0, <2>4, <2>5, RowChanged
    <2>7. Shared'
      BY <1>0, <2>4, <2>5, <2>6 DEF Shared
    <2>8. Local(g)'
      BY <1>0, <2>2, <2>3, <2>5 DEF Local, Outdated
    <2> QED BY <1>0, <2>3, <2>4, <2>6, <2>7, <2>8, ChangingStep
  <1> QED BY <1>1, <1>2

LEMMA BumpStep ==
    ASSUME IInv, NEW p \in Handlers, BumpUserAuthVersion(p)
    PROVE  IInv'
  <1> USE ConstantsAssumption
  <1> DEFINE h == handler[p]
  <1>0. /\ Shared /\ Local(h) /\ h \in Handler /\ h.pc = "bump" /\ row.status # "none"
        /\ UNCHANGED <<now, row, cache, began, sealed, slow>> /\ user' \in Nat
        /\ now \in Nat /\ h.at <= now /\ h.deadline <= now + CacheTTL
    BY DEF IInv, Shared, Local, BumpUserAuthVersion, At
  <1>1. PICK g : g = [[h EXCEPT !.next = user'] EXCEPT !.pc = "begin"]
    OBVIOUS
  <1>2. g \in Handler /\ g.pc = "begin" /\ g.at = h.at /\ g.deadline = h.deadline
    BY <1>0, <1>1 DEF Handler, Pcs
  <1>3. handler' = [handler EXCEPT ![p] = g]
    BY <1>1 DEF BumpUserAuthVersion, Goto
  <1>4. Shared' /\ \A k : Local(k) => Local(k)'
    BY <1>0 DEF Shared, Local, Wall, Denied, Entered, Outdated
  <1>5. Local(g)
    BY <1>0, <1>2, QuietLocal
  <1> QED BY <1>0, <1>2, <1>3, <1>4, <1>5, ChangingStep

LEMMA SecurityStep ==
    ASSUME IInv, SecurityChanged
    PROVE  IInv'
  <1>1. Shared' /\ \A k : Local(k) => Local(k)'
    BY DEF IInv, SecurityChanged, Shared, Local, Wall, Denied, Entered, Outdated
  <1> QED BY <1>1, FrameStep DEF SecurityChanged

LEMMA DeleteStep ==
    ASSUME IInv, DeleteSession
    PROVE  IInv'
  <1> USE ConstantsAssumption
  <1>0. /\ Shared /\ UNCHANGED <<now, user, cache, handler, began, sealed, slow>>
        /\ now \in Nat /\ row \in Row /\ row.status \in {"active", "revoked"}
        /\ row' = [row EXCEPT !.status = "deleted",
                              !.changedAt = IF row.status = "active" THEN now ELSE @]
    BY DEF IInv, Shared, DeleteSession
  <1>1. /\ row' \in Row /\ row'.status = "deleted" /\ row'.version = row.version
        /\ row'.prev = row.prev /\ row'.refresh = row.refresh
        /\ row'.changedAt = IF row.status = "active" THEN now ELSE row.changedAt
    BY <1>0 DEF Row
  <1>2. CASE row.status = "active"
    <2>1. /\ \A h : Local(h) => Local(h)'
          /\ cache.status = "active" /\ Outdated(cache.version)'
                => cache.until <= row'.changedAt + CacheTTL
      BY <1>0, <1>1, <1>2, RowChanged
    <2>2. Shared'
      BY <1>0, <1>1, <1>2, <2>1 DEF Shared
    <2> QED BY <1>0, <2>1, <2>2, FrameStep
  <1>3. CASE row.status = "revoked"
    <2>1. \A t : Wall(t)' = Wall(t)
      BY <1>0 DEF Wall, Denied, Entered
    <2>2. \A h : Local(h) => Local(h)'
      BY <1>0, <1>1, <1>3, <2>1 DEF Local, Outdated
    <2>3. Shared'
      BY <1>0, <1>1, <1>3 DEF Shared, Outdated
    <2> QED BY <1>0, <2>2, <2>3, FrameStep
  <1> QED BY <1>0, <1>2, <1>3

\* A deny entry whose time is over leaves a wall that is over, too.
LEMMA TickStep ==
    ASSUME IInv, Tick
    PROVE  IInv'
  <1> USE ConstantsAssumption
  <1>0. /\ Shared /\ now \in Nat /\ cache \in Entry /\ cache.until \in Nat
        /\ row \in Row /\ row.changedAt \in Nat /\ began \in Nat /\ ExpiresAt \in Nat
        /\ now' = now + 1 /\ UNCHANGED <<user, row, handler, began, sealed, slow>>
        /\ cache' = IF cache.until <= now + 1 THEN NoEntry ELSE cache
    BY DEF IInv, Shared, Tick, Entry, Row, ExpiresAt
  <1>1. cache' \in Entry /\ (cache'.status = "active" => cache' = cache)
    BY <1>0 DEF Entry, NoEntry
  <1>2. ASSUME NEW t \in Nat, Wall(t) PROVE Wall(t)'
    <2> DEFINE end == Min2(t + CacheTTL, ExpiresAt)
    <2>1. end \in Nat
      BY <1>0 DEF Min2
    <2>2. CASE now >= end
      BY <1>0, <2>1, <2>2 DEF Wall
    <2>3. CASE Denied /\ cache.until >= end
      <3>1. CASE cache.until <= now + 1
        BY <1>0, <2>1, <2>3, <3>1 DEF Wall
      <3>2. CASE cache.until > now + 1
        <4>1. cache' = cache /\ Denied'
          BY <1>0, <2>3, <3>2 DEF Denied, Entered
        <4> QED BY <2>3, <4>1 DEF Wall
      <3> QED BY <1>0, <3>1, <3>2
    <2> QED BY <1>2, <2>2, <2>3 DEF Wall
  <1>3. \A h : Local(h) => Local(h)'
    <2> SUFFICES ASSUME NEW h, Local(h) PROVE Local(h)'
      OBVIOUS
    <2>1. h.at \in Nat /\ h.deadline \in Nat
      BY DEF Local, Handler
    <2> QED BY <1>0, <1>2, <2>1 DEF Local, Outdated
  <1>4. Shared'
    <2>1. row.status = "revoked" => Wall(began)'
      BY <1>0, <1>2 DEF Shared
    <2>2. row.status = "revoked" /\ sealed => Wall(row.changedAt)'
      BY <1>0, <1>2 DEF Shared
    <2> QED BY <1>0, <1>1, <2>1, <2>2 DEF Shared, Outdated
  <1> QED BY <1>0, <1>3, <1>4, FrameStep

-----------------------------------------------------------------------------
(* The theorems.                                                            *)

LEMMA Initially == Init => IInv
  <1> SUFFICES ASSUME Init PROVE IInv
    OBVIOUS
  <1> USE ConstantsAssumption
  <1>0. /\ row \in Row /\ row.status = "none" /\ row.prev = NoGen /\ row.changedAt = 0
        /\ cache \in Entry /\ cache.status = "none"
        /\ now = 0 /\ user = 1 /\ began = 0 /\ slow = 0
    BY DEF Init, Row, Entry, NoEntry
  <1>a. sealed \in BOOLEAN /\ ~sealed
    BY DEF Init
  <1>1. Shared
    BY <1>0, <1>a DEF Shared
  <1>2. PICK p \in Handlers :
           handler = [q \in Handlers |->
                         IF q = p THEN [Idle EXCEPT !.op = "create", !.pc = "insert"] ELSE Idle]
    BY DEF Init
  <1>3. Local([Idle EXCEPT !.op = "create", !.pc = "insert"])
    <2> DEFINE g == [Idle EXCEPT !.op = "create", !.pc = "insert"]
    <2>1. g \in Handler /\ g.pc = "insert" /\ g.deadline = 0 /\ g.at = 0
      BY DEF Idle, Handler, Ops, Pcs
    <2> HIDE DEF g
    <2>2. Local(g)
      BY <1>0, <2>1 DEF Local
    <2> QED BY <2>2 DEF g
  <1>4. Local(Idle)
    BY <1>1, IdleLocal
  <1>5. CreatedOnce
    BY <1>2 DEF CreatedOnce, Idle
  <1>6. DOMAIN handler = Handlers /\ handler = [q \in Handlers |-> handler[q]]
    BY <1>2
  <1> QED BY <1>1, <1>2, <1>3, <1>4, <1>5, <1>6 DEF IInv

LEMMA Stutters ==
    ASSUME IInv, UNCHANGED vars
    PROVE  IInv'
  <1>1. UNCHANGED shared /\ UNCHANGED handler
    BY DEF vars, shared
  <1>2. Shared' = Shared /\ \A h : Local(h)' = Local(h)
    BY <1>1 DEF shared, Shared, Local, Wall, Denied, Entered, Outdated
  <1> QED BY <1>1, <1>2, FrameStep DEF IInv

LEMMA Inductive == IInv /\ [Next]_vars => IInv'
  <1> SUFFICES ASSUME IInv, [Next]_vars PROVE IInv'
    OBVIOUS
  <1>1. ASSUME NEW p \in Handlers, Step(p) PROVE IInv'
    BY <1>1, ReadingSteps, CreateStep, FillDenyStep, FillActiveStep, RotateStep,
       PublishFenceStep, CommitStep, PublishTombstoneStep, BumpStep, AdvanceStep DEF Step
  <1> QED BY <1>1, SecurityStep, DeleteStep, TickStep, Stutters DEF Next

LEMMA Invariance == Spec => []IInv
  BY Initially, Inductive, PTL DEF Spec

\* Every variable keeps its type.
THEOREM TypeCorrect == Spec => []TypeOK
  <1>1. IInv => TypeOK
    BY DEF IInv, Shared, Local, TypeOK
  <1> QED BY <1>1, Invariance, PTL

\* writeUserSessionCache: a stale active entry is gone CacheTTL after the row
\* changed, for any number of slow writers.
THEOREM StaleBounded == Spec => []StaleEntryIsBounded
  <1>1. IInv => StaleEntryIsBounded
    BY DEF IInv, Shared, StaleEntryIsBounded, Entered, Outdated
  <1> QED BY <1>1, Invariance, PTL

\* writeUserSessionDenyFence and the last deny entry: a revocation shows at once.
\* A wall of time t excludes active entries, which end CacheTTL after the
\* revocation at the latest.
THEOREM RevocationShows == Spec => []RevokedIsDenied
  <1> USE ConstantsAssumption
  <1>1. IInv => RevokedIsDenied
    <2> SUFFICES ASSUME IInv, row.status = "revoked", sealed \/ now < began + CacheTTL,
                        Entered("active")
                 PROVE  FALSE
      BY DEF RevokedIsDenied
    <2>1. /\ now \in Nat /\ began \in Nat /\ row.changedAt \in Nat /\ cache.until \in Nat
          /\ ExpiresAt \in Nat
      BY DEF IInv, Shared, Row, Entry, ExpiresAt
    <2>2. /\ ~Denied /\ now < cache.until
          /\ cache.until <= ExpiresAt /\ cache.until <= row.changedAt + CacheTTL
      BY DEF IInv, Shared, Entered, Denied, Outdated
    <2>3. CASE sealed
      <3>1. now >= Min2(row.changedAt + CacheTTL, ExpiresAt)
        BY <2>2, <2>3 DEF IInv, Shared, Wall
      <3> QED BY <2>1, <2>2, <3>1 DEF Min2
    <2>4. CASE now < began + CacheTTL
      <3>1. now >= Min2(began + CacheTTL, ExpiresAt)
        BY <2>2 DEF IInv, Shared, Wall
      <3> QED BY <2>1, <2>2, <2>4, <3>1 DEF Min2
    <2> QED BY <2>3, <2>4
  <1> QED BY <1>1, Invariance, PTL

\* A request that begins was idle and touches nothing but its own record.
LEMMA StartIsLocal ==
    ASSUME NEW p \in Handlers, Start(p)
    PROVE  /\ handler[p].pc = "idle" /\ row' = row
           /\ \E g : handler' = [handler EXCEPT ![p] = g]
  <1>1. ASSUME NEW op, NEW gen, StartRequest(p, op, gen)
        PROVE  /\ handler[p].pc = "idle" /\ row' = row
               /\ \E g : handler' = [handler EXCEPT ![p] = g]
    BY <1>1 DEF StartRequest, At
  <1> QED BY <1>1 DEF Start

\* The compare-and-swap of RotateUserSessionRefresh: generations only move on,
\* one at a time.
THEOREM GenerationsMoveOn == Spec => RotationMovesOn
  <1>1. ASSUME IInv, [Next]_vars
        PROVE  /\ row'.refresh >= row.refresh
               /\ row'.refresh # row.refresh => row'.refresh = row.refresh + 1
    <2>0. row \in Row /\ row.refresh \in Nat
      BY <1>1 DEF IInv, Shared, Row
    <2>1. ASSUME NEW p \in Handlers, Step(p)
          PROVE  row'.refresh = row.refresh \/ row'.refresh = row.refresh + 1
      <3>1. CASE RotateRefresh(p)
        <4>1. CASE row' = row
          BY <4>1
        <4>2. CASE row.refresh = handler[p].present /\ row' = Rotated(handler[p])
          BY <2>0, <4>2 DEF Rotated, Row
        <4> QED BY <3>1, <4>1, <4>2 DEF RotateRefresh, RotationMatches
      <3>2. CASE CreateUserSession(p) \/ CommitRevocation(p) \/ AdvanceSession(p)
        BY <2>0, <3>2 DEF CreateUserSession, CommitRevocation, AdvanceSession, Row
      <3>3. CASE Start(p) \/ StartAdvance(p) \/ LookupCache(p) \/ LoadRow(p)
        BY <3>3, StartIsLocal DEF StartAdvance, LookupCache, LoadRow
      <3>4. CASE FillDeny(p) \/ FillActive(p) \/ ReturnSnapshot(p) \/ CompareUser(p)
        BY <3>4 DEF FillDeny, FillActive, ReturnSnapshot, CompareUser
      <3>5. CASE ReadForRotation(p) \/ ReadCandidate(p) \/ MatchRefreshHash(p) \/ PublishFence(p)
        <4>1. row' = row
          BY <3>5 DEF ReadForRotation, ReadCandidate, MatchRefreshHash, PublishFence
        <4> QED BY <4>1
      <3>6. CASE PublishTombstone(p) \/ BumpUserAuthVersion(p) \/ BeginAdvance(p) \/ Crash(p)
        BY <3>6 DEF PublishTombstone, BumpUserAuthVersion, BeginAdvance, Crash
      <3> QED BY <2>1, <3>1, <3>2, <3>3, <3>4, <3>5, <3>6 DEF Step
    <2>2. CASE DeleteSession
      BY <2>0, <2>2 DEF DeleteSession, Row
    <2>3. CASE SecurityChanged \/ Tick \/ UNCHANGED vars
      BY <2>0, <2>3 DEF SecurityChanged, Tick, vars
    <2>4. row'.refresh = row.refresh \/ row'.refresh = row.refresh + 1
      BY <1>1, <2>1, <2>2, <2>3 DEF Next
    <2> QED BY <2>0, <2>4
  <1> QED BY <1>1, Invariance, PTL DEF Spec, RotationMovesOn

\* A step of one request leaves the records of the others alone.
LEMMA OwnRecord ==
    ASSUME NEW q \in Handlers, Step(q), NEW p \in Handlers, p # q, DOMAIN handler = Handlers
    PROVE  handler'[p] = handler[p]
  <1>0. ASSUME NEW g, handler' = [handler EXCEPT ![q] = g] PROVE handler'[p] = handler[p]
    BY <1>0
  <1>1. ASSUME Done(q) \/ \E h, pc : Goto(q, h, pc) PROVE handler'[p] = handler[p]
    <2>1. CASE Done(q)
      BY <2>1, <1>0 DEF Done
    <2>2. CASE \E h, pc : Goto(q, h, pc)
      <3>1. PICK h, pc : Goto(q, h, pc)
        BY <2>2
      <3> QED BY <3>1, <1>0 DEF Goto
    <2> QED BY <1>1, <2>1, <2>2
  <1>2. CASE Start(q) \/ CreateUserSession(q)
    BY <1>0, <1>2, StartIsLocal DEF CreateUserSession
  <1>3. CASE StartAdvance(q) \/ LookupCache(q) \/ LoadRow(q)
    BY <1>1, <1>3 DEF StartAdvance, LookupCache, LoadRow
  <1>4. CASE FillDeny(q) \/ FillActive(q) \/ ReturnSnapshot(q) \/ CompareUser(q)
    BY <1>1, <1>4 DEF FillDeny, FillActive, ReturnSnapshot, CompareUser
  <1>5. CASE ReadForRotation(q) \/ RotateRefresh(q) \/ ReadCandidate(q) \/ MatchRefreshHash(q)
    BY <1>1, <1>5 DEF ReadForRotation, RotateRefresh, ReadCandidate, MatchRefreshHash
  <1>6. CASE PublishFence(q) \/ CommitRevocation(q) \/ PublishTombstone(q)
    BY <1>1, <1>6 DEF PublishFence, CommitRevocation, PublishTombstone
  <1>7. CASE BumpUserAuthVersion(q) \/ BeginAdvance(q) \/ AdvanceSession(q) \/ Crash(q)
    BY <1>1, <1>7 DEF BumpUserAuthVersion, BeginAdvance, AdvanceSession, Crash
  <1> QED BY <1>2, <1>3, <1>4, <1>5, <1>6, <1>7 DEF Step

\* GetUserSessionCached: an answer that does not come from an error of Redis is
\* the state of the row, or was less than CacheTTL ago.
THEOREM SnapshotsAreRecent == Spec => SnapshotIsRecent
  <1> USE ConstantsAssumption
  <1>1. ASSUME IInv, [Next]_vars, NEW p \in Handlers,
               handler[p].pc \in {"lookup", "written"}, handler'[p].pc = "user"
        PROVE  \/ row.status = "active" /\ row.version = handler'[p].version
               \/ now < row.changedAt + CacheTTL
    <2> DEFINE h == handler[p]
    <2>0. /\ Shared /\ Local(h) /\ h \in Handler /\ DOMAIN handler = Handlers
          /\ now \in Nat /\ row.changedAt \in Nat /\ cache \in Entry /\ cache.until \in Nat
          /\ h.deadline \in Nat
      BY <1>1 DEF IInv, Shared, Local, Row, Entry, Handler
    <2>1. CASE LookupCache(p)
      <3>1. CASE Entered("active") /\ Goto(p, Found(h, cache.version, cache.auth), "user")
        <4>1. handler'[p].version = cache.version
          BY <2>0, <3>1 DEF Goto, Found, Idle
        <4>2. now < cache.until
              /\ (Outdated(cache.version) => cache.until <= row.changedAt + CacheTTL)
          BY <2>0, <3>1 DEF Shared, Entered
        <4> QED BY <2>0, <4>1, <4>2 DEF Outdated
      <3>2. ~Done(p)
        BY <1>1, <2>0 DEF Done, Idle
      <3> QED BY <2>1, <3>1, <3>2 DEF LookupCache
    <2>2. CASE ReturnSnapshot(p)
      <3>1. ~Done(p)
        BY <1>1, <2>0 DEF Done, Idle
      <3>2. /\ Goto(p, Found(h, h.version, h.auth), "user")
            /\ h.deadline > now \/ Confirmed(h)
            /\ h.pc = "written"
        BY <2>0, <2>2, <3>1 DEF ReturnSnapshot, At
      <3>3. handler'[p].version = h.version
        BY <2>0, <3>2 DEF Goto, Found, Idle
      <3>4. Outdated(h.version) => h.deadline <= row.changedAt + CacheTTL
        BY <2>0, <3>2 DEF Local
      <3> QED BY <2>0, <3>2, <3>3, <3>4 DEF Outdated, Confirmed, Live
    <2>3. CASE \E q \in Handlers : Step(q) /\ (q # p \/ ~(LookupCache(p) \/ ReturnSnapshot(p)))
      <3>1. PICK q \in Handlers : Step(q) /\ (q # p \/ ~(LookupCache(p) \/ ReturnSnapshot(p)))
        BY <2>3
      <3>2. CASE q # p
        <4>1. handler'[p] = handler[p]
          BY <3>1, <3>2, <2>0, OwnRecord
        <4> QED BY <4>1, <1>1
      <3>3. CASE q = p
        <4>1. Crash(p) \/ LoadRow(p)
          <5>1. h.pc \in {"lookup", "written"}
            BY <1>1
          <5>2. ~(Start(p) \/ StartAdvance(p) \/ CreateUserSession(p)
                  \/ FillDeny(p) \/ FillActive(p) \/ CompareUser(p) \/ ReadForRotation(p))
            BY <5>1, StartIsLocal DEF StartAdvance, CreateUserSession, FillDeny,
                        FillActive, CompareUser, ReadForRotation, At
          <5>3. ~(RotateRefresh(p) \/ ReadCandidate(p) \/ MatchRefreshHash(p)
                  \/ PublishFence(p) \/ CommitRevocation(p) \/ PublishTombstone(p)
                  \/ BumpUserAuthVersion(p) \/ BeginAdvance(p) \/ AdvanceSession(p))
            BY <5>1 DEF RotateRefresh, ReadCandidate, MatchRefreshHash, PublishFence,
                        CommitRevocation, PublishTombstone, BumpUserAuthVersion,
                        BeginAdvance, AdvanceSession, At
          <5> QED BY <3>1, <3>3, <5>2, <5>3 DEF Step
        <4>2. \A k, pc : Goto(p, k, pc) /\ k \in Handler => handler'[p].pc = pc
          BY <2>0 DEF Goto, Handler
        <4>3. Revoking("check", 0) \in Handler
              /\ [Snapshot(h) EXCEPT !.deadline = now + CacheTTL] \in Handler
          <5>1. row \in Row /\ now + CacheTTL \in Nat
            BY <2>0, ConstantsAssumption DEF Shared
          <5>2. Revoking("check", 0) \in Handler
            BY <5>1 DEF Revoking, Idle, Handler, Ops, Pcs, Row
          <5>3. [Snapshot(h) EXCEPT !.deadline = now + CacheTTL] \in Handler
            BY <2>0, <5>1 DEF Snapshot, Handler, Row
          <5> QED BY <5>2, <5>3
        <4>4. ~LoadRow(p)
          BY <1>1, <2>0, <4>2, <4>3 DEF LoadRow, Done, Idle
        <4> QED BY <4>1, <4>4, <1>1, <2>0 DEF Crash, Done, Idle
      <3> QED BY <3>2, <3>3
    <2>4. CASE SecurityChanged \/ DeleteSession \/ Tick \/ UNCHANGED vars
      BY <1>1, <2>4 DEF SecurityChanged, DeleteSession, Tick, vars
    <2> QED BY <1>1, <2>1, <2>2, <2>3, <2>4 DEF Next
  <1>2. ASSUME IInv, [Next]_vars
        PROVE  \A p \in Handlers :
                  (handler[p].pc \in {"lookup", "written"} /\ handler'[p].pc = "user")
                     => \/ row.status = "active" /\ row.version = handler'[p].version
                        \/ now < row.changedAt + CacheTTL
    BY <1>1, <1>2
  <1> QED BY <1>2, Invariance, PTL DEF Spec, SnapshotIsRecent

-----------------------------------------------------------------------------
(* Refreshes that race for one rotation.                                    *)

\* A refresh that was sent with the current secret: since then the family has
\* only moved on, and if it moved by one rotation, that rotation's grace window
\* began after the refresh was sent, less the time the rotation itself took.
Race(h) ==
    h.sent # NoTime =>
        /\ row.status # "none"
        /\ h.present <= row.refresh
        /\ h.sent <= now
        /\ row.status = "active" /\ row.refresh = h.present + 1
              => h.sent + Grace <= row.prevUntil + slow

Races ==
    /\ row.prev = NoGen => row.refresh = 0
    /\ \A p \in Handlers : Race(handler[p])

\* A request carries its secret and the time it was sent, or drops them.
Carries(g, h) == g.sent = NoTime \/ (g.sent = h.sent /\ g.present = h.present)

LEMMA SentKept ==
    ASSUME IInv, NEW p \in Handlers, Step(p), ~Start(p)
    PROVE  Carries(handler'[p], handler[p])
  <1> DEFINE h == handler[p]
  <1>0. h \in Handler /\ DOMAIN handler = Handlers
    BY DEF IInv, Local
  <1>1. ASSUME Done(p) PROVE Carries(handler'[p], h)
    BY <1>0, <1>1 DEF Done, Idle, Carries
  <1>2. ASSUME NEW g \in Handler, Carries(g, h), NEW pc, Goto(p, g, pc)
        PROVE  Carries(handler'[p], h)
    BY <1>0, <1>2 DEF Goto, Carries, Handler
  <1>3. ASSUME NEW g, NEW pc, g.sent = NoTime, Goto(p, g, pc), g \in Handler
        PROVE  Carries(handler'[p], h)
    BY <1>0, <1>3 DEF Goto, Carries, Handler
  <1>4. /\ row \in Row /\ cache \in Entry /\ now \in Nat /\ user \in Nat /\ user + 1 \in Nat
        /\ now + CacheTTL \in Nat
    BY ConstantsAssumption DEF IInv, Shared
  <1>5. Carries(h, h)
    BY DEF Carries
  <1>6. ASSUME NEW version \in Nat, NEW auth \in Nat
        PROVE  Found(h, version, auth) \in Handler /\ Carries(Found(h, version, auth), h)
    BY <1>0, <1>6 DEF Found, Idle, Handler, Carries, Ops, Pcs
  <1>7. ASSUME NEW op \in Ops, NEW t \in Nat
        PROVE  Revoking(op, t) \in Handler /\ Revoking(op, t).sent = NoTime
    BY <1>4 DEF Revoking, Idle, Handler, Pcs, Row
  <1>8. CASE StartAdvance(p)
    <2>1. Snapshot([Idle EXCEPT !.op = "advance"]) \in Handler
          /\ Snapshot([Idle EXCEPT !.op = "advance"]).sent = NoTime
      BY <1>4 DEF Snapshot, Idle, Handler, Ops, Pcs, Row
    <2> QED BY <1>8, <1>3, <2>1 DEF StartAdvance
  <1>9. CASE CreateUserSession(p)
    <2>1. handler'[p].sent = h.sent /\ handler'[p].present = h.present
      BY <1>0, <1>9 DEF CreateUserSession, Handler
    <2> QED BY <2>1 DEF Carries
  <1>10. CASE LookupCache(p)
    <2>1. cache.version \in Nat /\ cache.auth \in Nat
      BY <1>4 DEF Entry
    <2> QED BY <1>10, <1>0, <1>1, <1>2, <1>5, <1>6, <2>1 DEF LookupCache
  <1>11. CASE LoadRow(p)
    <2> DEFINE g == [Snapshot(h) EXCEPT !.deadline = now + CacheTTL]
    <2>1. g \in Handler /\ Carries(g, h)
      BY <1>0, <1>4 DEF Snapshot, Handler, Row, Carries
    <2>2. Done(p) \/ Goto(p, g, "fill") \/ Goto(p, Revoking("check", 0), "denyfill")
      BY <1>11 DEF LoadRow
    <2>3. "check" \in Ops
      BY DEF Ops
    <2> HIDE DEF g
    <2> QED BY <2>1, <2>2, <2>3, <1>1, <1>2, <1>3, <1>7
  <1>12. CASE FillDeny(p) \/ PublishTombstone(p) \/ Crash(p)
    BY <1>12, <1>1 DEF FillDeny, PublishTombstone, Crash
  <1>13. CASE FillActive(p) \/ ReturnSnapshot(p)
    <2>1. h.version \in Nat /\ h.auth \in Nat
      BY <1>0 DEF Handler
    <2>2. Done(p) \/ Goto(p, h, "written") \/ Goto(p, Found(h, h.version, h.auth), "user")
      BY <1>13 DEF FillActive, ReturnSnapshot
    <2> QED BY <2>1, <2>2, <1>0, <1>1, <1>2, <1>5, <1>6
  <1>14. CASE CompareUser(p)
    <2> DEFINE g == [Idle EXCEPT !.op = "refresh", !.present = h.present,
                                 !.sent = h.sent, !.at = now]
               k == [Idle EXCEPT !.op = "revoke"]
    <2>1. g \in Handler /\ Carries(g, h) /\ k \in Handler /\ k.sent = NoTime
      BY <1>0, <1>4 DEF Idle, Handler, Ops, Pcs, Carries
    <2>2. Done(p) \/ Goto(p, g, "rotate") \/ Goto(p, k, "candidate")
      BY <1>14 DEF CompareUser
    <2> HIDE DEF g, k
    <2> QED BY <2>1, <2>2, <1>1, <1>2, <1>3
  <1>15. CASE ReadForRotation(p)
    <2> DEFINE g == [Snapshot(h) EXCEPT !.deadline = now + CacheTTL]
    <2>1. g \in Handler /\ Carries(g, h) /\ h.at \in Nat
      BY <1>0, <1>4 DEF Snapshot, Handler, Row, Carries
    <2>2. Done(p) \/ Goto(p, g, "cas") \/ Goto(p, Revoking("revoke", h.at), "fence")
      BY <1>15 DEF ReadForRotation
    <2>3. "revoke" \in Ops
      BY DEF Ops
    <2> HIDE DEF g
    <2> QED BY <2>1, <2>2, <2>3, <1>1, <1>2, <1>3, <1>7
  <1>16. CASE RotateRefresh(p)
    <2> DEFINE g == [h EXCEPT !.op = "stored", !.present = 0, !.at = 0, !.sent = NoTime]
               k == [h EXCEPT !.version = 0, !.auth = 0, !.deadline = 0]
    <2>1. g \in Handler /\ g.sent = NoTime /\ k \in Handler /\ Carries(k, h)
      BY <1>0 DEF Handler, Ops, Carries
    <2>2. Goto(p, g, "fill") \/ Goto(p, k, "rotate")
      BY <1>16 DEF RotateRefresh
    <2> HIDE DEF g, k
    <2> QED BY <2>1, <2>2, <1>2, <1>3
  <1>17. CASE ReadCandidate(p) \/ MatchRefreshHash(p)
    <2>1. Done(p) \/ \E op \in Ops : Goto(p, Revoking(op, now), "fence")
      <3>1. {"revoke", "bulk"} \subseteq Ops
        BY DEF Ops
      <3> QED BY <1>17, <3>1 DEF ReadCandidate, MatchRefreshHash
    <2> QED BY <2>1, <1>1, <1>3, <1>4, <1>7
  <1>18. CASE PublishFence(p)
    BY <1>18, <1>0, <1>1, <1>2, <1>5 DEF PublishFence
  <1>19. CASE CommitRevocation(p)
    <2> DEFINE g == [h EXCEPT !.at = 0, !.version = IF h.op = "bulk" THEN row.version ELSE @]
    <2>1. g \in Handler /\ Carries(g, h)
      BY <1>0, <1>4 DEF Handler, Row, Carries
    <2>2. Done(p) \/ Goto(p, g, "tombstone")
      BY <1>19 DEF CommitRevocation
    <2> HIDE DEF g
    <2> QED BY <2>1, <2>2, <1>1, <1>2
  <1>20. CASE BumpUserAuthVersion(p)
    <2> DEFINE g == [h EXCEPT !.next = user + 1]
    <2>1. g \in Handler /\ Carries(g, h) /\ Goto(p, g, "begin")
      BY <1>0, <1>4, <1>20 DEF BumpUserAuthVersion, Handler, Carries
    <2> HIDE DEF g
    <2> QED BY <2>1, <1>2
  <1>21. CASE BeginAdvance(p)
    <2>1. PICK next \in {h.next, user} :
             Goto(p, [h EXCEPT !.next = next, !.at = now, !.deadline = now + CacheTTL], "advance")
      BY <1>21 DEF BeginAdvance
    <2> DEFINE g == [h EXCEPT !.next = next, !.at = now, !.deadline = now + CacheTTL]
    <2>2. g \in Handler /\ Carries(g, h)
      BY <1>0, <1>4 DEF Handler, Carries
    <2> HIDE DEF g
    <2>3. Goto(p, g, "advance")
      BY <2>1 DEF g
    <2> QED BY <2>2, <2>3, <1>2
  <1>22. CASE AdvanceSession(p)
    <2> DEFINE g == [h EXCEPT !.op = "stored", !.version = @ + 1, !.auth = h.next,
                              !.next = 0, !.at = 0]
    <2>0. h.next \in Nat /\ h.version + 1 \in Nat
      BY <1>0 DEF Handler
    <2>1. g \in Handler /\ Carries(g, h)
      BY <1>0, <2>0 DEF Handler, Ops, Carries
    <2>2. Done(p) \/ Goto(p, g, "fill")
      BY <1>22 DEF AdvanceSession
    <2> HIDE DEF g
    <2> QED BY <2>1, <2>2, <1>1, <1>2
  <1> QED BY <1>8, <1>9, <1>10, <1>11, <1>12, <1>13, <1>14, <1>15, <1>16, <1>17, <1>18,
             <1>19, <1>20, <1>21, <1>22 DEF Step

\* A step that leaves the secrets and the windows of a live row alone.
LEMMA RaceFrame ==
    ASSUME IInv, NEW g \in Handler, NEW h \in Handler, Race(h), Carries(g, h),
           now' \in Nat, now' >= now, row'.refresh = row.refresh,
           row.status # "none" => row'.status # "none",
           row'.status = "active" /\ row.status # "none" =>
              row.status = "active" /\ row'.prevUntil = row.prevUntil /\ slow' = slow
    PROVE  Race(g)'
  <1> SUFFICES ASSUME g.sent # NoTime PROVE Race(g)'
    BY DEF Race
  <1>1. /\ now \in Nat /\ row.refresh \in Nat /\ row.prevUntil \in Nat /\ slow \in Nat
        /\ Grace \in Nat
    BY ConstantsAssumption DEF IInv, Shared, Row
  <1>2. g.sent = h.sent /\ g.present = h.present /\ g.sent \in Nat /\ g.present \in Nat
    BY DEF Carries, Handler
  <1> QED BY <1>1, <1>2 DEF Race

\* Of the refreshes with the secret that is rotated the winner knows: what it
\* took is what the window of the others is short of.
LEMMA RotationRace ==
    ASSUME IInv, Races, NEW p \in Handlers, RotateRefresh(p), RotationMatches(handler[p]),
           NEW q \in Handlers, q # p
    PROVE  Race(handler[q])'
  <1> DEFINE h == handler[p]
             k == handler[q]
  <1>1. /\ h \in Handler /\ k \in Handler /\ row \in Row /\ h.present \in Nat /\ h.at \in Nat
        /\ k.present \in Nat /\ k.sent \in Nat \cup {NoTime} /\ now \in Nat /\ h.at <= now
        /\ Grace \in Nat /\ Race(k) /\ DOMAIN handler = Handlers
    BY ConstantsAssumption DEF IInv, Shared, Local, Handler, Races
  <1>2. /\ row' = Rotated(h) /\ row.refresh = h.present /\ row.status = "active" /\ now' = now
        /\ slow' = IF Overtakes(p) THEN now - h.at ELSE 0
    BY DEF RotateRefresh, RotationMatches, Live
  <1>3. row'.refresh = h.present + 1 /\ row'.prevUntil = h.at + Grace /\ row'.status = "active"
    BY <1>1, <1>2 DEF Rotated, Row
  <1>4. handler'[q] = k
    BY <1>1, OwnRecord DEF Step
  <1>5. k.sent # NoTime /\ k.present = h.present => slow' = now - h.at
    BY <1>2 DEF Overtakes
  <1>6. k.sent # NoTime => /\ k.present <= row'.refresh
                           /\ k.sent <= now
                           /\ row'.refresh = k.present + 1 => k.sent + Grace <= row'.prevUntil + slow'
    BY <1>1, <1>2, <1>3, <1>5 DEF Race
  <1>7. \A g : g = handler'[q] => (Race(g)' => Race(handler[q])')
    BY DEF Race
  <1>8. PICK g : g = k
    OBVIOUS
  <1>9. Race(g)'
    BY <1>2, <1>3, <1>6, <1>8 DEF Race
  <1> QED BY <1>4, <1>7, <1>8, <1>9

\* A step that rotates nothing leaves the secrets of the row alone and, while
\* the session lives, the grace window.
Windows ==
    /\ now' >= now /\ row'.refresh = row.refresh /\ row'.prev = row.prev
    /\ row.status # "none" => row'.status # "none"
    /\ row'.status = "active" /\ row.status # "none" =>
          row.status = "active" /\ row'.prevUntil = row.prevUntil /\ slow' = slow

LEMMA NothingRotated ==
    ASSUME IInv, [Next]_vars,
           \A p \in Handlers : RotateRefresh(p) => ~RotationMatches(handler[p])
    PROVE  Windows
  <1>0. now \in Nat /\ row \in Row
    BY DEF IInv, Shared
  <1>1. ASSUME UNCHANGED <<now, row, slow>> PROVE Windows
    BY <1>0, <1>1 DEF Windows
  <1>2. ASSUME NEW p \in Handlers, Step(p) PROVE Windows
    <2>1. CASE Start(p)
      <3>1. ASSUME NEW op, NEW gen, StartRequest(p, op, gen) PROVE UNCHANGED <<now, row, slow>>
        BY <3>1 DEF StartRequest
      <3> QED BY <2>1, <3>1, <1>1 DEF Start
    <2>2. CASE CreateUserSession(p)
      <3>1. Local(handler[p]) /\ row.status = "none"
        BY <2>2 DEF IInv, Local, CreateUserSession, At
      <3> QED BY <1>0, <2>2, <3>1 DEF CreateUserSession, Windows, Row
    <2>3. CASE StartAdvance(p) \/ LookupCache(p) \/ LoadRow(p) \/ FillDeny(p) \/ FillActive(p)
      <3>1. UNCHANGED <<now, row, slow>>
        BY <2>3 DEF StartAdvance, LookupCache, LoadRow, FillDeny, FillActive
      <3> QED BY <3>1, <1>1
    <2>4. CASE ReturnSnapshot(p) \/ CompareUser(p) \/ ReadForRotation(p) \/ ReadCandidate(p)
      <3>1. UNCHANGED <<now, row, slow>>
        BY <2>4 DEF ReturnSnapshot, CompareUser, ReadForRotation, ReadCandidate
      <3> QED BY <3>1, <1>1
    <2>5. CASE MatchRefreshHash(p) \/ PublishFence(p) \/ PublishTombstone(p)
      <3>1. UNCHANGED <<now, row, slow>>
        BY <2>5 DEF MatchRefreshHash, PublishFence, PublishTombstone
      <3> QED BY <3>1, <1>1
    <2>6. CASE BumpUserAuthVersion(p) \/ BeginAdvance(p) \/ Crash(p)
      <3>1. UNCHANGED <<now, row, slow>>
        BY <2>6 DEF BumpUserAuthVersion, BeginAdvance, Crash
      <3> QED BY <3>1, <1>1
    <2>7. CASE RotateRefresh(p)
      <3>1. UNCHANGED <<now, row, slow>>
        BY <2>7 DEF RotateRefresh
      <3> QED BY <3>1, <1>1
    <2>8. CASE CommitRevocation(p)
      <3>1. CASE Live(handler[p].at)
        <4>1. row' = [row EXCEPT !.status = "revoked", !.changedAt = now] /\ now' = now
          BY <2>8, <3>1 DEF CommitRevocation
        <4>2. row'.refresh = row.refresh /\ row'.prev = row.prev /\ row'.status = "revoked"
          BY <1>0, <4>1 DEF Row
        <4> QED BY <1>0, <4>1, <4>2 DEF Windows
      <3>2. CASE ~Live(handler[p].at)
        BY <2>8, <3>2, <1>1 DEF CommitRevocation
      <3> QED BY <3>1, <3>2
    <2>9. CASE AdvanceSession(p)
      <3>1. CASE row' = row
        BY <2>9, <3>1, <1>1 DEF AdvanceSession
      <3>2. CASE /\ row.status = "active"
                 /\ row' = [row EXCEPT !.version = @ + 1, !.auth = handler[p].next,
                                       !.changedAt = now]
        <4>1. now' = now /\ slow' = slow
          BY <2>9 DEF AdvanceSession
        <4>2. /\ row'.refresh = row.refresh /\ row'.prev = row.prev
              /\ row'.prevUntil = row.prevUntil /\ row'.status = "active"
          BY <1>0, <3>2 DEF Row
        <4> QED BY <1>0, <3>2, <4>1, <4>2 DEF Windows
      <3> QED BY <2>9, <3>1, <3>2 DEF AdvanceSession, Live
    <2> QED BY <1>2, <2>1, <2>2, <2>3, <2>4, <2>5, <2>6, <2>7, <2>8, <2>9 DEF Step
  <1>3. CASE DeleteSession
    BY <1>0, <1>3 DEF DeleteSession, Windows, Row
  <1>4. CASE Tick
    BY <1>0, <1>4 DEF Tick, Windows
  <1>5. CASE SecurityChanged \/ UNCHANGED vars
    BY <1>5, <1>1 DEF SecurityChanged, vars
  <1> QED BY <1>2, <1>3, <1>4, <1>5 DEF Next

LEMMA RacesInductive ==
    ASSUME IInv, IInv', Races, [Next]_vars
    PROVE  Races'
  <1>0. /\ \A q \in Handlers : handler[q] \in Handler /\ handler'[q] \in Handler
        /\ now' \in Nat /\ row \in Row /\ now \in Nat /\ row.refresh \in Nat
        /\ DOMAIN handler = Handlers
    BY DEF IInv, Shared, Local, Row
  <1>1. \A q \in Handlers : \A g : g = handler'[q] => (Race(g)' => Race(handler[q])')
    BY DEF Race
  <1>2. CASE \E p \in Handlers : RotateRefresh(p) /\ RotationMatches(handler[p])
    <2>1. PICK p \in Handlers : RotateRefresh(p) /\ RotationMatches(handler[p])
      BY <1>2
    <2>2. Race(handler[p])'
      <3>1. handler'[p].sent = NoTime
        BY <1>0, <2>1 DEF RotateRefresh, Goto, Handler
      <3> QED BY <3>1 DEF Race
    <2>3. row'.prev # NoGen
      <3>1. row' = Rotated(handler[p]) /\ handler[p].present \in Nat
        BY <1>0, <2>1 DEF RotateRefresh, Handler
      <3> QED BY <1>0, <3>1 DEF Rotated, Row
    <2>4. \A q \in Handlers : q # p => Race(handler[q])'
      BY <2>1, RotationRace
    <2>5. \A q \in Handlers : Race(handler[q])'
      BY <2>2, <2>4
    <2> QED BY <2>3, <2>5 DEF Races
  <1>3. CASE ~\E p \in Handlers : RotateRefresh(p) /\ RotationMatches(handler[p])
    <2>1. Windows
      BY <1>3, NothingRotated
    <2>2. ASSUME NEW q \in Handlers, Carries(handler'[q], handler[q]) PROVE Race(handler[q])'
      <3>1. PICK g, h : g = handler'[q] /\ h = handler[q]
        OBVIOUS
      <3>2. Race(h)
        BY <3>1 DEF Races
      <3>3. Race(g)'
        BY <1>0, <2>1, <2>2, <3>1, <3>2, RaceFrame DEF Windows
      <3> QED BY <3>1, <3>3, <1>1
    <2>3. ASSUME NEW q \in Handlers, handler'[q] = handler[q] PROVE Race(handler[q])'
      BY <2>2, <2>3 DEF Carries
    <2>4. ASSUME NEW p \in Handlers, Start(p) PROVE Race(handler[p])'
      <3>1. PICK op, gen : StartRequest(p, op, gen)
        BY <2>4 DEF Start
      <3>2. PICK g : g = handler'[p]
        OBVIOUS
      <3>3. /\ g.present = gen
            /\ g.sent = IF op = "refresh" /\ gen = row.refresh /\ Live(now) THEN now ELSE NoTime
            /\ now' = now /\ row' = row
        BY <1>0, <3>1, <3>2 DEF StartRequest, Idle
      <3>4. g.sent # NoTime => g.sent = now /\ g.present = row.refresh /\ row.status = "active"
        BY <3>3 DEF Live
      <3>5. Race(g)'
        BY <1>0, <3>3, <3>4 DEF Race
      <3> QED BY <3>2, <3>5, <1>1
    <2>5. \A q \in Handlers : Race(handler[q])'
      <3>1. ASSUME NEW p \in Handlers, Step(p), NEW q \in Handlers PROVE Race(handler[q])'
        <4>1. CASE q # p
          BY <1>0, <2>3, <3>1, <4>1, OwnRecord
        <4>2. CASE q = p /\ Start(p)
          BY <2>4, <4>2
        <4>3. CASE q = p /\ ~Start(p)
          BY <2>2, <3>1, <4>3, SentKept
        <4> QED BY <4>1, <4>2, <4>3
      <3>2. ASSUME UNCHANGED handler PROVE \A q \in Handlers : Race(handler[q])'
        BY <2>3, <3>2
      <3>3. CASE SecurityChanged \/ DeleteSession \/ Tick \/ UNCHANGED vars
        BY <3>2, <3>3 DEF SecurityChanged, DeleteSession, Tick, vars
      <3> QED BY <3>1, <3>3 DEF Next
    <2> QED BY <2>1, <2>5 DEF Races, Windows
  <1> QED BY <1>2, <1>3

LEMMA RacesInvariance == Spec => []Races
  <1>1. Init => Races
    BY DEF Init, Races, Race, Idle
  <1> QED BY <1>1, RacesInductive, Invariance, PTL DEF Spec

\* RotateUserSessionRefresh: a refresh with the current secret that others
\* overtake rotates or receives the secret of the winner, and is taken for a
\* thief only if it and the winner were held up for longer than the grace
\* window, for any number of refreshes and any window.
THEOREM LosersRecover == Spec => []RaceLosersRecover
  <1>1. ASSUME IInv, Races, NEW p \in Handlers, At(p, "rotate"), handler[p].sent # NoTime
        PROVE  LET h == handler[p] IN
               \/ RotationAnswer(h) \in {"inactive", "rotate", "successor"}
               \/ RotationAnswer(h) = "invalid" /\ row.refresh >= h.present + 2
               \/ RotationAnswer(h) = "reuse" /\ (h.at - h.sent) + slow > Grace
    <2> DEFINE h == handler[p]
    <2>1. /\ h.present \in Nat /\ h.at \in Nat /\ h.sent \in Nat /\ row.refresh \in Nat
          /\ row.prev \in Nat \cup {NoGen} /\ row.prevUntil \in Nat /\ slow \in Nat
          /\ Grace \in Nat
      BY <1>1, ConstantsAssumption DEF IInv, Shared, Local, Handler, Row
    <2>2. /\ h.present <= row.refresh
          /\ row.status = "active" /\ row.refresh = h.present + 1
                => h.sent + Grace <= row.prevUntil + slow
      BY <1>1 DEF Races, Race
    <2>3. (row.prev # NoGen => row.refresh = row.prev + 1) /\ (row.prev = NoGen => row.refresh = 0)
      BY <1>1 DEF IInv, Shared, Races
    <2> HIDE DEF h
    <2>4. CASE ~Live(h.at) \/ row.refresh = h.present
      BY <2>4 DEF RotationAnswer, h
    <2>5. CASE Live(h.at) /\ row.refresh # h.present /\ row.prev # h.present
      <3>1. row.refresh >= h.present + 2
        BY <2>1, <2>2, <2>3, <2>5
      <3> QED BY <2>5, <3>1 DEF RotationAnswer, h
    <2>6. CASE Live(h.at) /\ row.refresh # h.present /\ row.prev = h.present
      <3>1. row.refresh = h.present + 1 /\ row.status = "active"
        BY <2>1, <2>3, <2>6 DEF Live
      <3>2. h.at > row.prevUntil => (h.at - h.sent) + slow > Grace
        BY <2>1, <2>2, <3>1
      <3>3. RotationAnswer(h) = IF h.at > row.prevUntil THEN "reuse" ELSE "successor"
        BY <2>6, <3>1 DEF RotationAnswer
      <3> QED BY <3>2, <3>3 DEF h
    <2> QED BY <2>4, <2>5, <2>6
  <1>2. IInv /\ Races => RaceLosersRecover
    BY <1>1 DEF RaceLosersRecover
  <1> QED BY <1>2, Invariance, RacesInvariance, PTL
=============================================================================
