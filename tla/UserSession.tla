---------------------------- MODULE UserSession ----------------------------
(***************************************************************************)
(* One login session of the dashboard as the servers keep it: the row of   *)
(* user_sessions, its snapshot in Redis, and the requests of any node that *)
(* check, refresh, revoke or advance it at the same time                   *)
(* (model/user_session.go, service/auth_session.go).                       *)
(*                                                                         *)
(* The row is the authority; the snapshot only saves reading it.  A        *)
(* revocation publishes a deny entry ("revoking") first, commits the row,  *)
(* and publishes a deny entry again ("revoked").  A request that missed    *)
(* the snapshot reads the row and writes an active entry later, when the   *)
(* row may be revoked already: its entry carries a deadline taken before   *)
(* the row was read.                                                       *)
(*                                                                         *)
(* Refresh secrets are derived from each other, so a secret is the number  *)
(* of rotations before it.  Times are seconds of one clock.  The row locks *)
(* of the revoking transactions are not modelled: interleavings they       *)
(* exclude are allowed here.                                               *)
(***************************************************************************)
EXTENDS Integers

CONSTANTS
    Handlers,        \* requests that can be under way at the same time
    CacheTTL,        \* userCacheTTLSeconds
    Grace,           \* RefreshReplayWindow
    SessionTTL,      \* LoginSessionTTL
    IssuanceWindow,  \* UserSessionIssuanceWindowSeconds
    Retention,       \* UserSessionRevokedRetentionDays
    MaxTime,         \* bound on the clock
    MaxGen,          \* bound on refresh rotations
    MaxUser          \* bound on the user's auth_version

ASSUME ConstantsAssumption ==
    /\ CacheTTL \in Nat \ {0}
    /\ Grace \in Nat /\ SessionTTL \in Nat
    /\ IssuanceWindow \in Nat /\ Retention \in Nat
    /\ MaxTime \in Nat /\ MaxGen \in Nat /\ MaxUser \in Nat

VARIABLES
    now,      \* the clock
    user,     \* users.auth_version
    row,      \* the row of user_sessions
    cache,    \* the entry of Redis under the session's key
    handler,  \* the requests under way
    began,    \* revoked_at: when the revocation that revoked the row began
    sealed,   \* history: its last deny entry has been published
    slow      \* history: how long the last rotation of the live session that
              \* overtook a refresh took from reading the clock to its UPDATE

vars == <<now, user, row, cache, handler, began, sealed, slow>>

NoGen == -1
NoTime == -1

\* ExpiresAt: the session was issued at time 0.
ExpiresAt == SessionTTL

\* "stored": a create, a rotation or an advance that has written the row.
Ops == {"create", "check", "refresh", "revoke", "bulk", "advance", "stored"}

Pcs == {"idle", "insert", "lookup", "denyfill", "fill", "written", "user",
        "rotate", "cas", "bump", "begin", "advance", "candidate", "fence", "commit", "tombstone"}

Row == [status : {"none", "active", "revoked", "deleted"},
        version : Nat, auth : Nat, refresh : Nat, prev : Nat \cup {NoGen},
        prevUntil : Nat, changedAt : Nat]

Entry == [status : {"none", "active", "revoking", "revoked"},
          version : Nat, auth : Nat, until : Nat]

\* A request: what it read of the session (version, auth), the secret it
\* presents, the auth version an advance moves to, the time it took from the
\* clock, the deadline of its snapshot.  History: when a refresh was sent, if
\* its secret was the current one of a live session then.
Handler == [op : Ops, pc : Pcs, version : Nat, auth : Nat, present : Nat, next : Nat,
            at : Nat, deadline : Nat, sent : Nat \cup {NoTime}]

NoEntry == [status |-> "none", version |-> 0, auth |-> 0, until |-> 0]
Idle == [op |-> "check", pc |-> "idle", version |-> 0, auth |-> 0, present |-> 0,
         next |-> 0, at |-> 0, deadline |-> 0, sent |-> NoTime]

Min2(a, b) == IF a <= b THEN a ELSE b

Init ==
    /\ now = 0
    /\ user = 1
    /\ row = [status |-> "none", version |-> 0, auth |-> 0, refresh |-> 0,
              prev |-> NoGen, prevUntil |-> 0, changedAt |-> 0]
    /\ cache = NoEntry
    /\ \E p \in Handlers :
          handler = [q \in Handlers |->
                        IF q = p THEN [Idle EXCEPT !.op = "create", !.pc = "insert"]
                        ELSE Idle]
    /\ began = 0
    /\ sealed = FALSE
    /\ slow = 0

-----------------------------------------------------------------------------
(* What Redis answers and what a script of writeUserSessionCache does.     *)

Entered(status) == cache.status = status /\ now < cache.until
Denied == Entered("revoking") \/ Entered("revoked")

\* The script returns 0: an active entry never replaces a deny entry, and no
\* entry replaces one of a later version.
Refused(status, version) ==
    /\ now < cache.until
    /\ \/ status = "active" /\ Denied
       \/ cache.version > version

ActiveEntryFresh(h) ==                             \* mutant: a full TTL from now
    [status |-> "active", version |-> h.version, auth |-> h.auth,
     until |-> Min2(now + CacheTTL, ExpiresAt)]

\* PEXPIREAT with the deadline of the snapshot; a time that has passed removes
\* the key.
ActiveEntry(h) ==
    LET until == Min2(h.deadline, ExpiresAt)
    IN  IF until <= now THEN NoEntry
        ELSE [status |-> "active", version |-> h.version, auth |-> h.auth, until |-> until]

\* PEXPIRE of a deny entry: the time to live starts when it is published and
\* is at least a second.  Nobody reads its auth version.
DenyEntry(status, h) ==
    [status |-> status, version |-> h.version, auth |-> 0,
     until |-> IF ExpiresAt <= now THEN now + 1 ELSE Min2(now + CacheTTL, ExpiresAt)]

Live(t) == row.status = "active" /\ t < ExpiresAt

Snapshot(h) == [h EXCEPT !.version = row.version, !.auth = row.auth]

\* A revocation that read the row at time t.
Revoking(op, t) == [Idle EXCEPT !.op = op, !.version = row.version, !.at = t]

\* What a lookup hands on: the snapshot, and the secret of a refresh.
Found(h, version, auth) ==
    [Idle EXCEPT !.op = h.op, !.present = h.present, !.sent = h.sent,
                 !.version = version, !.auth = auth]

Goto(p, h, pc) == handler' = [handler EXCEPT ![p] = [h EXCEPT !.pc = pc]]
Done(p) == handler' = [handler EXCEPT ![p] = Idle]
Turn(p) == handler[p].op
At(p, pc) == handler[p].pc = pc

-----------------------------------------------------------------------------
(* Requests begin.                                                          *)

\* A refresh presents a secret that was issued at some time: any generation up
\* to the current one.  A revocation begins with its read (ReadCandidate,
\* MatchRefreshHash), a login with its insert.
StartRequest(p, op, gen) ==
    /\ At(p, "idle")
    /\ row.status # "none"
    /\ handler' = [handler EXCEPT ![p] =
           [Idle EXCEPT !.op = op,
                        !.pc = "lookup",
                        !.present = gen,
                        !.sent = IF op = "refresh" /\ gen = row.refresh /\ Live(now)
                                 THEN now ELSE NoTime]]
    /\ UNCHANGED <<now, user, row, cache, began, sealed, slow>>

Start(p) ==
    \/ StartRequest(p, "check", 0)
    \/ \E gen \in 0..row.refresh : StartRequest(p, "refresh", gen)

\* A change of password, second factor or passkey is made by a request with a
\* valid access token of the session.
StartAdvance(p) ==
    /\ At(p, "idle")
    /\ Live(now)
    /\ user = row.auth
    /\ user < MaxUser
    /\ Goto(p, Snapshot([Idle EXCEPT !.op = "advance"]), "bump")
    /\ UNCHANGED <<now, user, row, cache, began, sealed, slow>>

\* createLoginSession and CreateUserSession: the deadline, then the insert.
CreateUserSession(p) ==
    /\ At(p, "insert")
    /\ row' = [row EXCEPT !.status = "active", !.version = 1, !.auth = user,
                          !.changedAt = now]
    /\ handler' = [handler EXCEPT ![p] =
           [@ EXCEPT !.op = "stored", !.pc = "fill", !.version = 1, !.auth = user,
                     !.deadline = now + CacheTTL]]
    /\ UNCHANGED <<now, user, cache, began, sealed, slow>>

-----------------------------------------------------------------------------
(* GetUserSessionCached.                                                    *)

\* A hit answers from the entry.  After a miss, or a read that failed, the row
\* is loaded, by a request that has learnt nothing from Redis.
LookupCache(p) ==
    /\ At(p, "lookup")
    /\ \/ /\ Entered("active")
          /\ Goto(p, Found(handler[p], cache.version, cache.auth), "user")
       \/ Denied /\ Done(p)
    /\ UNCHANGED <<now, user, row, cache, began, sealed, slow>>

LoadRow(p) ==
    /\ At(p, "lookup")
    /\ \/ /\ Live(now)
          /\ Goto(p, [Snapshot(handler[p]) EXCEPT !.deadline = now + CacheTTL], "fill")
       \/ /\ ~Live(now)
          /\ row.status # "deleted"
          /\ Goto(p, Revoking("check", 0), "denyfill")
       \/ row.status = "deleted" /\ Done(p)
    /\ UNCHANGED <<now, user, row, cache, began, sealed, slow>>

\* An inactive row is published as a deny entry; errors are ignored.
FillDeny(p) ==
    /\ At(p, "denyfill")
    /\ cache' = IF Refused("revoked", handler[p].version) THEN cache
                ELSE DenyEntry("revoked", handler[p])
    /\ Done(p)
    /\ UNCHANGED <<now, user, row, began, sealed, slow>>

\* The active entry of a create, a read, a rotation or an advance.  A deadline
\* found passed before the script runs skips it; a refused entry ends the request;
\* an error of Redis is logged and the snapshot is used.
FillActive(p) ==
    /\ At(p, "fill")
    /\ \/ /\ Refused("active", handler[p].version)
          /\ cache' = cache
          /\ Done(p)
       \/ /\ ~Refused("active", handler[p].version)
          /\ cache' = ActiveEntry(handler[p])
          /\ Goto(p, handler[p], "written")
       \/ /\ handler[p].deadline <= now
          /\ cache' = cache
          /\ Goto(p, handler[p], "written")
       \/ /\ cache' = cache
          /\ IF Turn(p) \in {"check", "refresh"}
             THEN Goto(p, Found(handler[p], handler[p].version, handler[p].auth), "user")
             ELSE Done(p)
    /\ UNCHANGED <<now, user, row, began, sealed, slow>>

\* confirmUserSessionActiveSnapshot
Confirmed(h) == Live(now) /\ row.version = h.version /\ row.auth = h.auth

ReturnUnconfirmed(p) ==                            \* mutant: a late snapshot is returned
    /\ At(p, "written")
    /\ IF ExpiresAt <= now \/ Turn(p) \notin {"check", "refresh"}
       THEN Done(p)
       ELSE Goto(p, Found(handler[p], handler[p].version, handler[p].auth), "user")
    /\ UNCHANGED <<now, user, row, cache, began, sealed, slow>>

\* After the script: a deadline that has passed meanwhile asks the row again.
ReturnSnapshot(p) ==
    /\ At(p, "written")
    /\ IF \/ handler[p].deadline <= now /\ ~Confirmed(handler[p])
          \/ ExpiresAt <= now
          \/ Turn(p) \notin {"check", "refresh"}
       THEN Done(p)
       ELSE Goto(p, Found(handler[p], handler[p].version, handler[p].auth), "user")
    /\ UNCHANGED <<now, user, row, cache, began, sealed, slow>>

-----------------------------------------------------------------------------
(* ValidateLoginSession and RefreshLoginSession.                            *)

\* The snapshot's auth version is compared with the user's.  A check ends here;
\* a refresh goes on to the rotation, or revokes the session.
CompareUser(p) ==
    /\ At(p, "user")
    /\ \/ Turn(p) = "check" /\ Done(p)
       \/ /\ Turn(p) = "refresh"
          /\ user = handler[p].auth
          /\ Goto(p, [Idle EXCEPT !.op = "refresh", !.present = handler[p].present,
                                  !.sent = handler[p].sent, !.at = now], "rotate")
       \/ /\ Turn(p) = "refresh"
          /\ user # handler[p].auth
          /\ Goto(p, [Idle EXCEPT !.op = "revoke"], "candidate")
    /\ UNCHANGED <<now, user, row, cache, began, sealed, slow>>

\* What RotateUserSessionRefresh makes of the row it reads, and
\* RefreshLoginSession of its answer: the previous secret within the grace
\* window is answered with its successor if that is the current secret, and
\* with AUTH_REFRESH_RACE otherwise; after the window the whole family is
\* revoked; an unknown secret changes nothing.
RotationAnswer(h) ==
    CASE ~Live(h.at) -> "inactive"
      [] Live(h.at) /\ row.refresh = h.present -> "rotate"
      [] Live(h.at) /\ row.refresh # h.present /\ row.prev # h.present -> "invalid"
      [] OTHER -> IF h.at > row.prevUntil THEN "reuse"
                  ELSE IF row.refresh = h.present + 1 THEN "successor" ELSE "race"

ReadForRotation(p) ==
    LET h == handler[p]
    IN  /\ At(p, "rotate")
        /\ \/ /\ RotationAnswer(h) = "rotate" /\ row.refresh < MaxGen
              /\ Goto(p, [Snapshot(h) EXCEPT !.deadline = now + CacheTTL], "cas")
           \/ /\ RotationAnswer(h) = "reuse"
              /\ Goto(p, Revoking("revoke", h.at), "fence")
           \/ /\ RotationAnswer(h) \in {"inactive", "invalid", "successor", "race"}
              /\ Done(p)
        /\ UNCHANGED <<now, user, row, cache, began, sealed, slow>>

RotationUnguarded(h) == Live(h.at)                 \* mutant: no refresh_hash in the WHERE

\* The WHERE clause of the rotating UPDATE.
RotationMatches(h) == Live(h.at) /\ row.refresh = h.present

RotatedKeepingPrevious(h) ==                       \* mutant: previous hash set only once
    [row EXCEPT !.refresh = h.present + 1,
                !.prev = IF row.prev = NoGen THEN h.present ELSE row.prev,
                !.prevUntil = h.at + Grace]

RotatedBackwards(h) ==                             \* mutant: the window ends before it began
    [row EXCEPT !.refresh = h.present + 1, !.prev = h.present,
                !.prevUntil = h.at - Grace]

Rotated(h) == [row EXCEPT !.refresh = h.present + 1, !.prev = h.present,
                          !.prevUntil = h.at + Grace]

Overtakes(p) == \E q \in Handlers \ {p} :
    handler[q].sent # NoTime /\ handler[q].present = handler[p].present

\* The UPDATE is a compare-and-swap; one that matched no row reads again.
RotateRefresh(p) ==
    LET h == handler[p]
    IN  /\ At(p, "cas")
        /\ \/ /\ RotationMatches(h)
              /\ row' = Rotated(h)
              /\ slow' = IF Overtakes(p) THEN now - h.at ELSE 0
              /\ Goto(p, [h EXCEPT !.op = "stored", !.present = 0, !.at = 0,
                                   !.sent = NoTime], "fill")
           \/ /\ ~RotationMatches(h)
              /\ UNCHANGED <<row, slow>>
              /\ Goto(p, [h EXCEPT !.version = 0, !.auth = 0, !.deadline = 0], "rotate")
        /\ UNCHANGED <<now, user, cache, began, sealed>>

-----------------------------------------------------------------------------
(* Revocation.                                                              *)

\* RevokeUserSession and revokeUserSessions read the active row, for a request
\* of their own or for a refresh that found the user changed.
ReadCandidate(p) ==
    /\ \/ At(p, "idle") /\ Live(now)
          /\ \E op \in {"revoke", "bulk"} : Goto(p, Revoking(op, now), "fence")
       \/ At(p, "candidate") /\ Live(now) /\ Goto(p, Revoking("revoke", now), "fence")
       \/ At(p, "candidate") /\ ~Live(now) /\ Done(p)
    /\ UNCHANGED <<now, user, row, cache, began, sealed, slow>>

\* RevokeUserSessionByRefreshHash: the current secret, or the previous one
\* within its window.
MatchRefreshHash(p) ==
    /\ At(p, "idle")
    /\ Live(now)
    /\ \E gen \in 0..row.refresh :
          row.refresh = gen \/ (row.prev = gen /\ now <= row.prevUntil)
    /\ Goto(p, Revoking("revoke", now), "fence")
    /\ UNCHANGED <<now, user, row, cache, began, sealed, slow>>

SkipFence(p) ==                                    \* mutant: the row first, no fence
    /\ At(p, "fence")
    /\ Goto(p, handler[p], "commit")
    /\ UNCHANGED <<now, user, row, cache, began, sealed, slow>>

\* writeUserSessionDenyFence: a fence that is refused, or fails, stops the
\* revocation with an error.
PublishFence(p) ==
    /\ At(p, "fence")
    /\ \/ /\ ~Refused("revoking", handler[p].version)
          /\ cache' = DenyEntry("revoking", handler[p])
          /\ Goto(p, handler[p], "commit")
       \/ cache' = cache /\ Done(p)
    /\ UNCHANGED <<now, user, row, began, sealed, slow>>

\* The revoking transaction; a bulk revocation takes the locked row as it is.
CommitRevocation(p) ==
    LET h == handler[p]
    IN  /\ At(p, "commit")
        /\ \/ /\ Live(h.at)
              /\ row' = [row EXCEPT !.status = "revoked", !.changedAt = now]
              /\ began' = h.at
              /\ slow' = 0
              /\ Goto(p, [h EXCEPT !.at = 0,
                                   !.version = IF h.op = "bulk" THEN row.version ELSE @],
                      "tombstone")
           \/ /\ ~Live(h.at)
              /\ UNCHANGED <<row, began, slow>>
              /\ Done(p)
        /\ UNCHANGED <<now, user, cache, sealed>>

\* The last deny entry; a failure is only logged.
PublishTombstone(p) ==
    /\ At(p, "tombstone")
    /\ \/ /\ ~Refused("revoked", handler[p].version)
          /\ cache' = DenyEntry("revoked", handler[p])
          /\ sealed' = TRUE
       \/ UNCHANGED <<cache, sealed>>
    /\ Done(p)
    /\ UNCHANGED <<now, user, row, began, slow>>

-----------------------------------------------------------------------------
(* Security changes, cleanup, time and crashes.                             *)

\* The transaction of the change increments auth_version.
BumpUserAuthVersion(p) ==
    /\ At(p, "bump")
    /\ user < MaxUser
    /\ user' = user + 1
    /\ Goto(p, [handler[p] EXCEPT !.next = user + 1], "begin")
    /\ UNCHANGED <<now, row, cache, began, sealed, slow>>

\* AdvanceCurrentSessionSecurity goes on with the version of its own bump,
\* AdvanceCurrentSessionToUserVersion with the one it reads of the user.  The
\* deadline and the time are taken before the transaction.
BeginAdvance(p) ==
    /\ At(p, "begin")
    /\ \E next \in {handler[p].next, user} :
          Goto(p, [handler[p] EXCEPT !.next = next, !.at = now, !.deadline = now + CacheTTL],
               "advance")
    /\ UNCHANGED <<now, user, row, cache, began, sealed, slow>>

\* AdvanceUserSessionAuthVersion keeps the session of the request, at a new
\* version.
AdvanceSession(p) ==
    LET h == handler[p]
        kept == Live(h.at) /\ row.version = h.version /\ row.auth = h.auth
    IN  /\ At(p, "advance")
        /\ \/ /\ kept
              /\ row' = [row EXCEPT !.version = @ + 1, !.auth = h.next, !.changedAt = now]
              /\ Goto(p, [h EXCEPT !.op = "stored", !.version = @ + 1, !.auth = h.next,
                                   !.next = 0, !.at = 0], "fill")
           \/ ~kept /\ row' = row /\ Done(p)
        /\ UNCHANGED <<now, user, cache, began, sealed, slow>>

\* Another login of the user, or an administrator, changes the user.
SecurityChanged ==
    /\ row.status # "none"
    /\ user < MaxUser
    /\ user' = user + 1
    /\ UNCHANGED <<now, row, cache, handler, began, sealed, slow>>

\* DeleteExpiredUserSessions and DeleteOldRevokedUserSessions.
DeleteSession ==
    /\ IssuanceWindow <= now
    /\ \/ row.status = "active" /\ ExpiresAt < now
       \/ row.status = "revoked" /\ began < now - Retention
    /\ row' = [row EXCEPT !.status = "deleted",
                          !.changedAt = IF row.status = "active" THEN now ELSE @]
    /\ UNCHANGED <<now, user, cache, handler, began, sealed, slow>>

\* A second passes; an entry whose time is over is gone.
Tick ==
    /\ now < MaxTime
    /\ now' = now + 1
    /\ cache' = IF cache.until <= now + 1 THEN NoEntry ELSE cache
    /\ UNCHANGED <<user, row, handler, began, sealed, slow>>

\* The node of a request stops, or one of its statements fails.
Crash(p) ==
    /\ ~At(p, "idle")
    /\ Done(p)
    /\ UNCHANGED <<now, user, row, cache, began, sealed, slow>>

Step(p) ==
    \/ Start(p) \/ StartAdvance(p) \/ CreateUserSession(p)
    \/ LookupCache(p) \/ LoadRow(p) \/ FillDeny(p) \/ FillActive(p) \/ ReturnSnapshot(p)
    \/ CompareUser(p) \/ ReadForRotation(p) \/ RotateRefresh(p)
    \/ ReadCandidate(p) \/ MatchRefreshHash(p) \/ PublishFence(p)
    \/ CommitRevocation(p) \/ PublishTombstone(p)
    \/ BumpUserAuthVersion(p) \/ BeginAdvance(p) \/ AdvanceSession(p) \/ Crash(p)

Next == (\E p \in Handlers : Step(p)) \/ SecurityChanged \/ DeleteSession \/ Tick

Spec == Init /\ [][Next]_vars

-----------------------------------------------------------------------------
(* Properties.                                                              *)

\* Every variable has its type.
TypeOK ==
    /\ now \in Nat
    /\ user \in Nat
    /\ row \in Row
    /\ cache \in Entry
    /\ handler \in [Handlers -> Handler]
    /\ began \in Nat
    /\ sealed \in BOOLEAN
    /\ slow \in Nat

\* An entry that still says "active" although the row has been revoked, has been
\* deleted or has a later version is gone at most CacheTTL after that change,
\* however late the request that wrote it did so and whatever failed meanwhile
\* (the deadline of writeUserSessionCache).
StaleEntryIsBounded ==
    Entered("active") /\ (row.status # "active" \/ row.version # cache.version)
        => cache.until <= row.changedAt + CacheTTL

\* A revocation shows at once: from its commit no active entry is found for
\* CacheTTL after it began, and none ever again once its last deny entry has
\* been published, although slower requests still write what they read before.
RevokedIsDenied ==
    row.status = "revoked" /\ (sealed \/ now < began + CacheTTL) => ~Entered("active")

\* What GetUserSessionCached returns is the row's state, or was less than
\* CacheTTL ago, also when the request was held up between its statements
\* (confirmUserSessionActiveSnapshot); only an error of Redis lifts the bound.
SnapshotIsRecent ==
    [][\A p \in Handlers :
          (handler[p].pc \in {"lookup", "written"} /\ handler'[p].pc = "user")
             => \/ row.status = "active" /\ row.version = handler'[p].version
                \/ now < row.changedAt + CacheTTL]_vars

\* Of any number of refreshes with the same secret one rotates, and a slow one
\* never sets the family back to a secret that has been replaced.
RotationMovesOn ==
    [][/\ row'.refresh >= row.refresh
       /\ row'.refresh # row.refresh => row'.refresh = row.refresh + 1]_vars

\* A refresh that was sent with the current secret of a live session, and that
\* other refreshes overtake at any of its statements, rotates, or receives the
\* secret of the one refresh that won: AUTH_REFRESH_RACE never reaches a
\* browser.  It is told its secret is unknown only when two have won since, and
\* is taken for a thief, its session revoked, only when it and the winner
\* together were held up for longer than the grace window, which starts when
\* the winner reads the clock and not when it writes the row.
RaceLosersRecover ==
    \A p \in Handlers : LET h == handler[p] IN
        At(p, "rotate") /\ h.sent # NoTime =>
            \/ RotationAnswer(h) \in {"inactive", "rotate", "successor"}
            \/ RotationAnswer(h) = "invalid" /\ row.refresh >= h.present + 2
            \/ RotationAnswer(h) = "reuse" /\ (h.at - h.sent) + slow > Grace
=============================================================================
