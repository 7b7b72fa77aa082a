------------------------------ MODULE AuthTabs ------------------------------
(***************************************************************************)
(* The tabs of one browser and the login sessions of its user: the refresh *)
(* runner of web/src/lib/auth-session.ts with its epoch and its Web Lock,  *)
(* the events between tabs (auth-session-sync.ts, routes/__root.tsx), the  *)
(* retry of a refused call (http-client.ts), login, sign-out and change of *)
(* credentials, against the handlers RefreshAuth and AuthLogout of         *)
(* controller/auth_session.go.                                             *)
(*                                                                         *)
(* The access token lives in the memory of a page, the refresh secret in a *)
(* cookie that all tabs share.  The browser stores the cookie of a reply   *)
(* when the reply arrives, also when the page no longer wants it.  A       *)
(* request is sent and served in one step and its reply arrives at any     *)
(* later time: what may happen between sending and serving may as well     *)
(* happen before the one or after the other, but for one thing, which is   *)
(* left out: a request that is served after its page was unloaded.         *)
(*                                                                         *)
(* Sessions are numbered in the order of the logins, 0 stands for none.    *)
(* A secret is named by its age: 0 the current one, 1 its predecessor, 2   *)
(* older.  How a server node rotates and revokes is UserSession's subject; *)
(* here it is one step.  AUTH_REFRESH_RACE is left out of the replies: as  *)
(* RaceLosersRecover of UserSession has it, no browser is sent one.        *)
(***************************************************************************)
EXTENDS Integers, Sequences

CONSTANTS
    Tabs,         \* the tabs of the browser
    MaxSessions,  \* bound on logins
    MaxVer,       \* bound on changes of credentials in a session
    MaxQueue,     \* bound on events that wait for a tab
    MaxEvents     \* bound on logins, changes of credentials, errors, lost replies,
                  \* dropped events, reloads and revocations together

ASSUME ConstantsAssumption ==
    MaxSessions \in Nat /\ MaxVer \in Nat /\ MaxQueue \in Nat /\ MaxEvents \in Nat

VARIABLES
    server,   \* user_sessions: status and version of every session
    jar,      \* the refresh cookie
    tab,      \* the page of every tab
    spent,    \* how many of these there were
    lost,     \* history: sessions a refresh reply of which was lost
    reused    \* history: sessions revoked because an old secret was presented

vars == <<server, jar, tab, spent, lost, reused>>

Sids == 1..MaxSessions
Cookie == [sid : {0} \cup Sids, age : 0..2]
NoCookie == [sid |-> 0, age |-> 0]

Reply == [kind : {"none", "ok", "mismatch", "denied", "error", "odd"},
          cookie : Cookie, ver : 0..MaxVer]
NoReply == [kind |-> "none", cookie |-> NoCookie, ver |-> 0]

\* The refresh in progress (refreshPromise): "waiting" for the lock, to be sent
\* "again" after a mismatch, "replied"; whether authEpoch still is refreshEpoch;
\* as history, the session the page gave up for a mismatch.  A request sent
\* again names no session, so no second mismatch follows.
Run == [pc : {"none", "waiting", "again", "replied"}, reply : Reply,
        current : BOOLEAN, gaveup : {0} \cup Sids]
NoRun == [pc |-> "none", reply |-> NoReply, current |-> TRUE, gaveup |-> 0]

\* What the user does in a tab: a login, a change of credentials or a sign-out
\* whose reply is under way, or a sign-out that waits for a refresh.
Ask == [pc : {"none", "login", "rotated", "signedout", "cleared", "mismatch",
              "recover", "again"},
        sid : {0} \cup Sids, ver : 0..MaxVer, second : BOOLEAN]
NoAsk == [pc |-> "none", sid |-> 0, ver |-> 0, second |-> FALSE]

\* A call that was answered 401: awaiting the refresh, or sent again.
Call == [pc : {"none", "refreshing", "retried"}, sid : {0} \cup Sids, ver : 0..MaxVer]
NoCall == [pc |-> "none", sid |-> 0, ver |-> 0]

Event == [kind : {"authenticated", "signed_out"}, sid : Sids]

\* A page: the store (sid, ver of the token; bootstrapState, which is only read
\* without a session and where nothing tells "checking" from "idle"), whether it is
\* mounted and listens to events, the events that wait for it, and, as history,
\* the revoked session it was last signed out of.
Page == [sid : {0} \cup Sids, ver : 0..MaxVer, boot : {"idle", "complete"},
         ready : BOOLEAN, inbox : Seq(Event), run : Run, ask : Ask, call : Call,
         left : {0} \cup Sids]
NewPage == [sid |-> 0, ver |-> 0, boot |-> "idle", ready |-> FALSE, inbox |-> <<>>,
            run |-> NoRun, ask |-> NoAsk, call |-> NoCall, left |-> 0]

Init ==
    /\ server = [s \in Sids |-> [status |-> "unused", ver |-> 0]]
    /\ jar = NoCookie
    /\ tab = [t \in Tabs |-> NewPage]
    /\ spent = 0
    /\ lost = {}
    /\ reused = {}

-----------------------------------------------------------------------------
(* auth-session.ts on a page w.                                             *)

\* authEpoch += 1
Superseded(w) == [w EXCEPT !.run.current = (w.run.pc = "none")]

SetBundle(w, s, v) ==
    [w EXCEPT !.sid = s, !.ver = v, !.boot = "complete"]

Reset(w, boot) == [w EXCEPT !.sid = 0, !.ver = 0, !.boot = boot]

applyAuthBundle(w, s, v) == SetBundle(Superseded(w), s, v)

RotationKeepingEpoch(w, s, v) ==                   \* mutant: the refresh under way goes on
    IF w.sid = s THEN SetBundle(w, s, v) ELSE w

\* A rotation of another session, or without one, is an error that changes nothing.
applyAuthRotation(w, s, v) == IF w.sid = s THEN applyAuthBundle(w, s, v) ELSE w

clearAuthentication(w) == Reset(Superseded(w), "complete")

\* The page is signed out of the session it shows.
SignedOut(w) ==
    [clearAuthentication(w) EXCEPT
        !.left = IF w.sid # 0 /\ server[w.sid].status = "revoked" THEN w.sid ELSE @]

\* refreshAuthentication: a refresh that is under way is joined.
refreshAuthentication(w) ==
    IF w.run.pc = "none" THEN [w EXCEPT !.run = [NoRun EXCEPT !.pc = "waiting"]] ELSE w

ToldAlways(w, kind, s) ==                          \* mutant: also without a session
    IF w.ready /\ Len(w.inbox) < MaxQueue
    THEN [w EXCEPT !.inbox = Append(@, [kind |-> kind, sid |-> s])]
    ELSE w

\* publishAuthSessionEvent reaches the pages that are mounted; a page that is
\* held up for so long that its queue is full finds the event too old.
Told(w, kind, s) ==
    IF s # 0 /\ w.ready /\ Len(w.inbox) < MaxQueue
    THEN [w EXCEPT !.inbox = Append(@, [kind |-> kind, sid |-> s])]
    ELSE w

\* Tab t goes on with page w, and tells the other tabs.
PutTelling(t, w, kind, s) ==
    tab' = [u \in Tabs |-> IF u = t THEN w ELSE Told(tab[u], kind, s)]
Put(t, w) == tab' = [tab EXCEPT ![t] = w]

\* A page is loaded anew; requests of the old one are given up, and the cookie
\* of a reply that had not arrived is not stored.
Reload(t) ==
    /\ Put(t, NewPage)
    /\ lost' = IF tab[t].run.reply.kind = "ok" THEN lost \cup {tab[t].run.reply.cookie.sid}
               ELSE lost

Spend == spent < MaxEvents /\ spent' = spent + 1

-----------------------------------------------------------------------------
(* The refresh runner.                                                      *)

LockIgnored(t) == TRUE                             \* mutant: every tab refreshes at once

\* navigator.locks: one refresh at a time in the browser.
LockFree(t) == \A u \in Tabs \ {t} : tab[u].run.pc \notin {"again", "replied"}

\* What those who wait for the refresh do with its outcome: the first page
\* load ends; a refused call is sent again or sends the user to sign in; a
\* sign-out is sent again, or has become unnecessary.
AfterCall(w, outcome) ==
    IF w.call.pc # "refreshing" THEN w
    ELSE [w EXCEPT !.call = IF outcome = "authenticated"
                            THEN [pc |-> "retried", sid |-> w.sid, ver |-> w.ver]
                            ELSE NoCall]

AfterAsk(w, outcome) ==
    IF w.ask.pc # "recover" THEN w
    ELSE CASE outcome = "authenticated" ->
                  [w EXCEPT !.ask = [NoAsk EXCEPT !.pc = "again", !.sid = w.sid, !.second = TRUE]]
           [] outcome = "anonymous" -> [SignedOut(w) EXCEPT !.ask = NoAsk]
           [] OTHER -> [w EXCEPT !.ask = NoAsk]

Settled(w, outcome) ==
    AfterAsk(AfterCall([w EXCEPT !.ready = TRUE, !.run = NoRun], outcome), outcome)

\* The refresh ends on page w, signed out of s if that is not 0; redirectToSignIn
\* loads the page anew unless it is the sign-in page already.
Finish(t, w, outcome, s) ==
    \/ PutTelling(t, Settled(w, outcome), "signed_out", s)
    \/ /\ w.call.pc = "refreshing"
       /\ outcome \in {"anonymous", "out_of_sync"}
       /\ PutTelling(t, NewPage, "signed_out", s)

\* A refresh that is out of date when it gets the lock ends at once.
DropRefresh(t) ==
    LET w == tab[t]
    IN  /\ w.run.pc = "waiting"
        /\ LockFree(t)
        /\ ~w.run.current
        /\ Finish(t, w, "transient_error", 0)
        /\ UNCHANGED <<server, jar, spent, lost, reused>>

\* The secrets of session s, wherever they are, once s has been rotated.
Aged(c, s) == IF c.sid = s /\ c.age < 2 THEN [c EXCEPT !.age = @ + 1] ELSE c
AgedPage(w, s) == [w EXCEPT !.run.reply.cookie = Aged(@, s)]

Replied(w, kind, s) ==
    [w EXCEPT !.run.pc = "replied",
              !.run.reply = [kind |-> kind, cookie |-> [sid |-> s, age |-> 0],
                             ver |-> IF s = 0 THEN 0 ELSE server[s].ver]]

\* requestRefresh, RefreshAuth and RefreshLoginSession.
AnswerRefresh(t) ==
    LET w == tab[t]
        s == jar.sid
        age == jar.age
        expected == IF w.run.pc = "again" THEN 0 ELSE w.sid
        known == s # 0 /\ expected \in {0, s}
        live == known /\ server[s].status = "active"
    IN  /\ w.run.pc \in {"waiting", "again"}
        /\ w.run.current \/ w.run.pc = "again"
        /\ LockFree(t)
        /\ \/ /\ live /\ age = 0
              /\ jar' = Aged(jar, s)
              /\ tab' = [u \in Tabs |-> IF u = t THEN Replied(AgedPage(w, s), "ok", s)
                                        ELSE AgedPage(tab[u], s)]
              /\ UNCHANGED <<server, spent, reused>>
           \/ /\ live /\ age = 1                   \* within the grace window
              /\ Put(t, Replied(w, "ok", s))
              /\ UNCHANGED <<server, jar, spent, reused>>
           \/ /\ live /\ age = 1                   \* after it
              /\ server' = [server EXCEPT ![s].status = "revoked"]
              /\ reused' = reused \cup {s}
              /\ Put(t, Replied(w, "denied", 0))
              /\ UNCHANGED <<jar, spent>>
           \/ /\ s = 0 \/ (known /\ ~live) \/ (live /\ age = 2)
              /\ Put(t, Replied(w, "denied", 0))
              /\ UNCHANGED <<server, jar, spent, reused>>
           \/ /\ known /\ Spend                    \* the session could not be read
              /\ Put(t, Replied(w, "denied", 0))
              /\ UNCHANGED <<server, jar, reused>>
           \/ /\ s # 0 /\ ~known
              /\ Put(t, Replied(w, "mismatch", 0))
              /\ UNCHANGED <<server, jar, spent, reused>>
           \/ /\ Spend
              /\ \E kind \in {"error", "odd"} : Put(t, Replied(w, kind, 0))
              /\ UNCHANGED <<server, jar, reused>>
        /\ UNCHANGED lost

\* The reply is lost on its way: status 0.
LoseReply(t) ==
    /\ tab[t].run.pc = "replied"
    /\ tab[t].run.reply.kind \in {"ok", "denied"}
    /\ Spend
    /\ lost' = lost \cup ({tab[t].run.reply.cookie.sid} \ {0})
    /\ Put(t, Replied(tab[t], "error", 0))
    /\ UNCHANGED <<server, jar, reused>>

CurrentAlways(w) == TRUE                           \* mutant: no check after the await

isCurrent(w) == w.run.current

\* markTransient
Transient(w) == IF w.sid = 0 THEN [w EXCEPT !.boot = "idle"] ELSE w

\* run of createRefreshRunner after its await.
ReceiveRefresh(t) ==
    LET w == tab[t]
        reply == w.run.reply
        cookie == CASE reply.kind = "ok" -> reply.cookie
                    [] reply.kind = "denied" -> NoCookie
                    [] OTHER -> jar
    IN  /\ w.run.pc = "replied"
        /\ jar' = cookie
        /\ \/ ~isCurrent(w) /\ Finish(t, w, "transient_error", 0)
           \/ /\ isCurrent(w) /\ reply.kind = "ok"
              /\ Finish(t, applyAuthBundle(w, reply.cookie.sid, reply.ver),
                        "authenticated", 0)
           \/ /\ isCurrent(w) /\ reply.kind = "mismatch"
              /\ Put(t, [Reset(w, "idle") EXCEPT
                            !.run = [NoRun EXCEPT !.pc = "again", !.gaveup = w.sid]])
           \/ /\ isCurrent(w) /\ reply.kind = "odd"
              /\ Finish(t, clearAuthentication(w), "out_of_sync", 0)
           \/ /\ isCurrent(w) /\ reply.kind = "denied"
              /\ Finish(t, SignedOut(w), "anonymous", w.sid)
           \/ /\ isCurrent(w) /\ reply.kind = "error"
              /\ Finish(t, Transient(w), "transient_error", 0)
        /\ UNCHANGED <<server, spent, lost, reused>>

-----------------------------------------------------------------------------
(* What starts a refresh.                                                   *)

\* bootstrapAuthentication of beforeLoad, on the first load and on navigation,
\* and getFreshAuthHeaders before a stream: the token of the store may have
\* expired.  Who waits for it only reads the store afterwards.
Bootstrap(t) ==
    LET w == tab[t]
    IN  /\ w.sid # 0 \/ w.boot = "idle"
        /\ Put(t, refreshAuthentication(w))
        /\ UNCHANGED <<server, jar, spent, lost, reused>>

\* A call of a mounted page is answered 401, and waits for a refresh; one at a
\* time is followed.
CallRefused(t) ==
    /\ tab[t].ready
    /\ \A u \in Tabs : tab[u].call.pc = "none"
    /\ Put(t, refreshAuthentication([tab[t] EXCEPT !.call.pc = "refreshing"]))
    /\ UNCHANGED <<server, jar, spent, lost, reused>>

\* The call sent again with the new token: a second 401 signs the page out.
CallAnswered(t) ==
    LET w == tab[t]
        valid == server[w.call.sid].status = "active" /\ server[w.call.sid].ver = w.call.ver
    IN  /\ w.call.pc = "retried"
        /\ \/ valid /\ Put(t, [w EXCEPT !.call = NoCall]) /\ UNCHANGED lost
           \/ ~valid /\ Put(t, [clearAuthentication(w) EXCEPT !.call = NoCall]) /\ UNCHANGED lost
           \/ ~valid /\ Reload(t)
        /\ UNCHANGED <<server, jar, spent, reused>>

-----------------------------------------------------------------------------
(* What the user does.                                                      *)

\* The user does one thing at a time.
CanAsk(t) == tab[t].ready /\ \A u \in Tabs : tab[u].ask.pc = "none"

\* A login is answered; sessions are numbered in this order.
AnswerLogin(t) ==
    /\ CanAsk(t)
    /\ tab[t].sid = 0
    /\ Spend
    /\ \E s \in Sids :
          /\ server[s].status = "unused"
          /\ \A r \in Sids : r < s => server[r].status # "unused"
          /\ server' = [server EXCEPT ![s].status = "active"]
          /\ Put(t, [tab[t] EXCEPT !.ask = [NoAsk EXCEPT !.pc = "login", !.sid = s]])
    /\ UNCHANGED <<jar, lost, reused>>

\* handleLoginSuccess
ReceiveLogin(t) ==
    LET w == tab[t]
        s == w.ask.sid
    IN  /\ w.ask.pc = "login"
        /\ jar' = [sid |-> s, age |-> 0]
        /\ PutTelling(t, applyAuthBundle([w EXCEPT !.ask = NoAsk], s, 0),
                      "authenticated", IF w.sid = s THEN 0 ELSE s)
        /\ UNCHANGED <<server, spent, lost, reused>>

\* A change of credentials: the session moves to a new version, the other
\* sessions of the user are revoked.
AnswerRotation(t) ==
    LET w == tab[t]
        s == w.sid
    IN  /\ CanAsk(t)
        /\ s # 0
        /\ server[s].status = "active"
        /\ server[s].ver = w.ver
        /\ w.ver < MaxVer
        /\ Spend
        /\ server' = [r \in Sids |->
                         IF r = s THEN [server[r] EXCEPT !.ver = @ + 1]
                         ELSE IF server[r].status = "active"
                              THEN [server[r] EXCEPT !.status = "revoked"]
                              ELSE server[r]]
        /\ Put(t, [w EXCEPT !.ask = [NoAsk EXCEPT !.pc = "rotated", !.sid = s,
                                                  !.ver = w.ver + 1]])
        /\ UNCHANGED <<jar, lost, reused>>

ReceiveRotation(t) ==
    LET w == tab[t]
    IN  /\ w.ask.pc = "rotated"
        /\ Put(t, applyAuthRotation([w EXCEPT !.ask = NoAsk], w.ask.sid, w.ask.ver))
        /\ UNCHANGED <<server, jar, spent, lost, reused>>

\* handleSignOut and executeLogout, the first time and after a mismatch, with
\* AuthLogout: by the access token, or, when that has expired, by the secret of
\* the cookie.
Logout(t) ==
    LET w == tab[t]
        s == IF w.ask.pc = "again" THEN w.ask.sid ELSE w.sid
        Answered(pc) == Put(t, [w EXCEPT !.ask = [NoAsk EXCEPT !.pc = pc, !.second = w.ask.second]])
    IN  /\ (CanAsk(t) /\ s # 0) \/ w.ask.pc = "again"
        /\ \/ /\ jar.sid \notin {0, s}
              /\ Answered("mismatch")
              /\ UNCHANGED server
           \/ /\ jar.sid \in {0, s}
              /\ server' = [server EXCEPT ![s].status = "revoked"]
              /\ Answered(IF jar.sid = s THEN "cleared" ELSE "signedout")
           \/ /\ jar.sid = 0 \/ (jar.sid = s /\ jar.age > 0)     \* nothing to revoke by
              /\ Answered("cleared")
              /\ UNCHANGED server
        /\ UNCHANGED <<jar, spent, lost, reused>>

\* The answer arrives.  A mismatch is recovered from once: the page takes over
\* the session of the cookie and signs out of that one.
ReceiveLogout(t) ==
    LET w == tab[t]
    IN  /\ \/ /\ w.ask.pc \in {"signedout", "cleared"}
              /\ jar' = IF w.ask.pc = "cleared" THEN NoCookie ELSE jar
              /\ PutTelling(t, [SignedOut(w) EXCEPT !.ask = NoAsk], "signed_out", w.sid)
           \/ /\ w.ask.pc = "mismatch"
              /\ jar' = jar
              /\ Put(t, IF w.ask.second THEN [w EXCEPT !.ask = NoAsk]
                        ELSE refreshAuthentication(
                                [w EXCEPT !.ask = [NoAsk EXCEPT !.pc = "recover"]]))
        /\ UNCHANGED <<server, spent, lost, reused>>

\* The reply to what the user did does not arrive.
LoseAnswer(t) ==
    /\ tab[t].ask.pc \in {"login", "rotated", "signedout", "cleared", "mismatch"}
    /\ Spend
    /\ Put(t, [tab[t] EXCEPT !.ask = NoAsk])
    /\ UNCHANGED <<server, jar, lost, reused>>

\* The page is loaded anew by the user.
UserReload(t) ==
    /\ tab[t].ready
    /\ Spend
    /\ Reload(t)
    /\ UNCHANGED <<server, jar, reused>>

\* Another device or an administrator revokes a session.
RevokeElsewhere ==
    /\ Spend
    /\ \E s \in Sids : /\ server[s].status = "active"
                       /\ server' = [server EXCEPT ![s].status = "revoked"]
    /\ UNCHANGED <<jar, tab, lost, reused>>

-----------------------------------------------------------------------------
(* Events from other tabs (routes/__root.tsx).                              *)

HandleEvent(t) ==
    LET w == [tab[t] EXCEPT !.inbox = Tail(@)]
        e == Head(tab[t].inbox)
    IN  /\ tab[t].inbox # <<>>
        /\ \/ /\ e.kind = "authenticated"
              /\ IF e.sid = w.sid THEN Put(t, w) /\ UNCHANGED lost ELSE Reload(t)
           \/ /\ e.kind = "signed_out"
              /\ Put(t, IF e.sid = w.sid THEN SignedOut(w) ELSE w)
              /\ UNCHANGED lost
        /\ UNCHANGED <<server, jar, spent, reused>>

\* An event is a minute old before the tab runs again.
DropEvent(t) ==
    /\ tab[t].inbox # <<>>
    /\ Spend
    /\ Put(t, [tab[t] EXCEPT !.inbox = Tail(@)])
    /\ UNCHANGED <<server, jar, lost, reused>>

Step(t) ==
    \/ DropRefresh(t) \/ AnswerRefresh(t) \/ LoseReply(t) \/ ReceiveRefresh(t)
    \/ Bootstrap(t) \/ CallRefused(t) \/ CallAnswered(t)
    \/ AnswerLogin(t) \/ ReceiveLogin(t) \/ AnswerRotation(t) \/ ReceiveRotation(t)
    \/ Logout(t) \/ ReceiveLogout(t) \/ LoseAnswer(t)
    \/ UserReload(t) \/ HandleEvent(t) \/ DropEvent(t)

Next == (\E t \in Tabs : Step(t)) \/ RevokeElsewhere

Spec == Init /\ [][Next]_vars

-----------------------------------------------------------------------------
(* Properties.                                                              *)

\* Every variable has its type.
TypeOK ==
    /\ server \in [Sids -> [status : {"unused", "active", "revoked"}, ver : 0..MaxVer]]
    /\ jar \in Cookie
    /\ tab \in [Tabs -> Page]
    /\ spent \in 0..MaxEvents
    /\ lost \subseteq Sids
    /\ reused \subseteq Sids

\* A page that was signed out of a session, in its own tab or by another one,
\* once the server had revoked it, does not show that session again, whatever
\* refresh was under way (isCurrent after the await).
SignedOutStaysOut == \A t \in Tabs : tab[t].left # 0 => tab[t].sid # tab[t].left

\* Tabs that refresh at the same time never trip the detection of stolen
\* secrets: a session is revoked for reuse only when a reply got lost.
NoReuseWithoutLoss == reused \subseteq lost

\* A refresh never replaces the token of a session by one from before the
\* change of credentials that the page has seen.
RefreshKeepsRotation ==
    [][\A t \in Tabs :
          /\ tab[t].run.pc = "replied" /\ tab'[t].run.pc = "none"
          /\ tab'[t].sid = tab[t].sid
          => tab'[t].ver >= tab[t].ver]_vars

\* A page whose session does not match the cookie takes over a newer one.
NeverBackToOlder ==
    [][\A t \in Tabs :
          tab[t].run.pc = "replied" /\ tab'[t].run.pc = "none" /\ tab'[t].sid # 0
          => tab'[t].sid >= tab[t].run.gaveup]_vars
=============================================================================
