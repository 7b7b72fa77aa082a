--------------------------- MODULE AuthTabsProofs ---------------------------
(***************************************************************************)
(* Proofs about AuthTabs, for every number of tabs, sessions, changes of   *)
(* credentials and events.  Most of the invariant speaks about one page    *)
(* and the sessions on the server (PageOK): what the reply that is under   *)
(* way may still do to the page.  Three parts relate the pages and the     *)
(* cookie: which sessions the browser has seen at all (Births), that the   *)
(* user does one thing at a time (OneAsk), and where the current secret of *)
(* the session in the cookie is (Secrets).                                 *)
(***************************************************************************)
EXTENDS AuthTabs, SequenceTheorems, TLAPS

ServerType == [Sids -> [status : {"unused", "active", "revoked"}, ver : 0..MaxVer]]

\* A reply is there only while it is awaited.  One that brings a secret brings
\* the current one, and while the epoch is still the one of the request the
\* page has neither been signed out of that session nor seen a later version.
ReplyOK(w, S) ==
    LET c == w.run.reply.cookie
    IN  /\ w.run.pc # "replied" => w.run.reply = NoReply
        /\ w.run.reply.kind # "ok" => c = NoCookie
        /\ w.run.reply.kind = "ok" =>
              /\ c.sid # 0 /\ c.age = 0 /\ w.run.reply.ver <= S[c.sid].ver
              /\ w.run.current => /\ w.left # c.sid
                                  /\ w.sid = c.sid => w.ver <= w.run.reply.ver

\* What the user has asked for names a session of the server.
AskOK(a, S) ==
    /\ a.pc \in {"login", "rotated", "again"} => a.sid # 0
    /\ a.pc = "login" => S[a.sid].status # "unused"
    /\ a.pc = "rotated" => a.ver <= S[a.sid].ver

PageOK(w, S) ==
    /\ w \in Page
    /\ w.sid = 0 => w.ver = 0
    /\ w.sid # 0 => w.ver <= S[w.sid].ver
    /\ w.left # 0 => w.sid # w.left /\ S[w.left].status = "revoked"
    /\ ReplyOK(w, S)
    /\ AskOK(w.ask, S)
    /\ w.call.pc = "retried" => w.call.sid # 0

\* The sessions a page knows of, and those the browser has not seen.
Seen(w) == {w.sid, w.left, w.run.reply.cookie.sid}
Unseen(s) == jar.sid # s /\ \A u \in Tabs : s \notin Seen(tab[u])

\* A session is seen once the reply to its login has arrived.
Births ==
    /\ \A s \in Sids : server[s].status = "unused" => Unseen(s)
    /\ \A t \in Tabs : tab[t].ask.pc = "login" => Unseen(tab[t].ask.sid)

OneAsk == \A t, u \in Tabs : tab[t].ask.pc # "none" /\ tab[u].ask.pc # "none" => t = u

\* When the cookie is not the current secret of its session, that one is in a
\* reply under way or has been lost.
Secrets ==
    jar.age # 0 =>
        \/ jar.sid \in lost
        \/ \E u \in Tabs : tab[u].run.reply.kind = "ok" /\ tab[u].run.reply.cookie.sid = jar.sid

Types ==
    /\ server \in ServerType
    /\ jar \in Cookie
    /\ DOMAIN tab = Tabs /\ tab = [t \in Tabs |-> tab[t]]
    /\ spent \in 0..MaxEvents
    /\ lost \subseteq Sids
    /\ reused \subseteq Sids

IInv ==
    /\ Types
    /\ \A t \in Tabs : PageOK(tab[t], server)
    /\ Births /\ OneAsk /\ Secrets
    /\ NoReuseWithoutLoss

-----------------------------------------------------------------------------
(* Pages.                                                                   *)

\* The fields of a page.
LEMMA PageFields ==
    ASSUME NEW w \in Page
    PROVE  /\ w.sid \in {0} \cup Sids /\ w.left \in {0} \cup Sids /\ w.ver \in 0..MaxVer
           /\ w.boot \in {"idle", "complete"} /\ w.ready \in BOOLEAN /\ w.inbox \in Seq(Event)
           /\ w.run \in Run /\ w.ask \in Ask /\ w.call \in Call
           /\ w.run.pc \in {"none", "waiting", "again", "replied"}
           /\ w.run.reply \in Reply /\ w.run.current \in BOOLEAN
           /\ w.run.gaveup \in {0} \cup Sids
           /\ w.run.reply.cookie \in Cookie /\ w.run.reply.ver \in 0..MaxVer
           /\ w.run.reply.cookie.sid \in {0} \cup Sids
           /\ w.ask.sid \in {0} \cup Sids /\ w.ask.ver \in 0..MaxVer
           /\ w.call.sid \in {0} \cup Sids
  BY DEF Page, Run, Reply, Cookie, Ask, Call

LEMMA NoSession == 0 \notin Sids /\ Sids \subseteq Nat
  BY DEF Sids

\* Sessions on the server only grow up: versions rise, revoked ones stay so.
Grows(S, T) ==
    \A s \in Sids : /\ S[s].ver <= T[s].ver
                    /\ S[s].status = "revoked" => T[s].status = "revoked"
                    /\ S[s].status # "unused" => T[s].status # "unused"

LEMMA GrowsSame ==
    ASSUME NEW S \in ServerType
    PROVE  Grows(S, S)
  <1>1. \A s \in Sids : S[s].ver \in 0..MaxVer
    BY DEF ServerType
  <1> QED BY <1>1, ConstantsAssumption DEF Grows

LEMMA PageGrows ==
    ASSUME NEW S \in ServerType, NEW T \in ServerType, Grows(S, T), NEW w, PageOK(w, S)
    PROVE  PageOK(w, T)
  <1>0. w \in Page
    BY DEF PageOK
  <1>1. \A s \in Sids : S[s].ver \in Int /\ T[s].ver \in Int
    BY ConstantsAssumption DEF ServerType
  <1>2. /\ w.ver \in Int /\ w.run.reply.ver \in Int /\ w.ask.ver \in Int
    BY <1>0, PageFields, ConstantsAssumption
  <1>3. ReplyOK(w, T)
    BY <1>0, <1>1, <1>2, PageFields DEF PageOK, ReplyOK, Grows
  <1>4. AskOK(w.ask, T)
    BY <1>0, <1>1, <1>2, PageFields DEF PageOK, AskOK, Grows
  <1> QED BY <1>0, <1>1, <1>2, <1>3, <1>4, PageFields DEF PageOK, Grows

\* A page that only got or dropped an event, or was mounted.
Aside(w, g) ==
    /\ g \in Page /\ g.sid = w.sid /\ g.ver = w.ver /\ g.left = w.left
    /\ g.run = w.run /\ g.ask = w.ask /\ g.call = w.call

LEMMA AsideOK ==
    ASSUME NEW S, NEW w, NEW g, PageOK(w, S), Aside(w, g)
    PROVE  PageOK(g, S) /\ Seen(g) = Seen(w)
  BY DEF PageOK, Aside, ReplyOK, Seen

LEMMA ToldOK ==
    ASSUME NEW w \in Page, NEW kind \in {"authenticated", "signed_out"}, NEW s \in {0} \cup Sids
    PROVE  Aside(w, Told(w, kind, s))
  <1> DEFINE e == [kind |-> kind, sid |-> s]
             q == Append(w.inbox, e)
             g == [w EXCEPT !.inbox = q]
  <1>1. Told(w, kind, s) = w \/ (s # 0 /\ Told(w, kind, s) = g)
    BY DEF Told
  <1>2. s # 0 => q \in Seq(Event)
    <2>1. s # 0 => e \in Event
      BY DEF Event
    <2> HIDE DEF e
    <2> QED BY <2>1, PageFields
  <1> HIDE DEF q
  <1>3. s # 0 => Aside(w, g)
    BY <1>2 DEF Aside, Page
  <1>4. Aside(w, w)
    BY DEF Aside
  <1> HIDE DEF g
  <1> QED BY <1>1, <1>3, <1>4

LEMMA InboxOK ==
    ASSUME NEW w \in Page, w.inbox # <<>>
    PROVE  /\ Aside(w, [w EXCEPT !.inbox = Tail(@)])
           /\ Head(w.inbox) \in Event
  <1>1. Tail(w.inbox) \in Seq(Event) /\ Head(w.inbox) \in Event
    BY PageFields
  <1> DEFINE q == Tail(w.inbox)
  <1>2. Aside(w, [w EXCEPT !.inbox = q])
    <2> HIDE DEF q
    <2>1. q \in Seq(Event)
      BY <1>1 DEF q
    <2> QED BY <2>1 DEF Aside, Page
  <1> QED BY <1>1, <1>2

LEMMA NewPageOK ==
    ASSUME NEW S
    PROVE  PageOK(NewPage, S) /\ Seen(NewPage) = {0}
  <1>1. NewPage \in Page
    <2>1. NoReply \in Reply /\ NoCookie \in Cookie
      BY ConstantsAssumption DEF NoReply, Reply, NoCookie, Cookie
    <2>2. NoRun \in Run
      BY <2>1 DEF NoRun, Run
    <2>3. NoAsk \in Ask /\ NoCall \in Call
      BY ConstantsAssumption DEF NoAsk, Ask, NoCall, Call
    <2>4. <<>> \in Seq(Event) /\ 0 \in 0..MaxVer
      BY ConstantsAssumption
    <2> QED BY <2>2, <2>3, <2>4 DEF NewPage, Page
  <1> QED BY <1>1 DEF NewPage, PageOK, ReplyOK, AskOK, NoRun, NoReply, NoCookie, NoAsk, NoCall, Seen

\* What stays of a page whose epoch moves on.
LEMMA SupersededOK ==
    ASSUME NEW S, NEW w, PageOK(w, S)
    PROVE  LET g == Superseded(w)
           IN  /\ PageOK(g, S)
               /\ g.sid = w.sid /\ g.ver = w.ver /\ g.left = w.left
               /\ g.ask = w.ask /\ g.call = w.call
               /\ g.run.pc = w.run.pc /\ g.run.reply = w.run.reply
               /\ g.run.pc = "replied" => ~g.run.current
  <1> DEFINE c == (w.run.pc = "none")
             x == [w.run EXCEPT !.current = c]
             g == [w EXCEPT !.run = x]
  <1>0. w \in Page
    BY DEF PageOK
  <1>1. Superseded(w) = g
    BY DEF Superseded
  <1>2. x \in Run /\ x.pc = w.run.pc /\ x.reply = w.run.reply /\ x.current = c
    <2>1. c \in BOOLEAN
      OBVIOUS
    <2> HIDE DEF c
    <2> QED BY <1>0, <2>1, PageFields DEF Run
  <1>3. w.run.pc = "replied" => ~c
    OBVIOUS
  <1> HIDE DEF x, c
  <1>4. /\ g \in Page /\ g.sid = w.sid /\ g.ver = w.ver /\ g.left = w.left
        /\ g.ask = w.ask /\ g.call = w.call /\ g.run = x
    BY <1>0, <1>2 DEF Page
  <1> HIDE DEF g
  <1>5. PageOK(g, S)
    <2>1. w.run.reply.kind = "ok" => w.run.pc = "replied"
      BY DEF PageOK, ReplyOK, NoReply
    <2> QED BY <1>2, <1>3, <1>4, <2>1 DEF PageOK, ReplyOK
  <1> QED BY <1>1, <1>2, <1>3, <1>4, <1>5

\* The store takes a bundle: whatever refresh is under way is out of date.
LEMMA BundleOK ==
    ASSUME NEW S \in ServerType, NEW w, PageOK(w, S), NEW s \in Sids, NEW v \in 0..MaxVer,
           v <= S[s].ver, w.left # s
    PROVE  LET g == applyAuthBundle(w, s, v)
           IN  /\ PageOK(g, S) /\ g.sid = s /\ g.ver = v /\ g.left = w.left
               /\ g.ask = w.ask /\ g.call = w.call
               /\ g.run.pc = w.run.pc /\ g.run.reply = w.run.reply
  <1> DEFINE h == Superseded(w)
             g == [h EXCEPT !.sid = s, !.ver = v, !.boot = "complete"]
  <1>1. applyAuthBundle(w, s, v) = g
    BY DEF applyAuthBundle, SetBundle
  <1>2. /\ PageOK(h, S) /\ h \in Page /\ h.left = w.left /\ h.ask = w.ask /\ h.call = w.call
        /\ h.run.pc = w.run.pc /\ h.run.reply = w.run.reply
        /\ h.run.pc = "replied" => ~h.run.current
    BY SupersededOK DEF PageOK
  <1> HIDE DEF h
  <1>3. /\ g \in Page /\ g.sid = s /\ g.ver = v /\ g.left = h.left
        /\ g.ask = h.ask /\ g.call = h.call /\ g.run = h.run
    BY <1>2 DEF Page
  <1> HIDE DEF g
  <1>4. PageOK(g, S)
    <2>1. h.run.reply.kind = "ok" => h.run.pc = "replied"
      BY <1>2 DEF PageOK, ReplyOK, NoReply
    <2> QED BY <1>2, <1>3, <2>1, NoSession DEF PageOK, ReplyOK
  <1> QED BY <1>1, <1>2, <1>3, <1>4

LEMMA ResetOK ==
    ASSUME NEW S, NEW w, PageOK(w, S), NEW boot \in {"idle", "complete"}
    PROVE  LET g == Reset(w, boot)
           IN  /\ PageOK(g, S) /\ g.sid = 0 /\ g.ver = 0 /\ g.left = w.left
               /\ g.ask = w.ask /\ g.call = w.call /\ g.run = w.run
  <1> DEFINE g == [w EXCEPT !.sid = 0, !.ver = 0, !.boot = boot]
  <1>0. w \in Page /\ 0 \in 0..MaxVer
    BY ConstantsAssumption DEF PageOK
  <1>1. Reset(w, boot) = g
    BY DEF Reset
  <1>2. /\ g \in Page /\ g.sid = 0 /\ g.ver = 0 /\ g.left = w.left
        /\ g.ask = w.ask /\ g.call = w.call /\ g.run = w.run
    BY <1>0 DEF Page
  <1> HIDE DEF g
  <1>3. PageOK(g, S)
    BY <1>2 DEF PageOK, ReplyOK
  <1> QED BY <1>1, <1>2, <1>3

LEMMA ClearOK ==
    ASSUME NEW S, NEW w, PageOK(w, S)
    PROVE  LET g == clearAuthentication(w)
           IN  /\ PageOK(g, S) /\ g.sid = 0 /\ g.ver = 0 /\ g.left = w.left
               /\ g.ask = w.ask /\ g.call = w.call
               /\ g.run.pc = w.run.pc /\ g.run.reply = w.run.reply
               /\ g.run.pc = "replied" => ~g.run.current
  <1> DEFINE h == Superseded(w)
  <1>1. /\ PageOK(h, S) /\ h.left = w.left /\ h.ask = w.ask /\ h.call = w.call
        /\ h.run.pc = w.run.pc /\ h.run.reply = w.run.reply
        /\ h.run.pc = "replied" => ~h.run.current
    BY SupersededOK
  <1> HIDE DEF h
  <1> QED BY <1>1, ResetOK DEF clearAuthentication, h

\* Signed out, a page remembers the session if the server has revoked it.
LEMMA SignedOutOK ==
    ASSUME NEW w, PageOK(w, server)
    PROVE  LET g == SignedOut(w)
           IN  /\ PageOK(g, server) /\ g.sid = 0 /\ g.ver = 0 /\ g.left \in {w.left, w.sid}
               /\ g.ask = w.ask /\ g.call = w.call
               /\ g.run.pc = w.run.pc /\ g.run.reply = w.run.reply
  <1> DEFINE h == clearAuthentication(w)
             l == IF w.sid # 0 /\ server[w.sid].status = "revoked" THEN w.sid ELSE h.left
             g == [h EXCEPT !.left = l]
  <1>1. SignedOut(w) = g
    BY DEF SignedOut
  <1>2. /\ PageOK(h, server) /\ h \in Page /\ h.sid = 0 /\ h.ver = 0 /\ h.left = w.left
        /\ h.ask = w.ask /\ h.call = w.call
        /\ h.run.pc = w.run.pc /\ h.run.reply = w.run.reply
        /\ h.run.pc = "replied" => ~h.run.current
    BY ClearOK DEF PageOK
  <1> HIDE DEF h
  <1>3. /\ l \in {w.left, w.sid} /\ l \in {0} \cup Sids
        /\ l # 0 => server[l].status = "revoked"
    BY <1>2, PageFields DEF PageOK
  <1> HIDE DEF l
  <1>4. /\ g \in Page /\ g.sid = 0 /\ g.ver = 0 /\ g.left = l
        /\ g.ask = h.ask /\ g.call = h.call /\ g.run = h.run
    BY <1>2, <1>3 DEF Page
  <1> HIDE DEF g
  <1>5. PageOK(g, server)
    <2>1. h.run.reply.kind = "ok" => h.run.pc = "replied"
      BY <1>2 DEF PageOK, ReplyOK, NoReply
    <2> QED BY <1>2, <1>3, <1>4, <2>1 DEF PageOK, ReplyOK
  <1> QED BY <1>1, <1>2, <1>3, <1>4, <1>5

\* A refresh starts, or is joined.
LEMMA RefreshOK ==
    ASSUME NEW S, NEW w, PageOK(w, S)
    PROVE  LET g == refreshAuthentication(w)
           IN  /\ PageOK(g, S) /\ g.sid = w.sid /\ g.ver = w.ver /\ g.left = w.left
               /\ g.ask = w.ask /\ g.call = w.call /\ g.run.reply = w.run.reply
               /\ g.run.pc = "none" => w.run.pc = "none"
  <1> DEFINE x == [NoRun EXCEPT !.pc = "waiting"]
             g == [w EXCEPT !.run = x]
  <1>0. w \in Page
    BY DEF PageOK
  <1>1. refreshAuthentication(w) = w \/ (w.run.pc = "none" /\ refreshAuthentication(w) = g)
    BY DEF refreshAuthentication
  <1>2. x \in Run /\ x.pc = "waiting" /\ x.reply = NoReply
    <2>1. NoReply \in Reply
      BY ConstantsAssumption DEF NoReply, Reply, NoCookie, Cookie
    <2> QED BY <2>1 DEF NoRun, Run
  <1> HIDE DEF x
  <1>3. /\ g \in Page /\ g.sid = w.sid /\ g.ver = w.ver /\ g.left = w.left
        /\ g.ask = w.ask /\ g.call = w.call /\ g.run = x
    BY <1>0, <1>2 DEF Page
  <1> HIDE DEF g
  <1>4. w.run.pc = "none" => w.run.reply = NoReply
    BY DEF PageOK, ReplyOK
  <1>5. PageOK(g, S)
    BY <1>2, <1>3 DEF PageOK, ReplyOK, NoReply, NoCookie
  <1> QED BY <1>1, <1>2, <1>3, <1>4, <1>5

\* What the user asked for, or the call that is followed, moves on.
LEMMA AskChangeOK ==
    ASSUME NEW S, NEW w, PageOK(w, S), NEW a \in Ask, AskOK(a, S)
    PROVE  LET g == [w EXCEPT !.ask = a]
           IN  /\ PageOK(g, S) /\ g.sid = w.sid /\ g.ver = w.ver /\ g.left = w.left
               /\ g.ask = a /\ g.call = w.call /\ g.run = w.run
  <1> DEFINE g == [w EXCEPT !.ask = a]
  <1>1. w \in Page
    BY DEF PageOK
  <1>2. /\ g \in Page /\ g.sid = w.sid /\ g.ver = w.ver /\ g.left = w.left
        /\ g.ask = a /\ g.call = w.call /\ g.run = w.run
    BY <1>1 DEF Page
  <1> HIDE DEF g
  <1>3. PageOK(g, S)
    BY <1>2 DEF PageOK, ReplyOK
  <1> QED BY <1>2, <1>3 DEF g

LEMMA NoAskOK ==
    ASSUME NEW S
    PROVE  NoAsk \in Ask /\ AskOK(NoAsk, S) /\ NoAsk.pc = "none"
  BY ConstantsAssumption DEF NoAsk, Ask, AskOK

LEMMA CallChangeOK ==
    ASSUME NEW S, NEW w, PageOK(w, S), NEW c \in Call, c.pc = "retried" => c.sid # 0
    PROVE  LET g == [w EXCEPT !.call = c]
           IN  /\ PageOK(g, S) /\ g.sid = w.sid /\ g.ver = w.ver /\ g.left = w.left
               /\ g.ask = w.ask /\ g.call = c /\ g.run = w.run
  <1> DEFINE g == [w EXCEPT !.call = c]
  <1>1. w \in Page
    BY DEF PageOK
  <1>2. /\ g \in Page /\ g.sid = w.sid /\ g.ver = w.ver /\ g.left = w.left
        /\ g.ask = w.ask /\ g.call = c /\ g.run = w.run
    BY <1>1 DEF Page
  <1> HIDE DEF g
  <1>3. PageOK(g, S)
    BY <1>2 DEF PageOK, ReplyOK
  <1> QED BY <1>2, <1>3 DEF g

LEMMA NoCallOK == NoCall \in Call /\ NoCall.pc = "none"
  BY ConstantsAssumption DEF NoCall, Call

LEMMA NoRunOK == NoRun \in Run /\ NoRun.pc = "none" /\ NoRun.reply = NoReply /\ NoReply \in Reply
  <1>1. NoReply \in Reply
    BY ConstantsAssumption DEF NoReply, Reply, NoCookie, Cookie
  <1> QED BY <1>1 DEF NoRun, Run

\* What those who wait for a refresh do with its outcome.
LEMMA AfterCallOK ==
    ASSUME NEW S, NEW w, PageOK(w, S), NEW outcome, outcome = "authenticated" => w.sid # 0
    PROVE  LET g == AfterCall(w, outcome)
           IN  /\ PageOK(g, S) /\ g.sid = w.sid /\ g.ver = w.ver /\ g.left = w.left
               /\ g.ask = w.ask /\ g.run = w.run
  <1> DEFINE c == [pc |-> "retried", sid |-> w.sid, ver |-> w.ver]
             d == IF outcome = "authenticated" THEN c ELSE NoCall
  <1>1. AfterCall(w, outcome) = w \/ AfterCall(w, outcome) = [w EXCEPT !.call = d]
    BY DEF AfterCall
  <1>2. d \in Call /\ (d.pc = "retried" => d.sid # 0)
    <2>1. w.sid \in {0} \cup Sids /\ w.ver \in 0..MaxVer
      BY PageFields DEF PageOK
    <2>2. c \in Call /\ c.sid = w.sid
      BY <2>1 DEF Call
    <2> HIDE DEF c
    <2> QED BY <2>2, NoCallOK
  <1> HIDE DEF d
  <1> DEFINE h == [w EXCEPT !.call = d]
  <1>3. /\ PageOK(h, S) /\ h.sid = w.sid /\ h.ver = w.ver /\ h.left = w.left
        /\ h.ask = w.ask /\ h.run = w.run
    BY <1>2, CallChangeOK
  <1> HIDE DEF h
  <1>4. AfterCall(w, outcome) = w \/ AfterCall(w, outcome) = h
    BY <1>1 DEF h
  <1> QED BY <1>3, <1>4

\* Page w at the end of its refresh is g.
Ends(w, g) ==
    /\ PageOK(g, server) /\ g.run.pc = "none" /\ g.run.reply = NoReply
    /\ g.left \in {w.left, w.sid}
    /\ g.sid \in {w.sid, 0} /\ (g.sid = w.sid => g.ver = w.ver)
    /\ g.ask = w.ask \/ (w.ask.pc = "recover" /\ g.ask.pc \in {"none", "again"})

LEMMA AfterAskOK ==
    ASSUME NEW w, PageOK(w, server), NEW outcome, outcome = "authenticated" => w.sid # 0,
           w.run = NoRun
    PROVE  Ends(w, AfterAsk(w, outcome))
  <1> DEFINE g == AfterAsk(w, outcome)
             a == [NoAsk EXCEPT !.pc = "again", !.sid = w.sid, !.second = TRUE]
             h == SignedOut(w)
  <1> SUFFICES Ends(w, g)
    OBVIOUS
  <1>1. \/ g = w
        \/ w.ask.pc = "recover" /\ outcome = "authenticated" /\ g = [w EXCEPT !.ask = a]
        \/ w.ask.pc = "recover" /\ g = [h EXCEPT !.ask = NoAsk]
        \/ w.ask.pc = "recover" /\ g = [w EXCEPT !.ask = NoAsk]
    BY DEF AfterAsk
  <1>2. outcome = "authenticated" => a \in Ask /\ AskOK(a, server) /\ a.pc = "again"
    <2>1. w.sid \in {0} \cup Sids
      BY PageFields DEF PageOK
    <2>2. a \in Ask /\ a.pc = "again" /\ a.sid = w.sid
      BY <2>1, NoAskOK DEF Ask
    <2> HIDE DEF a
    <2> QED BY <2>2 DEF AskOK
  <1>3. /\ PageOK(h, server) /\ h.sid = 0 /\ h.ver = 0 /\ h.left \in {w.left, w.sid}
        /\ h.ask = w.ask /\ h.call = w.call
        /\ h.run.pc = w.run.pc /\ h.run.reply = w.run.reply
    BY SignedOutOK
  <1>4. w.run.pc = "none" /\ w.run.reply = NoReply /\ (w.sid = 0 => w.ver = 0)
    BY NoRunOK DEF PageOK
  <1> HIDE DEF a, h, g
  <1>5. CASE g = w
    BY <1>4, <1>5 DEF Ends
  <1>6. CASE w.ask.pc = "recover" /\ outcome = "authenticated" /\ g = [w EXCEPT !.ask = a]
    BY <1>2, <1>4, <1>6, AskChangeOK DEF Ends
  <1>7. CASE w.ask.pc = "recover" /\ g = [h EXCEPT !.ask = NoAsk]
    <2>1. /\ PageOK(g, server) /\ g.sid = 0 /\ g.ver = 0 /\ g.left = h.left /\ g.ask = NoAsk
          /\ g.run = h.run
      BY <1>3, <1>7, NoAskOK, AskChangeOK
    <2> QED BY <1>3, <1>4, <1>7, <2>1, NoAskOK DEF Ends
  <1>8. CASE w.ask.pc = "recover" /\ g = [w EXCEPT !.ask = NoAsk]
    BY <1>4, <1>8, NoAskOK, AskChangeOK DEF Ends
  <1> QED BY <1>1, <1>5, <1>6, <1>7, <1>8

LEMMA SettledOK ==
    ASSUME NEW w, PageOK(w, server), NEW outcome, outcome = "authenticated" => w.sid # 0
    PROVE  Ends(w, Settled(w, outcome))
  <1> DEFINE h == [w EXCEPT !.ready = TRUE, !.run = NoRun]
             k == AfterCall(h, outcome)
  <1>1. Settled(w, outcome) = AfterAsk(k, outcome)
    BY DEF Settled
  <1>2. w \in Page
    BY DEF PageOK
  <1>3. /\ h \in Page /\ h.sid = w.sid /\ h.ver = w.ver /\ h.left = w.left
        /\ h.ask = w.ask /\ h.call = w.call /\ h.run = NoRun
    BY <1>2, NoRunOK DEF Page
  <1> HIDE DEF h
  <1>4. PageOK(h, server)
    BY <1>3, NoRunOK DEF PageOK, ReplyOK, NoReply
  <1>5. /\ PageOK(k, server) /\ k.sid = h.sid /\ k.ver = h.ver /\ k.left = h.left
        /\ k.ask = h.ask /\ k.run = h.run
    BY <1>3, <1>4, AfterCallOK
  <1> HIDE DEF k
  <1> QED BY <1>1, <1>3, <1>5, AfterAskOK DEF Ends

\* A reply is under way; one with a secret is of a session that is active, so
\* not of one the page has been signed out of.
LEMMA RepliedOK ==
    ASSUME server \in ServerType, NEW w, PageOK(w, server),
           NEW kind \in {"ok", "mismatch", "denied", "error", "odd"}, NEW s \in {0} \cup Sids,
           kind = "ok" <=> s # 0, s # 0 => server[s].status = "active"
    PROVE  LET g == Replied(w, kind, s)
           IN  /\ PageOK(g, server) /\ g.sid = w.sid /\ g.ver = w.ver /\ g.left = w.left
               /\ g.ask = w.ask /\ g.call = w.call
               /\ g.run.pc = "replied" /\ g.run.reply.kind = kind /\ g.run.reply.cookie.sid = s
  <1> DEFINE v == IF s = 0 THEN 0 ELSE server[s].ver
             c == [sid |-> s, age |-> 0]
             p == [kind |-> kind, cookie |-> c, ver |-> v]
             x == [w.run EXCEPT !.pc = "replied", !.reply = p]
             g == [w EXCEPT !.run = x]
  <1>0. w \in Page
    BY DEF PageOK
  <1>1. Replied(w, kind, s) = g
    BY <1>0 DEF Replied, Page
  <1>2. v \in 0..MaxVer
    BY ConstantsAssumption DEF ServerType
  <1>3. c \in Cookie /\ c.sid = s /\ c.age = 0 /\ (s = 0 => c = NoCookie)
    BY DEF Cookie, NoCookie
  <1> HIDE DEF c
  <1>v. s # 0 => v = server[s].ver
    OBVIOUS
  <1> HIDE DEF v
  <1>4. p \in Reply /\ p.kind = kind /\ p.cookie = c /\ p.ver = v
    BY <1>2, <1>3 DEF Reply
  <1> HIDE DEF p
  <1>5. x \in Run /\ x.pc = "replied" /\ x.reply = p /\ x.current = w.run.current
    BY <1>0, <1>4, PageFields DEF Run
  <1> HIDE DEF x
  <1>6. /\ g \in Page /\ g.sid = w.sid /\ g.ver = w.ver /\ g.left = w.left
        /\ g.ask = w.ask /\ g.call = w.call /\ g.run = x
    BY <1>0, <1>5 DEF Page
  <1> HIDE DEF g
  <1>7. PageOK(g, server)
    <2>1. s # 0 => w.left # s /\ (w.sid = s => w.ver <= v) /\ v <= server[s].ver
      BY <1>2, <1>v, ConstantsAssumption DEF PageOK
    <2>2. ReplyOK(g, server)
      BY <1>3, <1>4, <1>5, <1>6, <2>1 DEF ReplyOK
    <2> QED BY <1>6, <2>2 DEF PageOK
  <1> QED BY <1>1, <1>3, <1>4, <1>5, <1>6, <1>7

-----------------------------------------------------------------------------
(* A step of tab t.  N holds the session the browser sees for the first     *)
(* time, if there is one.                                                   *)

\* The end of a refresh that leaves the session leaves no older version.
Rotation(w, g) ==
    w.run.pc = "replied" /\ g.run.pc = "none" /\ g.sid = w.sid => g.ver >= w.ver

\* The user goes on with what he asked for, or asks when nothing is asked.
AskStep(a, b) ==
    \/ b.pc = "none" \/ b = a
    \/ a.pc # "none" /\ b.pc # "login"
    \/ (\A u \in Tabs : tab[u].ask.pc = "none") /\ (b.pc = "login" => Unseen(b.sid))

SecretStep(w, g) ==
    \/ jar'.age = 0
    \/ g.run.reply.kind = "ok" /\ g.run.reply.cookie.sid = jar'.sid
    \/ jar' = jar /\ (w.run.reply.kind = "ok" => \/ g.run.reply = w.run.reply
                                                 \/ w.run.reply.cookie.sid \in lost')

StepOK(t, N) ==
    /\ Types' /\ Grows(server, server')
    /\ \A u \in Tabs \ {t} : Aside(tab[u], tab'[u])
    /\ PageOK(tab'[t], server') /\ Rotation(tab[t], tab'[t])
    /\ jar'.sid \in {0, jar.sid} \cup Seen(tab[t]) \cup N
    /\ Seen(tab'[t]) \subseteq {0, jar.sid} \cup Seen(tab[t]) \cup N
    /\ \A s \in N : server'[s].status # "unused"
    /\ N # {} => tab'[t].ask.pc = "none" /\ \A u \in Tabs \ {t} : tab[u].ask.pc = "none"
    /\ AskStep(tab[t].ask, tab'[t].ask)
    /\ lost \subseteq lost' /\ reused' \subseteq lost'
    /\ SecretStep(tab[t], tab'[t])

LEMMA StepKeeps ==
    ASSUME IInv, NEW t \in Tabs, NEW N, StepOK(t, N)
    PROVE  IInv' /\ \A u \in Tabs : Rotation(tab[u], tab'[u])
  <1>0. /\ server \in ServerType /\ server' \in ServerType /\ Grows(server, server')
        /\ \A u \in Tabs : PageOK(tab[u], server)
        /\ \A u \in Tabs \ {t} : Aside(tab[u], tab'[u])
        /\ PageOK(tab'[t], server') /\ Types'
    BY DEF IInv, Types, StepOK
  <1>1. \A u \in Tabs : PageOK(tab'[u], server')
    BY <1>0, AsideOK, PageGrows
  <1>2. \A u \in Tabs \ {t} : /\ Seen(tab'[u]) = Seen(tab[u]) /\ tab'[u].ask = tab[u].ask
                              /\ tab'[u].run = tab[u].run /\ Rotation(tab[u], tab'[u])
    BY <1>0, AsideOK DEF Aside, Rotation
  <1>3. ASSUME NEW s \in Sids, Unseen(s), s \notin N
        PROVE  jar'.sid # s /\ \A u \in Tabs : s \notin Seen(tab'[u])
    <2>1. s # 0 /\ jar.sid # s /\ \A u \in Tabs : s \notin Seen(tab[u])
      BY <1>3, NoSession DEF Unseen
    <2>2. jar'.sid # s
      BY <1>3, <2>1 DEF StepOK
    <2>3. s \notin Seen(tab'[t])
      BY <1>3, <2>1 DEF StepOK
    <2>4. \A u \in Tabs : s \notin Seen(tab'[u])
      BY <1>2, <2>1, <2>3
    <2> QED BY <2>2, <2>4
  <1>4. Births'
    <2>1. ASSUME NEW s \in Sids, server'[s].status = "unused"
          PROVE  jar'.sid # s /\ \A u \in Tabs : s \notin Seen(tab'[u])
      <3>1. server[s].status = "unused" /\ s \notin N
        BY <1>0, <2>1 DEF Grows, StepOK
      <3> QED BY <1>3, <3>1 DEF IInv, Births
    <2>2. ASSUME NEW u \in Tabs, tab'[u].ask.pc = "login"
          PROVE  /\ jar'.sid # tab'[u].ask.sid
                 /\ \A v \in Tabs : tab'[u].ask.sid \notin Seen(tab'[v])
      <3> DEFINE s == tab'[u].ask.sid
      <3>1. s \in Sids
        BY <1>1, <2>2, PageFields DEF PageOK, AskOK
      <3>2. s \notin N
        <4>1. N = {}
          BY <1>2, <2>2 DEF StepOK
        <4> QED BY <4>1
      <3>3. Unseen(s)
        <4>1. CASE tab'[u].ask = tab[u].ask
          BY <2>2, <4>1 DEF IInv, Births
        <4>2. CASE tab'[u].ask # tab[u].ask
          BY <1>2, <2>2, <4>2 DEF StepOK, AskStep
        <4> QED BY <4>1, <4>2
      <3> HIDE DEF s
      <3>4. jar'.sid # s /\ \A v \in Tabs : s \notin Seen(tab'[v])
        BY <1>3, <3>1, <3>2, <3>3
      <3> QED BY <3>4 DEF s
    <2> QED BY <2>1, <2>2 DEF Births, Unseen, Seen
  <1>5. OneAsk'
    <2> SUFFICES ASSUME NEW u \in Tabs, NEW v \in Tabs, tab'[u].ask.pc # "none",
                        tab'[v].ask.pc # "none"
                 PROVE  u = v
      BY DEF OneAsk
    <2>1. \/ tab'[t].ask.pc = "none" \/ tab[t].ask.pc # "none"
          \/ \A x \in Tabs : tab[x].ask.pc = "none"
      BY DEF StepOK, AskStep
    <2> QED BY <1>2, <2>1 DEF IInv, OneAsk
  <1>6. Secrets'
    <2> SUFFICES ASSUME jar'.age # 0
                 PROVE  \/ jar'.sid \in lost'
                        \/ \E u \in Tabs : /\ tab'[u].run.reply.kind = "ok"
                                           /\ tab'[u].run.reply.cookie.sid = jar'.sid
      BY DEF Secrets
    <2>1. CASE tab'[t].run.reply.kind = "ok" /\ tab'[t].run.reply.cookie.sid = jar'.sid
      BY <2>1
    <2>2. CASE jar' = jar /\ (tab[t].run.reply.kind = "ok" =>
                                \/ tab'[t].run.reply = tab[t].run.reply
                                \/ tab[t].run.reply.cookie.sid \in lost')
      <3>1. CASE jar.sid \in lost
        BY <2>2, <3>1 DEF StepOK
      <3>2. CASE \E u \in Tabs : tab[u].run.reply.kind = "ok"
                                 /\ tab[u].run.reply.cookie.sid = jar.sid
        BY <1>2, <2>2, <3>2
      <3> QED BY <2>2, <3>1, <3>2 DEF IInv, Secrets
    <2> QED BY <2>1, <2>2 DEF StepOK, SecretStep
  <1>7. NoReuseWithoutLoss'
    BY DEF StepOK, NoReuseWithoutLoss
  <1>8. \A u \in Tabs : Rotation(tab[u], tab'[u])
    BY <1>2 DEF StepOK
  <1>9. IInv'
    <2>1. \A u \in Tabs : PageOK(tab[u], server)'
      BY <1>1 DEF PageOK, ReplyOK, AskOK
    <2> QED BY <1>0, <1>4, <1>5, <1>6, <1>7, <2>1 DEF IInv
  <1> QED BY <1>8, <1>9

-----------------------------------------------------------------------------
(* How a step changes the pages.                                            *)

\* The other tabs are told at most.
Moves(t) ==
    /\ DOMAIN tab' = Tabs /\ tab' = [u \in Tabs |-> tab'[u]]
    /\ \A u \in Tabs \ {t} : Aside(tab[u], tab'[u])

LEMMA PutOK ==
    ASSUME IInv, NEW t \in Tabs, NEW g, Put(t, g)
    PROVE  Moves(t) /\ tab'[t] = g
  <1>1. DOMAIN tab = Tabs /\ \A u \in Tabs : tab[u] \in Page
    BY DEF IInv, Types, PageOK
  <1> QED BY <1>1 DEF Put, Moves, Aside

LEMMA TellOK ==
    ASSUME IInv, NEW t \in Tabs, NEW g, NEW kind \in {"authenticated", "signed_out"},
           NEW s \in {0} \cup Sids, PutTelling(t, g, kind, s)
    PROVE  Moves(t) /\ tab'[t] = g
  <1>1. \A u \in Tabs : tab[u] \in Page
    BY DEF IInv, PageOK
  <1>2. \A u \in Tabs : Aside(tab[u], Told(tab[u], kind, s))
    BY <1>1, ToldOK
  <1>3. DOMAIN tab' = Tabs /\ tab' = [u \in Tabs |-> tab'[u]]
    BY DEF PutTelling
  <1>4. tab'[t] = g /\ \A u \in Tabs \ {t} : tab'[u] = Told(tab[u], kind, s)
    BY DEF PutTelling
  <1> QED BY <1>2, <1>3, <1>4 DEF Moves

\* The page does not let go of a secret that has not arrived.
KeepsReply(w, g) == w.run.reply.kind = "ok" => g.run.reply = w.run.reply

\* A step that leaves the cookie alone.
LEMMA ServerStep ==
    ASSUME IInv, NEW t \in Tabs, NEW g, Moves(t), tab'[t] = g, PageOK(g, server'),
           Rotation(tab[t], g), Seen(g) \subseteq {0, jar.sid} \cup Seen(tab[t]),
           AskStep(tab[t].ask, g.ask), KeepsReply(tab[t], g),
           server' \in ServerType, Grows(server, server'), jar' = jar, lost' = lost,
           reused' \subseteq lost, spent' \in 0..MaxEvents
    PROVE  StepOK(t, {})
  <1>1. Types
    BY DEF IInv
  <1>2. Types'
    BY <1>1 DEF Types, ServerType, Moves
  <1>3. SecretStep(tab[t], g)
    BY DEF SecretStep, KeepsReply
  <1> QED BY <1>2, <1>3 DEF StepOK, Moves

\* A step that leaves server and cookie alone.
LEMMA PageStep ==
    ASSUME IInv, NEW t \in Tabs, NEW g, Moves(t), tab'[t] = g, PageOK(g, server),
           Rotation(tab[t], g), Seen(g) \subseteq {0, jar.sid} \cup Seen(tab[t]),
           AskStep(tab[t].ask, g.ask), KeepsReply(tab[t], g),
           server' = server, jar' = jar, lost' = lost, reused' = reused,
           spent' \in 0..MaxEvents
    PROVE  StepOK(t, {})
  <1>1. server' \in ServerType /\ Grows(server, server') /\ PageOK(g, server')
    BY GrowsSame DEF IInv, Types
  <1>2. reused' \subseteq lost
    BY DEF IInv, NoReuseWithoutLoss
  <1> QED BY <1>1, <1>2, ServerStep

\* A session is revoked on the server.
LEMMA RevokeOK ==
    ASSUME IInv, NEW s \in Sids, server' = [server EXCEPT ![s].status = "revoked"]
    PROVE  server' \in ServerType /\ Grows(server, server')
  <1>1. server \in ServerType /\ \A r \in Sids : server[r].ver \in Int
    BY ConstantsAssumption DEF IInv, Types, ServerType
  <1>2. server' \in ServerType
    BY <1>1 DEF ServerType
  <1>3. \A r \in Sids : /\ server'[r].ver = server[r].ver
                        /\ server'[r].status = server[r].status \/ server'[r].status = "revoked"
    BY <1>1 DEF ServerType
  <1> QED BY <1>1, <1>2, <1>3 DEF Grows

LEMMA SpendOK ==
    ASSUME spent \in 0..MaxEvents, Spend
    PROVE  spent' \in 0..MaxEvents
  BY ConstantsAssumption DEF Spend

\* The page is loaded anew; a secret under way is lost.
LEMMA ReloadOK ==
    ASSUME IInv, NEW t \in Tabs, Reload(t), server' = server, jar' = jar, reused' = reused,
           spent' \in 0..MaxEvents
    PROVE  StepOK(t, {})
  <1>1. Types /\ server \in ServerType /\ reused \subseteq lost /\ PageOK(tab[t], server)
    BY DEF IInv, Types, NoReuseWithoutLoss
  <1>2. Moves(t) /\ tab'[t] = NewPage
    BY PutOK DEF Reload
  <1>3. /\ PageOK(NewPage, server) /\ Seen(NewPage) = {0}
        /\ NewPage.ask.pc = "none" /\ NewPage.sid = 0 /\ NewPage.ver = 0
    BY NewPageOK DEF NewPage, NoAsk
  <1>4. /\ lost' \subseteq Sids /\ lost \subseteq lost'
        /\ tab[t].run.reply.kind = "ok" => tab[t].run.reply.cookie.sid \in lost'
    BY <1>1, PageFields DEF Reload, PageOK, ReplyOK, Types
  <1>5. Types'
    BY <1>1, <1>2, <1>4 DEF Types, ServerType, Moves
  <1>6. Grows(server, server')
    BY <1>1, GrowsSame
  <1>7. SecretStep(tab[t], NewPage)
    BY <1>4 DEF SecretStep
  <1>8. Rotation(tab[t], NewPage)
    BY <1>1, <1>3 DEF Rotation, PageOK
  <1>9. AskStep(tab[t].ask, NewPage.ask)
    BY <1>3 DEF AskStep
  <1> HIDE DEF NewPage
  <1> QED BY <1>1, <1>2, <1>3, <1>4, <1>5, <1>6, <1>7, <1>8, <1>9 DEF StepOK, Moves

\* The refresh of tab t ends on page w.
LEMMA FinishOK ==
    ASSUME IInv, NEW t \in Tabs, NEW w, PageOK(w, server), NEW outcome, NEW s \in {0} \cup Sids,
           outcome = "authenticated" => w.sid # 0, Finish(t, w, outcome, s),
           w.ask = tab[t].ask, {w.left, w.sid} \subseteq {0} \cup Seen(tab[t]),
           w.sid = tab[t].sid => w.ver >= tab[t].ver,
           jar' \in Cookie, jar'.sid \in {0, jar.sid} \cup Seen(tab[t]),
           jar'.age = 0 \/ (jar' = jar /\ tab[t].run.reply.kind # "ok"),
           UNCHANGED <<server, spent, lost, reused>>
    PROVE  StepOK(t, {})
  <1>1. Types /\ server \in ServerType /\ reused \subseteq lost /\ PageOK(tab[t], server)
    BY DEF IInv, Types, NoReuseWithoutLoss
  <1> DEFINE g == tab'[t]
  <1>2. Moves(t) /\ (g = Settled(w, outcome) \/ g = NewPage)
    BY TellOK DEF Finish
  <1>3. Ends(w, Settled(w, outcome))
    BY SettledOK
  <1>4. /\ PageOK(NewPage, server) /\ NewPage.left = 0
        /\ NewPage.ask.pc = "none" /\ NewPage.sid = 0 /\ NewPage.ver = 0
        /\ NewPage.run.pc = "none" /\ NewPage.run.reply = NoReply
    BY NewPageOK DEF NewPage, NoAsk, NoRun
  <1>5. /\ PageOK(g, server) /\ g.run.pc = "none" /\ g.run.reply = NoReply
        /\ g.left \in {0, w.left, w.sid}
        /\ g.sid \in {w.sid, 0} /\ (g.sid = w.sid => g.ver = w.ver \/ g.sid = 0)
        /\ g.ask = w.ask \/ g.ask.pc = "none" \/ (w.ask.pc = "recover" /\ g.ask.pc = "again")
    <2>1. CASE g = NewPage
      BY <1>4, <2>1
    <2>2. CASE g = Settled(w, outcome)
      BY <1>3, <2>2 DEF Ends
    <2> QED BY <1>2, <2>1, <2>2
  <1> HIDE DEF g
  <1>6. Types'
    BY <1>1, <1>2 DEF Types, ServerType, Moves
  <1>7. Grows(server, server')
    BY <1>1, GrowsSame
  <1>8. SecretStep(tab[t], g)
    BY DEF SecretStep
  <1>9. Rotation(tab[t], g)
    <2>1. tab[t].ver \in Int /\ g.ver \in Int
      BY <1>1, <1>5, PageFields, ConstantsAssumption DEF PageOK
    <2> QED BY <1>1, <1>5, <2>1 DEF Rotation, PageOK
  <1>10. AskStep(tab[t].ask, g.ask)
    BY <1>5 DEF AskStep
  <1>11. Seen(g) \subseteq {0, jar.sid} \cup Seen(tab[t])
    <2>1. g.run.reply.cookie.sid = 0
      BY <1>5 DEF NoReply, NoCookie
    <2>2. g.left \in {0} \cup Seen(tab[t]) /\ g.sid \in {0} \cup Seen(tab[t])
      BY <1>5
    <2> QED BY <2>1, <2>2 DEF Seen
  <1> QED BY <1>1, <1>2, <1>5, <1>6, <1>7, <1>8, <1>9, <1>10, <1>11 DEF StepOK, Moves, g

-----------------------------------------------------------------------------
(* The actions.                                                             *)

LEMMA DropRefreshOK ==
    ASSUME IInv, NEW t \in Tabs, DropRefresh(t)
    PROVE  StepOK(t, {})
  <1> DEFINE w == tab[t]
  <1>1. PageOK(w, server) /\ jar \in Cookie /\ w.ver \in Int
    BY PageFields, ConstantsAssumption DEF IInv, Types, PageOK
  <1>2. w.run.reply.kind # "ok"
    BY <1>1 DEF DropRefresh, PageOK, ReplyOK, NoReply
  <1>3. /\ Finish(t, w, "transient_error", 0) /\ jar' = jar
        /\ UNCHANGED <<server, spent, lost, reused>>
    BY DEF DropRefresh
  <1>4. {w.left, w.sid} \subseteq {0} \cup Seen(w) /\ w.ver >= w.ver
    BY <1>1 DEF Seen
  <1> QED BY <1>1, <1>2, <1>3, <1>4, FinishOK

\* Secrets of a page without a reply do not age.
LEMMA AgedPageSame ==
    ASSUME NEW S, NEW w, PageOK(w, S), w.run.pc # "replied", NEW s \in Sids
    PROVE  AgedPage(w, s) = w
  <1>1. w \in Page /\ w.run.reply.cookie = NoCookie
    BY DEF PageOK, ReplyOK, NoReply
  <1>2. Aged(w.run.reply.cookie, s) = w.run.reply.cookie
    BY <1>1, NoSession DEF Aged, NoCookie
  <1>3. AgedPage(w, s) = [w EXCEPT !.run = [w.run EXCEPT !.reply =
                             [w.run.reply EXCEPT !.cookie = Aged(w.run.reply.cookie, s)]]]
    BY DEF AgedPage
  <1>4. [w.run.reply EXCEPT !.cookie = w.run.reply.cookie] = w.run.reply
    BY <1>1, PageFields DEF Reply
  <1>5. [w.run EXCEPT !.reply = w.run.reply] = w.run
    BY <1>1, PageFields DEF Run
  <1>6. [w EXCEPT !.run = w.run] = w
    BY <1>1 DEF Page
  <1> QED BY <1>2, <1>3, <1>4, <1>5, <1>6

\* The lock: while tab t asks, no other reply to a refresh is under way.
LEMMA OnlyReply ==
    ASSUME IInv, NEW t \in Tabs, LockFree(t), tab[t].run.pc \in {"waiting", "again"}
    PROVE  \A u \in Tabs : /\ PageOK(tab[u], server) /\ tab[u].run.pc # "replied"
                           /\ tab[u].run.reply = NoReply
  <1>1. \A u \in Tabs : PageOK(tab[u], server) /\ tab[u].run.pc # "replied"
    BY DEF IInv, LockFree
  <1> QED BY <1>1 DEF PageOK, ReplyOK

\* A reply without a secret.
LEMMA RefusedOK ==
    ASSUME IInv, NEW t \in Tabs, NEW kind \in {"mismatch", "denied", "error", "odd"},
           tab[t].run.reply = NoReply, Put(t, Replied(tab[t], kind, 0)),
           server' \in ServerType, Grows(server, server'), reused' \subseteq lost,
           UNCHANGED <<jar, lost>>, spent' \in 0..MaxEvents
    PROVE  StepOK(t, {})
  <1> DEFINE w == tab[t]
             g == Replied(w, kind, 0)
  <1>1. PageOK(w, server) /\ server \in ServerType
    BY DEF IInv, Types
  <1>2. Moves(t) /\ tab'[t] = g
    BY PutOK
  <1>3. /\ PageOK(g, server) /\ g.sid = w.sid /\ g.ver = w.ver /\ g.left = w.left
        /\ g.ask = w.ask /\ g.run.pc = "replied" /\ g.run.reply.cookie.sid = 0
    BY <1>1, RepliedOK
  <1> HIDE DEF g
  <1>4. Rotation(w, g) /\ Seen(g) \subseteq {0, jar.sid} \cup Seen(w)
    BY <1>3 DEF Rotation, Seen
  <1>5. AskStep(w.ask, g.ask)
    BY <1>3 DEF AskStep
  <1>6. KeepsReply(w, g)
    BY DEF KeepsReply, NoReply
  <1>7. PageOK(g, server')
    BY <1>1, <1>3, PageGrows
  <1> HIDE DEF w
  <1> QED BY <1>2, <1>4, <1>5, <1>6, <1>7, ServerStep DEF w

\* A reply with the current secret of the session in the cookie.
LEMMA GrantedOK ==
    ASSUME IInv, NEW t \in Tabs, NEW s \in Sids, s = jar.sid, server[s].status = "active",
           tab[t].run.reply = NoReply, Put(t, Replied(tab[t], "ok", s)),
           jar' \in Cookie, jar'.sid = s, UNCHANGED <<server, spent, lost, reused>>
    PROVE  StepOK(t, {})
  <1> DEFINE w == tab[t]
             g == Replied(w, "ok", s)
  <1>1. Types /\ PageOK(w, server) /\ server \in ServerType /\ reused \subseteq lost
    BY DEF IInv, Types, NoReuseWithoutLoss
  <1>2. Moves(t) /\ tab'[t] = g
    BY PutOK
  <1>3. /\ PageOK(g, server) /\ g.sid = w.sid /\ g.ver = w.ver /\ g.left = w.left
        /\ g.ask = w.ask /\ g.run.pc = "replied" /\ g.run.reply.kind = "ok"
        /\ g.run.reply.cookie.sid = s
    <2>1. /\ s \in {0} \cup Sids /\ s # 0 /\ server[s].status = "active"
          /\ PageOK(w, server) /\ server \in ServerType
      BY <1>1, NoSession
    <2> HIDE DEF w, g
    <2>2. \A k : k \in {"ok", "mismatch", "denied", "error", "odd"} /\ (k = "ok" <=> s # 0) =>
            LET h == Replied(w, k, s)
            IN  /\ PageOK(h, server) /\ h.sid = w.sid /\ h.ver = w.ver /\ h.left = w.left
                /\ h.ask = w.ask /\ h.run.pc = "replied" /\ h.run.reply.kind = k
                /\ h.run.reply.cookie.sid = s
      BY ONLY <2>1, RepliedOK
    <2>3. g = Replied(w, "ok", s)
      BY DEF g
    <2> QED BY ONLY <2>1, <2>2, <2>3
  <1> HIDE DEF g
  <1>4. Rotation(w, g) /\ Seen(g) \subseteq {0, jar.sid} \cup Seen(w)
    BY <1>3 DEF Rotation, Seen
  <1>5. AskStep(w.ask, g.ask) /\ SecretStep(w, g)
    BY <1>3 DEF AskStep, SecretStep
  <1>6. Types'
    BY <1>1, <1>2 DEF Types, ServerType, Moves
  <1>7. Grows(server, server')
    BY <1>1, GrowsSame
  <1> QED BY <1>1, <1>2, <1>3, <1>4, <1>5, <1>6, <1>7 DEF StepOK, Moves

LEMMA AnswerRefreshOK ==
    ASSUME IInv, NEW t \in Tabs, AnswerRefresh(t)
    PROVE  StepOK(t, {})
  <1> DEFINE w == tab[t]
             s == jar.sid
             live == s # 0 /\ server[s].status = "active"
  <1>1. /\ \A u \in Tabs : /\ PageOK(tab[u], server) /\ tab[u].run.pc # "replied"
                           /\ tab[u].run.reply = NoReply
    BY OnlyReply DEF AnswerRefresh
  <1>2. /\ server \in ServerType /\ Grows(server, server) /\ jar \in Cookie
        /\ s \in {0} \cup Sids /\ jar.age \in 0..2 /\ spent \in 0..MaxEvents
        /\ tab = [u \in Tabs |-> tab[u]] /\ reused \subseteq lost
    BY GrowsSame DEF IInv, Types, NoReuseWithoutLoss, Cookie
  <1>3. lost' = lost
    BY DEF AnswerRefresh
  <1>4. CASE /\ live /\ jar.age = 0 /\ jar' = Aged(jar, s)
             /\ tab' = [u \in Tabs |-> IF u = t THEN Replied(AgedPage(w, s), "ok", s)
                                       ELSE AgedPage(tab[u], s)]
             /\ UNCHANGED <<server, spent, reused>>
    <2>1. s \in Sids
      BY <1>2, <1>4
    <2>2. \A u \in Tabs : AgedPage(tab[u], s) = tab[u]
      BY <1>1, <2>1, AgedPageSame
    <2>3. Put(t, Replied(w, "ok", s))
      <3> DEFINE g == Replied(w, "ok", s)
      <3>1. tab' = [u \in Tabs |-> IF u = t THEN g ELSE tab[u]]
        BY <1>4, <2>2
      <3> HIDE DEF g
      <3>2. tab' = [tab EXCEPT ![t] = g]
        BY <1>2, <3>1
      <3> QED BY <3>2 DEF Put, g
    <2>4. jar' \in Cookie /\ jar'.sid = s
      <3>1. jar' = [sid |-> s, age |-> 1]
        BY <1>2, <1>4 DEF Aged, Cookie
      <3> QED BY <1>2, <3>1 DEF Cookie
    <2> QED BY <1>1, <1>3, <1>4, <2>1, <2>3, <2>4, GrantedOK
  <1>5. CASE live /\ Put(t, Replied(w, "ok", s)) /\ UNCHANGED <<server, jar, spent, reused>>
    <2>1. s \in Sids
      BY <1>2, <1>5
    <2> QED BY <1>1, <1>2, <1>3, <1>5, <2>1, GrantedOK
  <1>6. CASE /\ live /\ jar.age = 1 /\ server' = [server EXCEPT ![s].status = "revoked"]
             /\ reused' = reused \cup {s} /\ Put(t, Replied(w, "denied", 0))
             /\ UNCHANGED <<jar, spent>>
    <2>1. s \in lost
      BY <1>1, <1>6 DEF IInv, Secrets, NoReply
    <2>2. s \in Sids
      BY <1>2, <1>6
    <2>3. server' \in ServerType /\ Grows(server, server')
      BY <1>6, <2>2, RevokeOK
    <2>4. reused' \subseteq lost /\ spent' \in 0..MaxEvents
      BY <1>2, <1>6, <2>1
    <2> QED BY <1>1, <1>3, <1>6, <2>3, <2>4, RefusedOK
  <1>7. CASE Put(t, Replied(w, "denied", 0)) /\ UNCHANGED <<server, jar, spent, reused>>
    BY <1>1, <1>2, <1>3, <1>7, RefusedOK
  <1>8. CASE Put(t, Replied(w, "mismatch", 0)) /\ UNCHANGED <<server, jar, spent, reused>>
    BY <1>1, <1>2, <1>3, <1>8, RefusedOK
  <1>9. CASE /\ Spend /\ \E kind \in {"denied", "error", "odd"} : Put(t, Replied(w, kind, 0))
             /\ UNCHANGED <<server, jar, reused>>
    <2>1. spent' \in 0..MaxEvents
      BY <1>2, <1>9, SpendOK
    <2> QED BY <1>1, <1>2, <1>3, <1>9, <2>1, RefusedOK
  <1> QED BY <1>4, <1>5, <1>6, <1>7, <1>8, <1>9 DEF AnswerRefresh

LEMMA LoseReplyOK ==
    ASSUME IInv, NEW t \in Tabs, LoseReply(t)
    PROVE  StepOK(t, {})
  <1> DEFINE w == tab[t]
             g == Replied(w, "error", 0)
  <1>1. /\ PageOK(w, server) /\ server \in ServerType /\ Grows(server, server)
        /\ Types /\ spent \in 0..MaxEvents /\ reused \subseteq lost
    BY GrowsSame DEF IInv, Types, NoReuseWithoutLoss
  <1>2. Moves(t) /\ tab'[t] = g
    BY PutOK DEF LoseReply
  <1>3. /\ PageOK(g, server) /\ g.sid = w.sid /\ g.ver = w.ver /\ g.left = w.left
        /\ g.ask = w.ask /\ g.run.pc = "replied" /\ g.run.reply.cookie.sid = 0
    BY <1>1, RepliedOK
  <1> HIDE DEF g
  <1>4. /\ lost \subseteq lost' /\ lost' \subseteq Sids
        /\ w.run.reply.kind = "ok" => w.run.reply.cookie.sid \in lost'
    BY <1>1, PageFields DEF LoseReply, PageOK, ReplyOK, Types
  <1>5. spent' \in 0..MaxEvents /\ UNCHANGED <<server, jar, reused>>
    BY <1>1, SpendOK DEF LoseReply
  <1>6. Types'
    BY <1>1, <1>2, <1>4, <1>5 DEF Types, ServerType, Moves
  <1>7. Rotation(w, g) /\ Seen(g) \subseteq {0, jar.sid} \cup Seen(w)
    BY <1>3 DEF Rotation, Seen
  <1>8. AskStep(w.ask, g.ask) /\ SecretStep(w, g)
    BY <1>3, <1>4, <1>5 DEF AskStep, SecretStep
  <1> QED BY <1>1, <1>2, <1>3, <1>4, <1>5, <1>6, <1>7, <1>8 DEF StepOK, Moves

\* A page that cannot know keeps its session.
LEMMA TransientOK ==
    ASSUME NEW S, NEW w, PageOK(w, S)
    PROVE  LET g == Transient(w)
           IN  /\ PageOK(g, S) /\ g.sid = w.sid /\ g.ver = w.ver /\ g.left = w.left
               /\ g.ask = w.ask
  <1> DEFINE g == [w EXCEPT !.boot = "idle"]
  <1>1. Transient(w) = w \/ Transient(w) = g
    BY DEF Transient
  <1>2. w \in Page
    BY DEF PageOK
  <1>3. Aside(w, g)
    BY <1>2 DEF Aside, Page
  <1> HIDE DEF g
  <1>4. PageOK(g, S)
    BY <1>3, AsideOK
  <1> QED BY <1>1, <1>3, <1>4 DEF Aside

LEMMA ReceiveRefreshOK ==
    ASSUME IInv, NEW t \in Tabs, ReceiveRefresh(t)
    PROVE  StepOK(t, {})
  <1> DEFINE w == tab[t]
             reply == w.run.reply
             c == reply.cookie
  <1>1. /\ PageOK(w, server) /\ w \in Page /\ server \in ServerType /\ jar \in Cookie
        /\ w.run.pc = "replied" /\ UNCHANGED <<server, spent, lost, reused>>
        /\ spent \in 0..MaxEvents
    BY DEF IInv, Types, PageOK, ReceiveRefresh
  <1>2. /\ w.sid \in {0} \cup Sids /\ c \in Cookie /\ c.sid \in {0} \cup Sids
        /\ reply.ver \in 0..MaxVer /\ w.ver \in Int /\ reply.ver \in Int
    BY <1>1, PageFields, ConstantsAssumption
  <1>3. reply.kind = "ok" => /\ c.sid \in Sids /\ c.age = 0 /\ reply.ver <= server[c.sid].ver
                             /\ w.run.current => /\ w.left # c.sid
                                                 /\ w.sid = c.sid => w.ver <= reply.ver
    BY <1>1, <1>2 DEF PageOK, ReplyOK
  <1>4. /\ jar' \in Cookie /\ jar'.sid \in {0, jar.sid} \cup Seen(w)
        /\ jar'.age = 0 \/ (jar' = jar /\ reply.kind # "ok")
    <2>1. \/ reply.kind = "ok" /\ jar' = c
          \/ reply.kind # "ok" /\ jar' = NoCookie
          \/ reply.kind # "ok" /\ jar' = jar
      BY DEF ReceiveRefresh
    <2>2. NoCookie \in Cookie /\ NoCookie.sid = 0 /\ NoCookie.age = 0
      BY DEF NoCookie, Cookie
    <2> QED BY <1>1, <1>2, <1>3, <2>1, <2>2 DEF Seen
  <1>5. {w.left, w.sid, c.sid} \subseteq Seen(w)
    BY DEF Seen
  <1>6. ASSUME NEW g, PageOK(g, server), g.ask = w.ask, NEW outcome, NEW s \in {0} \cup Sids,
               outcome = "authenticated" => g.sid # 0, Finish(t, g, outcome, s),
               {g.left, g.sid} \subseteq {0} \cup Seen(w), g.sid = w.sid => g.ver >= w.ver
        PROVE  StepOK(t, {})
    <2> HIDE DEF c, reply
    <2> QED BY <1>1, <1>4, <1>6, FinishOK DEF reply
  <1>7. CASE Finish(t, w, "transient_error", 0)
    BY <1>1, <1>2, <1>5, <1>6, <1>7
  <1>8. CASE /\ isCurrent(w) /\ reply.kind = "ok"
             /\ Finish(t, applyAuthBundle(w, reply.cookie.sid, reply.ver), "authenticated", 0)
    <2> DEFINE g == applyAuthBundle(w, c.sid, reply.ver)
    <2>1. /\ PageOK(g, server) /\ g.sid = c.sid /\ g.ver = reply.ver /\ g.left = w.left
          /\ g.ask = w.ask
      BY <1>1, <1>2, <1>3, <1>8, BundleOK DEF isCurrent
    <2>2. Finish(t, g, "authenticated", 0)
      BY <1>8
    <2> HIDE DEF g
    <2>3. g.sid # 0 /\ (g.sid = w.sid => g.ver >= w.ver)
      BY <1>2, <1>3, <1>8, <2>1, NoSession DEF isCurrent
    <2> QED BY <1>5, <1>6, <2>1, <2>2, <2>3
  <1>9. CASE /\ isCurrent(w) /\ reply.kind = "mismatch"
             /\ Put(t, [Reset(w, "idle") EXCEPT
                           !.run = [NoRun EXCEPT !.pc = "again", !.gaveup = w.sid]])
    <2> DEFINE h == Reset(w, "idle")
               x == [NoRun EXCEPT !.pc = "again", !.gaveup = w.sid]
               g == [h EXCEPT !.run = x]
    <2>1. /\ PageOK(h, server) /\ h \in Page /\ h.sid = 0 /\ h.ver = 0 /\ h.left = w.left
          /\ h.ask = w.ask /\ h.call = w.call
      BY <1>1, ResetOK DEF PageOK
    <2>2. x \in Run /\ x.pc = "again" /\ x.reply = NoReply
      BY <1>2, NoRunOK DEF Run
    <2> HIDE DEF h, x
    <2>3. /\ g \in Page /\ g.sid = 0 /\ g.ver = 0 /\ g.left = w.left
          /\ g.ask = w.ask /\ g.call = w.call /\ g.run = x
      BY <2>1, <2>2 DEF Page
    <2>4. Moves(t) /\ tab'[t] = g
      BY <1>9, PutOK DEF h, x
    <2> HIDE DEF g
    <2>5. PageOK(g, server)
      BY <2>1, <2>2, <2>3 DEF PageOK, ReplyOK, NoReply
    <2>6. Rotation(w, g) /\ AskStep(w.ask, g.ask)
      BY <2>2, <2>3 DEF Rotation, AskStep
    <2>7. Seen(g) \subseteq {0, jar.sid} \cup Seen(w)
      BY <2>2, <2>3 DEF Seen, NoReply, NoCookie
    <2>8. KeepsReply(w, g)
      BY <1>9 DEF KeepsReply
    <2>9. jar' = jar
      BY <1>9 DEF ReceiveRefresh
    <2> HIDE DEF w
    <2> QED BY <1>1, <2>4, <2>5, <2>6, <2>7, <2>8, <2>9, PageStep DEF w
  <1>10. CASE Finish(t, clearAuthentication(w), "out_of_sync", 0)
    <2> DEFINE g == clearAuthentication(w)
    <2>1. PageOK(g, server) /\ g.sid = 0 /\ g.ver = 0 /\ g.left = w.left /\ g.ask = w.ask
      BY <1>1, ClearOK
    <2>2. Finish(t, g, "out_of_sync", 0)
      BY <1>10
    <2> HIDE DEF g
    <2>3. g.sid = w.sid => g.ver >= w.ver
      BY <1>1, <2>1 DEF PageOK
    <2> QED BY <1>5, <1>6, <2>1, <2>2, <2>3
  <1>11. CASE Finish(t, SignedOut(w), "anonymous", w.sid)
    <2> DEFINE g == SignedOut(w)
    <2>1. /\ PageOK(g, server) /\ g.sid = 0 /\ g.ver = 0 /\ g.left \in {w.left, w.sid}
          /\ g.ask = w.ask
      BY <1>1, SignedOutOK
    <2>2. Finish(t, g, "anonymous", w.sid)
      BY <1>11
    <2> HIDE DEF g
    <2>3. g.sid = w.sid => g.ver >= w.ver
      BY <1>1, <2>1 DEF PageOK
    <2> QED BY <1>2, <1>5, <1>6, <2>1, <2>2, <2>3
  <1>12. CASE Finish(t, Transient(w), "transient_error", 0)
    <2> DEFINE g == Transient(w)
    <2>1. PageOK(g, server) /\ g.sid = w.sid /\ g.ver = w.ver /\ g.left = w.left /\ g.ask = w.ask
      BY <1>1, TransientOK
    <2>2. Finish(t, g, "transient_error", 0)
      BY <1>12
    <2> HIDE DEF g
    <2> QED BY <1>2, <1>5, <1>6, <2>1, <2>2
  <1> QED BY <1>7, <1>8, <1>9, <1>10, <1>11, <1>12 DEF ReceiveRefresh

\* The refresh of the page goes on.
LEMMA RunGoesOn ==
    ASSUME NEW w, NEW g, g.run.pc = "none" => w.run.pc = "none", g.run.reply = w.run.reply,
           {g.sid, g.left} \subseteq {0, w.sid, w.left}
    PROVE  /\ Rotation(w, g) /\ KeepsReply(w, g)
           /\ Seen(g) \subseteq {0, jar.sid} \cup Seen(w)
  <1>1. Rotation(w, g) /\ KeepsReply(w, g)
    BY DEF Rotation, KeepsReply
  <1>2. Seen(g) \subseteq {0, jar.sid} \cup Seen(w)
    BY DEF Seen
  <1> QED BY <1>1, <1>2

LEMMA BootstrapOK ==
    ASSUME IInv, NEW t \in Tabs, Bootstrap(t)
    PROVE  StepOK(t, {})
  <1> DEFINE w == tab[t]
             g == refreshAuthentication(w)
  <1>1. PageOK(w, server) /\ spent' \in 0..MaxEvents
    BY DEF IInv, Types, Bootstrap
  <1>2. /\ PageOK(g, server) /\ g.sid = w.sid /\ g.ver = w.ver /\ g.left = w.left
        /\ g.ask = w.ask /\ g.run.reply = w.run.reply
        /\ g.run.pc = "none" => w.run.pc = "none"
    BY <1>1, RefreshOK
  <1>3. /\ Moves(t) /\ tab'[t] = g /\ UNCHANGED <<server, jar, lost, reused>>
    BY PutOK DEF Bootstrap
  <1> HIDE DEF g, w
  <1>4. AskStep(w.ask, g.ask)
    BY <1>2 DEF AskStep
  <1>5. /\ Rotation(w, g) /\ KeepsReply(w, g)
        /\ Seen(g) \subseteq {0, jar.sid} \cup Seen(w)
    BY <1>2, RunGoesOn
  <1> QED BY <1>1, <1>2, <1>3, <1>4, <1>5, PageStep DEF w

LEMMA CallRefusedOK ==
    ASSUME IInv, NEW t \in Tabs, CallRefused(t)
    PROVE  StepOK(t, {})
  <1> DEFINE w == tab[t]
             c == [w.call EXCEPT !.pc = "refreshing"]
             h == [w EXCEPT !.call = c]
             g == refreshAuthentication(h)
  <1>1. PageOK(w, server) /\ w \in Page /\ spent' \in 0..MaxEvents
    BY DEF IInv, Types, CallRefused, PageOK
  <1>2. Put(t, g) /\ UNCHANGED <<server, jar, lost, reused>>
    BY DEF CallRefused
  <1>3. c \in Call /\ c.pc = "refreshing"
    BY <1>1, PageFields DEF Call
  <1> HIDE DEF c
  <1>4. /\ PageOK(h, server) /\ h.sid = w.sid /\ h.ver = w.ver /\ h.left = w.left
        /\ h.ask = w.ask /\ h.run = w.run
    BY <1>1, <1>3, CallChangeOK
  <1> HIDE DEF h
  <1>5. /\ PageOK(g, server) /\ g.sid = h.sid /\ g.ver = h.ver /\ g.left = h.left
        /\ g.ask = h.ask /\ g.run.reply = h.run.reply
        /\ g.run.pc = "none" => h.run.pc = "none"
    BY <1>4, RefreshOK
  <1> HIDE DEF g, w
  <1>6. Moves(t) /\ tab'[t] = g
    BY <1>2, PutOK
  <1>7. AskStep(w.ask, g.ask)
    BY <1>4, <1>5 DEF AskStep
  <1>8. /\ Rotation(w, g) /\ KeepsReply(w, g)
        /\ Seen(g) \subseteq {0, jar.sid} \cup Seen(w)
    BY <1>4, <1>5, RunGoesOn
  <1> QED BY <1>1, <1>2, <1>5, <1>6, <1>7, <1>8, PageStep DEF w

LEMMA CallAnsweredOK ==
    ASSUME IInv, NEW t \in Tabs, CallAnswered(t)
    PROVE  StepOK(t, {})
  <1> DEFINE w == tab[t]
             k == clearAuthentication(w)
  <1>1. /\ PageOK(w, server) /\ spent' \in 0..MaxEvents
        /\ UNCHANGED <<server, jar, reused>>
    BY DEF IInv, Types, CallAnswered
  <1>2. ASSUME NEW h, h \in {w, k}, NEW g, g = [h EXCEPT !.call = NoCall], Put(t, g),
               lost' = lost
        PROVE  StepOK(t, {})
    <2>1. /\ PageOK(h, server) /\ h.sid \in {0, w.sid} /\ h.left = w.left
          /\ h.ask = w.ask /\ h.run.pc = w.run.pc /\ h.run.reply = w.run.reply
      BY <1>1, <1>2, ClearOK
    <2>2. /\ PageOK(g, server) /\ g.sid = h.sid /\ g.left = h.left
          /\ g.ask = h.ask /\ g.run = h.run
      BY <1>2, <2>1, NoCallOK, CallChangeOK
    <2>3. Moves(t) /\ tab'[t] = g
      BY <1>2, PutOK
    <2>4. AskStep(w.ask, g.ask)
      BY <2>1, <2>2 DEF AskStep
    <2> HIDE DEF w, k
    <2>5. /\ Rotation(w, g) /\ KeepsReply(w, g)
          /\ Seen(g) \subseteq {0, jar.sid} \cup Seen(w)
      BY <2>1, <2>2, RunGoesOn
    <2> QED BY <1>1, <1>2, <2>2, <2>3, <2>4, <2>5, PageStep DEF w
  <1>3. CASE Put(t, [w EXCEPT !.call = NoCall]) /\ lost' = lost
    BY <1>2, <1>3
  <1>4. CASE Put(t, [k EXCEPT !.call = NoCall]) /\ lost' = lost
    BY <1>2, <1>4
  <1>5. CASE Reload(t)
    BY <1>1, <1>5, ReloadOK
  <1> QED BY <1>3, <1>4, <1>5 DEF CallAnswered

LEMMA AnswerLoginOK ==
    ASSUME IInv, NEW t \in Tabs, AnswerLogin(t)
    PROVE  StepOK(t, {})
  <1> DEFINE w == tab[t]
  <1>1. /\ PageOK(w, server) /\ server \in ServerType /\ spent \in 0..MaxEvents
        /\ reused \subseteq lost
    BY DEF IInv, Types, NoReuseWithoutLoss
  <1>2. PICK s \in Sids :
          /\ server[s].status = "unused" /\ server' = [server EXCEPT ![s].status = "active"]
          /\ Put(t, [w EXCEPT !.ask = [NoAsk EXCEPT !.pc = "login", !.sid = s]])
    BY DEF AnswerLogin
  <1> DEFINE a == [NoAsk EXCEPT !.pc = "login", !.sid = s]
             g == [w EXCEPT !.ask = a]
  <1>3. server' \in ServerType /\ Grows(server, server') /\ server'[s].status = "active"
    <2>1. \A r \in Sids : server[r].ver \in Int
      BY <1>1, ConstantsAssumption DEF ServerType
    <2>2. server' \in ServerType /\ server'[s].status = "active"
      BY <1>1, <1>2 DEF ServerType
    <2>3. \A r \in Sids : /\ server'[r].ver = server[r].ver
                          /\ r = s \/ server'[r] = server[r]
      BY <1>1, <1>2 DEF ServerType
    <2> QED BY <1>2, <2>1, <2>2, <2>3 DEF Grows
  <1>4. a \in Ask /\ a.pc = "login" /\ a.sid = s /\ AskOK(a, server')
    <2>1. a \in Ask /\ a.pc = "login" /\ a.sid = s
      BY NoAskOK DEF Ask
    <2> HIDE DEF a
    <2> QED BY <1>3, <2>1, NoSession DEF AskOK
  <1> HIDE DEF a
  <1>5. PageOK(w, server')
    BY <1>1, <1>3, PageGrows
  <1>6. /\ PageOK(g, server') /\ g.sid = w.sid /\ g.left = w.left /\ g.ask = a /\ g.run = w.run
    BY <1>4, <1>5, AskChangeOK
  <1>7. Moves(t) /\ tab'[t] = g
    BY <1>2, PutOK DEF a
  <1> HIDE DEF g
  <1>8. AskStep(w.ask, g.ask)
    <2>1. Unseen(s)
      BY <1>2 DEF IInv, Births
    <2>2. \A u \in Tabs : tab[u].ask.pc = "none"
      BY DEF AnswerLogin, CanAsk
    <2> QED BY <1>4, <1>6, <2>1, <2>2 DEF AskStep
  <1>9. spent' \in 0..MaxEvents /\ UNCHANGED <<jar, lost, reused>>
    BY <1>1, SpendOK DEF AnswerLogin
  <1> HIDE DEF w
  <1>10. /\ Rotation(w, g) /\ KeepsReply(w, g)
         /\ Seen(g) \subseteq {0, jar.sid} \cup Seen(w)
    BY <1>6, RunGoesOn
  <1> QED BY <1>1, <1>3, <1>6, <1>7, <1>8, <1>9, <1>10, ServerStep DEF w

\* The login the user waited for: its session is one the browser has not seen,
\* so the page cannot have been signed out of it.
LEMMA ReceiveLoginOK ==
    ASSUME IInv, NEW t \in Tabs, ReceiveLogin(t)
    PROVE  StepOK(t, {tab[t].ask.sid})
  <1> DEFINE w == tab[t]
             s == w.ask.sid
             h == [w EXCEPT !.ask = NoAsk]
             g == applyAuthBundle(h, s, 0)
             e == IF w.sid = s THEN 0 ELSE s
  <1>1. /\ Types /\ PageOK(w, server) /\ server \in ServerType /\ reused \subseteq lost
        /\ w.ask.pc = "login" /\ Unseen(s) /\ UNCHANGED <<server, spent, lost, reused>>
        /\ jar' = [sid |-> s, age |-> 0]
    BY DEF IInv, Types, NoReuseWithoutLoss, ReceiveLogin, Births
  <1>2. s \in Sids /\ server[s].status # "unused" /\ e \in {0} \cup Sids
    BY <1>1, PageFields DEF PageOK, AskOK
  <1>3. w.left # s
    BY <1>1 DEF Unseen, Seen
  <1>4. PutTelling(t, g, "authenticated", e)
    BY DEF ReceiveLogin
  <1> HIDE DEF e
  <1>5. /\ PageOK(h, server) /\ h.sid = w.sid /\ h.left = w.left /\ h.ask = NoAsk
        /\ h.run = w.run
    BY <1>1, NoAskOK, AskChangeOK
  <1> HIDE DEF h, s
  <1>6. /\ PageOK(g, server) /\ g.sid = s /\ g.ver = 0 /\ g.left = w.left
        /\ g.ask = NoAsk /\ g.run.pc = w.run.pc /\ g.run.reply = w.run.reply
    <2>1. 0 \in 0..MaxVer /\ 0 <= server[s].ver
      BY <1>1, <1>2, ConstantsAssumption DEF ServerType
    <2>2. h.left # s
      BY <1>3, <1>5
    <2>3. /\ PageOK(g, server) /\ g.sid = s /\ g.ver = 0 /\ g.left = h.left
          /\ g.ask = h.ask /\ g.run.pc = h.run.pc /\ g.run.reply = h.run.reply
      BY ONLY <1>1, <1>2, <1>5, <2>1, <2>2, BundleOK
    <2> QED BY <1>5, <2>3
  <1> HIDE DEF g
  <1>7. Moves(t) /\ tab'[t] = g
    BY <1>2, <1>4, TellOK
  <1>8. \A u \in Tabs \ {t} : tab[u].ask.pc = "none"
    BY <1>1 DEF IInv, OneAsk
  <1>9. jar' \in Cookie /\ jar'.sid = s /\ jar'.age = 0
    BY <1>1, <1>2 DEF Cookie
  <1>10. Types'
    BY <1>1, <1>7, <1>9 DEF Types, ServerType, Moves
  <1>11. Rotation(w, g) /\ AskStep(w.ask, g.ask) /\ SecretStep(w, g) /\ g.ask.pc = "none"
    BY <1>6, <1>9, NoAskOK DEF Rotation, AskStep, SecretStep
  <1>12. Seen(g) \subseteq {0, jar.sid} \cup Seen(w) \cup {s}
    BY <1>6 DEF Seen
  <1>13. Grows(server, server')
    BY <1>1, GrowsSame
  <1> HIDE DEF w
  <1>14. StepOK(t, {s})
    BY <1>1, <1>2, <1>6, <1>7, <1>8, <1>9, <1>10, <1>11, <1>12, <1>13 DEF StepOK, Moves, w
  <1> QED BY <1>14 DEF s, w

LEMMA AnswerRotationOK ==
    ASSUME IInv, NEW t \in Tabs, AnswerRotation(t)
    PROVE  StepOK(t, {})
  <1> DEFINE w == tab[t]
             s == w.sid
             v == w.ver + 1
             a == [NoAsk EXCEPT !.pc = "rotated", !.sid = s, !.ver = v]
             g == [w EXCEPT !.ask = a]
  <1>1. /\ PageOK(w, server) /\ server \in ServerType /\ spent \in 0..MaxEvents
        /\ reused \subseteq lost /\ s # 0 /\ server[s].ver = w.ver /\ w.ver < MaxVer
        /\ UNCHANGED <<jar, lost, reused>>
    BY DEF IInv, Types, NoReuseWithoutLoss, AnswerRotation
  <1>2. /\ Put(t, g) /\ spent' \in 0..MaxEvents
        /\ \A u \in Tabs : tab[u].ask.pc = "none"
    BY <1>1, SpendOK DEF AnswerRotation, CanAsk
  <1>3. s \in Sids /\ w.ver \in 0..MaxVer /\ v \in 0..MaxVer /\ v = w.ver + 1
    BY <1>1, PageFields, ConstantsAssumption DEF PageOK
  <1>4. server' \in ServerType /\ Grows(server, server') /\ v <= server'[s].ver
    <2>1. server' = [r \in Sids |->
                        IF r = s THEN [server[r] EXCEPT !.ver = @ + 1]
                        ELSE IF server[r].status = "active"
                             THEN [server[r] EXCEPT !.status = "revoked"]
                             ELSE server[r]]
      BY DEF AnswerRotation
    <2>2. \A r \in Sids : /\ server[r] \in [status : {"unused", "active", "revoked"}, ver : 0..MaxVer]
                          /\ server[r].ver \in 0..MaxVer
      BY <1>1 DEF ServerType
    <2>3. \A r \in Sids : server'[r] \in [status : {"unused", "active", "revoked"}, ver : 0..MaxVer]
      <3> SUFFICES ASSUME NEW r \in Sids
                   PROVE  server'[r] \in [status : {"unused", "active", "revoked"}, ver : 0..MaxVer]
        OBVIOUS
      <3>1. CASE r = s
        <4>1. server'[s] = [server[s] EXCEPT !.ver = v]
          BY <1>1, <1>3, <2>1
        <4> HIDE DEF v
        <4> QED BY <1>3, <2>2, <3>1, <4>1
      <3>2. CASE r # s
        BY <2>1, <2>2, <3>2
      <3> QED BY <3>1, <3>2
    <2>4. server' \in ServerType
      BY <2>1, <2>3 DEF ServerType
    <2>5. server'[s].ver = v /\ server'[s].status = server[s].status
      <3>1. server'[s] = [server[s] EXCEPT !.ver = v]
        BY <1>1, <1>3, <2>1
      <3> HIDE DEF v
      <3> QED BY <1>3, <2>2, <3>1
    <2>6. \A r \in Sids : r # s => /\ server'[r].ver = server[r].ver
                                   /\ \/ server'[r].status = server[r].status
                                      \/ server'[r].status = "revoked"
      BY <2>1, <2>2
    <2> HIDE DEF v
    <2>7. v \in Int /\ \A r \in Sids : server[r].ver \in Int /\ server'[r].ver \in Int
      BY <1>3, <2>2, <2>4, ConstantsAssumption DEF ServerType
    <2>8. server[s].ver <= v
      BY <1>1, <1>3
    <2> QED BY <1>3, <2>4, <2>5, <2>6, <2>7, <2>8 DEF Grows
  <1> HIDE DEF v, s
  <1>5. a \in Ask /\ a.pc = "rotated" /\ AskOK(a, server')
    <2>1. a \in Ask /\ a.pc = "rotated" /\ a.sid = s /\ a.ver = v
      BY <1>3, NoAskOK DEF Ask
    <2> HIDE DEF a
    <2> QED BY <1>1, <1>4, <2>1 DEF AskOK
  <1> HIDE DEF a
  <1>6. PageOK(w, server')
    BY <1>1, <1>4, PageGrows
  <1>7. /\ PageOK(g, server') /\ g.sid = w.sid /\ g.left = w.left /\ g.ask = a /\ g.run = w.run
    BY <1>5, <1>6, AskChangeOK
  <1> HIDE DEF g
  <1>8. Moves(t) /\ tab'[t] = g
    BY <1>2, PutOK
  <1>9. AskStep(w.ask, g.ask)
    BY <1>2, <1>5, <1>7 DEF AskStep
  <1> HIDE DEF w
  <1>10. /\ Rotation(w, g) /\ KeepsReply(w, g)
         /\ Seen(g) \subseteq {0, jar.sid} \cup Seen(w)
    BY <1>7, RunGoesOn
  <1> QED BY <1>1, <1>2, <1>4, <1>7, <1>8, <1>9, <1>10, ServerStep DEF w

LEMMA ReceiveRotationOK ==
    ASSUME IInv, NEW t \in Tabs, ReceiveRotation(t)
    PROVE  StepOK(t, {})
  <1> DEFINE w == tab[t]
             h == [w EXCEPT !.ask = NoAsk]
             s == w.ask.sid
             v == w.ask.ver
             g == applyAuthRotation(h, s, v)
  <1>1. /\ PageOK(w, server) /\ w \in Page /\ server \in ServerType /\ spent' \in 0..MaxEvents
        /\ UNCHANGED <<server, jar, lost, reused>> /\ Put(t, g) /\ w.ask.pc = "rotated"
    BY DEF IInv, Types, ReceiveRotation, PageOK
  <1>2. s \in Sids /\ v \in 0..MaxVer /\ v <= server[s].ver
    BY <1>1, PageFields DEF PageOK, AskOK
  <1>3. /\ PageOK(h, server) /\ h.sid = w.sid /\ h.left = w.left /\ h.ask = NoAsk
        /\ h.run = w.run
    BY <1>1, NoAskOK, AskChangeOK
  <1> HIDE DEF h, s, v
  <1>4. /\ PageOK(g, server) /\ g.sid = w.sid /\ g.left = w.left
        /\ g.ask = NoAsk /\ g.run.pc = w.run.pc /\ g.run.reply = w.run.reply
    <2>1. CASE h.sid = s
      <3> DEFINE k == applyAuthBundle(h, s, v)
      <3>1. h.left # s
        BY <1>2, <1>3, <2>1, NoSession DEF PageOK
      <3>2. /\ PageOK(k, server) /\ k.sid = s /\ k.left = h.left
            /\ k.ask = h.ask /\ k.run.pc = h.run.pc /\ k.run.reply = h.run.reply
        BY ONLY <1>1, <1>2, <1>3, <3>1, BundleOK
      <3> HIDE DEF k
      <3>3. g = k
        BY <2>1 DEF applyAuthRotation, k
      <3> HIDE DEF g
      <3> QED BY <1>3, <2>1, <3>2, <3>3
    <2>2. CASE h.sid # s
      BY <1>3, <2>2 DEF applyAuthRotation
    <2> QED BY <2>1, <2>2
  <1> HIDE DEF g
  <1>5. Moves(t) /\ tab'[t] = g
    BY <1>1, PutOK
  <1>6. AskStep(w.ask, g.ask)
    BY <1>4, NoAskOK DEF AskStep
  <1> HIDE DEF w
  <1>7. /\ Rotation(w, g) /\ KeepsReply(w, g)
        /\ Seen(g) \subseteq {0, jar.sid} \cup Seen(w)
    BY <1>4, RunGoesOn
  <1> QED BY <1>1, <1>4, <1>5, <1>6, <1>7, PageStep DEF w

LEMMA LogoutOK ==
    ASSUME IInv, NEW t \in Tabs, Logout(t)
    PROVE  StepOK(t, {})
  <1> DEFINE w == tab[t]
             s == IF w.ask.pc = "again" THEN w.ask.sid ELSE w.sid
             b == w.ask.second
  <1>1. /\ PageOK(w, server) /\ w \in Page /\ server \in ServerType /\ spent' \in 0..MaxEvents
        /\ Grows(server, server) /\ reused' \subseteq lost /\ UNCHANGED <<jar, lost>>
    BY GrowsSame DEF IInv, Types, NoReuseWithoutLoss, Logout, PageOK
  <1>2. (\A u \in Tabs : tab[u].ask.pc = "none") \/ w.ask.pc = "again"
    BY DEF Logout, CanAsk
  <1>3. s \in Sids
    BY <1>1, PageFields DEF Logout, PageOK, AskOK
  <1>4. PICK pc \in {"mismatch", "cleared", "signedout"} :
            Put(t, [w EXCEPT !.ask = [NoAsk EXCEPT !.pc = pc, !.second = b]])
    BY DEF Logout
  <1>5. server' = server \/ server' = [server EXCEPT ![s].status = "revoked"]
    BY DEF Logout
  <1> HIDE DEF s
  <1>6. server' \in ServerType /\ Grows(server, server')
    BY <1>1, <1>3, <1>5, RevokeOK
  <1> DEFINE a == [NoAsk EXCEPT !.pc = pc, !.second = b]
             g == [w EXCEPT !.ask = a]
  <1>7. a \in Ask /\ a.pc = pc /\ AskOK(a, server')
    <2>1. b \in BOOLEAN
      BY <1>1, PageFields DEF Ask
    <2> HIDE DEF b
    <2>2. a \in Ask /\ a.pc = pc
      BY <2>1, NoAskOK DEF Ask
    <2> HIDE DEF a
    <2> QED BY <2>2 DEF AskOK
  <1>8. Put(t, g)
    BY <1>4
  <1> HIDE DEF a, b
  <1>9. PageOK(w, server')
    BY <1>1, <1>6, PageGrows
  <1>10. /\ PageOK(g, server') /\ g.sid = w.sid /\ g.left = w.left /\ g.ask = a /\ g.run = w.run
    BY <1>7, <1>9, AskChangeOK
  <1> HIDE DEF g
  <1>11. Moves(t) /\ tab'[t] = g
    BY <1>8, PutOK
  <1>12. AskStep(w.ask, g.ask)
    BY <1>2, <1>7, <1>10 DEF AskStep
  <1> HIDE DEF w
  <1>13. /\ Rotation(w, g) /\ KeepsReply(w, g)
         /\ Seen(g) \subseteq {0, jar.sid} \cup Seen(w)
    BY <1>10, RunGoesOn
  <1> QED BY <1>1, <1>6, <1>10, <1>11, <1>12, <1>13, ServerStep DEF w

LEMMA ReceiveLogoutOK ==
    ASSUME IInv, NEW t \in Tabs, ReceiveLogout(t)
    PROVE  StepOK(t, {})
  <1> DEFINE w == tab[t]
  <1>1. /\ Types /\ PageOK(w, server) /\ w \in Page /\ server \in ServerType /\ jar \in Cookie
        /\ Grows(server, server) /\ reused \subseteq lost /\ spent \in 0..MaxEvents
        /\ UNCHANGED <<server, spent, lost, reused>>
    BY GrowsSame DEF IInv, Types, NoReuseWithoutLoss, ReceiveLogout, PageOK
  <1>2. CASE /\ jar' \in {jar, NoCookie}
             /\ PutTelling(t, [SignedOut(w) EXCEPT !.ask = NoAsk], "signed_out", w.sid)
    <2> DEFINE h == SignedOut(w)
               g == [h EXCEPT !.ask = NoAsk]
    <2>1. /\ PageOK(h, server) /\ h.sid = 0 /\ h.left \in {w.left, w.sid}
          /\ h.run.pc = w.run.pc /\ h.run.reply = w.run.reply
      BY <1>1, SignedOutOK
    <2> HIDE DEF h
    <2>2. /\ PageOK(g, server) /\ g.sid = h.sid /\ g.left = h.left /\ g.ask = NoAsk
          /\ g.run = h.run
      BY <2>1, NoAskOK, AskChangeOK
    <2>3. PutTelling(t, g, "signed_out", w.sid) /\ w.sid \in {0} \cup Sids
      BY <1>1, <1>2, PageFields DEF h
    <2> HIDE DEF g
    <2>4. Moves(t) /\ tab'[t] = g
      BY <2>3, TellOK
    <2>5. jar' \in Cookie /\ jar'.sid \in {0, jar.sid} /\ (jar' = jar \/ jar'.age = 0)
      BY <1>1, <1>2 DEF NoCookie, Cookie
    <2>6. Types'
      BY <1>1, <2>4, <2>5 DEF Types, ServerType, Moves
    <2>7. AskStep(w.ask, g.ask) /\ SecretStep(w, g)
      BY <2>1, <2>2, <2>5, NoAskOK DEF AskStep, SecretStep
    <2>8. /\ Rotation(w, g) /\ Seen(g) \subseteq {0, jar.sid} \cup Seen(w)
      <3> HIDE DEF w
      <3> QED BY <2>1, <2>2, RunGoesOn
    <2> QED BY <1>1, <2>2, <2>4, <2>5, <2>6, <2>7, <2>8 DEF StepOK, Moves
  <1>3. CASE /\ w.ask.pc = "mismatch" /\ jar' = jar
             /\ Put(t, IF w.ask.second THEN [w EXCEPT !.ask = NoAsk]
                       ELSE refreshAuthentication(
                               [w EXCEPT !.ask = [NoAsk EXCEPT !.pc = "recover"]]))
    <2> DEFINE a == [NoAsk EXCEPT !.pc = "recover"]
               h == [w EXCEPT !.ask = a]
               k == refreshAuthentication(h)
               n == [w EXCEPT !.ask = NoAsk]
    <2>1. a \in Ask /\ a.pc = "recover" /\ AskOK(a, server)
      <3>1. a \in Ask /\ a.pc = "recover"
        BY NoAskOK DEF Ask
      <3> HIDE DEF a
      <3> QED BY <3>1 DEF AskOK
    <2>2. PICK g : g \in {n, k} /\ Put(t, g)
      BY <1>3
    <2> HIDE DEF a
    <2>3. /\ PageOK(n, server) /\ n.sid = w.sid /\ n.left = w.left /\ n.ask = NoAsk
          /\ n.run = w.run
      BY <1>1, NoAskOK, AskChangeOK
    <2>4. /\ PageOK(h, server) /\ h.sid = w.sid /\ h.left = w.left /\ h.ask = a
          /\ h.run = w.run
      BY <1>1, <2>1, AskChangeOK
    <2> HIDE DEF h, n
    <2>5. /\ PageOK(k, server) /\ k.sid = h.sid /\ k.left = h.left /\ k.ask = h.ask
          /\ k.run.reply = h.run.reply /\ (k.run.pc = "none" => h.run.pc = "none")
      BY <2>4, RefreshOK
    <2> HIDE DEF k
    <2>6. /\ PageOK(g, server) /\ g.sid = w.sid /\ g.left = w.left
          /\ g.ask.pc = "none" \/ g.ask.pc = "recover"
          /\ g.run.reply = w.run.reply /\ (g.run.pc = "none" => w.run.pc = "none")
      BY <2>1, <2>2, <2>3, <2>4, <2>5, NoAskOK
    <2>7. Moves(t) /\ tab'[t] = g
      BY <2>2, PutOK
    <2>8. AskStep(w.ask, g.ask)
      BY <1>3, <2>6 DEF AskStep
    <2> HIDE DEF w
    <2>9. /\ Rotation(w, g) /\ KeepsReply(w, g)
          /\ Seen(g) \subseteq {0, jar.sid} \cup Seen(w)
      BY <2>6, RunGoesOn
    <2> QED BY <1>1, <1>3, <2>6, <2>7, <2>8, <2>9, PageStep DEF w
  <1> QED BY <1>2, <1>3 DEF ReceiveLogout

LEMMA LoseAnswerOK ==
    ASSUME IInv, NEW t \in Tabs, LoseAnswer(t)
    PROVE  StepOK(t, {})
  <1> DEFINE w == tab[t]
             g == [w EXCEPT !.ask = NoAsk]
  <1>1. PageOK(w, server) /\ spent' \in 0..MaxEvents /\ UNCHANGED <<server, jar, lost, reused>>
    BY SpendOK DEF IInv, Types, LoseAnswer
  <1>2. /\ PageOK(g, server) /\ g.sid = w.sid /\ g.left = w.left /\ g.ask = NoAsk
        /\ g.run = w.run
    BY <1>1, NoAskOK, AskChangeOK
  <1>3. Moves(t) /\ tab'[t] = g
    BY PutOK DEF LoseAnswer
  <1> HIDE DEF g, w
  <1>4. AskStep(w.ask, g.ask)
    BY <1>2, NoAskOK DEF AskStep
  <1>5. /\ Rotation(w, g) /\ KeepsReply(w, g)
        /\ Seen(g) \subseteq {0, jar.sid} \cup Seen(w)
    BY <1>2, RunGoesOn
  <1> QED BY <1>1, <1>2, <1>3, <1>4, <1>5, PageStep DEF w

LEMMA UserReloadOK ==
    ASSUME IInv, NEW t \in Tabs, UserReload(t)
    PROVE  StepOK(t, {})
  <1>1. spent' \in 0..MaxEvents
    BY SpendOK DEF IInv, Types, UserReload
  <1> QED BY <1>1, ReloadOK DEF UserReload

\* A page goes on without the first of its events, or signed out by it.
LEMMA EventOK ==
    ASSUME IInv, NEW t \in Tabs, tab[t].inbox # <<>>, NEW h,
           h = [tab[t] EXCEPT !.inbox = Tail(@)], NEW g, g \in {h, SignedOut(h)}, Put(t, g),
           UNCHANGED <<server, jar, lost, reused>>, spent' \in 0..MaxEvents
    PROVE  StepOK(t, {})
  <1> DEFINE w == tab[t]
  <1>1. PageOK(w, server) /\ w \in Page
    BY DEF IInv, PageOK
  <1>2. Aside(w, h)
    BY <1>1, InboxOK
  <1>3. PageOK(h, server)
    BY <1>1, <1>2, AsideOK
  <1>4. /\ PageOK(g, server) /\ g.sid \in {0, h.sid} /\ g.left \in {h.left, h.sid}
        /\ g.ask = h.ask /\ g.run.pc = h.run.pc /\ g.run.reply = h.run.reply
    BY <1>3, SignedOutOK
  <1>5. Moves(t) /\ tab'[t] = g
    BY PutOK
  <1>6. AskStep(w.ask, g.ask)
    BY <1>2, <1>4 DEF AskStep, Aside
  <1> HIDE DEF w
  <1>7. /\ Rotation(w, g) /\ KeepsReply(w, g)
        /\ Seen(g) \subseteq {0, jar.sid} \cup Seen(w)
    BY <1>2, <1>4, RunGoesOn DEF Aside
  <1> QED BY <1>4, <1>5, <1>6, <1>7, PageStep DEF w

LEMMA HandleEventOK ==
    ASSUME IInv, NEW t \in Tabs, HandleEvent(t)
    PROVE  StepOK(t, {})
  <1> DEFINE h == [tab[t] EXCEPT !.inbox = Tail(@)]
  <1>1. tab[t].inbox # <<>> /\ UNCHANGED <<server, jar, reused>> /\ spent' \in 0..MaxEvents
    BY DEF IInv, Types, HandleEvent
  <1>2. CASE Reload(t)
    BY <1>1, <1>2, ReloadOK
  <1>3. CASE \E g \in {h, SignedOut(h)} : Put(t, g) /\ lost' = lost
    <2>1. PICK g \in {h, SignedOut(h)} : Put(t, g) /\ lost' = lost
      BY <1>3
    <2> QED BY <1>1, <2>1, EventOK
  <1> QED BY <1>2, <1>3 DEF HandleEvent

LEMMA DropEventOK ==
    ASSUME IInv, NEW t \in Tabs, DropEvent(t)
    PROVE  StepOK(t, {})
  <1>1. spent' \in 0..MaxEvents
    BY SpendOK DEF IInv, Types, DropEvent
  <1> DEFINE h == [tab[t] EXCEPT !.inbox = Tail(@)]
  <1>2. /\ tab[t].inbox # <<>> /\ Put(t, h) /\ h \in {h, SignedOut(h)}
        /\ UNCHANGED <<server, jar, lost, reused>>
    BY DEF DropEvent
  <1>3. ASSUME NEW g, g = h
        PROVE  StepOK(t, {})
    BY <1>1, <1>2, <1>3, EventOK
  <1> QED BY <1>3

-----------------------------------------------------------------------------
(* The specification.                                                       *)

\* Another device revokes a session: no page and no secret changes.
LEMMA RevokeElsewhereOK ==
    ASSUME IInv, RevokeElsewhere
    PROVE  IInv' /\ tab' = tab
  <1>1. PICK s \in Sids : server' = [server EXCEPT ![s].status = "revoked"]
    BY DEF RevokeElsewhere
  <1>2. server \in ServerType /\ server' \in ServerType /\ Grows(server, server')
    BY <1>1, RevokeOK DEF IInv, Types
  <1>3. spent' \in 0..MaxEvents /\ UNCHANGED <<jar, tab, lost, reused>>
    BY SpendOK DEF IInv, Types, RevokeElsewhere
  <1>4. \A t \in Tabs : PageOK(tab'[t], server')
    BY <1>2, <1>3, PageGrows DEF IInv
  <1>5. \A t \in Tabs : PageOK(tab[t], server)'
    BY <1>4 DEF PageOK, ReplyOK, AskOK
  <1>6. Types'
    BY <1>2, <1>3 DEF IInv, Types, ServerType
  <1>7. Births'
    <2>1. \A r \in Sids : server'[r].status = "unused" => server[r].status = "unused"
      BY <1>2 DEF Grows
    <2> QED BY <1>3, <2>1 DEF IInv, Births, Unseen, Seen
  <1>8. OneAsk' /\ Secrets' /\ NoReuseWithoutLoss'
    BY <1>3 DEF IInv, OneAsk, Secrets, NoReuseWithoutLoss
  <1> QED BY <1>3, <1>5, <1>6, <1>7, <1>8 DEF IInv

LEMMA InitInv == Init => IInv
  <1> SUFFICES ASSUME Init PROVE IInv
    OBVIOUS
  <1>1. \A t \in Tabs : tab[t] = NewPage
    BY DEF Init
  <1>2. \A t \in Tabs : PageOK(tab[t], server) /\ Seen(tab[t]) = {0}
    BY <1>1, NewPageOK
  <1>3. Types
    <2>1. server \in ServerType
      BY ConstantsAssumption DEF Init, ServerType
    <2>2. jar \in Cookie /\ DOMAIN tab = Tabs /\ tab = [t \in Tabs |-> tab[t]]
      BY DEF Init, NoCookie, Cookie
    <2> QED BY <2>1, <2>2, ConstantsAssumption DEF Init, Types
  <1>4. \A t \in Tabs : tab[t].ask.pc = "none"
    <2>1. NewPage.ask.pc = "none"
      BY DEF NewPage, NoAsk
    <2> QED BY <1>1, <2>1
  <1>5. Births
    BY <1>2, <1>4, NoSession DEF Init, Births, Unseen, NoCookie
  <1>6. OneAsk /\ Secrets /\ NoReuseWithoutLoss
    BY <1>4 DEF OneAsk, Init, Secrets, NoCookie, NoReuseWithoutLoss
  <1> QED BY <1>2, <1>3, <1>5, <1>6 DEF IInv

LEMMA StepInv ==
    ASSUME IInv, NEW t \in Tabs, Step(t)
    PROVE  IInv' /\ \A u \in Tabs : Rotation(tab[u], tab'[u])
  <1>1. \E N : StepOK(t, N)
    BY DropRefreshOK, AnswerRefreshOK, LoseReplyOK, ReceiveRefreshOK, BootstrapOK,
       CallRefusedOK, CallAnsweredOK, AnswerLoginOK, ReceiveLoginOK, AnswerRotationOK,
       ReceiveRotationOK, LogoutOK, ReceiveLogoutOK, LoseAnswerOK, UserReloadOK,
       HandleEventOK, DropEventOK
    DEF Step
  <1> QED BY <1>1, StepKeeps

LEMMA NextInv ==
    ASSUME IInv, [Next]_vars
    PROVE  IInv' /\ \A u \in Tabs : Rotation(tab[u], tab'[u])
  <1>0. \A u \in Tabs : Rotation(tab[u], tab[u])
    <2>1. \A u \in Tabs : tab[u].ver \in Int
      BY PageFields, ConstantsAssumption DEF IInv, PageOK
    <2> QED BY <2>1 DEF Rotation
  <1>1. CASE \E t \in Tabs : Step(t)
    BY <1>1, StepInv
  <1>2. CASE RevokeElsewhere
    BY <1>0, <1>2, RevokeElsewhereOK
  <1>3. CASE UNCHANGED vars
    <2>1. IInv'
      BY <1>3 DEF vars, IInv, Types, ServerType, PageOK, ReplyOK, AskOK, Births, Unseen, Seen,
                  OneAsk, Secrets, NoReuseWithoutLoss
    <2> QED BY <1>0, <1>3, <2>1 DEF vars
  <1> QED BY <1>1, <1>2, <1>3 DEF Next

LEMMA InvHolds == Spec => []IInv
  BY InitInv, NextInv, PTL DEF Spec

\* Every variable keeps its type, for any number of tabs, logins and events.
THEOREM TypeCorrect == Spec => []TypeOK
  <1>1. IInv => TypeOK
    BY DEF IInv, Types, ServerType, PageOK, TypeOK
  <1> QED BY <1>1, InvHolds, PTL

\* However many tabs there are and whatever replies are under way: a page that
\* was signed out of a session the server had revoked never shows it again.
\* What carries it is ReplyOK: a reply that could bring the session back was
\* asked for in an epoch that clearAuthentication has ended.
THEOREM SignedOutForGood == Spec => []SignedOutStaysOut
  <1>1. IInv => SignedOutStaysOut
    BY DEF IInv, PageOK, SignedOutStaysOut
  <1> QED BY <1>1, InvHolds, PTL

\* Any number of tabs that share the cookie and the lock never present an old
\* secret unless a reply got lost: under the lock no reply to another tab is
\* under way, so a cookie that is not current (Secrets) is one whose successor
\* was lost.
THEOREM TabsNeverLookLikeThieves == Spec => []NoReuseWithoutLoss
  <1>1. IInv => NoReuseWithoutLoss
    BY DEF IInv
  <1> QED BY <1>1, InvHolds, PTL

\* No refresh replaces a token by one from before a change of credentials that
\* the page has seen: applyAuthRotation moves the epoch on, and a reply of the
\* current epoch is at least as new as the page.
THEOREM RotationSurvivesRefresh == Spec => RefreshKeepsRotation
  <1>1. IInv /\ [Next]_vars =>
           [\A t \in Tabs :
              /\ tab[t].run.pc = "replied" /\ tab'[t].run.pc = "none"
              /\ tab'[t].sid = tab[t].sid
              => tab'[t].ver >= tab[t].ver]_vars
    BY NextInv DEF Rotation
  <1> QED BY <1>1, InvHolds, PTL DEF Spec, RefreshKeepsRotation
=============================================================================
