-------------------------- MODULE AuthSession_proofs --------------------------
(***************************************************************************)
(* Proofs about AuthSession, for any lifetimes of tokens and any number of *)
(* logins, faults and pending calls: type correctness, a logout is final,  *)
(* a session can be extended as long as its refresh token lives, and roles *)
(* that were taken away do not outlive an access token.                    *)
(***************************************************************************)
EXTENDS AuthSession, TLAPS

Tokens == [access: Times, refresh: Times, roles: Roles]
Calls  == [at: {"idle", "sent", "granted"}, tokens: Tokens]
Pages  == [store: Tokens, timer: BOOLEAN, dialogs: Seq(DialogIds),
           shown: DialogIds \union {None}, calls: [Kinds -> Calls],
           leaving: {None, "login", "logout"}]
Idle(p, k) == p.calls[k].at = "idle"

\* A page whose dialogs are queued once each.
Sane(p) ==
    /\ p \in Pages
    /\ \A i, j \in 1..Len(p.dialogs) : p.dialogs[i] = p.dialogs[j] => i = j

-----------------------------------------------------------------------------
(* What the operations on a page do.                                       *)

\* Constants and sets, spelled out.
LEMMA Basics ==
  /\ NoTokens \in Tokens /\ NoTokens.access = 0 /\ NoTokens.refresh = 0
  /\ NoCall \in Calls /\ NoCall.at = "idle" /\ NoCall.tokens = NoTokens
  /\ 0 \in Times /\ RefreshTtl \in Nat /\ AccessTtl \in Nat \ {0}
  /\ AccessTtl <= RefreshTtl /\ MaxNow \in Nat
  /\ Session = Tokens /\ Session \union Sent = Tokens
<1>1. 0 \in Times
  BY AuthAssumption DEF Times
<1>2. NoTokens \in Tokens /\ NoTokens.access = 0 /\ NoTokens.refresh = 0
  BY <1>1 DEF NoTokens, Tokens, Roles
<1>3. NoCall \in Calls /\ NoCall.at = "idle" /\ NoCall.tokens = NoTokens
  BY <1>2 DEF NoCall, Calls
<1>4. Session = Tokens
  BY <1>2 DEF Session, Tokens
<1>5. Sent \subseteq Tokens
  <2> SUFFICES ASSUME NEW time \in Times PROVE [NoTokens EXCEPT !.refresh = time] \in Tokens
    BY DEF Sent
  <2> QED BY <1>2 DEF Tokens
<1> QED BY <1>1, <1>2, <1>3, <1>4, <1>5, AuthAssumption

\* A queued dialog is not queued again.
LEMMA PushKeeps ==
  ASSUME NEW p, Sane(p), NEW id \in DialogIds
  PROVE  /\ Sane(Push(p, id))
         /\ Push(p, id).store = p.store /\ Push(p, id).leaving = p.leaving
         /\ Push(p, id).shown = p.shown /\ Push(p, id).calls = p.calls
         /\ Push(p, id).timer = p.timer
<1>1. CASE Contains(p.dialogs, id)
  BY <1>1 DEF Push
<1>2. CASE ~Contains(p.dialogs, id)
  <2> DEFINE queue == Append(p.dialogs, id)
             q == [p EXCEPT !.dialogs = queue]
  <2>1. Push(p, id) = q
    BY <1>2 DEF Push
  <2>2. /\ p \in Pages /\ p.dialogs \in Seq(DialogIds) /\ queue \in Seq(DialogIds)
        /\ Len(queue) = Len(p.dialogs) + 1 /\ Len(p.dialogs) \in Nat
        /\ \A i \in 1..Len(p.dialogs) : queue[i] = p.dialogs[i]
        /\ queue[Len(p.dialogs) + 1] = id
    BY DEF Sane, Pages
  <2> HIDE DEF queue
  <2>3. q \in Pages /\ q.dialogs = queue
    BY <2>2 DEF Pages
  <2>4. /\ q.store = p.store /\ q.leaving = p.leaving /\ q.shown = p.shown
        /\ q.calls = p.calls /\ q.timer = p.timer
    BY <2>2 DEF Pages
  <2>5. \A i \in 1..Len(p.dialogs) : p.dialogs[i] # id
    BY <1>2, <2>2 DEF Contains
  <2> HIDE DEF q
  <2>6. \A i, j \in 1..Len(q.dialogs) : q.dialogs[i] = q.dialogs[j] => i = j
    BY <2>2, <2>3, <2>5 DEF Sane
  <2> QED BY <2>1, <2>3, <2>4, <2>6 DEF Sane
<1> QED BY <1>1, <1>2

\* A call is sent with a refresh token.
LEMMA SendKeeps ==
  ASSUME NEW p, Sane(p), NEW kind \in Kinds, NEW refresh \in Times
  PROVE  /\ Sane(Send(p, kind, refresh))
         /\ Send(p, kind, refresh).store = p.store
         /\ Send(p, kind, refresh).leaving = p.leaving
         /\ Send(p, kind, refresh).shown = p.shown
         /\ Send(p, kind, refresh).dialogs = p.dialogs
         /\ \A k \in Kinds \ {kind} : Send(p, kind, refresh).calls[k] = p.calls[k]
         /\ Send(p, kind, refresh).calls[kind].at = "sent"
         /\ Send(p, kind, refresh).calls[kind].tokens.access = 0
         /\ Send(p, kind, refresh).calls[kind].tokens.refresh = refresh
<1> DEFINE call == [at |-> "sent", tokens |-> [NoTokens EXCEPT !.refresh = refresh]]
           q == [p EXCEPT !.calls[kind] = call]
<1>1. Send(p, kind, refresh) = q
  BY DEF Send
<1>2. p \in Pages /\ p.calls \in [Kinds -> Calls]
  BY DEF Sane, Pages
<1>3. /\ call \in Calls /\ call.at = "sent"
      /\ call.tokens.access = 0 /\ call.tokens.refresh = refresh
  BY Basics DEF Calls, Tokens
<1> HIDE DEF call
<1>4. /\ q.store = p.store /\ q.leaving = p.leaving /\ q.shown = p.shown
      /\ q.dialogs = p.dialogs /\ q.calls = [p.calls EXCEPT ![kind] = call]
      /\ q \in Pages
  BY <1>2, <1>3 DEF Pages
<1> HIDE DEF q
<1> QED BY <1>1, <1>2, <1>3, <1>4 DEF Sane

\* At most a refresh is sent.
Refreshed(p, q, kind, token) ==
    \A k \in Kinds :
        \/ q.calls[k] = p.calls[k]
        \/ /\ k = kind /\ Idle(p, k) /\ token # 0
           /\ q.calls[k].at = "sent"
           /\ q.calls[k].tokens.access = 0 /\ q.calls[k].tokens.refresh = token

LEMMA RefreshKeeps ==
  ASSUME NEW p, Sane(p), NEW kind \in Kinds, NEW token \in Times,
         CanSend(kind) => Idle(p, kind)
  PROVE  LET q == Refresh(p, kind, token) IN
         /\ Sane(q) /\ Refreshed(p, q, kind, token)
         /\ q.store = p.store /\ q.leaving = p.leaving
         /\ q.shown = p.shown /\ q.dialogs = p.dialogs
<1>1. CASE token = 0 \/ ~CanSend(kind)
  BY <1>1 DEF Refresh, Refreshed
<1>2. CASE ~(token = 0 \/ ~CanSend(kind))
  <2>1. Refresh(p, kind, token) = Send(p, kind, token)
    BY <1>2 DEF Refresh
  <2>2. Refreshed(p, Send(p, kind, token), kind, token)
    BY <1>2, SendKeeps DEF Refreshed
  <2> QED BY <2>1, <2>2, SendKeeps
<1> QED BY <1>1, <1>2

\* The expiry check sends a refresh or queues a dialog.
LEMMA CheckKeeps ==
  ASSUME NEW p, Sane(p), NEW token \in Times, NEW recently \in BOOLEAN,
         CanSend("auto") => Idle(p, "auto")
  PROVE  LET q == CheckExpiry(p, token, recently) IN
         /\ Sane(q) /\ Refreshed(p, q, "auto", token)
         /\ q.store = p.store /\ q.leaving = p.leaving /\ q.shown = p.shown
<1>1. CASE ~Expired(p.store.access)
           /\ 2 * (p.store.access - now) <= AccessTtl /\ recently
  <2>1. CheckExpiry(p, token, recently) = Refresh(p, "auto", token)
    BY <1>1 DEF CheckExpiry
  <2> QED BY <2>1, RefreshKeeps DEF Kinds
<1>2. CASE ~Expired(p.store.access)
           /\ ~(2 * (p.store.access - now) <= AccessTtl /\ recently)
  BY <1>2 DEF CheckExpiry, Refreshed
<1>3. CASE Expired(p.store.access)
  <2> DEFINE id == IF Expired(p.store.refresh) THEN "session-expired"
                                               ELSE "session-expiring-soon"
             still == [p EXCEPT !.timer = FALSE]
  <2>1. CheckExpiry(p, token, recently) = Push(still, id) /\ id \in DialogIds
    BY <1>3 DEF CheckExpiry, DialogIds
  <2>2. p \in Pages
    BY DEF Sane
  <2>3. /\ still \in Pages /\ still.store = p.store /\ still.leaving = p.leaving
        /\ still.shown = p.shown /\ still.calls = p.calls /\ still.dialogs = p.dialogs
    BY <2>2 DEF Pages
  <2>4. Sane(still)
    BY <2>3 DEF Sane
  <2> HIDE DEF id, still
  <2>5. /\ Sane(Push(still, id)) /\ Push(still, id).store = still.store
        /\ Push(still, id).leaving = still.leaving /\ Push(still, id).shown = still.shown
        /\ Push(still, id).calls = still.calls
    BY <2>1, <2>4, PushKeeps
  <2> QED BY <2>1, <2>3, <2>5 DEF Refreshed
<1> QED BY <1>1, <1>2, <1>3

\* The effect of new tokens checks at once, unless there are none.
LEMMA EffectKeeps ==
  ASSUME NEW p, Sane(p), NEW token \in Times, NEW recently \in BOOLEAN,
         CanSend("auto") => Idle(p, "auto")
  PROVE  LET q == Effect(p, token, recently) IN
         /\ Sane(q) /\ Refreshed(p, q, "auto", token)
         /\ q.store = p.store /\ q.leaving = p.leaving /\ q.shown = p.shown
         /\ ~In(p) => q.dialogs = p.dialogs /\ q.calls = p.calls
<1>1. ASSUME NEW r, Sane(r), NEW b \in BOOLEAN
      PROVE  LET q == [r EXCEPT !.timer = b] IN
             /\ Sane(q) /\ q.store = r.store /\ q.leaving = r.leaving
             /\ q.shown = r.shown /\ q.calls = r.calls /\ q.dialogs = r.dialogs
  <2> DEFINE q == [r EXCEPT !.timer = b]
  <2>1. r \in Pages
    BY <1>1 DEF Sane
  <2>2. /\ q \in Pages /\ q.store = r.store /\ q.leaving = r.leaving
        /\ q.shown = r.shown /\ q.calls = r.calls /\ q.dialogs = r.dialogs
    BY <2>1 DEF Pages
  <2>3. q = [r EXCEPT !.timer = b]
    OBVIOUS
  <2> HIDE DEF q
  <2>4. Sane(q)
    BY <1>1, <2>2 DEF Sane
  <2> QED BY <2>2, <2>3, <2>4
<1>2. CASE In(p)
  <2> DEFINE r == CheckExpiry(p, token, recently)
  <2>1. Effect(p, token, recently) = [r EXCEPT !.timer = TRUE]
    BY <1>2 DEF Effect
  <2>2. /\ Sane(r) /\ Refreshed(p, r, "auto", token)
        /\ r.store = p.store /\ r.leaving = p.leaving /\ r.shown = p.shown
    BY CheckKeeps
  <2> HIDE DEF r
  <2> DEFINE q == [r EXCEPT !.timer = TRUE]
  <2>3. /\ Sane(q) /\ q.store = r.store /\ q.leaving = r.leaving
        /\ q.shown = r.shown /\ q.calls = r.calls
    BY <1>1, <2>2
  <2>4. Effect(p, token, recently) = q
    BY <2>1
  <2> HIDE DEF q
  <2>5. Refreshed(p, q, "auto", token)
    BY <2>2, <2>3 DEF Refreshed
  <2> QED BY <1>2, <2>2, <2>3, <2>4, <2>5
<1>3. CASE ~In(p)
  <2>1. Effect(p, token, recently) = [p EXCEPT !.timer = FALSE]
    BY <1>3 DEF Effect
  <2> QED BY <1>1, <2>1 DEF Refreshed
<1> QED BY <1>2, <1>3

\* A settled call is gone, and its dialog with it.
LEMMA SettledKeeps ==
  ASSUME NEW p, Sane(p), NEW kind \in Kinds
  PROVE  LET q == Settled(p, kind) IN
         /\ Sane(q) /\ q.store = p.store /\ q.leaving = p.leaving
         /\ q.dialogs = p.dialogs /\ q.shown \in {p.shown, None}
         /\ q.calls = [p.calls EXCEPT ![kind] = NoCall]
<1> DEFINE shown == IF kind \in {"confirm", "leave"} THEN None ELSE p.shown
           q == [p EXCEPT !.calls[kind] = NoCall, !.shown = shown]
<1>1. p \in Pages /\ p.calls \in [Kinds -> Calls]
  BY DEF Sane, Pages
<1>2. Settled(p, kind) = q
  BY <1>1 DEF Settled, Pages
<1>3. shown \in {p.shown, None} /\ shown \in DialogIds \union {None}
  BY <1>1 DEF Pages
<1> HIDE DEF shown
<1>4. /\ q \in Pages /\ q.store = p.store /\ q.leaving = p.leaving
      /\ q.dialogs = p.dialogs /\ q.shown = shown
      /\ q.calls = [p.calls EXCEPT ![kind] = NoCall]
  BY <1>1, <1>3, Basics DEF Pages
<1> HIDE DEF q
<1> QED BY <1>2, <1>3, <1>4 DEF Sane

-----------------------------------------------------------------------------
(* The inductive invariant.                                                *)

TypeInv ==
    /\ setting \in Settings /\ now \in 0..MaxNow /\ roles \in Roles /\ changed \in 0..MaxNow
    /\ saved \in Tokens /\ holder \in Times
    /\ Sane(page)
    /\ logins \in 0..MaxLogins /\ faults \in 0..MaxFaults
    /\ loggedOut \in BOOLEAN /\ until \in Times

\* Who is not logged in and stays on the page has nothing under way but a login.
Quiet ==
    ~In(page) /\ page.leaving = None =>
        /\ \A k \in Kinds \ {"login"} : Idle(page, k)
        /\ page.dialogs = <<>> /\ page.shown = None

\* A login is under way only for who is not logged in.
LoginAlone == ~Idle(page, "login") => ~In(page) /\ page.leaving = None

\* After a logout that left nothing in flight, no copy of the session remains.
LogoutHolds ==
    loggedOut =>
        /\ page.store = NoTokens /\ saved = NoTokens /\ holder = 0
        /\ \A k \in Refreshes : Idle(page, k)

\* The refresh token of the last login is everywhere the same.
Lasting ==
    until # 0 =>
        /\ page.store.refresh = until /\ saved.refresh = until /\ holder = until
        /\ \A k \in Refreshes : ~Idle(page, k) => page.calls[k].tokens.refresh = until

\* Roles of an earlier assignment were issued before it ended.
Recent(t) ==
    /\ t.access <= now + AccessTtl
    /\ t.roles = roles \/ t.access <= changed + AccessTtl
Issued ==
    /\ changed <= now
    /\ Recent(page.store) /\ Recent(saved)
    /\ \A k \in Kinds : /\ Recent(page.calls[k].tokens)
                        /\ page.calls[k].at = "granted" => page.calls[k].tokens.access > 0

Inv == TypeInv /\ Quiet /\ LoginAlone /\ LogoutHolds /\ Lasting /\ Issued

\* Tokens without an expiry in the future are recent whatever roles they hold.
LEMMA OldIsRecent ==
  ASSUME TypeInv, NEW t, t.access = 0
  PROVE  Recent(t)
BY Basics DEF Recent, TypeInv

\* The types the other conjuncts rely on.
LEMMA Typed ==
  ASSUME TypeInv
  PROVE  /\ page \in Pages /\ page.store \in Tokens /\ page.calls \in [Kinds -> Calls]
         /\ saved \in Tokens /\ holder \in Times /\ until \in Times
         /\ now \in Nat /\ now <= MaxNow /\ changed \in Nat
         /\ page.leaving \in {None, "login", "logout"}
         /\ Len(page.dialogs) \in Nat /\ page.dialogs \in Seq(DialogIds)
         /\ \A k \in Kinds : page.calls[k].tokens \in Tokens
BY AuthAssumption DEF TypeInv, Sane, Pages, Calls

\* The page of a visitor.
LEMMA FreshSane ==
  ASSUME NEW s \in Tokens
  PROVE  /\ Sane(Fresh(s)) /\ Fresh(s).store = s /\ Fresh(s).leaving = None
         /\ Fresh(s).dialogs = <<>> /\ Fresh(s).shown = None
         /\ \A k \in Kinds : Fresh(s).calls[k] = NoCall
<1>1. [k \in Kinds |-> NoCall] \in [Kinds -> Calls]
  BY Basics
<1>2. <<>> \in Seq(DialogIds) /\ Len(<<>>) = 0
  OBVIOUS
<1>3. Fresh(s) \in Pages
  BY <1>1, <1>2 DEF Fresh, Pages
<1>4. /\ Fresh(s).store = s /\ Fresh(s).leaving = None
      /\ Fresh(s).dialogs = <<>> /\ Fresh(s).shown = None
      /\ Fresh(s).calls = [k \in Kinds |-> NoCall]
  BY DEF Fresh
<1> QED BY <1>2, <1>3, <1>4 DEF Sane

LEMMA InitInv == Init => Inv
<1> SUFFICES ASSUME Init PROVE Inv
  OBVIOUS
<1>1. /\ page = Fresh(NoTokens) /\ Sane(page) /\ page.store = NoTokens
      /\ page.leaving = None /\ page.dialogs = <<>> /\ page.shown = None
      /\ \A k \in Kinds : page.calls[k] = NoCall
  BY FreshSane, Basics DEF Init
<1>2. TypeInv
  <2>1. /\ now \in 0..MaxNow /\ changed \in 0..MaxNow
        /\ logins \in 0..MaxLogins /\ faults \in 0..MaxFaults
    BY AuthAssumption DEF Init
  <2>2. saved \in Tokens /\ holder \in Times /\ until \in Times /\ roles \in Roles
    BY Basics DEF Init, Roles
  <2>3. setting \in Settings /\ loggedOut \in BOOLEAN
    BY DEF Init
  <2> QED BY <1>1, <2>1, <2>2, <2>3 DEF TypeInv
<1>3. Quiet /\ LoginAlone /\ LogoutHolds /\ Lasting
  BY <1>1, Basics DEF Quiet, LoginAlone, LogoutHolds, Lasting, Idle, Kinds, Init
<1>4. Issued
  <2>1. changed <= now
    BY DEF Init
  <2>2. \A k \in Kinds : page.calls[k].tokens = NoTokens /\ page.calls[k].at # "granted"
    BY <1>1, Basics
  <2>3. saved = NoTokens /\ Recent(NoTokens)
    BY <1>2, OldIsRecent, Basics DEF Init
  <2> QED BY <1>1, <2>1, <2>2, <2>3 DEF Issued
<1> QED BY <1>2, <1>3, <1>4 DEF Inv

-----------------------------------------------------------------------------
(* Steps that change nothing but the page, and not its tokens.             *)

\* What may happen to a call in such a step: nothing; it settles; a logout is sent;
\* the session holder's token is sent; the API grants new tokens; a login is sent.
Change(k) ==
    \/ page'.calls[k] = page.calls[k]
    \/ page'.calls[k] = NoCall
    \/ /\ k \in {"menu", "leave"}
       /\ page'.calls[k].at = "sent" /\ page'.calls[k].tokens.access = 0
    \/ /\ k \in Refreshes /\ holder # 0
       /\ page'.calls[k].at = "sent" /\ page'.calls[k].tokens.access = 0
       /\ page'.calls[k].tokens.refresh = holder
    \/ /\ k \in Refreshes /\ ~Idle(page, k)
       /\ Recent(page'.calls[k].tokens) /\ page'.calls[k].tokens.access > 0
       /\ page'.calls[k].tokens.refresh = page.calls[k].tokens.refresh
    \/ /\ k = "login" /\ ~In(page) /\ page.leaving = None
       /\ page'.calls[k].at = "sent" /\ page'.calls[k].tokens.access = 0

LEMMA PageOnly ==
  ASSUME Inv, Sane(page'), page'.store = page.store, page'.leaving = page.leaving,
         UNCHANGED <<setting, now, roles, changed, saved, holder, loggedOut, until>>,
         logins' \in 0..MaxLogins, faults' \in 0..MaxFaults,
         \A k \in Kinds : Change(k),
         Quiet'
  PROVE  Inv'
<1> USE DEF Inv
<1>1. TypeInv'
  BY DEF TypeInv
<1>2. /\ "login" \in Kinds /\ Refreshes \subseteq Kinds
      /\ "login" \notin Refreshes /\ "menu" \notin Refreshes /\ "leave" \notin Refreshes
  BY DEF Kinds, Refreshes
<1>3. LoginAlone'
  BY <1>2, Basics DEF LoginAlone, Change, Idle, In
<1>4. LogoutHolds'
  BY <1>2, Basics DEF LogoutHolds, Change, Idle
<1>5. Lasting'
  BY <1>2, Basics DEF Lasting, Change, Idle
<1>6. Issued'
  <2>1. Recent(page.store)' /\ Recent(saved)'
    BY DEF Issued, Recent
  <2>2. ASSUME NEW k \in Kinds
        PROVE  /\ Recent(page.calls[k].tokens)'
               /\ page'.calls[k].at = "granted" => page'.calls[k].tokens.access > 0
    <3>1. TypeInv' /\ (page'.calls[k].tokens.access = 0 => Recent(page.calls[k].tokens)')
      BY <1>1, Typed, Basics DEF TypeInv, Recent
    <3>2. Recent(page.calls[k].tokens) /\ page'.calls[k] = page.calls[k]
            => Recent(page.calls[k].tokens)'
      BY DEF Recent
    <3>3. Recent(page'.calls[k].tokens) => Recent(page.calls[k].tokens)'
      BY DEF Recent
    <3>4. CASE page'.calls[k] = page.calls[k]
      BY <3>2, <3>4 DEF Issued
    <3>5. CASE page'.calls[k] # page.calls[k]
      BY <3>1, <3>3, <3>5, Basics DEF Change
    <3> QED BY <3>4, <3>5
  <2> QED BY <2>1, <2>2 DEF Issued
<1> QED BY <1>1, <1>3, <1>4, <1>5, <1>6

LEMMA LoginInv == Inv /\ Login => Inv'
<1> SUFFICES ASSUME Inv, Login PROVE Inv'
  OBVIOUS
<1>1. page' = Send(page, "login", 0) /\ "login" \in Kinds /\ Sane(page)
  BY DEF Login, Kinds, Inv, TypeInv
<1>2. /\ Sane(page') /\ page'.store = page.store /\ page'.leaving = page.leaving
      /\ page'.shown = page.shown /\ page'.dialogs = page.dialogs
      /\ \A k \in Kinds \ {"login"} : page'.calls[k] = page.calls[k]
      /\ page'.calls["login"].at = "sent" /\ page'.calls["login"].tokens.access = 0
  BY <1>1, SendKeeps, Basics
<1>3. \A k \in Kinds : Change(k)
  BY <1>2 DEF Login, Change
<1>4. Quiet'
  BY <1>2 DEF Inv, Quiet, In, Idle
<1>5. logins' \in 0..MaxLogins /\ faults' \in 0..MaxFaults
  BY AuthAssumption DEF Login, Inv, TypeInv
<1> QED BY <1>2, <1>3, <1>4, <1>5, PageOnly DEF Login

LEMMA LogoutInv == Inv /\ Logout => Inv'
<1> SUFFICES ASSUME Inv, Logout PROVE Inv'
  OBVIOUS
<1>1. page' = Send(page, "menu", 0) /\ "menu" \in Kinds /\ Sane(page)
  BY DEF Logout, Kinds, Inv, TypeInv
<1>2. /\ Sane(page') /\ page'.store = page.store /\ page'.leaving = page.leaving
      /\ \A k \in Kinds \ {"menu"} : page'.calls[k] = page.calls[k]
      /\ page'.calls["menu"].at = "sent" /\ page'.calls["menu"].tokens.access = 0
  BY <1>1, SendKeeps, Basics
<1>3. \A k \in Kinds : Change(k)
  BY <1>2 DEF Change
<1>4. Quiet'
  BY <1>2 DEF Logout, Quiet, In
<1>5. logins' \in 0..MaxLogins /\ faults' \in 0..MaxFaults
  BY DEF Logout, Inv, TypeInv
<1> QED BY <1>2, <1>3, <1>4, <1>5, PageOnly DEF Logout

\* A call that throws settles and changes nothing else.
LEMMA ThrowsInv ==
  ASSUME Inv, NEW kind \in Kinds, Throws(kind),
         UNCHANGED <<setting, now, roles, changed, logins>>, faults' \in 0..MaxFaults
  PROVE  Inv'
<1>1. /\ page' = Settled(page, kind) /\ Sane(page) /\ page.calls \in [Kinds -> Calls]
  BY Typed DEF Throws, Inv, TypeInv
<1>2. /\ Sane(page') /\ page'.store = page.store /\ page'.leaving = page.leaving
      /\ page'.dialogs = page.dialogs /\ page'.shown \in {page.shown, None}
      /\ page'.calls = [page.calls EXCEPT ![kind] = NoCall]
  BY <1>1, SettledKeeps
<1>3. \A k \in Kinds : page'.calls[k] = page.calls[k] \/ page'.calls[k] = NoCall
  BY <1>1, <1>2
<1>4. Quiet'
  BY <1>2, <1>3, Basics DEF Inv, Quiet, In, Idle
<1>5. logins' \in 0..MaxLogins
  BY DEF Inv, TypeInv
<1> QED BY <1>2, <1>3, <1>4, <1>5, PageOnly DEF Throws, Change

\* What is sent to whom is idle before.
LEMMA SendsIdle == \A k \in Kinds : CanSend(k) => Idle(page, k)
BY DEF CanSend, Pending, Idle

\* A step of a page that refreshes at most, and touches calls only.
LEMMA RefreshedChange ==
  ASSUME NEW kind \in Refreshes, Refreshed(page, page', kind, holder)
  PROVE  \A k \in Kinds : Change(k)
BY DEF Refreshed, Change

LEMMA CheckInv == Inv /\ Check => Inv'
<1> SUFFICES ASSUME Inv, Check PROVE Inv'
  OBVIOUS
<1>1. PICK recently \in BOOLEAN : page' = CheckExpiry(page, holder, recently)
  BY DEF Check
<1>2. /\ Sane(page') /\ Refreshed(page, page', "auto", holder)
      /\ page'.store = page.store /\ page'.leaving = page.leaving
  BY <1>1, CheckKeeps, SendsIdle DEF Inv, TypeInv, Kinds
<1>3. \A k \in Kinds : Change(k)
  BY <1>2, RefreshedChange DEF Refreshes
<1>4. Quiet'
  BY <1>2 DEF Check, Quiet, In
<1>5. logins' \in 0..MaxLogins /\ faults' \in 0..MaxFaults
  BY DEF Check, Inv, TypeInv
<1> QED BY <1>2, <1>3, <1>4, <1>5, PageOnly DEF Check

LEMMA UseApiInv == Inv /\ UseApi => Inv'
<1> SUFFICES ASSUME Inv, UseApi PROVE Inv'
  OBVIOUS
<1>1. Sane(page) /\ "session-expired" \in DialogIds
  BY DEF Inv, TypeInv, DialogIds
<1>2. /\ Sane(page') /\ page'.store = page.store /\ page'.leaving = page.leaving
      /\ page'.calls = page.calls
  BY <1>1, PushKeeps DEF UseApi
<1>3. \A k \in Kinds : Change(k)
  BY <1>2 DEF Change
<1>4. Quiet'
  BY <1>2 DEF UseApi, Quiet, In
<1>5. logins' \in 0..MaxLogins /\ faults' \in 0..MaxFaults
  BY DEF UseApi, Inv, TypeInv
<1> QED BY <1>2, <1>3, <1>4, <1>5, PageOnly DEF UseApi

LEMMA ShowDialogInv == Inv /\ ShowDialog => Inv'
<1> SUFFICES ASSUME Inv, ShowDialog PROVE Inv'
  OBVIOUS
<1> DEFINE rest == Tail(page.dialogs)
           first == Head(page.dialogs)
<1>1. /\ page \in Pages /\ page.dialogs \in Seq(DialogIds) /\ page.dialogs # <<>>
      /\ page' = [page EXCEPT !.shown = first, !.dialogs = rest]
  BY Typed DEF ShowDialog, Inv
<1>2. /\ rest \in Seq(DialogIds) /\ first \in DialogIds
      /\ Len(rest) = Len(page.dialogs) - 1 /\ Len(page.dialogs) \in Nat
      /\ \A i \in 1..Len(rest) : rest[i] = page.dialogs[i + 1]
  BY <1>1
<1> HIDE DEF rest, first
<1>3. /\ page' \in Pages /\ page'.store = page.store /\ page'.leaving = page.leaving
      /\ page'.calls = page.calls /\ page'.dialogs = rest
  BY <1>1, <1>2 DEF Pages
<1>4. \A i, j \in 1..Len(rest) : rest[i] = rest[j] => i = j
  BY <1>2 DEF Inv, TypeInv, Sane
<1>5. Sane(page')
  BY <1>3, <1>4 DEF Sane
<1>6. \A k \in Kinds : Change(k)
  BY <1>3 DEF Change
<1>7. Quiet'
  BY <1>1, <1>3 DEF Inv, Quiet, In
<1>8. logins' \in 0..MaxLogins /\ faults' \in 0..MaxFaults
  BY DEF ShowDialog, Inv, TypeInv
<1> QED BY <1>3, <1>5, <1>6, <1>7, <1>8, PageOnly DEF ShowDialog

LEMMA DismissInv == Inv /\ Dismiss => Inv'
<1> SUFFICES ASSUME Inv, Dismiss PROVE Inv'
  OBVIOUS
<1>1. /\ Sane(page) /\ page.shown # None /\ holder \in Times
      /\ "leave" \in Kinds /\ "confirm" \in Kinds
      /\ logins' \in 0..MaxLogins /\ faults' \in 0..MaxFaults
      /\ UNCHANGED <<setting, now, roles, changed, saved, holder, logins, faults,
                     loggedOut, until>>
  BY DEF Dismiss, Inv, TypeInv, Kinds
<1>2. ASSUME page'.store = page.store, page'.leaving = page.leaving
      PROVE  Quiet'
  BY <1>1, <1>2 DEF Inv, Quiet, In
<1>3. CASE page' = Send(page, "leave", 0)
  <2>1. /\ Sane(page') /\ page'.store = page.store /\ page'.leaving = page.leaving
        /\ \A k \in Kinds \ {"leave"} : page'.calls[k] = page.calls[k]
        /\ page'.calls["leave"].at = "sent" /\ page'.calls["leave"].tokens.access = 0
    <3>1. Sane(page) /\ "leave" \in Kinds /\ 0 \in Times
      BY <1>1, Basics
    <3> QED BY <1>3, <3>1, SendKeeps
  <2>2. \A k \in Kinds : Change(k)
    BY <2>1 DEF Change
  <2> QED BY <1>1, <1>2, <2>1, <2>2, PageOnly
<1>4. CASE CanSend("confirm") /\ holder # 0 /\ page' = Send(page, "confirm", holder)
  <2>1. /\ Sane(page') /\ page'.store = page.store /\ page'.leaving = page.leaving
        /\ \A k \in Kinds \ {"confirm"} : page'.calls[k] = page.calls[k]
        /\ page'.calls["confirm"].at = "sent"
        /\ page'.calls["confirm"].tokens.access = 0
        /\ page'.calls["confirm"].tokens.refresh = holder
    BY <1>1, <1>4, SendKeeps
  <2>2. \A k \in Kinds : Change(k)
    BY <1>4, <2>1 DEF Change, Refreshes
  <2> QED BY <1>1, <1>2, <2>1, <2>2, PageOnly
<1>5. CASE page' = [page EXCEPT !.shown = None]
  <2>1. page \in Pages
    BY <1>1 DEF Sane
  <2>2. /\ page' \in Pages /\ page'.store = page.store /\ page'.leaving = page.leaving
        /\ page'.calls = page.calls /\ page'.dialogs = page.dialogs
    BY <1>5, <2>1 DEF Pages
  <2>3. Sane(page')
    BY <1>1, <2>2 DEF Sane
  <2>4. \A k \in Kinds : Change(k)
    BY <2>2 DEF Change
  <2> QED BY <1>1, <1>2, <2>2, <2>3, <2>4, PageOnly
<1> QED BY <1>3, <1>4, <1>5 DEF Dismiss

\* Tokens that are issued now are recent, expire later, and have their types.
LEMMA NewTokens ==
  ASSUME TypeInv, NEW t \in Times
  PROVE  LET new == [access |-> now + AccessTtl, refresh |-> t, roles |-> roles] IN
         new \in Tokens /\ Recent(new) /\ new.access > 0 /\ new.refresh = t
<1>1. now \in Nat /\ now <= MaxNow /\ roles \in Roles
  BY Typed DEF TypeInv
<1>2. now + AccessTtl \in Times /\ now + AccessTtl > 0
  BY <1>1, Basics DEF Times
<1> QED BY <1>1, <1>2, Basics DEF Tokens, Recent

LEMMA AnswerRefreshInv ==
  ASSUME Inv, NEW kind \in Refreshes, AnswerRefresh(kind)
  PROVE  Inv'
<1> DEFINE token == page.calls[kind].tokens.refresh
           new == [access |-> now + AccessTtl, refresh |-> token, roles |-> roles]
           answer == [at |-> "granted", tokens |-> new]
<1>1. /\ page \in Pages /\ page.calls \in [Kinds -> Calls] /\ kind \in Kinds
      /\ page.calls[kind].tokens \in Tokens
  BY Typed DEF Inv, Refreshes, Kinds
<1>2. /\ page' = [page EXCEPT !.calls[kind] = answer]
      /\ ~Idle(page, kind)
  BY DEF AnswerRefresh, Reissued, Idle
<1>3. token \in Times
  BY <1>1 DEF Tokens
<1>4. new \in Tokens /\ Recent(new) /\ new.access > 0 /\ new.refresh = token
  BY <1>3, NewTokens DEF Inv
<1>5. answer \in Calls /\ answer.tokens = new
  BY <1>4 DEF Calls
<1> HIDE DEF answer, new
<1>6. /\ page' \in Pages /\ page'.store = page.store /\ page'.leaving = page.leaving
      /\ page'.calls = [page.calls EXCEPT ![kind] = answer]
      /\ page'.dialogs = page.dialogs
  BY <1>1, <1>2, <1>5 DEF Pages
<1>7. Sane(page')
  BY <1>6 DEF Inv, TypeInv, Sane
<1>8. \A k \in Kinds : Change(k)
  BY <1>1, <1>2, <1>4, <1>5, <1>6 DEF Change
<1>9. Quiet'
  <2>1. kind # "login"
    BY DEF Refreshes
  <2> QED BY <1>1, <1>2, <1>6, <2>1 DEF Inv, Quiet, In
<1>10. logins' \in 0..MaxLogins /\ faults' \in 0..MaxFaults
  BY DEF AnswerRefresh, Inv, TypeInv
<1> QED BY <1>6, <1>7, <1>8, <1>9, <1>10, PageOnly DEF AnswerRefresh

-----------------------------------------------------------------------------
(* Steps that write tokens.                                                *)

LEMMA SuccessInv ==
  ASSUME Inv, NEW kind \in {"login"} \union Refreshes, NEW tokens \in Tokens,
         ~Idle(page, kind), Success(kind, tokens), Recent(tokens), tokens.access > 0,
         UNCHANGED <<setting, now, roles, changed, logins>>, faults' \in 0..MaxFaults,
         \/ /\ kind = "login" /\ loggedOut' = FALSE /\ until' = tokens.refresh
         \/ /\ kind # "login" /\ tokens.refresh = page.calls[kind].tokens.refresh
            /\ UNCHANGED <<loggedOut, until>>
  PROVE  Inv'
<1>1. /\ Sane(page) /\ page.calls \in [Kinds -> Calls] /\ kind \in Kinds
      /\ page.leaving \in {None, "login", "logout"} /\ tokens.refresh \in Times
      /\ until \in Times
  BY Typed DEF Inv, TypeInv, Refreshes, Kinds, Tokens
<1>2. PICK recently \in BOOLEAN :
        /\ page' = Effect([Settled(page, kind) EXCEPT !.store = tokens],
                          tokens.refresh, recently)
        /\ saved' = page'.store /\ holder' = tokens.refresh
  BY DEF Success, Write
<1> DEFINE settled == Settled(page, kind)
           base == [settled EXCEPT !.store = tokens]
<1>3. /\ Sane(settled) /\ settled.leaving = page.leaving
      /\ settled.calls = [page.calls EXCEPT ![kind] = NoCall]
      /\ settled.shown \in {page.shown, None}
  BY <1>1, SettledKeeps
<1> HIDE DEF settled
<1>4. /\ Sane(base) /\ base.store = tokens /\ base.leaving = page.leaving
      /\ base.calls = [page.calls EXCEPT ![kind] = NoCall]
  <2>1. settled \in Pages
    BY <1>3 DEF Sane
  <2>2. /\ base \in Pages /\ base.store = tokens /\ base.leaving = settled.leaving
        /\ base.dialogs = settled.dialogs /\ base.calls = settled.calls
    BY <2>1 DEF Pages
  <2>3. Sane(base)
    BY <1>3, <2>2 DEF Sane
  <2> QED BY <1>3, <2>2, <2>3
<1>5. page' = Effect(base, tokens.refresh, recently)
  BY <1>2 DEF settled
<1> HIDE DEF base
<1>6. CanSend("auto") => Idle(base, "auto")
  BY <1>1, <1>4, SendsIdle, Basics DEF Idle, Kinds
<1>7. /\ Sane(page') /\ Refreshed(base, page', "auto", tokens.refresh)
      /\ page'.store = tokens /\ page'.leaving = page.leaving
  BY <1>1, <1>4, <1>5, <1>6, EffectKeeps
<1>8. In(page') /\ tokens # NoTokens
  BY <1>7, Basics DEF In
<1>9. \A k \in Kinds :
        \/ page'.calls[k] = page.calls[k] /\ k # kind
        \/ page'.calls[k] = NoCall
        \/ /\ k = "auto" /\ tokens.refresh # 0 /\ page'.calls[k].at = "sent"
           /\ page'.calls[k].tokens.access = 0
           /\ page'.calls[k].tokens.refresh = tokens.refresh
  BY <1>1, <1>4, <1>7 DEF Refreshed
<1>10. TypeInv'
  <2>1. loggedOut' \in BOOLEAN /\ until' \in Times
    <3>1. loggedOut \in BOOLEAN
      BY DEF Inv, TypeInv
    <3> QED BY <1>1, <3>1
  <2>2. saved' \in Tokens /\ holder' \in Times
    BY <1>1, <1>2, <1>7
  <2> QED BY <1>7, <2>1, <2>2 DEF Inv, TypeInv
<1>11. Quiet'
  BY <1>8 DEF Quiet
<1>12. LoginAlone'
  <2>1. kind = "login" => Idle(page', "login")
    BY <1>9, Basics DEF Idle, Kinds
  <2>2. kind # "login" => Idle(page, "login")
    BY <1>1 DEF Inv, Quiet, LoginAlone
  <2>3. Idle(page', "login")
    BY <1>9, <2>1, <2>2, Basics DEF Idle, Kinds
  <2> QED BY <2>3 DEF LoginAlone
<1>13. LogoutHolds'
  <2>1. ~loggedOut'
    BY DEF Inv, LogoutHolds
  <2> QED BY <2>1 DEF LogoutHolds
<1>14. Lasting'
  <2>1. ASSUME until' # 0, NEW k \in Refreshes, ~Idle(page', k)
        PROVE  page'.calls[k].tokens.refresh = until'
    <3>1. k \in Kinds /\ k # "login"
      BY DEF Refreshes, Kinds
    <3>2. CASE kind = "login"
      <4>1. Idle(page, k)
        BY <1>1, <3>1, <3>2 DEF Inv, Quiet, LoginAlone
      <4> QED BY <1>9, <2>1, <3>1, <3>2, <4>1, Basics DEF Idle
    <3>3. CASE kind # "login"
      BY <1>9, <2>1, <3>1, <3>3, Basics DEF Inv, Lasting, Idle
    <3> QED BY <3>2, <3>3
  <2>2. until' # 0 => tokens.refresh = until'
    BY DEF Inv, Lasting
  <2> QED BY <1>2, <1>7, <2>1, <2>2 DEF Lasting
<1>15. Issued'
  <2>1. Recent(page.store)' /\ Recent(saved)'
    BY <1>2, <1>7 DEF Recent
  <2>2. ASSUME NEW k \in Kinds
        PROVE  /\ Recent(page.calls[k].tokens)'
               /\ page'.calls[k].at = "granted" => page'.calls[k].tokens.access > 0
    <3>1. Recent(page.calls[k].tokens) /\ page'.calls[k] = page.calls[k]
            => Recent(page.calls[k].tokens)'
      BY DEF Recent
    <3>2. page'.calls[k].tokens.access = 0 => Recent(page.calls[k].tokens)'
      BY <1>10, Typed, Basics DEF Inv, TypeInv, Recent
    <3>3. NoCall.tokens.access = 0 /\ NoCall.at = "idle"
      BY Basics
    <3> QED BY <1>9, <3>1, <3>2, <3>3 DEF Inv, Issued
  <2>3. changed' <= now'
    BY DEF Inv, Issued
  <2> QED BY <2>1, <2>2, <2>3 DEF Issued
<1> QED BY <1>10, <1>11, <1>12, <1>13, <1>14, <1>15 DEF Inv

LEMMA RefusedInv ==
  ASSUME Inv, NEW kind \in {"login"} \union Refreshes, ~Idle(page, kind),
         NEW p, Sane(p), p.store = page.store, p.leaving = page.leaving,
         p.calls = page.calls, p.shown = page.shown,
         kind = "login" => p.dialogs = page.dialogs,
         Refused(kind, p),
         UNCHANGED <<setting, now, roles, changed, logins>>, faults' \in 0..MaxFaults
  PROVE  Inv'
<1>1. /\ page.calls \in [Kinds -> Calls] /\ kind \in Kinds
      /\ page.leaving \in {None, "login", "logout"}
      /\ page.store \in Tokens
  BY Typed DEF Inv, Refreshes, Kinds
<1> DEFINE settled == Settled(p, kind)
           place == IF setting.external THEN "logout" ELSE settled.leaving
           base == [settled EXCEPT !.leaving = place]
<1>2. /\ page' = base /\ saved' = page'.store /\ UNCHANGED <<holder, loggedOut, until>>
  <2>1. settled \in Pages
    BY <1>1, SettledKeeps DEF Sane
  <2> QED BY <2>1 DEF Refused, Write, Pages
<1>3. /\ Sane(settled) /\ settled.store = page.store /\ settled.leaving = page.leaving
      /\ settled.calls = [page.calls EXCEPT ![kind] = NoCall]
      /\ settled.dialogs = p.dialogs /\ settled.shown \in {page.shown, None}
  BY <1>1, SettledKeeps
<1>4. place \in {page.leaving, "logout"} /\ place \in {None, "login", "logout"}
  BY <1>1, <1>3
<1> HIDE DEF settled, place
<1>5. /\ page' \in Pages /\ page'.store = page.store /\ page'.leaving = place
      /\ page'.calls = [page.calls EXCEPT ![kind] = NoCall]
      /\ page'.dialogs = p.dialogs /\ page'.shown \in {page.shown, None}
  <2>1. settled \in Pages
    BY <1>3 DEF Sane
  <2> QED BY <1>2, <1>3, <1>4, <2>1 DEF Pages
<1>6. Sane(page')
  BY <1>3, <1>5 DEF Sane
<1> HIDE DEF base
<1>7. \A k \in Kinds : \/ page'.calls[k] = page.calls[k] /\ k # kind
                       \/ page'.calls[k] = NoCall
  BY <1>1, <1>5
<1>8. TypeInv'
  BY <1>1, <1>2, <1>5, <1>6 DEF Inv, TypeInv
<1>9. Quiet'
  <2> SUFFICES ASSUME ~In(page'), page'.leaving = None
               PROVE  /\ \A k \in Kinds \ {"login"} : Idle(page', k)
                      /\ page'.dialogs = <<>> /\ page'.shown = None
    BY DEF Quiet, In
  <2>1. ~In(page) /\ page.leaving = None
    BY <1>4, <1>5 DEF In, None
  <2>2. /\ \A k \in Kinds \ {"login"} : Idle(page, k)
        /\ page.dialogs = <<>> /\ page.shown = None
    BY <2>1 DEF Inv, Quiet
  <2>3. kind = "login"
    BY <1>1, <2>2
  <2> QED BY <1>5, <1>7, <2>2, <2>3, Basics DEF Idle
<1>10. LoginAlone'
  <2>1. kind # "login" => Idle(page, "login")
    BY <1>1 DEF Inv, Quiet, LoginAlone
  <2>2. Idle(page', "login")
    BY <1>7, <2>1, Basics DEF Idle, Kinds
  <2> QED BY <2>2 DEF LoginAlone
<1>11. LogoutHolds'
  BY <1>2, <1>5, <1>7, Basics DEF Inv, LogoutHolds, Idle, Refreshes, Kinds
<1>12. Lasting'
  BY <1>2, <1>5, <1>7, Basics DEF Inv, Lasting, Idle, Refreshes, Kinds
<1>13. Issued'
  <2>1. Recent(page.store)' /\ Recent(saved)'
    BY <1>2, <1>5 DEF Inv, Issued, Recent
  <2>2. Recent(NoTokens)
    BY OldIsRecent, Basics DEF Inv
  <2>3. ASSUME NEW k \in Kinds
        PROVE  /\ Recent(page.calls[k].tokens)'
               /\ page'.calls[k].at = "granted" => page'.calls[k].tokens.access > 0
    <3>1. Recent(page'.calls[k].tokens)
      BY <1>7, <2>2, Basics DEF Inv, Issued
    <3>2. Recent(page.calls[k].tokens)'
      BY <3>1 DEF Recent
    <3> QED BY <1>7, <3>2, Basics DEF Inv, Issued
  <2>4. changed' <= now'
    BY DEF Inv, Issued
  <2> QED BY <2>1, <2>3, <2>4 DEF Issued
<1> QED BY <1>8, <1>9, <1>10, <1>11, <1>12, <1>13 DEF Inv

LEMMA ClearedInv ==
  ASSUME Inv, NEW kind \in {"menu", "leave"}, ~Idle(page, kind), Cleared(kind),
         loggedOut' = ~InFlight, until' = 0,
         UNCHANGED <<setting, now, roles, changed, logins, faults>>
  PROVE  Inv'
<1>1. /\ Sane(page) /\ page.calls \in [Kinds -> Calls] /\ kind \in Kinds
      /\ kind # "login" /\ kind \notin Refreshes /\ 0 \in Times
  BY Typed, Basics DEF Inv, TypeInv, Refreshes, Kinds
<1> DEFINE settled == Settled(page, kind)
           base == [settled EXCEPT !.store = NoTokens, !.leaving = "login"]
<1>2. page' = Effect(base, 0, FALSE) /\ saved' = page'.store /\ holder' = 0
  BY DEF Cleared, Write
<1>3. /\ Sane(settled) /\ settled.calls = [page.calls EXCEPT ![kind] = NoCall]
  BY <1>1, SettledKeeps
<1> HIDE DEF settled
<1>4. /\ Sane(base) /\ base.store = NoTokens /\ base.leaving = "login"
      /\ base.calls = [page.calls EXCEPT ![kind] = NoCall]
  <2>1. settled \in Pages /\ NoTokens \in Tokens
    BY <1>3, Basics DEF Sane
  <2>2. /\ base \in Pages /\ base.store = NoTokens /\ base.leaving = "login"
        /\ base.dialogs = settled.dialogs /\ base.calls = settled.calls
    BY <2>1 DEF Pages
  <2>3. Sane(base)
    BY <1>3, <2>2 DEF Sane
  <2> QED BY <1>3, <2>2, <2>3
<1> HIDE DEF base
<1>5. CanSend("auto") => Idle(base, "auto")
  BY <1>1, <1>4, SendsIdle, Basics DEF Idle, Kinds
<1>6. /\ Sane(page') /\ page'.store = NoTokens /\ page'.leaving = "login"
      /\ page'.calls = base.calls
  BY <1>1, <1>2, <1>4, <1>5, EffectKeeps DEF In
<1>7. \A k \in Kinds : \/ page'.calls[k] = page.calls[k] /\ k # kind
                       \/ page'.calls[k] = NoCall
  BY <1>1, <1>4, <1>6
<1>8. TypeInv'
  <2>1. loggedOut' \in BOOLEAN
    BY DEF InFlight
  <2> QED BY <1>1, <1>2, <1>6, <2>1, Basics DEF Inv, TypeInv
<1>9. Quiet'
  BY <1>6 DEF Quiet, None
<1>10. LoginAlone'
  <2>1. Idle(page, "login")
    BY <1>1 DEF Inv, Quiet, LoginAlone
  <2>2. Idle(page', "login")
    BY <1>7, <2>1, Basics DEF Idle, Kinds
  <2> QED BY <2>2 DEF LoginAlone
<1>11. LogoutHolds'
  <2>1. loggedOut' => \A k \in Refreshes : Idle(page, k)
    BY DEF InFlight, Pending, Idle, Refreshes, Kinds
  <2>2. loggedOut' => \A k \in Refreshes : Idle(page', k)
    BY <1>7, <2>1, Basics DEF Idle, Refreshes, Kinds
  <2> QED BY <1>2, <1>6, <2>2 DEF LogoutHolds
<1>12. Lasting'
  BY DEF Lasting
<1>13. Issued'
  <2>1. Recent(NoTokens)
    BY OldIsRecent, Basics DEF Inv
  <2>2. Recent(page.store)' /\ Recent(saved)'
    BY <1>2, <1>6, <2>1 DEF Recent
  <2>3. ASSUME NEW k \in Kinds
        PROVE  /\ Recent(page.calls[k].tokens)'
               /\ page'.calls[k].at = "granted" => page'.calls[k].tokens.access > 0
    <3>1. Recent(page'.calls[k].tokens)
      BY <1>7, <2>1, Basics DEF Inv, Issued
    <3>2. Recent(page.calls[k].tokens)'
      BY <3>1 DEF Recent
    <3> QED BY <1>7, <3>2, Basics DEF Inv, Issued
  <2>4. changed' <= now'
    BY DEF Inv, Issued
  <2> QED BY <2>2, <2>3, <2>4 DEF Issued
<1> QED BY <1>8, <1>9, <1>10, <1>11, <1>12, <1>13 DEF Inv

LEMMA LoadInv ==
  ASSUME Inv, Load
  PROVE  Inv'
<1> DEFINE base == Effect(Fresh(saved), 0, FALSE)
<1>1. /\ saved \in Tokens /\ 0 \in Times /\ "menu" \in Kinds
      /\ UNCHANGED <<setting, now, roles, changed, saved, holder, logins, faults,
                     loggedOut, until>>
  BY Typed, Basics DEF Inv, TypeInv, Load, Kinds
<1>2. /\ Sane(Fresh(saved)) /\ Fresh(saved).store = saved /\ Fresh(saved).leaving = None
      /\ Fresh(saved).dialogs = <<>> /\ Fresh(saved).shown = None
      /\ \A k \in Kinds : Fresh(saved).calls[k] = NoCall
  BY <1>1, FreshSane
<1>3. CanSend("auto") => Idle(Fresh(saved), "auto")
  BY <1>2, Basics DEF Idle, Kinds
<1>4. /\ Sane(base) /\ base.store = saved /\ base.leaving = None
      /\ \A k \in Kinds : base.calls[k] = NoCall
      /\ ~In(base) => base.dialogs = <<>> /\ base.shown = None
  <2>1. /\ Sane(base) /\ Refreshed(Fresh(saved), base, "auto", 0)
        /\ base.store = saved /\ base.leaving = None /\ base.shown = None
        /\ ~In(Fresh(saved)) => base.dialogs = <<>>
    BY <1>1, <1>2, <1>3, EffectKeeps
  <2>2. In(Fresh(saved)) <=> In(base)
    BY <1>2, <2>1 DEF In
  <2> HIDE DEF base
  <2>3. \A k \in Kinds : base.calls[k] = NoCall
    BY <1>2, <2>1 DEF Refreshed
  <2> QED BY <2>1, <2>2, <2>3
<1>5. page' = base \/ (In(base) /\ page' = Send(base, "menu", 0))
  BY DEF Load
<1> HIDE DEF base
<1>6. /\ Sane(page') /\ page'.store = saved /\ page'.leaving = None
      /\ \A k \in Kinds : \/ page'.calls[k] = NoCall
                          \/ /\ k = "menu" /\ In(base)
                             /\ page'.calls[k].at = "sent"
                             /\ page'.calls[k].tokens.access = 0
      /\ ~In(base) => page'.dialogs = <<>> /\ page'.shown = None
  <2>1. CASE page' = base
    BY <1>4, <2>1
  <2>2. CASE In(base) /\ page' = Send(base, "menu", 0)
    BY <1>1, <1>4, <2>2, SendKeeps
  <2> QED BY <1>5, <2>1, <2>2
<1>7. TypeInv'
  BY <1>1, <1>6 DEF Inv, TypeInv
<1>8. Quiet'
  BY <1>4, <1>6, Basics DEF Quiet, In, Idle
<1>9. LoginAlone' /\ LogoutHolds' /\ Lasting'
  BY <1>1, <1>6, Basics DEF Inv, LoginAlone, LogoutHolds, Lasting, Idle, Kinds, Refreshes
<1>10. Issued'
  <2>1. Recent(page.store)' /\ Recent(saved)' /\ changed' <= now'
    BY <1>1, <1>6 DEF Inv, Issued, Recent
  <2>2. ASSUME NEW k \in Kinds
        PROVE  /\ Recent(page.calls[k].tokens)'
               /\ page'.calls[k].at = "granted" => page'.calls[k].tokens.access > 0
    <3>1. page'.calls[k].tokens.access = 0 /\ page'.calls[k].at # "granted"
      BY <1>6, Basics
    <3>2. Recent(page'.calls[k].tokens)
      BY <3>1, OldIsRecent DEF Inv
    <3>3. Recent(page.calls[k].tokens)'
      BY <1>1, <3>2 DEF Recent
    <3> QED BY <3>1, <3>3
  <2> QED BY <2>1, <2>2 DEF Issued
<1> QED BY <1>7, <1>8, <1>9, <1>10 DEF Inv

-----------------------------------------------------------------------------
(* Steps of others, and the whole.                                         *)

LEMMA ElsewhereInv == Inv /\ Elsewhere => Inv'
<1> SUFFICES ASSUME Inv, Elsewhere PROVE Inv'
  OBVIOUS
<1>1. /\ now \in Nat /\ now <= MaxNow /\ saved \in Tokens /\ saved.refresh \in Times
      /\ holder \in Times /\ until \in Times /\ roles \in Roles
  BY Typed DEF Inv, TypeInv, Tokens
<1>2. PICK refresh \in {saved.refresh, now + RefreshTtl} \ {0} :
        saved' \in {NoTokens, [access |-> now + AccessTtl, refresh |-> refresh,
                               roles |-> roles]}
  BY DEF Elsewhere
<1>3. refresh \in Times
  BY <1>1, <1>2, Basics DEF Times
<1>4. saved' \in Tokens /\ Recent(saved')
  BY <1>2, <1>3, NewTokens, OldIsRecent, Basics DEF Inv
<1>5. saved'.refresh \in Times
  BY <1>4 DEF Tokens
<1>6. TypeInv'
  <2>1. holder' \in Times /\ until' \in Times
    BY <1>1, <1>5, Basics DEF Elsewhere
  <2>2. loggedOut' \in BOOLEAN
    BY DEF Elsewhere
  <2>3. faults' \in 0..MaxFaults
    BY AuthAssumption DEF Elsewhere, Fault, Inv, TypeInv
  <2> QED BY <1>4, <2>1, <2>2, <2>3 DEF Elsewhere, Inv, TypeInv
<1>7. Quiet' /\ LoginAlone'
  BY DEF Elsewhere, Inv, Quiet, LoginAlone, In, Idle
<1>8. LogoutHolds'
  BY Basics DEF Elsewhere, Inv, LogoutHolds, Idle
<1>9. Lasting'
  BY DEF Elsewhere, Inv, Lasting, Idle
<1>10. Issued'
  BY <1>4 DEF Elsewhere, Inv, Issued, Recent
<1> QED BY <1>6, <1>7, <1>8, <1>9, <1>10 DEF Inv

LEMMA TickInv == Inv /\ Tick => Inv'
<1> SUFFICES ASSUME Inv, Tick PROVE Inv'
  OBVIOUS
<1>1. TypeInv'
  BY AuthAssumption DEF Tick, Inv, TypeInv
<1>2. Quiet' /\ LoginAlone' /\ LogoutHolds' /\ Lasting'
  BY DEF Tick, Inv, Quiet, LoginAlone, LogoutHolds, Lasting, In, Idle
<1>3. Issued'
  <2>1. \A t \in Tokens : Recent(t) => /\ t.access <= now' + AccessTtl
                                       /\ t.roles = roles \/ t.access <= changed + AccessTtl
    BY Typed, Basics DEF Inv, Tick, Recent, Tokens, Times
  <2>2. changed' <= now'
    BY Typed DEF Tick, Inv, Issued
  <2> QED BY <2>1, <2>2, Typed DEF Tick, Inv, Issued, Recent
<1> QED BY <1>1, <1>2, <1>3 DEF Inv

LEMMA RolesReloadedInv == Inv /\ RolesReloaded => Inv'
<1> SUFFICES ASSUME Inv, RolesReloaded PROVE Inv'
  OBVIOUS
<1>1. TypeInv'
  BY DEF RolesReloaded, Inv, TypeInv, Roles
<1>2. Quiet' /\ LoginAlone' /\ LogoutHolds' /\ Lasting'
  BY DEF RolesReloaded, Inv, Quiet, LoginAlone, LogoutHolds, Lasting, In, Idle
<1>3. Issued'
  BY Typed DEF RolesReloaded, Inv, Issued, Recent
<1> QED BY <1>1, <1>2, <1>3 DEF Inv

LEMMA AnswersInv == Inv /\ Answers => Inv'
<1> SUFFICES ASSUME Inv, Answers PROVE Inv'
  OBVIOUS
<1>1. /\ Sane(page) /\ faults \in 0..MaxFaults /\ logins \in 0..MaxLogins
      /\ Fault => faults' \in 0..MaxFaults
      /\ "session-expired" \in DialogIds
      /\ now \in Nat /\ now <= MaxNow
  BY AuthAssumption, Typed DEF Inv, TypeInv, Fault, DialogIds
<1>2. CASE LoginAnswered
  <2>1. ~Idle(page, "login") /\ "login" \in {"login"} \union Refreshes /\ "login" \in Kinds
        /\ UNCHANGED <<setting, now, roles, changed, logins>>
    BY <1>2 DEF LoginAnswered, Idle, Kinds
  <2> DEFINE tokens == [access |-> now + AccessTtl, refresh |-> now + RefreshTtl,
                        roles |-> roles]
  <2>2. CASE /\ Success("login", tokens)
             /\ until' = now + RefreshTtl /\ loggedOut' = FALSE
             /\ UNCHANGED faults
    <3>1. now + RefreshTtl \in Times
      BY <1>1, Basics DEF Times
    <3>2. /\ tokens \in Tokens /\ Recent(tokens) /\ tokens.access > 0
          /\ tokens.refresh = now + RefreshTtl
      BY <3>1, NewTokens DEF Inv
    <3> HIDE DEF tokens
    <3> QED BY <1>1, <2>1, <2>2, <3>2, SuccessInv
  <2>3. CASE Fault /\ Refused("login", page)
    BY <1>1, <2>1, <2>3, RefusedInv
  <2>4. CASE Fault /\ Throws("login")
    BY <1>1, <2>1, <2>4, ThrowsInv
  <2> QED BY <1>2, <2>2, <2>3, <2>4 DEF LoginAnswered
<1>3. ASSUME NEW k \in Refreshes, RefreshAnswered(k) PROVE Inv'
  <2> DEFINE call == page.calls[k]
  <2>1. /\ k \in {"login"} \union Refreshes /\ k \in Kinds /\ k # "login"
        /\ UNCHANGED <<setting, now, roles, changed, logins>>
    BY <1>3 DEF RefreshAnswered, Refreshes, Kinds
  <2>2. CASE /\ call.at = "granted" /\ Success(k, call.tokens)
             /\ UNCHANGED <<loggedOut, until, faults>>
    <3>1. /\ call.tokens \in Tokens /\ Recent(call.tokens) /\ call.tokens.access > 0
          /\ ~Idle(page, k)
      BY <2>1, <2>2, Typed DEF Inv, Issued, Idle
    <3> QED BY <1>1, <2>1, <2>2, <3>1, SuccessInv
  <2>3. CASE /\ call.at = "sent" /\ Refused(k, Push(page, "session-expired"))
             /\ UNCHANGED faults
    <3> DEFINE p == Push(page, "session-expired")
    <3>1. /\ Sane(p) /\ p.store = page.store /\ p.leaving = page.leaving
          /\ p.calls = page.calls /\ p.shown = page.shown
      BY <1>1, PushKeeps
    <3>2. Refused(k, p) /\ ~Idle(page, k)
      BY <2>3 DEF Idle
    <3> HIDE DEF p
    <3> QED BY <1>1, <2>1, <2>3, <3>1, <3>2, RefusedInv
  <2>4. CASE call.at # "idle" /\ Fault /\ Refused(k, page)
    BY <1>1, <2>1, <2>4, RefusedInv DEF Idle
  <2>5. CASE call.at # "idle" /\ Fault /\ Throws(k)
    BY <1>1, <2>1, <2>5, ThrowsInv
  <2> QED BY <1>3, <2>2, <2>3, <2>4, <2>5 DEF RefreshAnswered, Granted
<1>4. ASSUME NEW k \in {"menu", "leave"}, LogoutAnswered(k) PROVE Inv'
  <2>1. /\ k \in Kinds /\ ~Idle(page, k)
        /\ UNCHANGED <<setting, now, roles, changed, logins>>
    BY <1>4 DEF LogoutAnswered, Idle, Kinds
  <2>2. CASE Cleared(k) /\ loggedOut' = ~InFlight /\ until' = 0 /\ UNCHANGED faults
    BY <2>1, <2>2, ClearedInv
  <2>3. CASE Fault /\ Throws(k)
    BY <1>1, <2>1, <2>3, ThrowsInv
  <2> QED BY <1>4, <2>2, <2>3 DEF LogoutAnswered
<1> QED BY <1>2, <1>3, <1>4, AnswerRefreshInv DEF Answers

LEMMA NextInv == Inv /\ [Next]_vars => Inv'
<1> SUFFICES ASSUME Inv, [Next]_vars PROVE Inv'
  OBVIOUS
<1>1. CASE UNCHANGED vars
  <2>1. TypeInv'
    BY <1>1 DEF vars, Inv, TypeInv
  <2>2. Quiet' /\ LoginAlone' /\ LogoutHolds' /\ Lasting'
    BY <1>1 DEF vars, Inv, Quiet, LoginAlone, LogoutHolds, Lasting, In, Idle
  <2>3. Issued'
    BY <1>1 DEF vars, Inv, Issued, Recent
  <2> QED BY <2>1, <2>2, <2>3 DEF Inv
<1>2. CASE Next
  BY <1>2, AnswersInv, LoginInv, LogoutInv, CheckInv, UseApiInv, ShowDialogInv, DismissInv,
     LoadInv, ElsewhereInv, TickInv, RolesReloadedInv DEF Next, Leave, Reload
<1> QED BY <1>1, <1>2

LEMMA Invariance == Spec => []Inv
BY InitInv, NextInv, PTL DEF Spec

\* Two kinds of dialog, each queued once: two at most.
LEMMA TwoDialogs ==
  ASSUME NEW p, Sane(p)
  PROVE  p.dialogs \in UNION { [1..n -> DialogIds] : n \in 0..2 }
<1>1. /\ p.dialogs \in Seq(DialogIds) /\ Len(p.dialogs) \in Nat
      /\ p.dialogs \in [1..Len(p.dialogs) -> DialogIds]
  BY DEF Sane, Pages
<1>2. Len(p.dialogs) <= 2
  <2> SUFFICES ASSUME Len(p.dialogs) > 2 PROVE FALSE
    BY <1>1
  <2>1. 1 \in 1..Len(p.dialogs) /\ 2 \in 1..Len(p.dialogs) /\ 3 \in 1..Len(p.dialogs)
    BY <1>1
  <2>2. /\ p.dialogs[1] # p.dialogs[2] /\ p.dialogs[1] # p.dialogs[3]
        /\ p.dialogs[2] # p.dialogs[3]
    BY <2>1 DEF Sane
  <2>3. /\ p.dialogs[1] \in DialogIds /\ p.dialogs[2] \in DialogIds
        /\ p.dialogs[3] \in DialogIds
    BY <1>1, <2>1
  <2> QED BY <2>2, <2>3 DEF DialogIds
<1> DEFINE n == Len(p.dialogs)
<1>3. n \in 0..2 /\ p.dialogs \in [1..n -> DialogIds]
  <2>1. n \in 0..2
    <3>1. n \in Nat /\ n <= 2
      BY <1>1, <1>2
    <3> HIDE DEF n
    <3> QED BY <3>1
  <2>2. p.dialogs \in [1..n -> DialogIds]
    BY <1>1
  <2> QED BY <2>1, <2>2
<1> HIDE DEF n
<1> QED BY <1>3, Zenon

\* Page, storage, session holder and clock keep their types; dialogs do not pile up.
THEOREM SessionTypeCorrect == Spec => []TypeOK
<1>1. Inv => TypeOK
  <2> SUFFICES ASSUME Inv PROVE TypeOK
    OBVIOUS
  <2>1. /\ page.store \in Session /\ page.timer \in BOOLEAN
        /\ page.shown \in DialogIds \union {None}
        /\ page.leaving \in {None, "login", "logout"}
        /\ page.calls \in [Kinds -> [at: {"idle", "sent", "granted"}, tokens: Session \union Sent]]
    BY Basics DEF Inv, TypeInv, Sane, Pages, Calls
  <2>2. PageOK
    BY <2>1, TwoDialogs DEF Inv, TypeInv, PageOK
  <2> QED BY <2>2, Basics DEF Inv, TypeInv, TypeOK
<1> QED BY <1>1, Invariance, PTL

\* logout: once it ended with nothing in flight, no late answer, timer, dialog or
\* reload brings the session back.
THEOREM LogoutStays == Spec => []LogoutIsFinal
<1>1. Inv => LogoutIsFinal
  BY DEF Inv, LogoutHolds, LogoutIsFinal, In
<1> QED BY <1>1, Invariance, PTL

\* store/auth.ts keeps the refresh token of the login through refreshes that answer
\* without one, failures, reloads and harmless writes of other tabs.
THEOREM RefreshTokenLasts == Spec => []SessionIsExtendable
<1>1. Inv => SessionIsExtendable
  BY DEF Inv, Lasting, SessionIsExtendable
<1> QED BY <1>1, Invariance, PTL

\* refreshSecurityTokens takes roles anew from cachedConfig: roles that cachedConfig no
\* longer gives are gone from every unexpired access token after the life of one.
\* (What cachedConfig owes to the file is ServedFilesAreRecent of ConfigReload_proofs.)
THEOREM RolesExpire == Spec => []RolesAreRecent
<1>1. Inv => RolesAreRecent
  <2> SUFFICES ASSUME Inv, In(page), ~Expired(page.store.access), changed + AccessTtl <= now
               PROVE  page.store.roles = roles
    BY DEF RolesAreRecent
  <2>1. page.store.access \in Nat /\ now \in Nat /\ changed + AccessTtl \in Nat
    BY Typed, Basics DEF Inv, Tokens, Times
  <2> QED BY <2>1 DEF Inv, Issued, Recent, Expired
<1> QED BY <1>1, Invariance, PTL
=============================================================================
