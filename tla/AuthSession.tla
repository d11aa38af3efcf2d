----------------------------- MODULE AuthSession -----------------------------
(***************************************************************************)
(* The session of a user in the React user interface: the store of a tab   *)
(* and its copy in localStorage, the session holder (a cookie or           *)
(* sessionStorage), the periodic expiry check, the queue of dialogs, and   *)
(* the calls whose answers arrive at any time, also after a logout.  Other *)
(* tabs appear by what they write to the storage they share with this one. *)
(* The API signs tokens, with the roles its configuration in memory gives  *)
(* the user: getRolesForUser never reads the file itself.  When that       *)
(* configuration follows the file is the subject of ConfigReload.  Time is *)
(* counted in units of CHECK_INTERVAL.                                     *)
(***************************************************************************)
EXTENDS Naturals, FiniteSets, Sequences, SequencesExt

CONSTANTS
    OldRoles, NewRoles, \* the user's roles in cachedConfig, before and after a load
    AccessTtl, RefreshTtl,
    MaxNow,         \* bound: the clock
    MaxLogins,      \* bound: logins in this tab
    MaxFaults,      \* bound: failed calls and writes of other tabs
    MaxPending      \* bound: calls that are pending at a time

ASSUME AuthAssumption ==
    /\ OldRoles # NewRoles
    /\ AccessTtl \in Nat \ {0} /\ RefreshTtl \in Nat /\ AccessTtl <= RefreshTtl
    /\ MaxNow \in Nat /\ MaxLogins \in Nat /\ MaxFaults \in Nat /\ MaxPending \in Nat

VARIABLES
    setting,        \* bootstrap: auth.store, and whether auth.loginUrl is set
    now,
    roles, changed, \* the user's roles in the API's cachedConfig, and since when
    saved,          \* auth-storage in localStorage
    holder,         \* the session holder's refresh token, by its expiry; 0: none
    page,           \* the memory of the page
    logins, faults,
    loggedOut,      \* history: a logout ended with nothing in flight
    until           \* history: end of the session the last login began, or 0

vars == <<setting, now, roles, changed, saved, holder, page, logins, faults, loggedOut, until>>

Settings == [store: {"cookie", "sessionstorage"}, external: BOOLEAN]
Roles == {OldRoles, NewRoles}
Times == 0..(MaxNow + RefreshTtl)
\* A pair of tokens is known by the expiry times and the roles in its claims.
NoTokens == [access |-> 0, refresh |-> 0, roles |-> OldRoles]
Session == [access: Times, refresh: Times, roles: Roles] \union {NoTokens}
Sent == { [NoTokens EXCEPT !.refresh = time] : time \in Times }
Kinds == {"login", "auto", "confirm", "menu", "leave"}
Refreshes == {"auto", "confirm"}
NoCall == [at |-> "idle", tokens |-> NoTokens]
DialogIds == {"session-expired", "session-expiring-soon"}
None == "none"

Expired(time) == now >= time
In(p) == p.store # NoTokens
Pending == { k \in Kinds : page.calls[k].at # "idle" }

-----------------------------------------------------------------------------
(* Operations on the memory of a page.                                      *)
\* Mutant: a dialog is queued again while it is waiting.
Push_Again(p, id) ==
    IF Len(p.dialogs) > 2 THEN p ELSE [p EXCEPT !.dialogs = Append(@, id)]
Push(p, id) ==
    IF Contains(p.dialogs, id) THEN p ELSE [p EXCEPT !.dialogs = Append(@, id)]

Send(p, kind, refresh) ==
    [p EXCEPT !.calls[kind] = [at |-> "sent", tokens |-> [NoTokens EXCEPT !.refresh = refresh]]]
CanSend(kind) == kind \notin Pending /\ Cardinality(Pending) < MaxPending

(* refreshSession reads the token of the session holder; without one it     *)
(* throws.                                                                  *)
Refresh(p, kind, token) == IF token = 0 \/ ~CanSend(kind) THEN p ELSE Send(p, kind, token)

(* checkExpiry, for a user who made a request recently or did not.          *)
CheckExpiry(p, token, recently) ==
    IF ~Expired(p.store.access)
    THEN IF 2 * (p.store.access - now) <= AccessTtl /\ recently
         THEN Refresh(p, "auto", token) ELSE p
    ELSE Push([p EXCEPT !.timer = FALSE],
              IF Expired(p.store.refresh) THEN "session-expired" ELSE "session-expiring-soon")

(* The effect that runs when the tokens changed: check at once, and only    *)
(* then start the interval, so a check that found the token expired does    *)
(* not stop it.                                                             *)
Effect(p, token, recently) ==
    IF In(p)
    THEN [CheckExpiry(p, token, recently) EXCEPT !.timer = TRUE]
    ELSE [p EXCEPT !.timer = FALSE]

(* The dialog that waited for this call closes when it has settled.         *)
Settled(p, kind) ==
    [p EXCEPT !.calls[kind] = NoCall,
              !.shown = IF kind \in {"confirm", "leave"} THEN None ELSE @]

Fresh(s) == [store |-> s, timer |-> FALSE, dialogs |-> <<>>, shown |-> None,
             calls |-> [k \in Kinds |-> NoCall], leaving |-> None]

Init ==
    /\ setting \in Settings
    /\ now = 0 /\ roles = OldRoles /\ changed = 0
    /\ saved = NoTokens /\ holder = 0
    /\ page = Fresh(NoTokens)
    /\ logins = 0 /\ faults = 0
    /\ loggedOut = FALSE /\ until = 0

-----------------------------------------------------------------------------
(* Whatever the store is set to, tokens or a mere status, all of it is      *)
(* written to localStorage.                                                 *)
Write(p) == page' = p /\ saved' = p.store

(* processAuthResponse(Success).                                            *)
Success(kind, tokens) ==
    /\ \E recently \in BOOLEAN :
          Write(Effect([Settled(page, kind) EXCEPT !.store = tokens], tokens.refresh, recently))
    /\ holder' = tokens.refresh

(* processAuthResponse of a refusal or a server error: the status is set    *)
(* and the tokens stay; with an external login the page goes to the logout  *)
(* page.                                                                    *)
Refused(kind, p) ==
    /\ Write([Settled(p, kind) EXCEPT !.leaving = IF setting.external THEN "logout" ELSE @])
    /\ UNCHANGED <<holder, loggedOut, until>>

(* A call that throws closes its dialog and changes nothing.                *)
Throws(kind) ==
    /\ page' = Settled(page, kind)
    /\ UNCHANGED <<saved, holder, loggedOut, until>>

Fault == faults < MaxFaults /\ faults' = faults + 1

(* The login form, or the return from the external login.                   *)
Login ==
    /\ ~In(page) /\ page.leaving = None /\ logins < MaxLogins
    /\ CanSend("login")
    /\ page' = Send(page, "login", 0)
    /\ logins' = logins + 1
    /\ UNCHANGED <<setting, now, roles, changed, saved, holder, faults, loggedOut, until>>

(* handleAuthResult takes the roles from cachedConfig, of whatever age.     *)
LoginAnswered ==
    /\ page.calls["login"].at = "sent"
    /\ \/ /\ Success("login", [access |-> now + AccessTtl, refresh |-> now + RefreshTtl, roles |-> roles])
          /\ until' = now + RefreshTtl /\ loggedOut' = FALSE
          /\ UNCHANGED faults
       \/ Fault /\ (Refused("login", page) \/ Throws("login"))
    /\ UNCHANGED <<setting, now, roles, changed, logins>>

(* refreshSecurityTokens: verifies the token and takes the roles anew from  *)
(* cachedConfig, of whatever age.                                           *)
\* Mutant: the new token has the roles of the old one.
Reissued_OldRoles(token) ==
    [access |-> now + AccessTtl, refresh |-> token, roles |-> page.store.roles]
Reissued(token) ==
    [access |-> now + AccessTtl, refresh |-> token, roles |-> roles]

AnswerRefresh(kind) ==
    LET call == page.calls[kind] IN
    /\ call.at = "sent" /\ ~Expired(call.tokens.refresh)
    /\ page' = [page EXCEPT !.calls[kind] =
                  [at |-> "granted", tokens |-> Reissued(call.tokens.refresh)]]
    /\ UNCHANGED <<setting, now, roles, changed, saved, holder, logins, faults, loggedOut, until>>

(* The tokens of a successful refresh: the API sends no refresh token, the  *)
(* user interface goes on with the one it sent.                             *)
\* Mutant: the empty refresh token of the answer is taken.
Granted_Empty(call) == [call.tokens EXCEPT !.refresh = 0]
Granted(call) == call.tokens

(* The refresh token is refused once it has expired, by a 401, which is     *)
(* also told to the user; a server error is a status, and an answer that is *)
(* lost throws.                                                             *)
RefreshAnswered(kind) ==
    LET call == page.calls[kind] IN
    /\ \/ /\ call.at = "granted"
          /\ Success(kind, Granted(call))
          /\ UNCHANGED <<loggedOut, until, faults>>
       \/ /\ call.at = "sent" /\ Expired(call.tokens.refresh)
          /\ Refused(kind, Push(page, "session-expired"))
          /\ UNCHANGED faults
       \/ /\ call.at # "idle" /\ Fault
          /\ Refused(kind, page) \/ Throws(kind)
    /\ UNCHANGED <<setting, now, roles, changed, logins>>

-----------------------------------------------------------------------------
(* The button of the navigation bar; a dialog would cover it.               *)
Logout ==
    /\ In(page) /\ page.leaving = None /\ page.shown = None
    /\ CanSend("menu")
    /\ page' = Send(page, "menu", 0)
    /\ UNCHANGED <<setting, now, roles, changed, saved, holder, logins, faults, loggedOut, until>>

InFlight == \E k \in Refreshes \union {"login"} : k \in Pending

(* The tokens are removed from the holder, and the store is emptied.        *)
\* Mutant: the refresh token stays in the session holder.
Cleared_KeepsRefresh(kind) ==
    /\ Write(Effect([Settled(page, kind) EXCEPT !.store = NoTokens, !.leaving = "login"], 0, FALSE))
    /\ UNCHANGED holder

Cleared(kind) ==
    /\ Write(Effect([Settled(page, kind) EXCEPT !.store = NoTokens, !.leaving = "login"], 0, FALSE))
    /\ holder' = 0

(* Nothing is cleared before the API has answered.                          *)
LogoutAnswered(kind) ==
    /\ page.calls[kind].at = "sent"
    /\ \/ /\ Cleared(kind)
          /\ loggedOut' = ~InFlight
          /\ until' = 0
          /\ UNCHANGED faults
       \/ Fault /\ Throws(kind)
    /\ UNCHANGED <<setting, now, roles, changed, logins>>

(* The interval of the expiry check fires.                                  *)
Check ==
    /\ page.timer /\ In(page)
    /\ \E recently \in BOOLEAN : page' = CheckExpiry(page, holder, recently)
    /\ UNCHANGED <<setting, now, roles, changed, saved, holder, logins, faults, loggedOut, until>>

(* A request of the page: an expired token is answered by 401, upon which   *)
(* the user is told that the session has expired.                           *)
\* Mutant: the answer 401 is treated like any other error.
UseApi_Silent == In(page) /\ UNCHANGED vars
UseApi ==
    /\ In(page)
    /\ page' = IF Expired(page.store.access) THEN Push(page, "session-expired") ELSE page
    /\ UNCHANGED <<setting, now, roles, changed, saved, holder, logins, faults, loggedOut, until>>

-----------------------------------------------------------------------------
ShowDialog ==
    /\ page.shown = None /\ page.dialogs # <<>>
    /\ page' = [page EXCEPT !.shown = Head(page.dialogs), !.dialogs = Tail(@)]
    /\ UNCHANGED <<setting, now, roles, changed, saved, holder, logins, faults, loggedOut, until>>

(* dismiss awaits onDismiss: the dialog is closed when the call settled, at *)
(* once if there is nothing to call, as when no refresh token is left.  Its *)
(* buttons stay: both may be pressed one after the other.                   *)
Dismiss ==
    /\ page.shown # None
    /\ \/ /\ CanSend("leave")
          /\ page' = Send(page, "leave", 0)
       \/ /\ page.shown = "session-expiring-soon" /\ CanSend("confirm")
          /\ page' = IF holder = 0 THEN [page EXCEPT !.shown = None]
                                   ELSE Send(page, "confirm", holder)
    /\ UNCHANGED <<setting, now, roles, changed, saved, holder, logins, faults, loggedOut, until>>

(* The page is loaded anew, by the user or because it was sent elsewhere:   *)
(* calls, dialogs and timers are gone, the store comes from localStorage.   *)
(* The logout page logs out who is logged in.                               *)
Load ==
    /\ LET p == Effect(Fresh(saved), 0, FALSE) IN
       page' = IF page.leaving = "logout" /\ In(p) THEN Send(p, "menu", 0) ELSE p
    /\ UNCHANGED <<setting, now, roles, changed, saved, holder, logins, faults, loggedOut, until>>
Leave == page.leaving # None /\ Load
Reload == page.leaving = None /\ Load

(* Another tab writes its tokens, after a login, a refresh or a mere status,*)
(* or their absence.  A cookie changes with them.                           *)
Elsewhere ==
    /\ Fault
    /\ \E refresh \in {saved.refresh, now + RefreshTtl} \ {0} :
          saved' \in {NoTokens, [access |-> now + AccessTtl, refresh |-> refresh, roles |-> roles]}
    /\ \/ UNCHANGED holder
       \/ setting.store = "cookie" /\ holder' = saved'.refresh
    /\ loggedOut' = (loggedOut /\ saved' = NoTokens)
    /\ until' = IF saved'.refresh = until THEN until ELSE 0
    /\ UNCHANGED <<setting, now, roles, changed, page, logins>>

Tick ==
    /\ now < MaxNow /\ now' = now + 1
    /\ UNCHANGED <<setting, roles, changed, saved, holder, page, logins, faults, loggedOut, until>>

(* loadConfig replaces cachedConfig by one that gives the user other roles, *)
(* because rbac was edited, or could not be read; bound: once.  The API is  *)
(* one process; of several, this is the last to have other roles in memory. *)
RolesReloaded ==
    /\ changed = 0 /\ now > 0
    /\ changed' = now
    /\ roles' = NewRoles
    /\ UNCHANGED <<setting, now, saved, holder, page, logins, faults, loggedOut, until>>

Answers ==
    \/ LoginAnswered
    \/ \E k \in Refreshes : AnswerRefresh(k) \/ RefreshAnswered(k)
    \/ \E k \in {"menu", "leave"} : LogoutAnswered(k)

Next ==
    \/ Answers \/ Login \/ Logout \/ Check \/ UseApi \/ ShowDialog \/ Dismiss
    \/ Leave \/ Reload \/ Elsewhere \/ Tick \/ RolesReloaded

(* Calls settle, timers fire, and a page that is sent elsewhere goes there. *)
Fairness ==
    /\ WF_vars(Tick) /\ WF_vars(Answers) /\ WF_vars(Check) /\ WF_vars(ShowDialog)
    /\ WF_vars(Leave)

Spec == Init /\ [][Next]_vars /\ Fairness

-----------------------------------------------------------------------------
(* Type correctness of the page, the storage it shares, and the API.        *)
PageOK ==
    /\ page.store \in Session /\ page.timer \in BOOLEAN
    /\ page.dialogs \in UNION { [1..n -> DialogIds] : n \in 0..2 }
    /\ page.shown \in DialogIds \union {None} /\ page.leaving \in {None, "login", "logout"}
    /\ page.calls \in [Kinds -> [at: {"idle", "sent", "granted"}, tokens: Session \union Sent]]
TypeOK ==
    /\ setting \in Settings /\ now \in 0..MaxNow /\ roles \in Roles /\ changed \in 0..MaxNow
    /\ saved \in Session /\ holder \in Times
    /\ PageOK
    /\ logins \in 0..MaxLogins /\ faults \in 0..MaxFaults
    /\ loggedOut \in BOOLEAN /\ until \in Times

(* Once a logout has ended and nothing of the page was in flight, no timer, *)
(* dialog, late answer or reload brings the session back in that tab, until *)
(* somebody logs in or another tab that was still logged in writes its      *)
(* tokens.  (A refresh that is in flight at the logout does bring it back.) *)
LogoutIsFinal == loggedOut => ~In(page)

(* While no other tab interferes, a page that is logged in can be refreshed *)
(* until the refresh token of its login expires: store and session holder   *)
(* both keep it through every refresh, failure and reload.                  *)
SessionIsExtendable == until # 0 /\ In(page) => page.store.refresh = until /\ holder = until

(* Roles travel in the access token and are taken from the configuration in *)
(* memory at every refresh: whatever refreshes, late answers, reloads and   *)
(* other tabs do, an unexpired token of the page never holds roles that     *)
(* this configuration gave up longer ago than an access token lives.  It    *)
(* bounds the time since cachedConfig was replaced, not the time since the  *)
(* file was edited: that adds what ServedIsRecent of ConfigReload leaves,   *)
(* which has no bound if nothing reloads the configuration.                 *)
RolesAreRecent ==
    In(page) /\ ~Expired(page.store.access) /\ changed + AccessTtl <= now
        => page.store.roles = roles

(* A user who goes on working is not left with an expired session: it is    *)
(* renewed, a dialog appears, or the tab is logged out, also after a dialog *)
(* whose refresh or logout failed.                                          *)
Told == page.shown # None \/ ~In(page) \/ ~Expired(page.store.access)
SessionEndIsTold == WF_vars(UseApi) => []<>Told
=============================================================================
