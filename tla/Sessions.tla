------------------------------- MODULE Sessions -------------------------------
(***************************************************************************)
(* Hub logins: the sessions table, the two cookies of a browser, and the   *)
(* tabs that share them (api/auth).                                        *)
(*                                                                         *)
(* A request carries the cookies the jar held when it was sent; its answer *)
(* changes the jar when it arrives, in any order, or never.  Tokens are    *)
(* numbered in the order their session was given them.                     *)
(***************************************************************************)
EXTENDS Naturals

CONSTANTS
  Tabs,       \* tabs of one browser, each with at most one request under way
  Logins,     \* rows of sessions
  MaxTokens   \* bound: tokens of a kind a session is given

ASSUME SessionsAssumption == MaxTokens \in Nat \ {0} /\ "none" \notin Logins

VARIABLES
  row,        \* sessions; access and refresh number the tokens whose hashes it holds
  jar,        \* the cookies of the browser
  tab,        \* the request of each tab, or its answer
  lost,       \* history: sessions whose new refresh token was in an answer that never arrived
  signedOut   \* history: refresh cookies that came with a sign-out whose statements all ran

sessionsVars == <<row, jar, tab, lost, signedOut>>

\* refreshOk: refresh_expires_at is ahead; grace: previous_refresh_valid_until is.  An access token that has
\* expired still names its row to logout, and nothing else here reads it: expires_at is left out.
SessionRow ==
  [exists : BOOLEAN, access : 0..MaxTokens, refresh : 0..MaxTokens, refreshOk : BOOLEAN,
   previous : 0..MaxTokens, grace : BOOLEAN]
NoSession ==
  [exists |-> FALSE, access |-> 0, refresh |-> 0, refreshOk |-> FALSE, previous |-> 0, grace |-> FALSE]
\* The id of a session that has been deleted is not taken again.
Deleted == [NoSession EXCEPT !.refresh = MaxTokens]

Token == [login : Logins, no : 1..MaxTokens]
NoToken == [login |-> "none", no |-> 0]
Cookies == [access : Token \cup {NoToken}, refresh : Token \cup {NoToken}]
NoCookies == [access |-> NoToken, refresh |-> NoToken]

\* cookies: what the request carried, then what its answer sets; login: the row refresh has locked.
Tab ==
  [op : {"none", "login", "refresh", "logout"},
   stage : {"sent", "rotating", "renewing", "halfway", "answered"},
   cookies : Cookies, login : Logins \cup {"none"}]
NoRequest == [op |-> "none", stage |-> "sent", cookies |-> NoCookies, login |-> "none"]

SessionsInit ==
  /\ row = [s \in Logins |-> NoSession]
  /\ jar = NoCookies
  /\ tab = [t \in Tabs |-> NoRequest]
  /\ lost = {}
  /\ signedOut = {}

-----------------------------------------------------------------------------
\* The browser

\* The cookies the handler of op reads.
Carried(op) ==
  [access |-> IF op = "logout" THEN jar.access ELSE NoToken,
   refresh |-> IF op = "login" THEN NoToken ELSE jar.refresh]

\* A tab signs in, asks for a new access session, or signs out.
Send(t, op) ==
  /\ tab[t].op = "none"
  /\ op = "refresh" => jar.refresh # NoToken
  /\ op = "logout" => jar # NoCookies
  /\ tab' = [tab EXCEPT ![t] = [NoRequest EXCEPT !.op = op, !.cookies = Carried(op)]]
  /\ UNCHANGED <<row, jar, lost, signedOut>>

\* refresh sets the access cookie alone where it leaves the refresh token alone.
JarAfter(t) ==
  LET new == tab[t].cookies
      keeps == tab[t].op = "refresh" /\ new.refresh = NoToken
  IN  [access |-> new.access, refresh |-> IF keeps THEN jar.refresh ELSE new.refresh]

Arrive(t) ==
  /\ tab[t].stage = "answered"
  /\ jar' = JarAfter(t)
  /\ tab' = [tab EXCEPT ![t] = NoRequest]
  /\ UNCHANGED <<row, lost, signedOut>>

\* The connection breaks, or the tab is closed, with the answer on its way.
AnswerIsLost(t) ==
  /\ tab[t].stage = "answered"
  /\ tab' = [tab EXCEPT ![t] = NoRequest]
  /\ lost' = lost \cup
       (IF tab[t].cookies.refresh = NoToken THEN {} ELSE {tab[t].cookies.refresh.login})
  /\ UNCHANGED <<row, jar, signedOut>>

\* A cookie or a session that expires was made hours or days before, and no answer takes that long.
Quiet == \A t \in Tabs : tab[t].op = "none"

\* Max-Age of the access cookie, which the refresh cookie outlives.
AccessCookieExpires ==
  /\ jar.access # NoToken /\ Quiet
  /\ jar' = [jar EXCEPT !.access = NoToken]
  /\ UNCHANGED <<row, tab, lost, signedOut>>

-----------------------------------------------------------------------------
\* The API

SessionRowFree_unlocked(t, s) == TRUE
\* FOR UPDATE OF sessions: a second refresh, or the DELETE of logout, waits.
SessionRowFree(t, s) == \A u \in Tabs \ {t} : tab[u].login # s

Answer(t, cookies) ==
  tab' = [tab EXCEPT ![t] = [@ EXCEPT !.stage = "answered", !.cookies = cookies, !.login = "none"]]

NextToken_last(s, last) == [login |-> s, no |-> last]
\* A new token of session s; last is the number of the one before.
NextToken(s, last) == [login |-> s, no |-> last + 1]

\* register and login: create_session.
CreateSession(t, s) ==
  /\ tab[t].op = "login" /\ tab[t].stage = "sent"
  /\ row[s] = NoSession
  /\ row' = [row EXCEPT ![s] = [NoSession EXCEPT !.exists = TRUE, !.access = 1, !.refresh = 1, !.refreshOk = TRUE]]
  /\ Answer(t, [access |-> NextToken(s, 0), refresh |-> NextToken(s, 0)])
  /\ UNCHANGED <<jar, lost, signedOut>>

IsCurrent(s, token) == token.login = s /\ row[s].refresh = token.no
IsPrevious(s, token) == token.login = s /\ row[s].previous = token.no

Refreshable_currentOnly(s, token) ==
  row[s].exists /\ row[s].refreshOk /\ IsCurrent(s, token)
Refreshable(s, token) ==
  /\ row[s].exists /\ row[s].refreshOk
  /\ IsCurrent(s, token) \/ (IsPrevious(s, token) /\ row[s].grace)

Rotates_always(s, token) == TRUE
\* presented_is_current
Rotates(s, token) == IsCurrent(s, token)

RefreshLocks(t, s) ==
  LET token == tab[t].cookies.refresh
      stage == IF Rotates(s, token) THEN "rotating" ELSE "renewing"
  IN  /\ tab[t].op = "refresh" /\ tab[t].stage = "sent"
      /\ Refreshable(s, token) /\ SessionRowFree(t, s)
      /\ tab' = [tab EXCEPT ![t].stage = stage, ![t].login = s]
      /\ UNCHANGED <<row, jar, lost, signedOut>>

\* 401: no row answers to the cookie.  It changes no cookie.
RefreshIsRefused(t) ==
  /\ tab[t].op = "refresh" /\ tab[t].stage = "sent"
  /\ \A s \in Logins : ~Refreshable(s, tab[t].cookies.refresh)
  /\ tab' = [tab EXCEPT ![t] = NoRequest]
  /\ UNCHANGED <<row, jar, lost, signedOut>>

\* rotate_session
RotateSession(t, s) ==
  /\ tab[t].stage = "rotating" /\ tab[t].login = s
  /\ row[s].refresh < MaxTokens /\ row[s].access < MaxTokens
  /\ row' = [row EXCEPT ![s] = [exists |-> TRUE, access |-> row[s].access + 1,
                                refresh |-> row[s].refresh + 1, refreshOk |-> TRUE,
                                previous |-> row[s].refresh, grace |-> TRUE]]
  /\ Answer(t, [access |-> NextToken(s, row[s].access), refresh |-> NextToken(s, row[s].refresh)])
  /\ UNCHANGED <<jar, lost, signedOut>>

\* renew_access
RenewAccess(t, s) ==
  /\ tab[t].stage = "renewing" /\ tab[t].login = s
  /\ row[s].access < MaxTokens
  /\ row' = [row EXCEPT ![s].access = @ + 1]
  /\ Answer(t, [access |-> NextToken(s, row[s].access), refresh |-> NoToken])
  /\ UNCHANGED <<jar, lost, signedOut>>

\* A statement or the commit fails: 500, and nothing has changed.
RefreshFails(t) ==
  /\ tab[t].stage \in {"rotating", "renewing"}
  /\ tab' = [tab EXCEPT ![t] = NoRequest]
  /\ UNCHANGED <<row, jar, lost, signedOut>>

Delete(gone) == row' = [s \in Logins |-> IF s \in gone THEN Deleted ELSE row[s]]

\* logout deletes by the access cookie first.  A statement that fails is ignored.
DeleteByAccess(t) ==
  /\ tab[t].op = "logout" /\ tab[t].stage = "sent"
  /\ LET token == tab[t].cookies.access
         gone == {s \in Logins : row[s].exists /\ token.login = s /\ row[s].access = token.no}
     IN  /\ \A s \in gone : SessionRowFree(t, s)
         /\ Delete(gone) \/ UNCHANGED row
  /\ tab' = [tab EXCEPT ![t].stage = "halfway"]
  /\ UNCHANGED <<jar, lost, signedOut>>

Ends_currentOnly(s, token) == row[s].exists /\ IsCurrent(s, token)
Ends(s, token) == row[s].exists /\ (IsCurrent(s, token) \/ IsPrevious(s, token))

\* Then by the refresh cookie, or the one it replaced, and clears both cookies.
DeleteByRefresh(t) ==
  /\ tab[t].op = "logout" /\ tab[t].stage = "halfway"
  /\ LET token == tab[t].cookies.refresh
         gone == {s \in Logins : Ends(s, token)}
     IN  /\ \A s \in gone : SessionRowFree(t, s)
         /\ \/ Delete(gone) /\ signedOut' = signedOut \cup ({token} \ {NoToken})
            \/ UNCHANGED <<row, signedOut>>
  /\ Answer(t, NoCookies)
  /\ UNCHANGED <<jar, lost>>

-----------------------------------------------------------------------------
\* Time

\* REFRESH_GRACE_SECONDS after the last rotation.
GraceEnds(s) ==
  /\ row[s].grace
  /\ row' = [row EXCEPT ![s].grace = FALSE]
  /\ UNCHANGED <<jar, tab, lost, signedOut>>

\* REFRESH_DAYS after the last rotation; the grace ended long before.
RefreshExpires(s) ==
  /\ row[s].refreshOk /\ ~row[s].grace /\ Quiet
  /\ row' = [row EXCEPT ![s].refreshOk = FALSE]
  /\ UNCHANGED <<jar, tab, lost, signedOut>>

SessionsNext ==
  \/ \E t \in Tabs : \E op \in {"login", "refresh", "logout"} : Send(t, op)
  \/ \E t \in Tabs : Arrive(t) \/ AnswerIsLost(t)
  \/ AccessCookieExpires
  \/ \E t \in Tabs, s \in Logins :
       CreateSession(t, s) \/ RefreshLocks(t, s) \/ RotateSession(t, s) \/ RenewAccess(t, s)
  \/ \E t \in Tabs : RefreshIsRefused(t) \/ RefreshFails(t) \/ DeleteByAccess(t) \/ DeleteByRefresh(t)
  \/ \E s \in Logins : GraceEnds(s) \/ RefreshExpires(s)

SessionsSpec == SessionsInit /\ [][SessionsNext]_sessionsVars

-----------------------------------------------------------------------------
\* Properties

\* Every variable has its type.
SessionsTypeOK ==
  /\ row \in [Logins -> SessionRow]
  /\ jar \in Cookies
  /\ tab \in [Tabs -> Tab]
  /\ lost \subseteq Logins
  /\ signedOut \subseteq Token

\* A browser that holds a refresh cookie of a session that is still open can go on: a refresh sent now is
\* answered, or the grace is over and the session's own token is still on its way to the jar, whatever the
\* other tabs refresh and in whatever order the answers arrive.  Only an answer that is lost ends this.
PersonCanGoOn ==
  \A s \in Logins :
    row[s].refreshOk /\ jar.refresh.login = s /\ s \notin lost =>
      \/ Refreshable(s, jar.refresh)
      \/ /\ IsPrevious(s, jar.refresh) /\ ~row[s].grace
         /\ \E t \in Tabs : tab[t].stage = "answered" /\ IsCurrent(s, tab[t].cookies.refresh)

\* A sign-out ends the session it was sent from, though another tab is refreshing it: the session is gone,
\* unless two refreshes overtook the sign-out.
SignOutEndsTheSession ==
  \A token \in signedOut :
    row[token.login].exists => row[token.login].refresh > token.no + 1
=============================================================================
