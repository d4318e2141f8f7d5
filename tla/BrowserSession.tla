--------------------------- MODULE BrowserSession ---------------------------
(***************************************************************************)
(* The tabs of one browser against the server's refresh tokens.  A tab     *)
(* keeps its two tokens in memory and shares the refresh token through     *)
(* localStorage, which it reads when it is opened.  Calls that are refused *)
(* wait for one shared refresh and are sent once more.                     *)
(*                                                                         *)
(* Code: frontend/src/lib/api.ts, frontend/src/auth/AuthContext.tsx.       *)
(*                                                                         *)
(* An access token is named after the refresh token issued with it, which  *)
(* outlives it.  A response is handled in one step: JavaScript runs the    *)
(* promise callbacks it triggers before the next event.                    *)
(***************************************************************************)
EXTENDS RefreshTokens

CONSTANTS
    Tabs,        \* the browser's tabs
    Pages,       \* the concurrent calls the pages of a tab make
    Restores,    \* the /auth/me calls of AuthProvider's effect: one, and two
                 \* in development, where StrictMode runs effects twice
    NoRequest    \* no request to the server

ASSUME BrowserAssumption ==
    /\ NoRequest \notin Requests
    /\ {"me", "logout"} \cap (Pages \cup Restores) = {}
    /\ Pages \cap Restores = {} /\ Restores # {}

VARIABLES
    tabs,           \* module variables of api.ts and state of AuthProvider
    calls,          \* api() calls: AuthProvider's, login's /auth/me, /auth/logout
                    \* and the pages'
    stored,         \* localStorage's aqress_refresh_token, 0 if absent
    accessExpired,  \* access tokens up to this one have expired
    undisturbed     \* history: one tab at a time, and it got every refresh

vars == <<tokens, expired, requests, tabs, calls, stored, accessExpired, undisturbed>>
clientVars == <<tabs, calls, stored, accessExpired, undisturbed>>

\* "me" is the call login makes.
Calls == {"me", "logout"} \cup Restores \cup Pages

Closed == [open |-> FALSE, access |-> 0, refresh |-> 0, promise |-> NoRequest,
           user |-> FALSE, loading |-> FALSE]
Tab == [open : BOOLEAN, access : 0..MaxToken, refresh : 0..MaxToken,
        promise : Requests \cup {NoRequest},
        user : BOOLEAN, loading : BOOLEAN]

\* `access' is the token in the header, `request' and `token' are logout's.
NoCall == [pc |-> "idle", access |-> 0, retried |-> FALSE,
           request |-> NoRequest, token |-> 0]
Call == [pc : {"idle", "ready", "sent", "refused", "waiting"},
         access : 0..MaxToken, retried : BOOLEAN,
         request : Requests \cup {NoRequest}, token : 0..MaxToken]

ClientTypeOK ==
    /\ tabs \in [Tabs -> Tab]
    /\ calls \in [Tabs -> [Calls -> Call]]
    /\ stored \in 0..MaxToken
    /\ accessExpired \in 0..MaxToken
    /\ undisturbed \in BOOLEAN

TypeOK == TokensTypeOK /\ ClientTypeOK

Init ==
    /\ TokensInit
    /\ tabs = [t \in Tabs |-> Closed]
    /\ calls = [t \in Tabs |-> [c \in Calls |-> NoCall]]
    /\ stored = 0
    /\ accessExpired = 0
    /\ undisturbed = TRUE

-----------------------------------------------------------------------------
(* Helpers                                                                 *)

\* The tab after setTokens.
WithTokens(tab, pair) == [tab EXCEPT !.access = pair, !.refresh = pair]

\* What the callers of failed calls do: AuthProvider's effect and authApi.logout
\* drop the tokens, the latter's caller the user.
DropsTokens(failed) == "logout" \in failed \/ failed \cap Restores # {}

AfterFailure(tab, failed) ==
    [(IF DropsTokens(failed) THEN WithTokens(tab, 0) ELSE tab) EXCEPT
        !.user = @ /\ "logout" \notin failed,
        !.loading = @ /\ failed \cap Restores = {}]

\* Calls in `failed' of tab t end with an error; `tab' is t so far.
Fail(t, tab, failed) ==
    /\ tabs' = [tabs EXCEPT ![t] = AfterFailure(tab, failed)]
    /\ calls' = [calls EXCEPT ![t] =
            [c \in Calls |-> IF c \in failed THEN NoCall ELSE @[c]]]

Waiting(t) == {c \in Calls : calls[t][c].pc = "waiting"}
OtherTabOpen(t) == \E u \in Tabs \ {t} : tabs[u].open

\* Somebody will read the answer of request q.
Awaited(q) ==
    \E t \in Tabs : tabs[t].promise = q \/ \E c \in Calls : calls[t][c].request = q

-----------------------------------------------------------------------------
(* Opening, closing, login                                                 *)

\* The modules are loaded and AuthProvider asks /auth/me if there is a token.
OpenTab(t) ==
    /\ ~tabs[t].open
    /\ tabs' = [tabs EXCEPT ![t] =
            [Closed EXCEPT !.open = TRUE, !.refresh = stored, !.loading = (stored # 0)]]
    /\ calls' = IF stored = 0 THEN calls
                ELSE [calls EXCEPT ![t] = [c \in Calls |->
                        IF c \in Restores THEN [NoCall EXCEPT !.pc = "sent"] ELSE @[c]]]
    /\ undisturbed' = (undisturbed /\ ~OtherTabOpen(t))
    /\ UNCHANGED <<tokenVars, stored, accessExpired>>

\* Closed or reloaded: what is in flight goes on without it.
CloseTab(t) ==
    /\ tabs[t].open
    /\ tabs' = [tabs EXCEPT ![t] = Closed]
    /\ calls' = [calls EXCEPT ![t] = [c \in Calls |-> NoCall]]
    /\ undisturbed' = (undisturbed /\ tabs[t].promise = NoRequest)
    /\ UNCHANGED <<tokenVars, stored, accessExpired>>

\* /auth/login answers, the tokens are set and /auth/me is asked.
LoginTab(t, pair) ==
    /\ tabs[t].open /\ ~tabs[t].user /\ ~tabs[t].loading
    /\ calls[t]["me"].pc = "idle"
    /\ Login(pair)
    /\ tabs' = [tabs EXCEPT ![t] = WithTokens(@, pair)]
    /\ stored' = pair
    /\ calls' = [calls EXCEPT ![t]["me"] = [NoCall EXCEPT !.pc = "sent", !.access = pair]]
    /\ UNCHANGED <<accessExpired, undisturbed>>

\* The same, but the answer is lost, or the login is another browser's.
LoginElsewhere(pair) == Login(pair) /\ UNCHANGED clientVars

-----------------------------------------------------------------------------
(* api()                                                                   *)

PageCall(t, c) ==
    /\ tabs[t].user
    /\ calls[t][c].pc = "idle"
    /\ calls' = [calls EXCEPT ![t][c] =
            [NoCall EXCEPT !.pc = "sent", !.access = tabs[t].access]]
    /\ UNCHANGED <<tokenVars, tabs, stored, accessExpired, undisturbed>>

\* A call with a good access token is answered.
CallServed(t, c) ==
    /\ c # "logout" /\ calls[t][c].pc = "sent"
    /\ calls[t][c].access > accessExpired
    /\ calls' = [calls EXCEPT ![t][c] = NoCall]
    /\ tabs' = IF c \in Pages THEN tabs
               ELSE [tabs EXCEPT ![t] =
                        [tabs[t] EXCEPT !.user = TRUE, !.loading = @ /\ c \notin Restores]]
    /\ UNCHANGED <<tokenVars, stored, accessExpired, undisturbed>>

\* The server answers 401; the answer is on its way.
CallRefused(t, c) ==
    /\ c # "logout" /\ calls[t][c].pc = "sent"
    /\ calls[t][c].access <= accessExpired
    /\ calls' = [calls EXCEPT ![t][c] = [@ EXCEPT !.pc = "refused", !.access = 0]]
    /\ UNCHANGED <<tokenVars, tabs, stored, accessExpired, undisturbed>>

\* The second 401, or no refresh token: the call fails.
GiveUp(t, c) ==
    /\ calls[t][c].pc = "refused"
    /\ calls[t][c].retried \/ tabs[t].refresh = 0
    /\ Fail(t, tabs[t], {c})
    /\ stored' = IF DropsTokens({c}) THEN 0 ELSE stored
    /\ UNCHANGED <<tokenVars, accessExpired, undisturbed>>

\* Mutant: every refused call starts a refresh of its own.
StartRefreshAlone(t, c, q) ==
    /\ calls[t][c].pc = "refused"
    /\ ~calls[t][c].retried /\ tabs[t].refresh # 0
    /\ Send(q, "refresh", tabs[t].refresh)
    /\ tabs' = [tabs EXCEPT ![t].promise = q]
    /\ calls' = [calls EXCEPT ![t][c].pc = "waiting"]
    /\ UNCHANGED <<stored, accessExpired, undisturbed>>

\* refreshAccess without a refreshPromise.
StartRefresh(t, c, q) ==
    /\ calls[t][c].pc = "refused"
    /\ ~calls[t][c].retried /\ tabs[t].refresh # 0
    /\ tabs[t].promise = NoRequest
    /\ Send(q, "refresh", tabs[t].refresh)
    /\ tabs' = [tabs EXCEPT ![t].promise = q]
    /\ calls' = [calls EXCEPT ![t][c].pc = "waiting"]
    /\ UNCHANGED <<stored, accessExpired, undisturbed>>

JoinRefresh(t, c) ==
    /\ calls[t][c].pc = "refused"
    /\ ~calls[t][c].retried /\ tabs[t].refresh # 0
    /\ tabs[t].promise # NoRequest
    /\ calls' = [calls EXCEPT ![t][c].pc = "waiting"]
    /\ UNCHANGED <<tokenVars, tabs, stored, accessExpired, undisturbed>>

\* Mutant: the second attempt is not told from the first.
ResentAnew(t, pair) ==
    [c \in Calls |->
        IF c \notin Waiting(t) THEN calls[t][c]
        ELSE [calls[t][c] EXCEPT
                !.pc = IF c = "logout" THEN "ready" ELSE "sent", !.access = pair]]

\* Mutant: a refresh that succeeds does not wake the calls that joined it.
NotResent(t, pair) == calls[t]

\* The calls that waited are sent once more, logout with the body it had.
Resent(t, pair) ==
    [c \in Calls |->
        IF c \notin Waiting(t) THEN calls[t][c]
        ELSE [calls[t][c] EXCEPT
                !.pc = IF c = "logout" THEN "ready" ELSE "sent",
                !.access = pair, !.retried = TRUE]]

RefreshSucceeds(t, q) ==
    /\ tabs[t].promise = q
    /\ requests[q].answer = "ok"
    /\ LET pair == requests[q].new IN
        /\ tabs' = [tabs EXCEPT ![t] = [WithTokens(@, pair) EXCEPT !.promise = NoRequest]]
        /\ stored' = pair
        /\ calls' = [calls EXCEPT ![t] = Resent(t, pair)]
    /\ Collect(q)
    /\ UNCHANGED <<accessExpired, undisturbed>>

\* Mutant: the callers are not told.
RefreshForgets(t, q) ==
    /\ tabs[t].promise = q
    /\ requests[q].pc = "answered" /\ requests[q].answer # "ok"
    /\ tabs' = [tabs EXCEPT ![t] = [WithTokens(@, 0) EXCEPT !.promise = NoRequest]]
    /\ stored' = 0
    /\ Collect(q)
    /\ UNCHANGED <<calls, accessExpired, undisturbed>>

\* Any other answer: setTokens(null), and the calls that waited fail.
RefreshFails(t, q) ==
    /\ tabs[t].promise = q
    /\ requests[q].pc = "answered" /\ requests[q].answer # "ok"
    /\ Fail(t, [WithTokens(tabs[t], 0) EXCEPT !.promise = NoRequest], Waiting(t))
    /\ stored' = 0
    /\ Collect(q)
    /\ UNCHANGED <<accessExpired, undisturbed>>

\* Mutant: the promise is replaced by its result, not by null.
RefreshLostKept(t) ==
    /\ tabs[t].promise # NoRequest
    /\ Fail(t, [tabs[t] EXCEPT !.promise = FALSE], Waiting(t))
    /\ stored' = IF DropsTokens(Waiting(t)) THEN 0 ELSE stored
    /\ undisturbed' = FALSE
    /\ UNCHANGED <<tokenVars, accessExpired>>

\* fetch rejects: the tokens stay, the calls that waited fail.
RefreshLost(t) ==
    /\ tabs[t].promise # NoRequest
    /\ Fail(t, [tabs[t] EXCEPT !.promise = NoRequest], Waiting(t))
    /\ stored' = IF DropsTokens(Waiting(t)) THEN 0 ELSE stored
    /\ undisturbed' = FALSE
    /\ UNCHANGED <<tokenVars, accessExpired>>

CallLost(t, c) ==
    /\ calls[t][c].pc = "sent"
    /\ Fail(t, tabs[t], {c})
    /\ stored' = IF DropsTokens({c}) THEN 0 ELSE stored
    /\ UNCHANGED <<tokenVars, accessExpired, undisturbed>>

-----------------------------------------------------------------------------
(* logout                                                                  *)

Logout(t) ==
    /\ tabs[t].user
    /\ calls[t]["logout"].pc = "idle"
    /\ IF tabs[t].refresh = 0
       THEN Fail(t, tabs[t], {"logout"}) /\ stored' = 0
       ELSE /\ calls' = [calls EXCEPT ![t]["logout"] =
                    [NoCall EXCEPT !.pc = "ready", !.token = tabs[t].refresh]]
            /\ UNCHANGED <<tabs, stored>>
    /\ UNCHANGED <<tokenVars, accessExpired, undisturbed>>

LogoutSend(t, q) ==
    /\ calls[t]["logout"].pc = "ready"
    /\ Send(q, "logout", calls[t]["logout"].token)
    /\ calls' = [calls EXCEPT ![t]["logout"] = [@ EXCEPT !.pc = "sent", !.request = q]]
    /\ UNCHANGED <<tabs, stored, accessExpired, undisturbed>>

\* 401 is handled by api() like any other; every other answer ends the session.
LogoutAnswered(t, q) ==
    /\ calls[t]["logout"].request = q
    /\ requests[q].pc = "answered"
    /\ IF requests[q].answer = "expired"
       THEN /\ calls' = [calls EXCEPT ![t]["logout"] =
                    [@ EXCEPT !.pc = "refused", !.request = NoRequest]]
            /\ UNCHANGED <<tabs, stored>>
       ELSE Fail(t, tabs[t], {"logout"}) /\ stored' = 0
    /\ Collect(q)
    /\ UNCHANGED <<accessExpired, undisturbed>>

-----------------------------------------------------------------------------
(* The server and time                                                     *)

Server(q) == ServerStep(q) /\ UNCHANGED clientVars

ServerFails(q) == RequestFail(q) /\ UNCHANGED clientVars

\* The answer of a request its tab gave up on or was closed with.
Discard(q) == ~Awaited(q) /\ Collect(q) /\ UNCHANGED clientVars

ExpireAccess(pair) ==
    /\ tokens[pair].issued
    /\ pair = accessExpired + 1
    /\ accessExpired' = pair
    /\ UNCHANGED <<tokenVars, tabs, calls, stored, undisturbed>>

ExpireRefresh(pair) ==
    /\ pair <= accessExpired
    /\ Expire(pair)
    /\ UNCHANGED clientVars

TabNext(t) ==
    \/ OpenTab(t)
    \/ CloseTab(t)
    \/ \E pair \in Tokens : LoginTab(t, pair)
    \/ \E c \in Pages : PageCall(t, c)
    \/ \E c \in Calls :
        \/ CallServed(t, c)
        \/ CallRefused(t, c)
        \/ GiveUp(t, c)
        \/ \E q \in Requests : StartRefresh(t, c, q)
        \/ JoinRefresh(t, c)
        \/ CallLost(t, c)
    \/ \E q \in Requests : RefreshSucceeds(t, q) \/ RefreshFails(t, q)
    \/ RefreshLost(t)
    \/ Logout(t)
    \/ \E q \in Requests : LogoutSend(t, q) \/ LogoutAnswered(t, q)

ServerNext ==
    \/ \E q \in Requests : Server(q) \/ ServerFails(q) \/ Discard(q)
    \/ \E pair \in Tokens :
        LoginElsewhere(pair) \/ ExpireAccess(pair) \/ ExpireRefresh(pair)

Next == (\E t \in Tabs : TabNext(t)) \/ ServerNext

Spec == Init /\ [][Next]_vars

\* The server answers every request (row locks are granted in turn) and the
\* browser runs the callbacks of every answer; that a callback may find no idle
\* element of Requests is a bound of the model.  Whether a tab is opened or a
\* call made is up to the user.
Fairness ==
    /\ \A q \in Requests : SF_vars(Server(q)) /\ WF_vars(Discard(q))
    /\ \A t \in Tabs :
        /\ \A c \in Calls :
            /\ WF_vars(CallServed(t, c) \/ CallRefused(t, c))
            /\ SF_vars(GiveUp(t, c) \/ JoinRefresh(t, c)
                        \/ \E q \in Requests : StartRefresh(t, c, q))
        /\ WF_vars(\E q \in Requests : RefreshSucceeds(t, q) \/ RefreshFails(t, q))
        /\ SF_vars(\E q \in Requests : LogoutSend(t, q))
        /\ WF_vars(\E q \in Requests : LogoutAnswered(t, q))

FairSpec == Spec /\ Fairness

-----------------------------------------------------------------------------

(***************************************************************************)
(* A single tab whose refreshes are all answered is never told that its    *)
(* token was already used, however its calls overlap: calls refused at the *)
(* same time share one refresh (refreshPromise), later ones use the new    *)
(* token.                                                                  *)
(***************************************************************************)
NeverReused ==
    undisturbed =>
        \A q \in Requests :
            requests[q].op = "refresh" /\ requests[q].answer = "revoked"
                => tokens[requests[q].token].revoked = "logout"

(***************************************************************************)
(* Nobody waits for an answer that cannot come: calls that wait share a    *)
(* promise, which is never forgotten before them; behind each promise and  *)
(* each logout under way is a request of its kind that the server is       *)
(* working on or has answered; and behind the "Restoring your session"     *)
(* screen are the effect's calls to /auth/me, of which the first to end    *)
(* ends it.                                                                *)
(***************************************************************************)
NobodyWaitsInVain ==
    \A t \in Tabs :
        LET logout == calls[t]["logout"] IN
        /\ tabs[t].loading => \A c \in Restores : calls[t][c].pc # "idle"
        /\ Waiting(t) # {} => tabs[t].promise # NoRequest
        /\ tabs[t].promise # NoRequest =>
            /\ requests[tabs[t].promise].op = "refresh"
            /\ requests[tabs[t].promise].pc # "idle"
        /\ logout.pc = "sent" =>
            /\ logout.request # NoRequest
            /\ requests[logout.request].op = "logout"
            /\ requests[logout.request].pc # "idle"

\* A bound on the steps a call has left.
Stage == [idle |-> 0, waiting |-> 1, refused |-> 2, sent |-> 3, ready |-> 4]
Remaining(call) ==
    Stage[call.pc] + (IF call.pc # "idle" /\ ~call.retried THEN 4 ELSE 0)

(***************************************************************************)
(* A call is sent at most twice and never goes back: each step of it       *)
(* brings it nearer to its end, whatever the other calls of the tab, its   *)
(* shared refresh and the server do; a new call starts only from a free    *)
(* one.                                                                    *)
(***************************************************************************)
SentTwiceAtMost ==
    [][\A t \in Tabs, c \in Calls :
        calls[t][c].pc # "idle" /\ calls'[t][c] # calls[t][c]
            => Remaining(calls'[t][c]) < Remaining(calls[t][c])]_calls

\* A bound of the model: a refresh has checked its token and there is none left
\* in Tokens to replace it.
OutOfTokens ==
    /\ ~\E pair \in Tokens : Fresh(pair)
    /\ \E q \in Requests : requests[q].op = "refresh" /\ requests[q].pc = "locked"

(***************************************************************************)
(* Every call ends, and with it the "Restoring your session" screen: none  *)
(* waits for ever for a refresh, and one that is sent again after it is    *)
(* answered or given up for good.                                          *)
(***************************************************************************)
CallsSettle ==
    \A t \in Tabs, c \in Calls :
        calls[t][c].pc # "idle" ~> (calls[t][c].pc = "idle" \/ OutOfTokens)

(***************************************************************************)
(* README: the frontend "logs out when refresh is no longer valid".  Once  *)
(* no refresh token is good, a tab that has noticed, dropped its own and   *)
(* has nothing in flight shows no user.                                    *)
(***************************************************************************)
LogsOut ==
    \A t \in Tabs :
        /\ tabs[t].refresh = 0
        /\ \A c \in Calls : calls[t][c].pc = "idle"
        /\ \A u \in Tokens : Live(u) => u <= expired
        => ~tabs[t].user

=============================================================================
