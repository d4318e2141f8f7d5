----------------------- MODULE BrowserSession_proofs -----------------------
(***************************************************************************)
(* Proofs about BrowserSession, for any number of tabs, page calls,        *)
(* requests and tokens: its types, that the tabs are clients of            *)
(* RefreshTokens, so that what is proved there holds of the browser, that  *)
(* a single tab never presents a token twice, and that every call has      *)
(* somebody to wait for and few steps left.                                *)
(***************************************************************************)
EXTENDS BrowserSession, RefreshTokens_proofs

\* A logout under way has a token to send.
LogoutHasToken ==
    \A t \in Tabs :
        calls[t]["logout"].pc # "idle" \/ calls[t]["logout"].request # NoRequest
            => calls[t]["logout"].token # 0

BrowserIInv ==
    /\ TokensIInv
    /\ ClientTypeOK
    /\ LogoutHasToken

-----------------------------------------------------------------------------
(* Every step of the browser is a step of the server or none               *)

LEMMA ServerSteps ==
  ASSUME BrowserIInv, [Next]_vars
  PROVE  [TokensNext]_tokenVars
<1> USE TokensFromOne DEF BrowserIInv
<1>1. ASSUME NEW t \in Tabs, NEW pair \in Tokens, LoginTab(t, pair) PROVE TokensNext
  BY <1>1 DEF LoginTab, TokensNext
<1>2. ASSUME NEW t \in Tabs, NEW c \in Calls, NEW q \in Requests, StartRefresh(t, c, q)
      PROVE  TokensNext
  <2>1. tabs[t].refresh \in Tokens
    BY <1>2, TokenAssumption DEF StartRefresh, ClientTypeOK, Tab, Tokens
  <2> QED
    BY <1>2, <2>1 DEF StartRefresh, TokensNext
<1>3. ASSUME NEW t \in Tabs, NEW q \in Requests, LogoutSend(t, q) PROVE TokensNext
  <2>1. calls[t]["logout"].token \in Tokens
    BY <1>3, TokenAssumption
    DEF LogoutSend, ClientTypeOK, LogoutHasToken, Calls, Call, Tokens
  <2> QED
    BY <1>3, <2>1 DEF LogoutSend, TokensNext
<1>4. ASSUME NEW q \in Requests, Collect(q) PROVE TokensNext
  BY <1>4 DEF TokensNext
<1>5. ASSUME NEW t \in Tabs, TabNext(t) PROVE [TokensNext]_tokenVars
  <2>1. ASSUME NEW c \in Calls,
               \/ CallServed(t, c) \/ CallRefused(t, c) \/ GiveUp(t, c)
               \/ JoinRefresh(t, c) \/ CallLost(t, c)
        PROVE  UNCHANGED tokenVars
    BY <2>1 DEF CallServed, CallRefused, GiveUp, JoinRefresh, CallLost
  <2>2. ASSUME OpenTab(t) \/ CloseTab(t) \/ (\E c \in Pages : PageCall(t, c))
               \/ RefreshLost(t) \/ Logout(t)
        PROVE  UNCHANGED tokenVars
    BY <2>2 DEF OpenTab, CloseTab, PageCall, RefreshLost, Logout
  <2>3. ASSUME NEW q \in Requests,
               RefreshSucceeds(t, q) \/ RefreshFails(t, q) \/ LogoutAnswered(t, q)
        PROVE  TokensNext
    BY <2>3, <1>4 DEF RefreshSucceeds, RefreshFails, LogoutAnswered
  <2> QED
    BY <1>1, <1>2, <1>3, <1>5, <2>1, <2>2, <2>3 DEF TabNext
<1>6. ASSUME ServerNext PROVE [TokensNext]_tokenVars
  <2>1. ASSUME NEW q \in Requests, Server(q) \/ ServerFails(q) \/ Discard(q)
        PROVE  TokensNext
    BY <2>1 DEF Server, ServerFails, Discard, TokensNext
  <2>2. ASSUME NEW pair \in Tokens, LoginElsewhere(pair) \/ ExpireRefresh(pair)
        PROVE  TokensNext
    BY <2>2 DEF LoginElsewhere, ExpireRefresh, TokensNext
  <2>3. ASSUME NEW pair \in Tokens, ExpireAccess(pair) PROVE UNCHANGED tokenVars
    BY <2>3 DEF ExpireAccess
  <2> QED
    BY <1>6, <2>1, <2>2, <2>3 DEF ServerNext
<1>7. CASE UNCHANGED vars
  BY <1>7 DEF vars, tokenVars
<1> QED
  BY <1>5, <1>6, <1>7 DEF Next

-----------------------------------------------------------------------------
(* What a step of the browser does to tabs and calls                       *)

LEMMA ClientsInitially == Init => ClientTypeOK /\ LogoutHasToken
  BY TokensFromOne, TokenAssumption
  DEF Init, ClientTypeOK, LogoutHasToken, Tab, Closed, Call, NoCall, Calls

TabsOK == tabs' \in [Tabs -> Tab]
CallsOK ==
    /\ calls' \in [Tabs -> [Calls -> Call]]
    /\ LogoutHasToken'

\* Call c of tab t becomes `call', the others stay.
LEMMA OneCall ==
  ASSUME BrowserIInv, NEW t \in Tabs, NEW c \in Calls, NEW call \in Call,
         calls' = [calls EXCEPT ![t][c] = call],
         c = "logout" /\ (call.pc # "idle" \/ call.request # NoRequest) => call.token # 0
  PROVE  CallsOK
<1>1. calls \in [Tabs -> [Calls -> Call]] /\ "logout" \in Calls
  BY DEF BrowserIInv, ClientTypeOK, Calls
<1>2. calls' \in [Tabs -> [Calls -> Call]]
  BY <1>1
<1>3. \A u \in Tabs : calls'[u]["logout"] =
        IF u = t /\ c = "logout" THEN call ELSE calls[u]["logout"]
  BY <1>1
<1> QED
  BY <1>2, <1>3 DEF CallsOK, LogoutHasToken, BrowserIInv

LEMMA NoToken == 0 \in 0..MaxToken
  BY TokenAssumption

LEMMA WithTokensIsTab ==
  ASSUME NEW tab \in Tab, NEW pair \in 0..MaxToken
  PROVE  WithTokens(tab, pair) \in Tab
  BY DEF WithTokens, Tab

LEMMA NoCallIsCall == NoCall \in Call
  BY TokenAssumption DEF NoCall, Call

LEMMA FailSteps ==
  ASSUME BrowserIInv, NEW t \in Tabs, NEW tab \in Tab, NEW failed, Fail(t, tab, failed)
  PROVE  TabsOK /\ CallsOK
<1>1. AfterFailure(tab, failed) \in Tab
  <2>1. WithTokens(tab, 0) \in Tab
    BY NoToken, WithTokensIsTab
  <2>2. ASSUME NEW x \in Tab
        PROVE  [x EXCEPT !.user = @ /\ "logout" \notin failed,
                         !.loading = @ /\ failed \cap Restores = {}] \in Tab
    BY DEF Tab
  <2> QED
    BY <2>1, <2>2 DEF AfterFailure
<1>2. TabsOK
  BY <1>1 DEF TabsOK, Fail, BrowserIInv, ClientTypeOK
<1>3. calls \in [Tabs -> [Calls -> Call]] /\ "logout" \in Calls
  BY DEF BrowserIInv, ClientTypeOK, Calls
<1>4. calls' \in [Tabs -> [Calls -> Call]]
  BY <1>3, NoCallIsCall DEF Fail
<1>5. \A u \in Tabs : calls'[u]["logout"] \in {calls[u]["logout"], NoCall}
  BY <1>3 DEF Fail
<1>6. LogoutHasToken'
  BY <1>5 DEF LogoutHasToken, BrowserIInv, NoCall
<1> QED
  BY <1>2, <1>4, <1>6 DEF CallsOK

LEMMA CallsKept ==
  ASSUME BrowserIInv, UNCHANGED calls
  PROVE  CallsOK
  BY DEF BrowserIInv, ClientTypeOK, CallsOK, LogoutHasToken

LEMMA TabsKept ==
  ASSUME BrowserIInv, UNCHANGED tabs
  PROVE  TabsOK
  BY DEF BrowserIInv, ClientTypeOK, TabsOK

-----------------------------------------------------------------------------
(* Types                                                                   *)

ScalarsOK ==
    /\ stored' \in 0..MaxToken
    /\ accessExpired' \in 0..MaxToken
    /\ undisturbed' \in BOOLEAN

ClientOK == TabsOK /\ CallsOK /\ ScalarsOK

LEMMA TabSteps ==
  ASSUME BrowserIInv, NEW t \in Tabs, TabNext(t)
  PROVE  ClientOK
<1> USE NoToken, TokensFromOne DEF ClientOK, ScalarsOK
<1>1. /\ tabs[t] \in Tab /\ calls[t] \in [Calls -> Call]
      /\ stored \in 0..MaxToken /\ accessExpired \in 0..MaxToken /\ undisturbed \in BOOLEAN
      /\ tabs \in [Tabs -> Tab] /\ calls \in [Tabs -> [Calls -> Call]]
  BY DEF BrowserIInv, ClientTypeOK
<1>2. tabs[t].access \in 0..MaxToken /\ tabs[t].refresh \in 0..MaxToken
  BY <1>1 DEF Tab
<1>3. /\ Calls = {"me", "logout"} \cup Restores \cup Pages
      /\ (Pages \cup Restores) \cap {"me", "logout"} = {}
  BY BrowserAssumption DEF Calls
<1>4. CASE OpenTab(t)
  <2>1. TabsOK
    BY <1>1, <1>4 DEF OpenTab, TabsOK, Tab, Closed
  <2>2. CASE calls' = calls
    BY <1>1, <1>4, <2>1, <2>2, CallsKept DEF OpenTab
  <2>3. CASE calls' = [calls EXCEPT ![t] = [c \in Calls |->
                        IF c \in Restores THEN [NoCall EXCEPT !.pc = "sent"] ELSE @[c]]]
    <3>1. [NoCall EXCEPT !.pc = "sent"] \in Call
      BY DEF NoCall, Call
    <3>2. calls' \in [Tabs -> [Calls -> Call]]
      BY <1>1, <2>3, <3>1
    <3>3. \A u \in Tabs : calls'[u]["logout"] = calls[u]["logout"]
      BY <1>1, <1>3, <2>3
    <3>4. LogoutHasToken'
      BY <3>3 DEF LogoutHasToken, BrowserIInv
    <3> QED
      BY <1>1, <1>4, <2>1, <3>2, <3>4 DEF OpenTab, CallsOK
  <2> QED
    BY <1>4, <2>2, <2>3 DEF OpenTab
<1>5. CASE CloseTab(t)
  <2>1. TabsOK
    BY <1>1, <1>5 DEF CloseTab, TabsOK, Tab, Closed
  <2>2. calls' \in [Tabs -> [Calls -> Call]]
    BY <1>1, <1>5, NoCallIsCall DEF CloseTab
  <2>3. LogoutHasToken'
    BY <1>1, <1>3, <1>5 DEF CloseTab, LogoutHasToken, BrowserIInv, NoCall
  <2> QED
    BY <1>1, <1>5, <2>1, <2>2, <2>3 DEF CloseTab, CallsOK
<1>6. ASSUME NEW pair \in Tokens, LoginTab(t, pair) PROVE ClientOK
  <2>1. TabsOK
    BY <1>1, <1>6, WithTokensIsTab DEF LoginTab, TabsOK
  <2>2. [NoCall EXCEPT !.pc = "sent", !.access = pair] \in Call
    BY DEF NoCall, Call
  <2>3. CallsOK
    BY <1>3, <1>6, <2>2, OneCall DEF LoginTab
  <2> QED
    BY <1>1, <1>6, <2>1, <2>3 DEF LoginTab
<1>7. ASSUME NEW c \in Pages, PageCall(t, c) PROVE ClientOK
  <2>1. [NoCall EXCEPT !.pc = "sent", !.access = tabs[t].access] \in Call
    BY <1>2 DEF NoCall, Call
  <2>2. CallsOK
    BY <1>3, <1>7, <2>1, OneCall DEF PageCall
  <2> QED
    BY <1>1, <1>7, <2>2, TabsKept DEF PageCall
<1>8. ASSUME NEW c \in Calls, CallServed(t, c) PROVE ClientOK
  <2>1. TabsOK
    BY <1>1, <1>8 DEF CallServed, TabsOK, Tab
  <2>2. CallsOK
    BY <1>8, NoCallIsCall, OneCall DEF CallServed
  <2> QED
    BY <1>1, <1>8, <2>1, <2>2 DEF CallServed
<1>9. ASSUME NEW c \in Calls, CallRefused(t, c) PROVE ClientOK
  <2>1. [calls[t][c] EXCEPT !.pc = "refused", !.access = 0] \in Call
    BY <1>1 DEF Call
  <2>2. CallsOK
    BY <1>1, <1>9, <2>1, OneCall DEF CallRefused
  <2> QED
    BY <1>1, <1>9, <2>2, TabsKept DEF CallRefused
<1>10. ASSUME NEW c \in Calls, GiveUp(t, c) \/ CallLost(t, c) PROVE ClientOK
  BY <1>1, <1>10, FailSteps DEF GiveUp, CallLost
<1>11. ASSUME NEW c \in Calls,
              calls' = [calls EXCEPT ![t][c].pc = "waiting"],
              calls[t][c].pc = "refused"
       PROVE  CallsOK
  <2>1. [calls[t][c] EXCEPT !.pc = "waiting"] \in Call
    BY <1>1 DEF Call
  <2>2. calls' = [calls EXCEPT ![t][c] = [calls[t][c] EXCEPT !.pc = "waiting"]]
    BY <1>11
  <2>3. c = "logout" => [calls[t][c] EXCEPT !.pc = "waiting"].token # 0
    BY <1>1, <1>11 DEF Call, BrowserIInv, LogoutHasToken
  <2> QED
    BY <2>1, <2>2, <2>3, OneCall
<1>12. ASSUME NEW c \in Calls, NEW q \in Requests, StartRefresh(t, c, q)
       PROVE  ClientOK
  <2>1. TabsOK
    BY <1>1, <1>12 DEF StartRefresh, TabsOK, Tab
  <2> QED
    BY <1>1, <1>11, <1>12, <2>1 DEF StartRefresh
<1>13. ASSUME NEW c \in Calls, JoinRefresh(t, c) PROVE ClientOK
  BY <1>1, <1>11, <1>13, TabsKept DEF JoinRefresh
<1>14. ASSUME NEW q \in Requests, RefreshSucceeds(t, q) PROVE ClientOK
  <2> DEFINE pair == requests[q].new
  <2>1. pair \in 0..MaxToken
    BY DEF BrowserIInv, TokensIInv, TokensTypeOK, Request
  <2>2. TabsOK
    <3>1. WithTokens(tabs[t], pair) \in Tab
      BY <1>1, <2>1, WithTokensIsTab
    <3>2. [WithTokens(tabs[t], pair) EXCEPT !.promise = NoRequest] \in Tab
      BY <3>1 DEF Tab
    <3> QED
      BY <1>1, <1>14, <3>2 DEF RefreshSucceeds, TabsOK
  <2>3. \A c \in Calls : Resent(t, pair)[c] \in Call
    BY <1>1, <2>1 DEF Resent, Call
  <2>4. calls' \in [Tabs -> [Calls -> Call]]
    BY <1>1, <1>14, <2>3 DEF RefreshSucceeds, Resent
  <2>5. Resent(t, pair)["logout"].pc # "idle"
            \/ Resent(t, pair)["logout"].request # NoRequest
          => Resent(t, pair)["logout"].token # 0
    BY <1>1, <1>3 DEF Resent, Waiting, Call, BrowserIInv, LogoutHasToken
  <2>6. LogoutHasToken'
    BY <1>1, <1>14, <2>5 DEF RefreshSucceeds, BrowserIInv, LogoutHasToken
  <2> QED
    BY <1>1, <1>14, <2>1, <2>2, <2>4, <2>6 DEF RefreshSucceeds, CallsOK
<1>15. ASSUME NEW q \in Requests, RefreshFails(t, q) PROVE ClientOK
  <2>1. WithTokens(tabs[t], 0) \in Tab
    BY <1>1, WithTokensIsTab
  <2>2. [WithTokens(tabs[t], 0) EXCEPT !.promise = NoRequest] \in Tab
    BY <2>1 DEF Tab
  <2> QED
    BY <1>1, <1>15, <2>2, FailSteps DEF RefreshFails
<1>16. CASE RefreshLost(t)
  <2>1. [tabs[t] EXCEPT !.promise = NoRequest] \in Tab
    BY <1>1 DEF Tab
  <2> QED
    BY <1>1, <1>16, <2>1, FailSteps DEF RefreshLost
<1>17. CASE Logout(t)
  <2>1. CASE tabs[t].refresh = 0
    BY <1>1, <1>17, <2>1, FailSteps DEF Logout
  <2>2. CASE tabs[t].refresh # 0
    <3>1. [NoCall EXCEPT !.pc = "ready", !.token = tabs[t].refresh] \in Call
      BY <1>2 DEF NoCall, Call
    <3>2. [NoCall EXCEPT !.pc = "ready", !.token = tabs[t].refresh].token # 0
      BY <2>2 DEF NoCall
    <3>3. CallsOK
      BY <1>3, <1>17, <2>2, <3>1, <3>2, OneCall DEF Logout
    <3> QED
      BY <1>1, <1>17, <2>2, <3>3, TabsKept DEF Logout
  <2> QED
    BY <2>1, <2>2
<1>18. ASSUME NEW q \in Requests, LogoutSend(t, q) PROVE ClientOK
  <2> DEFINE call == [calls[t]["logout"] EXCEPT !.pc = "sent", !.request = q]
  <2>1. call \in Call /\ call.token # 0
    BY <1>1, <1>3, <1>18 DEF LogoutSend, Call, BrowserIInv, LogoutHasToken
  <2>2. CallsOK
    BY <1>1, <1>3, <1>18, <2>1, OneCall DEF LogoutSend
  <2> QED
    BY <1>1, <1>18, <2>2, TabsKept DEF LogoutSend
<1>19. ASSUME NEW q \in Requests, LogoutAnswered(t, q) PROVE ClientOK
  <2>1. CASE requests[q].answer = "expired"
    <3> DEFINE call == [calls[t]["logout"] EXCEPT !.pc = "refused", !.request = NoRequest]
    <3>1. calls[t]["logout"].token # 0
      BY <1>19, BrowserAssumption DEF LogoutAnswered, BrowserIInv, LogoutHasToken
    <3>2. calls[t]["logout"] \in Call
      BY <1>1, <1>3
    <3>3. call \in Call /\ call.token # 0
      BY <3>1, <3>2 DEF Call
    <3>4. CallsOK
      BY <1>1, <1>3, <1>19, <2>1, <3>3, OneCall DEF LogoutAnswered
    <3> QED
      BY <1>1, <1>19, <2>1, <3>4, TabsKept DEF LogoutAnswered
  <2>2. CASE requests[q].answer # "expired"
    BY <1>1, <1>19, <2>2, FailSteps DEF LogoutAnswered
  <2> QED
    BY <2>1, <2>2
<1> QED
  BY <1>4, <1>5, <1>6, <1>7, <1>8, <1>9, <1>10, <1>12, <1>13, <1>14, <1>15, <1>16,
     <1>17, <1>18, <1>19
  DEF TabNext

LEMMA ClientStep ==
  ASSUME BrowserIInv, [Next]_vars
  PROVE  ClientTypeOK' /\ LogoutHasToken'
<1>1. ASSUME NEW t \in Tabs, TabNext(t) PROVE ClientTypeOK' /\ LogoutHasToken'
  BY <1>1, TabSteps
  DEF ClientOK, TabsOK, CallsOK, ScalarsOK, ClientTypeOK
<1>2. CASE UNCHANGED clientVars
  BY <1>2 DEF clientVars, BrowserIInv, ClientTypeOK, LogoutHasToken
<1>3. ASSUME NEW pair \in Tokens, ExpireAccess(pair)
      PROVE  ClientTypeOK' /\ LogoutHasToken'
  BY <1>3, TokensFromOne
  DEF ExpireAccess, BrowserIInv, ClientTypeOK, LogoutHasToken
<1>4. CASE ServerNext
  <2>1. (\E pair \in Tokens : ExpireAccess(pair)) \/ UNCHANGED clientVars
    BY <1>4 DEF ServerNext, Server, ServerFails, Discard, LoginElsewhere, ExpireRefresh
  <2> QED
    BY <1>2, <1>3, <2>1
<1>5. CASE UNCHANGED vars
  BY <1>2, <1>5 DEF vars, clientVars
<1> QED
  BY <1>1, <1>4, <1>5 DEF Next

LEMMA BrowserInductive == Spec => []BrowserIInv
<1>1. Init => BrowserIInv
  BY ClientsInitially, TokensInitially DEF Init, BrowserIInv
<1>2. BrowserIInv /\ [Next]_vars => BrowserIInv'
  BY ServerSteps, ClientStep, TokensStep DEF BrowserIInv
<1> QED
  BY <1>1, <1>2, PTL DEF Spec

(***************************************************************************)
(* Every variable of the browser and the server keeps its type.            *)
(***************************************************************************)
THEOREM BrowserTypeCorrect == Spec => []TypeOK
<1>1. BrowserIInv => TypeOK
  BY DEF BrowserIInv, TokensIInv, TypeOK
<1> QED
  BY <1>1, BrowserInductive, PTL

(***************************************************************************)
(* The tabs do to the server only what any client may do.                  *)
(***************************************************************************)
THEOREM TabsAreClients == Spec => TokensSpec
<1>1. Init => TokensInit
  BY DEF Init
<1>2. BrowserIInv /\ [Next]_vars => [TokensNext]_tokenVars
  BY ServerSteps
<1> QED
  BY <1>1, <1>2, BrowserInductive, PTL DEF Spec, TokensSpec

(***************************************************************************)
(* Whatever the tabs of the browser do, the rows implement the chain of    *)
(* each login.                                                             *)
(***************************************************************************)
THEOREM BrowserImplementsChain == Spec => ImplementsChain
  BY TabsAreClients, TokensImplementChain, PTL

-----------------------------------------------------------------------------
(***************************************************************************)
(* A single tab never presents a token twice.  ReuseIInv says whose answer *)
(* a tab waits for, and, while the browser has had one tab at a time and   *)
(* every answer, that the only refresh on the server is that tab's and     *)
(* nothing else holds a used token.                                        *)
(***************************************************************************)
NotRotated(k) == k # 0 => tokens[k].revoked # "rotation"

\* Whose answer a tab waits for.
PromiseIsRefresh ==
    \A t \in Tabs : tabs[t].promise # NoRequest =>
        /\ requests[tabs[t].promise].op = "refresh"
        /\ \A u \in Tabs : tabs[u].promise = tabs[t].promise => u = t
LogoutAwaitsLogout ==
    \A t \in Tabs : calls[t]["logout"].request # NoRequest
        => /\ requests[calls[t]["logout"].request].op = "logout"
           /\ \A u \in Tabs : calls[u]["logout"].request = calls[t]["logout"].request => u = t
ClosedTabs ==
    \A t \in Tabs : ~tabs[t].open => tabs[t].refresh = 0 /\ tabs[t].promise = NoRequest

OneTab == \A t, u \in Tabs : tabs[t].open /\ tabs[u].open => t = u

\* Every refresh on the server is the one its tab waits for, ...
Owned ==
    \A q \in Requests : requests[q].op = "refresh" => \E t \in Tabs : tabs[t].promise = q

\* ... a browser that waits for none has no used token, ...
Unused ==
    (\A t \in Tabs : tabs[t].promise = NoRequest)
        => NotRotated(stored) /\ \A t \in Tabs : NotRotated(tabs[t].refresh)

\* ... and one that does presents no used token and will get an unused one.
Pending ==
    \A q \in Requests : requests[q].op = "refresh" =>
        /\ requests[q].pc \in {"sent", "locked"} => NotRotated(requests[q].token)
        /\ requests[q].answer = "ok" => NotRotated(requests[q].new)
        /\ requests[q].answer = "revoked" => tokens[requests[q].token].revoked = "logout"

Awaits == PromiseIsRefresh /\ LogoutAwaitsLogout /\ ClosedTabs
SingleUse == OneTab /\ Owned /\ Unused /\ Pending

ReuseIInv ==
    /\ BrowserIInv
    /\ Awaits
    /\ undisturbed => SingleUse

LEMMA ReuseInitially == Init => Awaits /\ SingleUse
  BY DEF Init, TokensInit, Awaits, SingleUse, PromiseIsRefresh, LogoutAwaitsLogout,
         ClosedTabs, OneTab, Owned, Unused, Pending, NotRotated, Closed, Calls, NoCall, Idle

LEMMA ReuseTypes ==
  ASSUME BrowserIInv
  PROVE  /\ \A t \in Tabs : /\ tabs[t] \in Tab /\ calls[t]["logout"] \in Call
                            /\ tabs[t].refresh \in 0..MaxToken
                            /\ tabs[t].promise \in Requests \cup {NoRequest}
                            /\ calls[t]["logout"].request \in Requests \cup {NoRequest}
         /\ tabs \in [Tabs -> Tab] /\ calls \in [Tabs -> [Calls -> Call]]
         /\ "logout" \in Calls
         /\ stored \in 0..MaxToken
         /\ requests \in [Requests -> Request]
         /\ \A q \in Requests : requests[q].token \in 0..MaxToken
                                /\ requests[q].new \in 0..MaxToken
         /\ tokens \in [Tokens -> Row]
         /\ undisturbed \in BOOLEAN
<1>1. /\ tabs \in [Tabs -> Tab] /\ calls \in [Tabs -> [Calls -> Call]]
      /\ "logout" \in Calls
      /\ stored \in 0..MaxToken /\ undisturbed \in BOOLEAN
      /\ requests \in [Requests -> Request] /\ tokens \in [Tokens -> Row]
  BY DEF BrowserIInv, ClientTypeOK, TokensIInv, TokensTypeOK, Calls
<1>2. \A t \in Tabs : tabs[t] \in Tab /\ calls[t]["logout"] \in Call
  BY <1>1
<1>3. \A q \in Requests : requests[q] \in Request
  BY <1>1
<1> QED
  BY <1>1, <1>2, <1>3 DEF Tab, Call, Request

\* What Fail leaves of a tab that has become `tab'.
LEMMA FailKeeps ==
  ASSUME BrowserIInv, NEW t \in Tabs, NEW tab \in Tab, NEW failed, Fail(t, tab, failed)
  PROVE  /\ \A u \in Tabs \ {t} : tabs'[u] = tabs[u]
         /\ tabs'[t].open = tab.open
         /\ tabs'[t].promise = tab.promise
         /\ tabs'[t].refresh \in {tab.refresh, 0}
         /\ \A u \in Tabs : calls'[u]["logout"].request
                                \in {calls[u]["logout"].request, NoRequest}
<1>1. AfterFailure(tab, failed).open = tab.open
      /\ AfterFailure(tab, failed).promise = tab.promise
      /\ AfterFailure(tab, failed).refresh \in {tab.refresh, 0}
  BY DEF AfterFailure, WithTokens, Tab
<1>2. tabs' = [tabs EXCEPT ![t] = AfterFailure(tab, failed)]
  BY DEF Fail
<1>3. \A u \in Tabs : calls'[u]["logout"] \in {calls[u]["logout"], NoCall}
  BY ReuseTypes DEF Fail
<1> QED
  BY <1>1, <1>2, <1>3, ReuseTypes DEF NoCall

\* The server and the promises stay, tokens are at most dropped.
Quiet ==
    /\ UNCHANGED <<tokens, requests, undisturbed>>
    /\ stored' \in {stored, 0}
    /\ \A t \in Tabs : /\ tabs'[t].open = tabs[t].open
                       /\ tabs'[t].promise = tabs[t].promise
                       /\ tabs'[t].refresh \in {tabs[t].refresh, 0}
                       /\ calls'[t]["logout"].request
                            \in {calls[t]["logout"].request, NoRequest}

LEMMA QuietKeeps ==
  ASSUME ReuseIInv, Quiet
  PROVE  Awaits' /\ (undisturbed' => SingleUse')
<1>1. Awaits'
  BY DEF ReuseIInv, Quiet, Awaits, PromiseIsRefresh, LogoutAwaitsLogout, ClosedTabs
<1>2. ASSUME undisturbed PROVE SingleUse'
  BY <1>2 DEF ReuseIInv, Quiet, SingleUse, OneTab, Owned, Unused, Pending, NotRotated
<1> QED
  BY <1>1, <1>2 DEF Quiet

\* Steps of a tab that leave the server and the promises alone.
LEMMA QuietSteps ==
  ASSUME ReuseIInv, NEW t \in Tabs
  PROVE  /\ \A c \in Pages : PageCall(t, c) => Quiet
         /\ \A c \in Calls : CallServed(t, c) \/ CallRefused(t, c) \/ GiveUp(t, c)
                             \/ JoinRefresh(t, c) \/ CallLost(t, c) => Quiet
         /\ Logout(t) => Quiet
<1> USE ReuseTypes DEF ReuseIInv, tokenVars
<1>1. /\ Calls = {"me", "logout"} \cup Restores \cup Pages
      /\ (Pages \cup Restores) \cap {"me", "logout"} = {}
  BY BrowserAssumption DEF Calls
<1>2. ASSUME NEW c \in Pages, PageCall(t, c) PROVE Quiet
  <2>1. c # "logout" /\ c \in Calls
    BY <1>1
  <2>2. \A u \in Tabs : calls'[u]["logout"] = calls[u]["logout"]
    BY <1>2, <2>1 DEF PageCall
  <2> QED
    BY <1>2, <2>2 DEF PageCall, Quiet
<1>3. ASSUME NEW c \in Calls, CallServed(t, c) PROVE Quiet
  <2>1. \A u \in Tabs : calls'[u]["logout"] = calls[u]["logout"]
    BY <1>3 DEF CallServed
  <2>2. \A u \in Tabs : /\ tabs'[u].open = tabs[u].open
                        /\ tabs'[u].promise = tabs[u].promise
                        /\ tabs'[u].refresh = tabs[u].refresh
    BY <1>3 DEF CallServed, Tab
  <2> QED
    BY <1>3, <2>1, <2>2 DEF CallServed, Quiet
<1>4. ASSUME NEW c \in Calls, CallRefused(t, c) PROVE Quiet
  <2>1. \A u \in Tabs : calls'[u]["logout"] = calls[u]["logout"]
    BY <1>4 DEF CallRefused
  <2> QED
    BY <1>4, <2>1 DEF CallRefused, Quiet
<1>5. ASSUME NEW c \in Calls, JoinRefresh(t, c) PROVE Quiet
  <2>1. \A u \in Tabs : calls'[u]["logout"].request = calls[u]["logout"].request
    BY <1>5 DEF JoinRefresh, Call
  <2> QED
    BY <1>5, <2>1 DEF JoinRefresh, Quiet
<1>6. ASSUME NEW failed, Fail(t, tabs[t], failed), stored' \in {stored, 0},
             UNCHANGED <<tokens, requests, undisturbed>>
      PROVE  Quiet
  BY <1>6, FailKeeps DEF Quiet
<1>7. ASSUME NEW c \in Calls, GiveUp(t, c) \/ CallLost(t, c) PROVE Quiet
  BY <1>6, <1>7 DEF GiveUp, CallLost
<1>8. ASSUME Logout(t) PROVE Quiet
  <2>1. CASE tabs[t].refresh = 0
    BY <1>6, <1>8, <2>1 DEF Logout
  <2>2. CASE tabs[t].refresh # 0
    <3>1. \A u \in Tabs : calls'[u]["logout"].request
                            \in {calls[u]["logout"].request, NoRequest}
      <4>1. [NoCall EXCEPT !.pc = "ready", !.token = tabs[t].refresh].request = NoRequest
        BY DEF NoCall
      <4>2. calls' = [calls EXCEPT ![t]["logout"] =
                        [NoCall EXCEPT !.pc = "ready", !.token = tabs[t].refresh]]
        BY <1>8, <2>2 DEF Logout
      <4> QED
        BY <4>1, <4>2
    <3> QED
      BY <1>8, <2>2, <3>1 DEF Logout, Quiet
  <2> QED
    BY <2>1, <2>2
<1> QED
  BY <1>2, <1>3, <1>4, <1>5, <1>7, <1>8

-----------------------------------------------------------------------------
(* Tabs and their requests                                                 *)

ReuseOK == Awaits' /\ (undisturbed' => SingleUse')

LEMMA OpenTabKeeps ==
  ASSUME ReuseIInv, NEW t \in Tabs, OpenTab(t)
  PROVE  ReuseOK
<1> USE ReuseTypes DEF ReuseIInv, OpenTab, tokenVars
<1>1. /\ tabs'[t].open /\ tabs'[t].refresh = stored /\ tabs'[t].promise = NoRequest
      /\ \A u \in Tabs \ {t} : tabs'[u] = tabs[u]
      /\ tabs[t].promise = NoRequest
  BY DEF Closed, Awaits, ClosedTabs
<1>2. \A u \in Tabs : calls'[u]["logout"] = calls[u]["logout"]
  <2>1. "logout" \in Calls \ Restores
    BY BrowserAssumption DEF Calls
  <2> QED
    BY <2>1
<1>3. Awaits'
  <2>1. PromiseIsRefresh' /\ ClosedTabs'
    BY <1>1 DEF Awaits, PromiseIsRefresh, ClosedTabs
  <2>2. UNCHANGED requests
    OBVIOUS
  <2> HIDE DEF OpenTab
  <2>3. LogoutAwaitsLogout'
    BY <1>2, <2>2 DEF Awaits, LogoutAwaitsLogout
  <2> QED
    BY <2>1, <2>3 DEF Awaits
<1>4. ASSUME undisturbed' PROVE SingleUse'
  <2>1. undisturbed /\ SingleUse /\ \A u \in Tabs \ {t} : ~tabs[u].open
    BY <1>4 DEF OtherTabOpen
  <2>2. \A u \in Tabs : tabs[u].promise = NoRequest
    BY <1>1, <2>1 DEF Awaits, ClosedTabs
  <2>3. NotRotated(stored) /\ \A u \in Tabs : NotRotated(tabs[u].refresh)
    BY <2>1, <2>2 DEF SingleUse, Unused
  <2>4. OneTab' /\ Owned' /\ Pending'
    BY <1>1, <2>1, <2>2 DEF SingleUse, OneTab, Owned, Pending, NotRotated
  <2>5. Unused'
    BY <1>1, <2>3 DEF Unused, NotRotated
  <2> QED
    BY <2>4, <2>5 DEF SingleUse
<1> QED
  BY <1>3, <1>4 DEF ReuseOK

LEMMA CloseTabKeeps ==
  ASSUME ReuseIInv, NEW t \in Tabs, CloseTab(t)
  PROVE  ReuseOK
<1> USE ReuseTypes DEF ReuseIInv, CloseTab, tokenVars
<1>1. /\ ~tabs'[t].open /\ tabs'[t].refresh = 0 /\ tabs'[t].promise = NoRequest
      /\ \A u \in Tabs \ {t} : tabs'[u] = tabs[u]
  BY DEF Closed
<1>2. \A u \in Tabs : calls'[u]["logout"] \in {calls[u]["logout"], NoCall}
  OBVIOUS
<1>3. Awaits'
  BY <1>1, <1>2 DEF Awaits, PromiseIsRefresh, LogoutAwaitsLogout, ClosedTabs, NoCall
<1>4. ASSUME undisturbed' PROVE SingleUse'
  <2>1. undisturbed /\ SingleUse
    BY <1>4
  <2>2. \A u \in Tabs : tabs'[u].promise = tabs[u].promise
    BY <1>1, <1>4
  <2>3. UNCHANGED <<tokens, requests, stored>>
    OBVIOUS
  <2>4. OneTab' /\ Owned' /\ Pending'
    BY <1>1, <2>1, <2>2, <2>3 DEF SingleUse, OneTab, Owned, Pending, NotRotated
  <2>5. Unused'
    BY <1>1, <2>1, <2>2, <2>3 DEF SingleUse, Unused, NotRotated
  <2> QED
    BY <2>4, <2>5 DEF SingleUse
<1> QED
  BY <1>3, <1>4 DEF ReuseOK

\* A new token, which nobody waits for or has used.
LEMMA LoginKeeps ==
  ASSUME ReuseIInv, NEW pair \in Tokens, Login(pair)
  PROVE  /\ \A k \in 0..MaxToken : NotRotated(k) => NotRotated(k)'
         /\ NotRotated(pair)'
         /\ Pending => Pending'
<1> USE ReuseTypes DEF ReuseIInv, Login
<1>1. tokens[pair] = NoRow /\ tokens'[pair] = NewRow(pair)
      /\ \A k \in Tokens \ {pair} : tokens'[k] = tokens[k]
  BY DEF Fresh, BrowserIInv, TokensIInv, AbsentTokens
<1>2. tokens'[pair].revoked = "no" /\ tokens[pair].revoked = "no"
  BY <1>1 DEF NewRow, NoRow
<1>3. \A k \in 0..MaxToken : NotRotated(k) => NotRotated(k)'
  BY <1>1, <1>2 DEF NotRotated, Tokens
<1>4. ASSUME Pending PROVE Pending'
  <2>1. ASSUME NEW q \in Requests, requests[q].answer = "revoked",
               tokens[requests[q].token].revoked = "logout"
        PROVE  tokens'[requests[q].token].revoked = "logout"
    <3>1. requests[q].pc # "idle" => requests[q].token \in Tokens
      BY DEF BrowserIInv, TokensIInv, Presented
    <3>2. CASE requests[q].token \in Tokens
      BY <1>1, <1>2, <2>1, <3>2
    <3>3. CASE requests[q].token \notin Tokens
      BY <2>1, <3>3
    <3> QED
      BY <3>2, <3>3
  <2> QED
    BY <1>3, <1>4, <2>1 DEF Pending
<1> QED
  BY <1>2, <1>3, <1>4 DEF NotRotated

LEMMA LoginTabKeeps ==
  ASSUME ReuseIInv, NEW t \in Tabs, NEW pair \in Tokens, LoginTab(t, pair)
  PROVE  ReuseOK
<1> USE ReuseTypes DEF ReuseIInv
<1>1. /\ tabs[t].open /\ Login(pair) /\ stored' = pair
      /\ UNCHANGED <<requests, undisturbed>>
      /\ \A u \in Tabs \ {t} : tabs'[u] = tabs[u]
      /\ tabs'[t] = WithTokens(tabs[t], pair)
  BY DEF LoginTab, Login
<1>2. /\ tabs'[t].open = tabs[t].open /\ tabs'[t].promise = tabs[t].promise
      /\ tabs'[t].refresh = pair
  BY <1>1 DEF WithTokens, Tab
<1>3. \A u \in Tabs : calls'[u]["logout"] = calls[u]["logout"]
  <2>1. "me" \in Calls
    BY DEF Calls
  <2> QED
    BY <2>1 DEF LoginTab
<1>4. Awaits'
  <2>1. PromiseIsRefresh'
    <3>1. \A u \in Tabs : tabs'[u].promise = tabs[u].promise
      BY <1>1, <1>2
    <3> QED
      BY <1>1, <3>1 DEF Awaits, PromiseIsRefresh
  <2>2. LogoutAwaitsLogout'
    BY <1>1, <1>3 DEF Awaits, LogoutAwaitsLogout
  <2>3. ClosedTabs'
    BY <1>1, <1>2 DEF Awaits, ClosedTabs
  <2> QED
    BY <2>1, <2>2, <2>3 DEF Awaits
<1>5. ASSUME undisturbed' PROVE SingleUse'
  <2>1. undisturbed /\ SingleUse
    BY <1>1, <1>5
  <2>2. OneTab' /\ Owned' /\ Pending'
    <3>1. \A u \in Tabs : tabs'[u].open = tabs[u].open /\ tabs'[u].promise = tabs[u].promise
      BY <1>1, <1>2
    <3>2. OneTab'
      BY <2>1, <3>1 DEF SingleUse, OneTab
    <3>3. Owned'
      BY <1>1, <2>1, <3>1 DEF SingleUse, Owned
    <3>4. Pending'
      BY <1>1, <2>1, LoginKeeps DEF SingleUse
    <3> QED
      BY <3>2, <3>3, <3>4
  <2>3. \A u \in Tabs \ {t} : tabs'[u].refresh = 0
    BY <1>1, <2>1 DEF SingleUse, OneTab, Awaits, ClosedTabs
  <2>4. Unused'
    BY <1>1, <1>2, <2>3, LoginKeeps DEF Unused, NotRotated
  <2> QED
    BY <2>2, <2>4 DEF SingleUse
<1> QED
  BY <1>4, <1>5 DEF ReuseOK

LEMMA StartRefreshKeeps ==
  ASSUME ReuseIInv, NEW t \in Tabs, NEW c \in Calls, NEW q \in Requests,
         StartRefresh(t, c, q)
  PROVE  ReuseOK
<1> USE ReuseTypes DEF ReuseIInv
<1>1. /\ tabs[t].refresh # 0 /\ tabs[t].promise = NoRequest
      /\ tabs' = [tabs EXCEPT ![t].promise = q]
      /\ requests[q] = Idle
      /\ requests' = [requests EXCEPT ![q] =
            [Idle EXCEPT !.op = "refresh", !.pc = "sent", !.token = tabs[t].refresh]]
      /\ UNCHANGED <<tokens, stored, undisturbed>>
  BY DEF StartRefresh, Send
<1>2. /\ \A u \in Tabs \ {t} : tabs'[u] = tabs[u]
      /\ tabs'[t].open = tabs[t].open /\ tabs'[t].promise = q
      /\ tabs'[t].refresh = tabs[t].refresh
  BY <1>1 DEF Tab
<1>3. /\ \A r \in Requests \ {q} : requests'[r] = requests[r]
      /\ requests'[q].op = "refresh" /\ requests'[q].answer = "none"
      /\ requests'[q].token = tabs[t].refresh
      /\ requests[q].op = "none"
  BY <1>1 DEF Idle
<1>4. \A u \in Tabs : calls'[u]["logout"].request = calls[u]["logout"].request
  BY DEF StartRefresh, Call
<1>5. q # NoRequest /\ tabs[t].open
  BY <1>1, BrowserAssumption DEF Awaits, ClosedTabs
<1>6. Awaits'
  <2>1. PromiseIsRefresh'
    <3>1. \A u \in Tabs : tabs[u].promise # q
      BY <1>3, <1>5 DEF Awaits, PromiseIsRefresh
    <3>2. \A u \in Tabs : tabs'[u].promise # NoRequest
            => requests'[tabs'[u].promise].op = "refresh"
      BY <1>2, <1>3, <3>1 DEF Awaits, PromiseIsRefresh
    <3>3. \A u, v \in Tabs :
            tabs'[u].promise # NoRequest /\ tabs'[v].promise = tabs'[u].promise => v = u
      BY <1>2, <3>1 DEF Awaits, PromiseIsRefresh
    <3> QED
      BY <3>2, <3>3 DEF PromiseIsRefresh
  <2>2. LogoutAwaitsLogout'
    BY <1>3, <1>4 DEF Awaits, LogoutAwaitsLogout
  <2>3. ClosedTabs'
    BY <1>2, <1>5 DEF Awaits, ClosedTabs
  <2> QED
    BY <2>1, <2>2, <2>3 DEF Awaits
<1>7. ASSUME undisturbed' PROVE SingleUse'
  <2>1. SingleUse
    BY <1>1, <1>7
  <2>2. \A u \in Tabs : tabs[u].promise = NoRequest
    BY <1>1, <1>5, <2>1 DEF SingleUse, OneTab, Awaits, ClosedTabs
  <2>3. NotRotated(tabs[t].refresh)
    BY <2>1, <2>2 DEF SingleUse, Unused
  <2>4. OneTab'
    BY <1>2, <2>1 DEF SingleUse, OneTab
  <2>5. Owned'
    <3>1. \A r \in Requests \ {q} : requests[r].op # "refresh"
      BY <1>5, <2>1, <2>2, BrowserAssumption DEF SingleUse, Owned
    <3> QED
      BY <1>2, <1>3, <3>1 DEF Owned
  <2>6. Unused'
    BY <1>2, <1>5 DEF Unused
  <2>7. Pending'
    BY <1>1, <1>3, <2>1, <2>3 DEF SingleUse, Pending, NotRotated
  <2> QED
    BY <2>4, <2>5, <2>6, <2>7 DEF SingleUse
<1> QED
  BY <1>6, <1>7 DEF ReuseOK

LEMMA LogoutSendKeeps ==
  ASSUME ReuseIInv, NEW t \in Tabs, NEW q \in Requests, LogoutSend(t, q)
  PROVE  ReuseOK
<1> USE ReuseTypes DEF ReuseIInv
<1>1. /\ UNCHANGED <<tokens, tabs, stored, undisturbed>>
      /\ requests[q].op = "none" /\ requests'[q].op = "logout"
      /\ \A r \in Requests \ {q} : requests'[r] = requests[r]
  BY DEF LogoutSend, Send, Idle
<1>2. /\ \A u \in Tabs \ {t} : calls'[u]["logout"] = calls[u]["logout"]
      /\ calls'[t]["logout"].request = q
  BY DEF LogoutSend, Call
<1>3. Awaits'
  <2>1. PromiseIsRefresh' /\ ClosedTabs'
    BY <1>1 DEF Awaits, PromiseIsRefresh, ClosedTabs
  <2>2. LogoutAwaitsLogout'
    <3>1. \A u \in Tabs : calls[u]["logout"].request # q
      BY <1>1, BrowserAssumption DEF Awaits, LogoutAwaitsLogout
    <3>2. \A u \in Tabs : calls'[u]["logout"].request # NoRequest
            => requests'[calls'[u]["logout"].request].op = "logout"
      BY <1>1, <1>2, <3>1 DEF Awaits, LogoutAwaitsLogout
    <3>3. \A u, v \in Tabs :
            /\ calls'[u]["logout"].request # NoRequest
            /\ calls'[v]["logout"].request = calls'[u]["logout"].request
            => v = u
      BY <1>2, <3>1 DEF Awaits, LogoutAwaitsLogout
    <3> QED
      BY <3>2, <3>3 DEF LogoutAwaitsLogout
  <2> QED
    BY <2>1, <2>2 DEF Awaits
<1>4. ASSUME undisturbed' PROVE SingleUse'
  <2>1. SingleUse
    BY <1>1, <1>4
  <2>2. OneTab' /\ Unused'
    BY <1>1, <2>1 DEF SingleUse, OneTab, Unused, NotRotated
  <2>3. Owned'
    BY <1>1, <2>1 DEF SingleUse, Owned
  <2>4. Pending'
    BY <1>1, <2>1 DEF SingleUse, Pending, NotRotated
  <2> QED
    BY <2>2, <2>3, <2>4 DEF SingleUse
<1> QED
  BY <1>3, <1>4 DEF ReuseOK

\* The answer of the logout or the abandoned request q is taken off.
LEMMA CollectKeeps ==
  ASSUME ReuseIInv, NEW q \in Requests, Collect(q),
         \A t \in Tabs : tabs'[t].promise = tabs[t].promise /\ tabs[t].promise # q,
         \A t \in Tabs : tabs'[t].open = tabs[t].open
                         /\ tabs'[t].refresh \in {tabs[t].refresh, 0},
         \A t \in Tabs : calls'[t]["logout"].request
                            \in {calls[t]["logout"].request, NoRequest} \ {q},
         stored' \in {stored, 0}, UNCHANGED undisturbed
  PROVE  ReuseOK
<1> USE ReuseTypes DEF ReuseIInv
<1>1. /\ UNCHANGED tokens
      /\ requests'[q].op = "none"
      /\ \A r \in Requests \ {q} : requests'[r] = requests[r]
  BY DEF Collect, Idle
<1>2. Awaits'
  <2>1. PromiseIsRefresh'
    BY <1>1 DEF Awaits, PromiseIsRefresh
  <2>2. LogoutAwaitsLogout'
    <3> SUFFICES ASSUME NEW t \in Tabs, calls'[t]["logout"].request # NoRequest
                 PROVE  /\ requests'[calls'[t]["logout"].request].op = "logout"
                        /\ \A u \in Tabs : calls'[u]["logout"].request
                                = calls'[t]["logout"].request => u = t
      BY DEF LogoutAwaitsLogout
    <3>1. calls'[t]["logout"].request = calls[t]["logout"].request
          /\ calls[t]["logout"].request \in Requests \ {q}
      OBVIOUS
    <3>2. \A u \in Tabs : calls'[u]["logout"].request = calls[t]["logout"].request
                => calls[u]["logout"].request = calls[t]["logout"].request
      BY <3>1
    <3> QED
      BY <1>1, <3>1, <3>2 DEF Awaits, LogoutAwaitsLogout
  <2>3. ClosedTabs'
    BY DEF Awaits, ClosedTabs
  <2> QED
    BY <2>1, <2>2, <2>3 DEF Awaits
<1>3. ASSUME undisturbed PROVE SingleUse'
  <2>1. OneTab'
    BY <1>3 DEF SingleUse, OneTab
  <2>3. Owned'
    <3> SUFFICES ASSUME NEW r \in Requests, requests'[r].op = "refresh"
                 PROVE  \E t \in Tabs : tabs'[t].promise = r
      BY DEF Owned
    <3>1. requests[r].op = "refresh"
      BY <1>1
    <3>2. PICK t \in Tabs : tabs[t].promise = r
      BY <1>3, <3>1 DEF SingleUse, Owned
    <3> QED
      BY <3>2
  <2>4. Unused'
    BY <1>1, <1>3 DEF SingleUse, Unused, NotRotated
  <2>2. Pending'
    BY <1>1, <1>3 DEF SingleUse, Pending, NotRotated
  <2> QED
    BY <2>1, <2>2, <2>3, <2>4 DEF SingleUse
<1> QED
  BY <1>2, <1>3 DEF ReuseOK

\* The answer of refresh q reaches tab t, which then has the token stored or none.
LEMMA AnswerKeeps ==
  ASSUME ReuseIInv, NEW t \in Tabs, NEW q \in Requests, Collect(q),
         tabs[t].promise = q,
         \A u \in Tabs \ {t} : tabs'[u] = tabs[u],
         tabs'[t].open = tabs[t].open,
         tabs'[t].promise = NoRequest, tabs'[t].refresh = stored',
         stored' \in 0..MaxToken, undisturbed => NotRotated(stored'),
         \A u \in Tabs : calls'[u]["logout"].request
                            \in {calls[u]["logout"].request, NoRequest},
         UNCHANGED undisturbed
  PROVE  ReuseOK
<1> USE ReuseTypes DEF ReuseIInv
<1>1. /\ UNCHANGED tokens
      /\ requests'[q].op = "none"
      /\ \A r \in Requests \ {q} : requests'[r] = requests[r]
  BY DEF Collect, Idle
<1>2. q # NoRequest /\ requests[q].op = "refresh" /\ tabs[t].open
  BY BrowserAssumption DEF Awaits, PromiseIsRefresh, ClosedTabs
<1>3. Awaits'
  <2>1. PromiseIsRefresh'
    <3>1. \A u \in Tabs \ {t} : tabs[u].promise # q
      BY <1>2 DEF Awaits, PromiseIsRefresh
    <3>2. \A u \in Tabs : tabs'[u].promise # NoRequest =>
            u # t /\ requests'[tabs'[u].promise].op = "refresh"
      BY <1>1, <3>1 DEF Awaits, PromiseIsRefresh
    <3>3. \A u, v \in Tabs :
            tabs'[u].promise # NoRequest /\ tabs'[v].promise = tabs'[u].promise => v = u
      BY DEF Awaits, PromiseIsRefresh
    <3> QED
      BY <3>2, <3>3 DEF PromiseIsRefresh
  <2>2. LogoutAwaitsLogout'
    <3>1. \A u \in Tabs : calls[u]["logout"].request # q
      BY <1>2 DEF Awaits, LogoutAwaitsLogout
    <3>2. \A u \in Tabs : calls'[u]["logout"].request # NoRequest =>
            /\ calls'[u]["logout"].request = calls[u]["logout"].request
            /\ requests'[calls'[u]["logout"].request].op = "logout"
      BY <1>1, <3>1 DEF Awaits, LogoutAwaitsLogout
    <3>3. \A u, v \in Tabs :
            /\ calls'[u]["logout"].request # NoRequest
            /\ calls'[v]["logout"].request = calls'[u]["logout"].request
            => v = u
      BY <3>2 DEF Awaits, LogoutAwaitsLogout
    <3> QED
      BY <3>2, <3>3 DEF LogoutAwaitsLogout
  <2>3. ClosedTabs'
    BY <1>2 DEF Awaits, ClosedTabs
  <2> QED
    BY <2>1, <2>2, <2>3 DEF Awaits
<1>4. ASSUME undisturbed PROVE SingleUse'
  <2>1. \A u \in Tabs \ {t} : ~tabs[u].open
    BY <1>2, <1>4 DEF SingleUse, OneTab
  <2>2. \A u \in Tabs \ {t} : tabs[u].refresh = 0 /\ tabs[u].promise = NoRequest
    BY <2>1 DEF Awaits, ClosedTabs
  <2>3. \A r \in Requests \ {q} : requests[r].op # "refresh"
    BY <1>4, <2>2, BrowserAssumption DEF SingleUse, Owned
  <2>4. \A r \in Requests : requests'[r].op # "refresh"
    BY <1>1, <2>3
  <2>5. OneTab'
    BY <2>1 DEF OneTab
  <2>6. Owned' /\ Pending'
    BY <2>4 DEF Owned, Pending
  <2>7. Unused'
    BY <1>1, <1>4, <2>2 DEF Unused, NotRotated
  <2> QED
    BY <2>5, <2>6, <2>7 DEF SingleUse
<1> QED
  BY <1>3, <1>4 DEF ReuseOK

LEMMA RefreshSucceedsKeeps ==
  ASSUME ReuseIInv, NEW t \in Tabs, NEW q \in Requests, RefreshSucceeds(t, q)
  PROVE  ReuseOK
<1> USE ReuseTypes DEF ReuseIInv
<1> DEFINE pair == requests[q].new
<1>1. /\ tabs[t].promise = q /\ requests[q].answer = "ok" /\ Collect(q)
      /\ stored' = pair /\ UNCHANGED undisturbed
      /\ tabs' = [tabs EXCEPT ![t] = [WithTokens(@, pair) EXCEPT !.promise = NoRequest]]
      /\ calls' = [calls EXCEPT ![t] = Resent(t, pair)]
  BY DEF RefreshSucceeds
<1>2. /\ tabs'[t].open = tabs[t].open /\ tabs'[t].promise = NoRequest
      /\ tabs'[t].refresh = pair
      /\ \A u \in Tabs \ {t} : tabs'[u] = tabs[u]
  BY <1>1 DEF WithTokens, Tab
<1>3. \A u \in Tabs : calls'[u]["logout"].request = calls[u]["logout"].request
  <2>1. Resent(t, pair)["logout"].request = calls[t]["logout"].request
    BY DEF Resent, Call
  <2> QED
    BY <1>1, <2>1
<1>4. undisturbed => NotRotated(pair)
  BY <1>1, BrowserAssumption
  DEF SingleUse, Pending, Awaits, PromiseIsRefresh
<1>5. undisturbed => NotRotated(stored')
  BY <1>1, <1>4
<1> QED
  BY <1>1, <1>2, <1>3, <1>5, AnswerKeeps

LEMMA RefreshFailsKeeps ==
  ASSUME ReuseIInv, NEW t \in Tabs, NEW q \in Requests, RefreshFails(t, q)
  PROVE  ReuseOK
<1> USE ReuseTypes DEF ReuseIInv
<1> DEFINE tab == [WithTokens(tabs[t], 0) EXCEPT !.promise = NoRequest]
<1>1. /\ tabs[t].promise = q /\ Collect(q) /\ Fail(t, tab, Waiting(t))
      /\ stored' = 0 /\ UNCHANGED undisturbed
  BY DEF RefreshFails
<1>2. tab \in Tab /\ tab.open = tabs[t].open /\ tab.promise = NoRequest /\ tab.refresh = 0
  BY NoToken DEF WithTokens, Tab
<1>3. NotRotated(stored')
  BY <1>1 DEF NotRotated
<1> QED
  BY <1>1, <1>2, <1>3, NoToken, FailKeeps, AnswerKeeps

LEMMA RefreshLostKeeps ==
  ASSUME ReuseIInv, NEW t \in Tabs, RefreshLost(t)
  PROVE  ReuseOK
<1> USE ReuseTypes DEF ReuseIInv, tokenVars
<1> DEFINE tab == [tabs[t] EXCEPT !.promise = NoRequest]
<1>1. Fail(t, tab, Waiting(t)) /\ ~undisturbed' /\ UNCHANGED requests
  BY DEF RefreshLost
<1>2. tab \in Tab /\ tab.open = tabs[t].open /\ tab.promise = NoRequest
      /\ tab.refresh = tabs[t].refresh
  BY DEF Tab
<1>3. /\ \A u \in Tabs \ {t} : tabs'[u] = tabs[u]
      /\ tabs'[t].open = tabs[t].open /\ tabs'[t].promise = NoRequest
      /\ tabs'[t].refresh \in {tabs[t].refresh, 0}
      /\ \A u \in Tabs : calls'[u]["logout"].request
                            \in {calls[u]["logout"].request, NoRequest}
  BY <1>1, <1>2, FailKeeps
<1>4. PromiseIsRefresh'
  <2>1. \A u \in Tabs : tabs'[u].promise # NoRequest =>
            tabs'[u].promise = tabs[u].promise /\ requests'[tabs'[u].promise].op = "refresh"
    BY <1>1, <1>3 DEF Awaits, PromiseIsRefresh
  <2>2. \A u, v \in Tabs :
            tabs'[u].promise # NoRequest /\ tabs'[v].promise = tabs'[u].promise => v = u
    BY <2>1 DEF Awaits, PromiseIsRefresh
  <2> QED
    BY <2>1, <2>2 DEF PromiseIsRefresh
<1>5. LogoutAwaitsLogout'
  BY <1>1, <1>3, SMTT(60) DEF Awaits, LogoutAwaitsLogout
<1>6. ClosedTabs'
  BY <1>3 DEF Awaits, ClosedTabs
<1> QED
  BY <1>1, <1>4, <1>5, <1>6 DEF ReuseOK, Awaits

LEMMA LogoutAnsweredKeeps ==
  ASSUME ReuseIInv, NEW t \in Tabs, NEW q \in Requests, LogoutAnswered(t, q)
  PROVE  ReuseOK
<1> USE ReuseTypes DEF ReuseIInv
<1>1. calls[t]["logout"].request = q /\ Collect(q) /\ UNCHANGED undisturbed
  BY DEF LogoutAnswered
<1>2. q # NoRequest /\ requests[q].op = "logout"
  BY <1>1, BrowserAssumption DEF Awaits, LogoutAwaitsLogout
<1>3. /\ \A u \in Tabs : tabs[u].promise # q
      /\ \A u \in Tabs \ {t} : calls[u]["logout"].request # q
  BY <1>1, <1>2 DEF Awaits, PromiseIsRefresh, LogoutAwaitsLogout
<1>4. CASE requests[q].answer = "expired"
  <2>1. UNCHANGED <<tabs, stored>>
        /\ calls' = [calls EXCEPT ![t]["logout"] =
                    [@ EXCEPT !.pc = "refused", !.request = NoRequest]]
    BY <1>4 DEF LogoutAnswered
  <2>2. /\ calls'[t]["logout"].request = NoRequest
        /\ \A u \in Tabs \ {t} : calls'[u]["logout"] = calls[u]["logout"]
    BY <2>1 DEF Call
  <2> QED
    BY <1>1, <1>2, <1>3, <2>1, <2>2, CollectKeeps
<1>5. CASE requests[q].answer # "expired"
  <2>1. Fail(t, tabs[t], {"logout"}) /\ stored' = 0
    BY <1>5 DEF LogoutAnswered
  <2>2. calls'[t]["logout"].request = NoRequest
    BY <2>1 DEF Fail, NoCall
  <2>3. /\ \A u \in Tabs : tabs'[u].promise = tabs[u].promise
                           /\ tabs'[u].open = tabs[u].open
                           /\ tabs'[u].refresh \in {tabs[u].refresh, 0}
        /\ \A u \in Tabs : calls'[u]["logout"].request
                            \in {calls[u]["logout"].request, NoRequest}
    BY <2>1, FailKeeps
  <2> QED
    BY <1>1, <1>2, <1>3, <2>1, <2>2, <2>3, CollectKeeps
<1> QED
  BY <1>4, <1>5

-----------------------------------------------------------------------------
(* The server                                                              *)

\* A step of request q that the tabs do not see.
LEMMA RequestStepKeeps ==
  ASSUME ReuseIInv, NEW q \in Requests, UNCHANGED clientVars,
         requests'[q].op = requests[q].op,
         \A r \in Requests \ {q} : requests'[r] = requests[r],
         undisturbed /\ SingleUse => Unused' /\ Pending'
  PROVE  ReuseOK
<1> USE ReuseTypes DEF ReuseIInv, clientVars
<1>1. \A r \in Requests : requests'[r].op = requests[r].op
  OBVIOUS
<1>2. Awaits'
  BY <1>1 DEF Awaits, PromiseIsRefresh, LogoutAwaitsLogout, ClosedTabs
<1>3. ASSUME undisturbed PROVE SingleUse'
  BY <1>1, <1>3 DEF SingleUse, OneTab, Owned
<1> QED
  BY <1>2, <1>3 DEF ReuseOK

LEMMA ReadKeeps ==
  ASSUME ReuseIInv, NEW q \in Requests, UNCHANGED clientVars,
         RefreshRead(q) \/ LogoutDecode(q) \/ LogoutRead(q) \/ RequestFail(q)
  PROVE  ReuseOK
<1> USE ReuseTypes DEF ReuseIInv, clientVars
<1>0. requests[q] \in Request
  OBVIOUS
<1>1. /\ UNCHANGED tokens
      /\ \A r \in Requests \ {q} : requests'[r] = requests[r]
      /\ requests'[q].op = requests[q].op
      /\ requests'[q].token = requests[q].token /\ requests'[q].new = requests[q].new
      /\ requests[q].pc \in {"sent", "decoded", "locked"}
  <2> DEFINE Same(r) == r.op = requests[q].op /\ r.token = requests[q].token
                        /\ r.new = requests[q].new
             Become(r) == UNCHANGED tokens /\ requests' = [requests EXCEPT ![q] = r]
  <2>1. (\A pc : Same([requests[q] EXCEPT !.pc = pc]))
        /\ \A answer : Same(Answered(requests[q], answer))
    BY <1>0 DEF Answered, Request
  <2>2. \E r : Same(r) /\ Become(r)
    <3>1. CASE RefreshRead(q)
      BY <2>1, <3>1 DEF RefreshRead
    <3>2. CASE LogoutRead(q)
      BY <2>1, <3>2 DEF LogoutRead
    <3>3. CASE RequestFail(q)
      BY <2>1, <3>3 DEF RequestFail
    <3>4. CASE LogoutDecode(q)
      BY <2>1, <3>4 DEF LogoutDecode
    <3> QED
      BY <3>1, <3>2, <3>3, <3>4
  <2>3. requests[q].pc \in {"sent", "decoded", "locked"}
    BY DEF RefreshRead, LogoutDecode, LogoutRead, RequestFail
  <2> QED
    BY <2>2, <2>3
<1>2. requests[q].op = "refresh" =>
        \/ /\ requests[q].pc = "sent" /\ requests'[q].pc = "locked"
           /\ requests'[q].answer = requests[q].answer
        \/ requests'[q].pc = "answered" /\ requests'[q].answer \in {"expired", "error"}
        \/ /\ requests'[q].pc = "answered" /\ requests'[q].answer = "revoked"
           /\ requests[q].pc = "sent" /\ tokens[requests[q].token].revoked # "no"
  <2>1. CASE RefreshRead(q)
    BY <1>0, <2>1 DEF RefreshRead, RefreshVerdict, Answered, Request
  <2>2. CASE LogoutDecode(q) \/ LogoutRead(q)
    BY <2>2 DEF LogoutDecode, LogoutRead
  <2>3. CASE RequestFail(q)
    BY <1>0, <2>3 DEF RequestFail, Answered, Request
  <2> QED
    BY <2>1, <2>2, <2>3
<1>3. requests[q].token \in Tokens
  BY <1>1 DEF BrowserIInv, TokensIInv, Presented
<1>4. tokens[requests[q].token].revoked \in {"no", "rotation", "logout"}
      /\ requests[q].token # 0
  BY <1>3, TokensFromOne DEF Row
<1>5. ASSUME undisturbed, SingleUse PROVE Unused' /\ Pending'
  <2>1. Unused'
    BY <1>1, <1>5 DEF SingleUse, Unused, NotRotated
  <2>2. ASSUME NEW r \in Requests, requests'[r].op = "refresh"
        PROVE  /\ requests'[r].pc \in {"sent", "locked"} => NotRotated(requests[r].token)
               /\ requests'[r].answer = "ok" => NotRotated(requests[r].new)
               /\ requests'[r].answer = "revoked"
                    => tokens[requests[r].token].revoked = "logout"
    <3>1. requests[r].op = "refresh"
      BY <1>1, <2>2
    <3>2. CASE r = q
      BY <1>1, <1>2, <1>4, <1>5, <3>1, <3>2 DEF SingleUse, Pending, NotRotated
    <3>3. CASE r # q
      BY <1>1, <1>5, <3>1, <3>3 DEF SingleUse, Pending
    <3> QED
      BY <3>2, <3>3
  <2>3. \A r \in Requests : requests'[r].token = requests[r].token
                            /\ requests'[r].new = requests[r].new
    BY <1>1
  <2>4. Pending'
    BY <1>1, <2>2, <2>3 DEF Pending, NotRotated
  <2> QED
    BY <2>1, <2>4
<1> QED
  BY <1>1, <1>5, RequestStepKeeps

\* Only one refresh is under way: no other one rotates or gets a token.
LEMMA RefreshCommitKeeps ==
  ASSUME ReuseIInv, NEW q \in Requests, UNCHANGED clientVars,
         NEW k \in Tokens, RefreshCommit(q, k)
  PROVE  ReuseOK
<1> USE ReuseTypes DEF ReuseIInv, clientVars
<1> DEFINE used == requests[q].token
<1>1. /\ requests[q].pc = "locked" /\ requests[q].op = "refresh" /\ ~tokens[k].issued
      /\ tokens' = [tokens EXCEPT ![used].revoked = "rotation",
                                  ![k] = NewRow(tokens[used].login)]
      /\ requests' = [requests EXCEPT ![q] = [Answered(@, "ok") EXCEPT !.new = k]]
  BY DEF RefreshCommit, Fresh
<1>2. /\ \A r \in Requests \ {q} : requests'[r] = requests[r]
      /\ requests'[q].op = "refresh" /\ requests'[q].pc = "answered"
      /\ requests'[q].answer = "ok" /\ requests'[q].new = k
  BY <1>1 DEF Answered, Request
<1>3. tokens'[k].revoked = "no"
  BY <1>1 DEF NewRow
<1>4. ASSUME undisturbed, SingleUse PROVE Unused' /\ Pending'
  <2>1. PICK t \in Tabs : tabs[t].promise = q
    BY <1>1, <1>4 DEF SingleUse, Owned
  <2>2. tabs[t].open /\ q # NoRequest
    BY <2>1, BrowserAssumption DEF Awaits, ClosedTabs
  <2>3. \A r \in Requests \ {q} : requests[r].op # "refresh"
    <3> SUFFICES ASSUME NEW r \in Requests, requests[r].op = "refresh" PROVE r = q
      OBVIOUS
    <3>1. PICK u \in Tabs : tabs[u].promise = r
      BY <1>4 DEF SingleUse, Owned
    <3>2. tabs[u].open
      BY <3>1, BrowserAssumption DEF Awaits, ClosedTabs
    <3> QED
      BY <1>4, <2>1, <2>2, <3>1, <3>2 DEF SingleUse, OneTab
  <2>4. Unused'
    BY <2>1, <2>2 DEF Unused
  <2>5. Pending'
    BY <1>2, <1>3, <2>3 DEF Pending, NotRotated
  <2> QED
    BY <2>4, <2>5
<1> QED
  BY <1>1, <1>2, <1>4, RequestStepKeeps

LEMMA LogoutCommitKeeps ==
  ASSUME ReuseIInv, NEW q \in Requests, UNCHANGED clientVars, LogoutCommit(q)
  PROVE  ReuseOK
<1> USE ReuseTypes DEF ReuseIInv, clientVars
<1>1. /\ requests[q].op = "logout" /\ requests'[q].op = "logout"
      /\ \A r \in Requests \ {q} : requests'[r] = requests[r]
  BY DEF LogoutCommit, Answered, Request
<1>2. \A k \in Tokens : tokens'[k].revoked \in {tokens[k].revoked, "logout"}
  BY DEF LogoutCommit, Row
<1>3. \A k \in 0..MaxToken : NotRotated(k) => NotRotated(k)'
  BY <1>2 DEF NotRotated, Tokens
<1>4. \A r \in Requests : tokens[requests[r].token].revoked = "logout"
                          /\ requests[r].op = "refresh"
                            => tokens'[requests[r].token].revoked = "logout"
  <2> SUFFICES ASSUME NEW r \in Requests, requests[r].token \notin Tokens,
                      tokens[requests[r].token].revoked = "logout"
               PROVE  tokens'[requests[r].token].revoked = "logout"
    BY <1>2
  <2> QED
    BY DEF LogoutCommit
<1>5. ASSUME undisturbed, SingleUse PROVE Unused' /\ Pending'
  <2>1. Unused'
    BY <1>3, <1>5 DEF SingleUse, Unused, NotRotated
  <2>2. Pending'
    BY <1>1, <1>3, <1>4, <1>5 DEF SingleUse, Pending, NotRotated
  <2> QED
    BY <2>1, <2>2
<1> QED
  BY <1>1, <1>5, RequestStepKeeps

LEMMA ServerKeeps ==
  ASSUME ReuseIInv, ServerNext
  PROVE  ReuseOK
<1> USE ReuseTypes DEF ReuseIInv
<1>1. ASSUME NEW q \in Requests, Server(q) PROVE ReuseOK
  BY <1>1, ReadKeeps, RefreshCommitKeeps, LogoutCommitKeeps DEF Server, ServerStep
<1>2. ASSUME NEW q \in Requests, ServerFails(q) PROVE ReuseOK
  BY <1>2, ReadKeeps DEF ServerFails
<1>3. ASSUME NEW q \in Requests, Discard(q) PROVE ReuseOK
  <2>1. /\ Collect(q) /\ UNCHANGED clientVars
        /\ \A t \in Tabs : tabs[t].promise # q /\ calls[t]["logout"].request # q
    BY <1>3 DEF Discard, Awaited
  <2> QED
    BY <2>1, CollectKeeps DEF clientVars
<1>4. ASSUME NEW pair \in Tokens, LoginElsewhere(pair) PROVE ReuseOK
  <2>1. UNCHANGED <<requests, tabs, calls, stored, undisturbed>> /\ Login(pair)
    BY <1>4 DEF LoginElsewhere, Login, clientVars
  <2>2. Awaits'
    BY <2>1 DEF Awaits, PromiseIsRefresh, LogoutAwaitsLogout, ClosedTabs
  <2>3. ASSUME undisturbed PROVE SingleUse'
    <3>1. \A k \in 0..MaxToken : NotRotated(k) => NotRotated(k)'
      BY <2>1, LoginKeeps
    <3>2. Pending'
      BY <2>1, <2>3, LoginKeeps DEF SingleUse
    <3>3. Unused'
      BY <2>1, <2>3, <3>1 DEF SingleUse, Unused, NotRotated
    <3> QED
      BY <2>1, <2>3, <3>2, <3>3 DEF SingleUse, OneTab, Owned
  <2> QED
    BY <2>1, <2>2, <2>3 DEF ReuseOK
<1>5. ASSUME NEW pair \in Tokens, ExpireAccess(pair) \/ ExpireRefresh(pair)
      PROVE  ReuseOK
  <2>1. Quiet
    BY <1>5 DEF ExpireAccess, ExpireRefresh, Expire, tokenVars, clientVars, Quiet
  <2> QED
    BY <2>1, QuietKeeps DEF ReuseOK
<1> QED
  BY <1>1, <1>2, <1>3, <1>4, <1>5 DEF ServerNext

LEMMA ReuseStep == ReuseIInv /\ [Next]_vars => ReuseOK
<1> SUFFICES ASSUME ReuseIInv, [Next]_vars PROVE ReuseOK
  OBVIOUS
<1>1. ASSUME Quiet PROVE ReuseOK
  BY <1>1, QuietKeeps DEF ReuseOK
<1>2. ASSUME NEW t \in Tabs, TabNext(t) PROVE ReuseOK
  BY <1>1, <1>2, QuietSteps, OpenTabKeeps, CloseTabKeeps, LoginTabKeeps,
     StartRefreshKeeps, RefreshSucceedsKeeps, RefreshFailsKeeps, RefreshLostKeeps,
     LogoutSendKeeps, LogoutAnsweredKeeps
  DEF TabNext
<1>3. CASE UNCHANGED vars
  BY <1>1, <1>3 DEF vars, Quiet
<1> QED
  BY <1>2, <1>3, ServerKeeps DEF Next

(***************************************************************************)
(* However many calls, requests and tokens there are: a single tab whose   *)
(* refreshes are all answered is never told that its token was already     *)
(* used.                                                                   *)
(***************************************************************************)
THEOREM TokensNeverReused == Spec => []NeverReused
<1>1. Init => ReuseIInv
  BY ReuseInitially, ClientsInitially, TokensInitially DEF Init, BrowserIInv, ReuseIInv
<1>2. ReuseIInv /\ [Next]_vars => ReuseIInv'
  BY ReuseStep, ServerSteps, ClientStep, TokensStep DEF ReuseIInv, ReuseOK, BrowserIInv
<1>3. ReuseIInv => NeverReused
  BY DEF ReuseIInv, SingleUse, Pending, NeverReused
<1> QED
  BY <1>1, <1>2, <1>3, PTL DEF Spec

-----------------------------------------------------------------------------
(***************************************************************************)
(* Calls come to an end.  A waiting call has a promise, a promise a        *)
(* request that is under way, and every step of a call lowers Remaining.   *)
(***************************************************************************)
Busy == \A q \in Requests : requests[q].pc = "idle" => requests[q].op = "none"

\* What a tab and its calls know of each other.
TabSettled(t) ==
    /\ ~tabs[t].open => ~tabs[t].user /\ \A c \in Calls : calls[t][c].pc = "idle"
    /\ \A c \in Calls :
        calls[t][c].pc = "waiting" => tabs[t].promise # NoRequest /\ ~calls[t][c].retried
    /\ (calls[t]["logout"].pc = "sent") = (calls[t]["logout"].request # NoRequest)
    /\ tabs[t].loading => \A c \in Restores : calls[t][c].pc # "idle"

SettleIInv ==
    /\ ReuseIInv
    /\ Busy
    /\ \A t \in Tabs : TabSettled(t)

\* The steps of one call.
Moves(old, new) ==
    \/ new = old
    \/ old.pc = "idle"
    \/ new.pc = "idle"
    \/ old.pc = "ready" /\ new.pc = "sent" /\ new.retried = old.retried
    \/ old.pc = "sent" /\ new.pc = "refused" /\ new.retried = old.retried
    \/ old.pc = "refused" /\ new.pc = "waiting" /\ new.retried = old.retried
    \/ old.pc = "waiting" /\ new.pc \in {"ready", "sent"} /\ ~old.retried /\ new.retried

LEMMA MovesAdvance ==
  ASSUME NEW old \in Call, NEW new \in Call, Moves(old, new), old.pc # "idle", new # old
  PROVE  Remaining(new) < Remaining(old)
  BY DEF Moves, Remaining, Stage, Call

LEMMA BusyStep ==
  ASSUME BrowserIInv, Busy, [Next]_vars
  PROVE  Busy'
<1>1. requests \in [Requests -> Request]
  BY DEF BrowserIInv, TokensIInv, TokensTypeOK
<1>2. \A q \in Requests : requests'[q] = requests[q] \/ requests'[q] = Idle
                          \/ requests'[q].pc # "idle"
  <2>1. ASSUME NEW q \in Requests, NEW op, NEW t, Send(q, op, t)
        PROVE  \A r \in Requests : requests'[r] = requests[r] \/ requests'[r].pc # "idle"
    <3>1. [Idle EXCEPT !.op = op, !.pc = "sent", !.token = t].pc = "sent"
      BY DEF Idle
    <3> QED
      BY <1>1, <2>1, <3>1 DEF Send
  <2>2. ASSUME NEW q \in Requests,
               RefreshRead(q) \/ LogoutDecode(q) \/ LogoutRead(q) \/ LogoutCommit(q)
               \/ RequestFail(q)
               \/ \E t \in Tokens : RefreshCommit(q, t)
        PROVE  \A r \in Requests : requests'[r] = requests[r] \/ requests'[r].pc # "idle"
    <3>1. /\ [requests[q] EXCEPT !.pc = "locked"].pc # "idle"
          /\ [requests[q] EXCEPT !.pc = "decoded"].pc # "idle"
          /\ \A answer : Answered(requests[q], answer).pc # "idle"
          /\ \A answer, t : [Answered(requests[q], answer) EXCEPT !.new = t].pc # "idle"
      BY <1>1 DEF Answered, Request
    <3>2. ASSUME NEW x, x.pc # "idle", requests' = [requests EXCEPT ![q] = x]
          PROVE  \A r \in Requests : requests'[r] = requests[r] \/ requests'[r].pc # "idle"
      BY <1>1, <3>2
    <3>3. CASE RefreshRead(q)
      BY <3>1, <3>2, <3>3 DEF RefreshRead
    <3>4. CASE LogoutRead(q)
      <4>1. \/ requests' = [requests EXCEPT ![q] = [requests[q] EXCEPT !.pc = "locked"]]
            \/ \E answer : requests' = [requests EXCEPT ![q] = Answered(requests[q], answer)]
        BY <1>1, <3>4 DEF LogoutRead
      <4> QED
        BY <3>1, <3>2, <4>1
    <3>5. CASE LogoutCommit(q)
      BY <1>1, <3>1, <3>2, <3>5 DEF LogoutCommit
    <3>6. CASE RequestFail(q)
      BY <1>1, <3>1, <3>2, <3>6 DEF RequestFail
    <3>7. CASE \E t \in Tokens : RefreshCommit(q, t)
      BY <1>1, <3>1, <3>2, <3>7 DEF RefreshCommit
    <3>8. CASE LogoutDecode(q)
      <4>1. \/ requests' = [requests EXCEPT ![q] = [requests[q] EXCEPT !.pc = "decoded"]]
            \/ \E answer : requests' = [requests EXCEPT ![q] = Answered(requests[q], answer)]
        BY <1>1, <3>8 DEF LogoutDecode
      <4> QED
        BY <3>1, <3>2, <4>1
    <3> QED
      BY <2>2, <3>3, <3>4, <3>5, <3>6, <3>7, <3>8
  <2>3. ASSUME NEW q \in Requests, Collect(q)
        PROVE  \A r \in Requests : requests'[r] = requests[r] \/ requests'[r] = Idle
    BY <1>1, <2>3 DEF Collect
  <2>4. ASSUME NEW t \in Tokens, Login(t) \/ Expire(t) PROVE requests' = requests
    BY <2>4 DEF Login, Expire
  <2> QED
    BY <2>1, <2>2, <2>3, <2>4, ServerSteps DEF TokensNext, ServerStep, tokenVars
<1> QED
  BY <1>2 DEF Busy, Idle

\* What a step of tab t does to the tabs and their calls.
TabStep(t) ==
    /\ \A u \in Tabs \ {t} : tabs'[u] = tabs[u] /\ calls'[u] = calls[u]
    /\ \A c \in Calls : Moves(calls[t][c], calls'[t][c])
    /\ TabSettled(t)'

LEMMA SettleTypes ==
  ASSUME SettleIInv, NEW t \in Tabs
  PROVE  /\ tabs \in [Tabs -> Tab] /\ tabs[t] \in Tab
         /\ calls \in [Tabs -> [Calls -> Call]] /\ \A c \in Calls : calls[t][c] \in Call
         /\ TabSettled(t)
         /\ ~tabs[t].open => tabs[t].promise = NoRequest
         /\ "logout" \in Calls /\ "me" \in Calls
         /\ Pages \subseteq Calls /\ Restores \subseteq Calls
         /\ {"me", "logout"} \cap (Pages \cup Restores) = {} /\ Pages \cap Restores = {}
  BY BrowserAssumption
  DEF SettleIInv, ReuseIInv, BrowserIInv, ClientTypeOK, Awaits, ClosedTabs, Calls

\* Call c of tab t becomes `call'.
LEMMA OneCallSettles ==
  ASSUME SettleIInv, NEW t \in Tabs, NEW c \in Calls, NEW call \in Call,
         calls' = [calls EXCEPT ![t][c] = call], Moves(calls[t][c], call),
         \A u \in Tabs \ {t} : tabs'[u] = tabs[u],
         tabs'[t].open, tabs'[t].promise # NoRequest \/ tabs'[t].promise = tabs[t].promise,
         tabs'[t].loading => tabs[t].loading /\ (c \in Restores => call.pc # "idle"),
         call.pc = "waiting" => tabs'[t].promise # NoRequest /\ ~call.retried,
         c = "logout" => (call.pc = "sent") = (call.request # NoRequest)
  PROVE  TabStep(t)
<1>1. \A u \in Tabs \ {t} : calls'[u] = calls[u]
  BY SettleTypes
<1>2. calls'[t][c] = call /\ \A d \in Calls \ {c} : calls'[t][d] = calls[t][d]
  BY SettleTypes
<1>3. \A d \in Calls : Moves(calls[t][d], calls'[t][d])
  BY <1>2 DEF Moves
<1>4. TabSettled(t)'
  BY <1>2, SettleTypes DEF TabSettled
<1> QED
  BY <1>1, <1>3, <1>4 DEF TabStep

\* The calls in `failed' end; only they may have waited for a forgotten promise.
LEMMA FailSettles ==
  ASSUME SettleIInv, NEW t \in Tabs, NEW tab \in Tab, NEW failed, Fail(t, tab, failed),
         tab.open = tabs[t].open, tab.user = tabs[t].user, tab.loading = tabs[t].loading,
         tab.promise = tabs[t].promise \/ Waiting(t) \subseteq failed
  PROVE  TabStep(t)
<1>1. /\ \A u \in Tabs \ {t} : calls'[u] = calls[u] /\ tabs'[u] = tabs[u]
      /\ \A c \in Calls : calls'[t][c] = IF c \in failed THEN NoCall ELSE calls[t][c]
  BY SettleTypes DEF Fail
<1>2. /\ tabs'[t].open = tabs[t].open
      /\ tabs'[t].promise = tab.promise
      /\ tabs'[t].user => tabs[t].user
      /\ tabs'[t].loading => tabs[t].loading /\ failed \cap Restores = {}
  <2>1. tabs'[t] = AfterFailure(tab, failed)
    BY SettleTypes DEF Fail
  <2>2. WithTokens(tab, 0) \in Tab
    BY NoToken, WithTokensIsTab
  <2>3. /\ WithTokens(tab, 0).open = tab.open /\ WithTokens(tab, 0).user = tab.user
        /\ WithTokens(tab, 0).promise = tab.promise
        /\ WithTokens(tab, 0).loading = tab.loading
    BY DEF WithTokens, Tab
  <2>4. ASSUME NEW x \in Tab
        PROVE  LET y == [x EXCEPT !.user = @ /\ "logout" \notin failed,
                                  !.loading = @ /\ failed \cap Restores = {}]
               IN  /\ y.open = x.open /\ y.promise = x.promise /\ (y.user => x.user)
                   /\ y.loading => x.loading /\ failed \cap Restores = {}
    BY DEF Tab
  <2> QED
    BY <2>1, <2>2, <2>3, <2>4 DEF AfterFailure
<1>3. \A c \in Calls : Moves(calls[t][c], calls'[t][c])
  BY <1>1 DEF Moves, NoCall
<1>4. TabSettled(t)'
  <2>1. \A c \in Calls : calls'[t][c].pc = "waiting" =>
            calls[t][c].pc = "waiting" /\ c \notin failed /\ ~calls'[t][c].retried
    BY <1>1, SettleTypes DEF NoCall, TabSettled
  <2>2. \A c \in Calls : calls'[t][c].pc = "waiting" => tabs'[t].promise # NoRequest
    BY <1>2, <2>1, SettleTypes DEF TabSettled, Waiting
  <2>3. ~tabs'[t].open => ~tabs'[t].user /\ \A c \in Calls : calls'[t][c].pc = "idle"
    BY <1>1, <1>2, SettleTypes DEF TabSettled, NoCall
  <2>4. (calls'[t]["logout"].pc = "sent") = (calls'[t]["logout"].request # NoRequest)
    BY <1>1, SettleTypes DEF TabSettled, NoCall
  <2>5. tabs'[t].loading => \A c \in Restores : calls'[t][c].pc # "idle"
    BY <1>1, <1>2, SettleTypes DEF TabSettled
  <2> QED
    BY <2>1, <2>2, <2>3, <2>4, <2>5 DEF TabSettled
<1> QED
  BY <1>1, <1>3, <1>4 DEF TabStep

LEMMA OpenCloseSettles ==
  ASSUME SettleIInv, NEW t \in Tabs, OpenTab(t) \/ CloseTab(t)
  PROVE  TabStep(t)
<1>1. CASE OpenTab(t)
  <2>1. /\ \A u \in Tabs \ {t} : tabs'[u] = tabs[u]
        /\ tabs'[t].open /\ tabs'[t].promise = NoRequest
        /\ \A c \in Calls : calls[t][c].pc = "idle"
        /\ tabs[t].promise = NoRequest
        /\ tabs'[t].loading <=> stored # 0
    BY <1>1, SettleTypes DEF OpenTab, Closed, TabSettled
  <2>2. [NoCall EXCEPT !.pc = "sent"] \in Call
        /\ [NoCall EXCEPT !.pc = "sent"].pc = "sent"
    BY NoToken DEF NoCall, Call
  <2>3. CASE stored = 0 /\ calls' = calls
    <3>1. TabSettled(t)'
      BY <2>1, <2>3, SettleTypes DEF TabSettled
    <3> QED
      BY <2>1, <2>3, <3>1 DEF TabStep, Moves
  <2>4. CASE calls' = [calls EXCEPT ![t] = [c \in Calls |->
                        IF c \in Restores THEN [NoCall EXCEPT !.pc = "sent"] ELSE @[c]]]
    <3>1. /\ \A u \in Tabs \ {t} : calls'[u] = calls[u]
          /\ \A c \in Restores : calls'[t][c].pc = "sent"
          /\ \A c \in Calls \ Restores : calls'[t][c] = calls[t][c]
      BY <2>2, <2>4, SettleTypes
    <3>2. TabSettled(t) /\ "logout" \in Calls \ Restores
      BY SettleTypes
    <3>3. /\ tabs'[t].open
          /\ \A c \in Restores : calls'[t][c].pc = "sent"
          /\ \A c \in Calls \ Restores : calls'[t][c].pc = "idle"
      BY <2>1, <3>1
    <3>4. \A c \in Calls : calls'[t][c].pc # "waiting"
      BY <3>3
    <3>5. (calls'[t]["logout"].pc = "sent") = (calls'[t]["logout"].request # NoRequest)
      BY <3>1, <3>2 DEF TabSettled
    <3>6. TabSettled(t)'
      BY <3>3, <3>4, <3>5 DEF TabSettled
    <3> QED
      BY <2>1, <3>1, <3>6 DEF TabStep, Moves
  <2> QED
    BY <1>1, <2>3, <2>4 DEF OpenTab
<1>2. CASE CloseTab(t)
  <2>1. /\ \A u \in Tabs \ {t} : tabs'[u] = tabs[u] /\ calls'[u] = calls[u]
        /\ tabs'[t] = Closed /\ \A c \in Calls : calls'[t][c] = NoCall
    BY <1>2, SettleTypes DEF CloseTab
  <2>2. \A c \in Calls : calls'[t][c].pc = "idle" /\ calls'[t][c].request = NoRequest
    BY <2>1 DEF NoCall
  <2>3. ~tabs'[t].user /\ ~tabs'[t].loading
    BY <2>1 DEF Closed
  <2>4. TabSettled(t)'
    BY <2>2, <2>3, SettleTypes DEF TabSettled
  <2> QED
    BY <2>1, <2>2, <2>4 DEF TabStep, Moves
<1> QED
  BY <1>1, <1>2

LEMMA LoginPageSettles ==
  ASSUME SettleIInv, NEW t \in Tabs,
         (\E pair \in Tokens : LoginTab(t, pair)) \/ \E c \in Pages : PageCall(t, c)
  PROVE  TabStep(t)
<1>1. ASSUME NEW access \in 0..MaxToken
      PROVE  LET call == [NoCall EXCEPT !.pc = "sent", !.access = access]
             IN  call \in Call /\ call.pc = "sent"
  BY NoToken DEF NoCall, Call
<1>2. ASSUME NEW pair \in Tokens, LoginTab(t, pair) PROVE TabStep(t)
  <2>1. /\ \A u \in Tabs \ {t} : tabs'[u] = tabs[u]
        /\ tabs'[t].open /\ tabs'[t].promise = tabs[t].promise
        /\ tabs'[t].loading = tabs[t].loading
    BY <1>2, SettleTypes DEF LoginTab, WithTokens, Tab
  <2>2. /\ calls[t]["me"].pc = "idle"
        /\ calls' = [calls EXCEPT ![t]["me"] = [NoCall EXCEPT !.pc = "sent", !.access = pair]]
    BY <1>2 DEF LoginTab
  <2> QED
    BY <1>1, <2>1, <2>2, TokensFromOne, SettleTypes, OneCallSettles DEF Moves
<1>3. ASSUME NEW c \in Pages, PageCall(t, c) PROVE TabStep(t)
  <2>1. tabs' = tabs /\ tabs[t].open /\ tabs[t].access \in 0..MaxToken
    BY <1>3, SettleTypes DEF PageCall, TabSettled, Tab
  <2>2. /\ calls[t][c].pc = "idle"
        /\ calls' = [calls EXCEPT ![t][c] =
                        [NoCall EXCEPT !.pc = "sent", !.access = tabs[t].access]]
    BY <1>3 DEF PageCall
  <2> QED
    BY <1>1, <2>1, <2>2, SettleTypes, OneCallSettles DEF Moves
<1> QED
  BY <1>2, <1>3

LEMMA ApiSettles ==
  ASSUME SettleIInv, NEW t \in Tabs, NEW c \in Calls,
         \/ CallServed(t, c) \/ CallRefused(t, c) \/ GiveUp(t, c) \/ CallLost(t, c)
         \/ JoinRefresh(t, c) \/ \E q \in Requests : StartRefresh(t, c, q)
  PROVE  TabStep(t)
<1>1. calls[t][c].pc # "idle" => tabs[t].open
  BY SettleTypes DEF TabSettled
<1>2. CASE CallServed(t, c)
  <2>1. /\ \A u \in Tabs \ {t} : tabs'[u] = tabs[u]
        /\ tabs'[t].open /\ tabs'[t].promise = tabs[t].promise
        /\ tabs'[t].loading => c \notin Restores /\ tabs[t].loading
    <3>1. CASE c \in Pages
      BY <1>1, <1>2, <3>1, SettleTypes DEF CallServed
    <3>2. CASE c \notin Pages
      <4> DEFINE tab == [tabs[t] EXCEPT !.user = TRUE, !.loading = @ /\ c \notin Restores]
      <4>1. tabs' = [tabs EXCEPT ![t] = tab]
        BY <1>2, <3>2 DEF CallServed
      <4>2. /\ tab.open = tabs[t].open /\ tab.promise = tabs[t].promise
            /\ tab.loading => c \notin Restores /\ tabs[t].loading
        BY SettleTypes DEF Tab
      <4> QED
        BY <1>1, <1>2, <4>1, <4>2, SettleTypes DEF CallServed
    <3> QED
      BY <3>1, <3>2
  <2>2. c # "logout" /\ calls' = [calls EXCEPT ![t][c] = NoCall]
    BY <1>2 DEF CallServed
  <2>3. NoCall.pc = "idle"
    BY DEF NoCall
  <2> QED
    BY <2>1, <2>2, <2>3, NoCallIsCall, OneCallSettles DEF Moves
<1>3. CASE CallRefused(t, c)
  <2>1. /\ c # "logout" /\ calls[t][c].pc = "sent" /\ tabs' = tabs
        /\ calls' = [calls EXCEPT ![t][c] = [calls[t][c] EXCEPT !.pc = "refused", !.access = 0]]
    BY <1>3, SettleTypes DEF CallRefused
  <2>2. /\ [calls[t][c] EXCEPT !.pc = "refused", !.access = 0] \in Call
        /\ [calls[t][c] EXCEPT !.pc = "refused", !.access = 0].pc = "refused"
        /\ [calls[t][c] EXCEPT !.pc = "refused", !.access = 0].retried = calls[t][c].retried
    BY SettleTypes, NoToken DEF Call
  <2> QED
    BY <1>1, <2>1, <2>2, OneCallSettles DEF Moves
<1>4. CASE GiveUp(t, c) \/ CallLost(t, c)
  BY <1>4, SettleTypes, FailSettles DEF GiveUp, CallLost
<1>5. /\ [calls[t][c] EXCEPT !.pc = "waiting"] \in Call
      /\ [calls[t][c] EXCEPT !.pc = "waiting"].pc = "waiting"
      /\ [calls[t][c] EXCEPT !.pc = "waiting"].retried = calls[t][c].retried
      /\ [calls[t][c] EXCEPT !.pc = "waiting"].request = calls[t][c].request
  BY SettleTypes DEF Call
<1>6. c = "logout" /\ calls[t][c].pc = "refused" => calls[t][c].request = NoRequest
  BY SettleTypes DEF TabSettled
<1>7. CASE JoinRefresh(t, c)
  <2>1. /\ calls[t][c].pc = "refused" /\ ~calls[t][c].retried
        /\ tabs' = tabs /\ tabs[t].promise # NoRequest
        /\ calls' = [calls EXCEPT ![t][c] = [calls[t][c] EXCEPT !.pc = "waiting"]]
    BY <1>7, SettleTypes DEF JoinRefresh
  <2> QED
    BY <1>1, <1>5, <1>6, <2>1, OneCallSettles DEF Moves
<1>8. ASSUME NEW q \in Requests, StartRefresh(t, c, q) PROVE TabStep(t)
  <2>1. /\ calls[t][c].pc = "refused" /\ ~calls[t][c].retried
        /\ calls' = [calls EXCEPT ![t][c] = [calls[t][c] EXCEPT !.pc = "waiting"]]
    BY <1>8, SettleTypes DEF StartRefresh
  <2>2. /\ \A u \in Tabs \ {t} : tabs'[u] = tabs[u]
        /\ tabs'[t].open = tabs[t].open /\ tabs'[t].promise # NoRequest
        /\ tabs'[t].loading = tabs[t].loading
    BY <1>8, SettleTypes, BrowserAssumption DEF StartRefresh, Tab
  <2> QED
    BY <1>1, <1>5, <1>6, <2>1, <2>2, OneCallSettles DEF Moves
<1> QED
  BY <1>2, <1>3, <1>4, <1>7, <1>8

LEMMA RefreshSettles ==
  ASSUME SettleIInv, NEW t \in Tabs,
         RefreshLost(t) \/ \E q \in Requests : RefreshSucceeds(t, q) \/ RefreshFails(t, q)
  PROVE  TabStep(t)
<1>1. CASE RefreshLost(t)
  <2>1. LET tab == [tabs[t] EXCEPT !.promise = NoRequest]
        IN  /\ tab \in Tab /\ tab.open = tabs[t].open
            /\ tab.user = tabs[t].user /\ tab.loading = tabs[t].loading
    BY SettleTypes DEF Tab
  <2> QED
    BY <1>1, <2>1, FailSettles DEF RefreshLost
<1>2. ASSUME NEW q \in Requests, RefreshFails(t, q) PROVE TabStep(t)
  <2>1. LET tab == [WithTokens(tabs[t], 0) EXCEPT !.promise = NoRequest]
        IN  /\ tab \in Tab /\ tab.open = tabs[t].open
            /\ tab.user = tabs[t].user /\ tab.loading = tabs[t].loading
    BY SettleTypes, NoToken DEF WithTokens, Tab
  <2> QED
    BY <1>2, <2>1, FailSettles DEF RefreshFails
<1>3. ASSUME NEW q \in Requests, RefreshSucceeds(t, q) PROVE TabStep(t)
  <2> DEFINE pair == requests[q].new
  <2>1. /\ tabs[t].promise = q /\ q # NoRequest
        /\ tabs' = [tabs EXCEPT ![t] = [WithTokens(tabs[t], pair) EXCEPT !.promise = NoRequest]]
        /\ calls' = [calls EXCEPT ![t] = Resent(t, pair)]
    BY <1>3, BrowserAssumption, SettleTypes DEF RefreshSucceeds
  <2> HIDE DEF pair
  <2>2. tabs'[t].open = tabs[t].open /\ tabs[t].open /\ tabs'[t].loading = tabs[t].loading
    BY <2>1, SettleTypes DEF WithTokens, Tab
  <2>3. \A c \in Calls : calls'[t][c] = Resent(t, pair)[c]
    BY <2>1, SettleTypes
  <2>4. ASSUME NEW c \in Calls, c \in Waiting(t)
        PROVE  /\ calls[t][c].pc = "waiting" /\ ~calls[t][c].retried
               /\ calls'[t][c].pc = (IF c = "logout" THEN "ready" ELSE "sent")
               /\ calls'[t][c].retried /\ calls'[t][c].request = calls[t][c].request
    <3>1. calls[t][c] \in Call /\ calls[t][c].pc = "waiting" /\ ~calls[t][c].retried
      BY <2>4, SettleTypes DEF Waiting, TabSettled
    <3>2. calls'[t][c] = [calls[t][c] EXCEPT !.pc = IF c = "logout" THEN "ready" ELSE "sent",
                                             !.access = pair, !.retried = TRUE]
      BY <2>3, <2>4 DEF Resent
    <3> QED
      BY <3>1, <3>2 DEF Call
  <2>5. ASSUME NEW c \in Calls, c \notin Waiting(t)
        PROVE  calls'[t][c] = calls[t][c] /\ calls[t][c].pc # "waiting"
    BY <2>3, <2>5 DEF Resent, Waiting
  <2>6. \A c \in Calls : Moves(calls[t][c], calls'[t][c])
    BY <2>4, <2>5 DEF Moves
  <2>7. TabSettled(t)'
    <3>1. \A c \in Calls : calls'[t][c].pc # "waiting"
      BY <2>4, <2>5
    <3>2. (calls'[t]["logout"].pc = "sent") = (calls'[t]["logout"].request # NoRequest)
      BY <2>4, <2>5, SettleTypes DEF TabSettled
    <3>3. tabs'[t].loading => \A c \in Restores : calls'[t][c].pc # "idle"
      <4>1. ASSUME NEW c \in Restores, tabs[t].loading PROVE calls'[t][c].pc # "idle"
        <5>1. c \in Calls /\ calls[t][c].pc # "idle"
          BY <4>1, SettleTypes DEF TabSettled
        <5> QED
          BY <2>4, <2>5, <5>1
      <4> QED
        BY <2>2, <4>1
    <3> QED
      BY <2>2, <3>1, <3>2, <3>3 DEF TabSettled
  <2>8. \A u \in Tabs \ {t} : tabs'[u] = tabs[u] /\ calls'[u] = calls[u]
    BY <2>1, SettleTypes
  <2> QED
    BY <2>6, <2>7, <2>8 DEF TabStep
<1> QED
  BY <1>1, <1>2, <1>3

LEMMA LogoutSettles ==
  ASSUME SettleIInv, NEW t \in Tabs,
         \/ Logout(t)
         \/ \E q \in Requests : LogoutSend(t, q) \/ LogoutAnswered(t, q)
  PROVE  TabStep(t)
<1> DEFINE call == calls[t]["logout"]
<1>1. call \in Call
  BY SettleTypes
<1>2. CASE Logout(t)
  <2>1. tabs[t].open /\ call.pc = "idle"
    BY <1>2, SettleTypes DEF Logout, TabSettled
  <2>2. CASE Fail(t, tabs[t], {"logout"})
    BY <2>2, SettleTypes, FailSettles
  <2>3. CASE /\ calls' = [calls EXCEPT ![t]["logout"] =
                    [NoCall EXCEPT !.pc = "ready", !.token = tabs[t].refresh]]
             /\ tabs' = tabs
    <3>1. LET new == [NoCall EXCEPT !.pc = "ready", !.token = tabs[t].refresh]
          IN  new \in Call /\ new.pc = "ready" /\ new.request = NoRequest
      BY SettleTypes, NoToken DEF NoCall, Call, Tab
    <3> QED
      BY <2>1, <2>3, <3>1, SettleTypes, OneCallSettles DEF Moves
  <2> QED
    BY <1>2, <2>2, <2>3 DEF Logout
<1>3. ASSUME NEW q \in Requests, LogoutSend(t, q) PROVE TabStep(t)
  <2>1. call.pc = "ready" /\ tabs[t].open /\ tabs' = tabs
        /\ calls' = [calls EXCEPT ![t]["logout"] = [call EXCEPT !.pc = "sent", !.request = q]]
    BY <1>3, SettleTypes DEF LogoutSend, TabSettled
  <2>2. LET new == [call EXCEPT !.pc = "sent", !.request = q]
        IN  /\ new \in Call /\ new.pc = "sent" /\ new.request = q
            /\ new.retried = call.retried
    BY <1>1 DEF Call
  <2> QED
    BY <2>1, <2>2, BrowserAssumption, SettleTypes, OneCallSettles DEF Moves
<1>4. ASSUME NEW q \in Requests, LogoutAnswered(t, q) PROVE TabStep(t)
  <2>1. call.pc = "sent" /\ tabs[t].open
    BY <1>4, BrowserAssumption, SettleTypes DEF LogoutAnswered, TabSettled
  <2>2. CASE Fail(t, tabs[t], {"logout"})
    BY <2>2, SettleTypes, FailSettles
  <2>3. CASE /\ calls' = [calls EXCEPT ![t]["logout"] =
                    [call EXCEPT !.pc = "refused", !.request = NoRequest]]
             /\ tabs' = tabs
    <3>1. LET new == [call EXCEPT !.pc = "refused", !.request = NoRequest]
          IN  /\ new \in Call /\ new.pc = "refused" /\ new.request = NoRequest
              /\ new.retried = call.retried
      BY <1>1 DEF Call
    <3> QED
      BY <2>1, <2>3, <3>1, SettleTypes, OneCallSettles DEF Moves
  <2> QED
    BY <1>4, <2>2, <2>3, SettleTypes DEF LogoutAnswered
<1> QED
  BY <1>2, <1>3, <1>4

LEMMA EveryTabSettles ==
  ASSUME SettleIInv, NEW t \in Tabs, TabNext(t)
  PROVE  TabStep(t)
  BY OpenCloseSettles, LoginPageSettles, ApiSettles, RefreshSettles, LogoutSettles
  DEF TabNext

\* No call goes back, in any step of the browser.
LEMMA AllMove ==
  ASSUME SettleIInv, [Next]_vars
  PROVE  \A t \in Tabs : /\ TabSettled(t)'
                         /\ \A c \in Calls : Moves(calls[t][c], calls'[t][c])
<1>1. ASSUME NEW u \in Tabs, TabNext(u), NEW t \in Tabs
      PROVE  TabSettled(t)' /\ \A c \in Calls : Moves(calls[t][c], calls'[t][c])
  <2>1. TabStep(u)
    BY <1>1, EveryTabSettles
  <2>2. CASE t = u
    BY <2>1, <2>2 DEF TabStep
  <2>3. CASE t # u
    BY <2>1, <2>3, SettleTypes DEF TabStep, TabSettled, Moves
  <2> QED
    BY <2>2, <2>3
<1>2. ASSUME ServerNext \/ UNCHANGED vars PROVE tabs' = tabs /\ calls' = calls
  BY <1>2
  DEF ServerNext, Server, ServerFails, Discard, LoginElsewhere, ExpireAccess, ExpireRefresh,
      clientVars, vars
<1>3. ASSUME tabs' = tabs, calls' = calls, NEW t \in Tabs
      PROVE  TabSettled(t)' /\ \A c \in Calls : Moves(calls[t][c], calls'[t][c])
  BY <1>3, SettleTypes DEF TabSettled, Moves
<1> QED
  BY <1>1, <1>2, <1>3 DEF Next

LEMMA SettleInitially == Init => SettleIInv
<1> SUFFICES ASSUME Init PROVE SettleIInv
  OBVIOUS
<1>1. ReuseIInv
  BY ReuseInitially, ClientsInitially, TokensInitially DEF Init, BrowserIInv, ReuseIInv
<1>2. Busy
  BY DEF Init, TokensInit, Busy, Idle
<1>3. \A t \in Tabs : TabSettled(t)
  BY DEF Init, TabSettled, Closed, Calls, NoCall
<1> QED
  BY <1>1, <1>2, <1>3 DEF SettleIInv

LEMMA SettleStep == SettleIInv /\ [Next]_vars => SettleIInv'
<1> SUFFICES ASSUME SettleIInv, [Next]_vars PROVE SettleIInv'
  OBVIOUS
<1>1. BrowserIInv'
  BY ServerSteps, ClientStep, TokensStep DEF SettleIInv, ReuseIInv, BrowserIInv
<1>2. ReuseIInv'
  BY <1>1, ReuseStep DEF SettleIInv, ReuseIInv, ReuseOK
<1>3. Busy'
  BY BusyStep DEF SettleIInv, ReuseIInv
<1> QED
  BY <1>2, <1>3, AllMove DEF SettleIInv

(***************************************************************************)
(* However many tabs, calls and requests there are: nobody waits for an    *)
(* answer that cannot come.                                                *)
(***************************************************************************)
THEOREM WaitersAreServed == Spec => []NobodyWaitsInVain
<1>1. SettleIInv => NobodyWaitsInVain
  <2> SUFFICES ASSUME SettleIInv, NEW t \in Tabs
               PROVE  /\ tabs[t].loading => \A c \in Restores : calls[t][c].pc # "idle"
                      /\ Waiting(t) # {} => tabs[t].promise # NoRequest
                      /\ tabs[t].promise # NoRequest =>
                            /\ requests[tabs[t].promise].op = "refresh"
                            /\ requests[tabs[t].promise].pc # "idle"
                      /\ calls[t]["logout"].pc = "sent" =>
                            /\ calls[t]["logout"].request # NoRequest
                            /\ requests[calls[t]["logout"].request].op = "logout"
                            /\ requests[calls[t]["logout"].request].pc # "idle"
    BY DEF NobodyWaitsInVain
  <2>1. /\ tabs[t].promise \in Requests \cup {NoRequest}
        /\ calls[t]["logout"].request \in Requests \cup {NoRequest}
    BY ReuseTypes DEF SettleIInv, ReuseIInv
  <2>2. /\ Waiting(t) # {} => tabs[t].promise # NoRequest
        /\ tabs[t].loading => \A c \in Restores : calls[t][c].pc # "idle"
    BY SettleTypes DEF TabSettled, Waiting
  <2>3. tabs[t].promise # NoRequest => requests[tabs[t].promise].op = "refresh"
    BY DEF SettleIInv, ReuseIInv, Awaits, PromiseIsRefresh
  <2>4. calls[t]["logout"].request # NoRequest
            => requests[calls[t]["logout"].request].op = "logout"
    BY DEF SettleIInv, ReuseIInv, Awaits, LogoutAwaitsLogout
  <2>5. calls[t]["logout"].pc = "sent" => calls[t]["logout"].request # NoRequest
    BY SettleTypes DEF TabSettled
  <2>6. \A q \in Requests : requests[q].op # "none" => requests[q].pc # "idle"
    BY DEF SettleIInv, Busy
  <2> QED
    BY <2>1, <2>2, <2>3, <2>4, <2>5, <2>6
<1> QED
  BY <1>1, SettleInitially, SettleStep, PTL DEF Spec

(***************************************************************************)
(* Whatever the other calls of the tab, its shared refresh, its logout and *)
(* the server do, every step of a call brings it nearer to its end.        *)
(***************************************************************************)
THEOREM CallsAdvance == Spec => SentTwiceAtMost
<1>1. SettleIInv /\ [Next]_vars =>
        [\A t \in Tabs, c \in Calls :
            calls[t][c].pc # "idle" /\ calls'[t][c] # calls[t][c]
                => Remaining(calls'[t][c]) < Remaining(calls[t][c])]_calls
  <2> SUFFICES ASSUME SettleIInv, [Next]_vars, NEW t \in Tabs, NEW c \in Calls,
                      calls[t][c].pc # "idle", calls'[t][c] # calls[t][c]
               PROVE  Remaining(calls'[t][c]) < Remaining(calls[t][c])
    OBVIOUS
  <2>1. SettleIInv'
    BY SettleStep
  <2>2. calls[t][c] \in Call /\ calls'[t][c] \in Call
    <3>1. ClientTypeOK /\ ClientTypeOK'
      BY <2>1 DEF SettleIInv, ReuseIInv, BrowserIInv
    <3> QED
      BY <3>1 DEF ClientTypeOK
  <2>3. Moves(calls[t][c], calls'[t][c])
    BY AllMove
  <2> QED
    BY <2>2, <2>3, MovesAdvance
<1> QED
  BY <1>1, SettleInitially, SettleStep, PTL DEF Spec, SentTwiceAtMost

=============================================================================
