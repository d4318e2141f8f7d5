------------------------ MODULE RefreshTokens_proofs ------------------------
(***************************************************************************)
(* Proofs about RefreshTokens, for any number of requests and tokens.      *)
(***************************************************************************)
EXTENDS RefreshTokens, TLAPS

\* What a row says of its chain.
AbsentTokens == \A t \in Tokens : ~tokens[t].issued => tokens[t] = NoRow
LoginsIssued ==
    \A t \in Tokens : tokens[t].issued =>
        tokens[t].login \in Tokens /\ tokens[tokens[t].login].issued

\* A request presents a token that exists, and acts on a live one it has locked.
Presented ==
    \A q \in Requests : requests[q].pc # "idle" =>
        requests[q].token \in Tokens /\ tokens[requests[q].token].issued
LockedIsLive ==
    \A q \in Requests : requests[q].pc = "locked" => Live(requests[q].token)
LockedOnce ==
    \A q, r \in Requests :
        /\ requests[q].pc = "locked" /\ requests[r].pc = "locked"
        /\ requests[q].token = requests[r].token
        => q = r

TokensIInv ==
    /\ TokensTypeOK
    /\ AbsentTokens
    /\ LoginsIssued
    /\ Presented
    /\ LockedIsLive
    /\ LockedOnce
    /\ OneLiveToken

LEMMA TokensFromOne == Tokens \subseteq 0..MaxToken /\ 0 \notin Tokens
  BY TokenAssumption DEF Tokens

LEMMA TokensInitially == TokensInit => TokensIInv
<1> SUFFICES ASSUME TokensInit PROVE TokensIInv
  OBVIOUS
<1>1. TokensTypeOK
  BY TokensFromOne, TokenAssumption
  DEF TokensInit, TokensTypeOK, NoRow, Row, Idle, Request
<1>2. AbsentTokens /\ LoginsIssued /\ OneLiveToken
  BY DEF TokensInit, AbsentTokens, LoginsIssued, OneLiveToken, Live, NoRow
<1>3. Presented /\ LockedIsLive /\ LockedOnce
  BY DEF TokensInit, Presented, LockedIsLive, LockedOnce, Idle
<1> QED
  BY <1>1, <1>2, <1>3 DEF TokensIInv

-----------------------------------------------------------------------------
(* What a step does to the rows                                            *)

\* Only one request changes, and it gets or keeps no lock.
Unlocks(q) ==
    /\ requests' \in [Requests -> Request]
    /\ \A r \in Requests \ {q} : requests'[r] = requests[r]
    /\ requests'[q].pc # "locked"
    /\ requests'[q].pc # "idle" =>
         requests'[q].token \in Tokens /\ tokens[requests'[q].token].issued

\* Request q takes the lock of a live token.
Locks(q) ==
    /\ UNCHANGED tokens
    /\ requests' \in [Requests -> Request]
    /\ \A r \in Requests \ {q} : requests'[r] = requests[r]
    /\ requests'[q].token \in Tokens
    /\ Live(requests'[q].token)
    /\ ~TokenLocked(requests'[q].token)

Started(t) ==
    /\ Fresh(t)
    /\ tokens' = [tokens EXCEPT ![t] = NewRow(t)]
    /\ UNCHANGED requests

Exchanged(q, t) ==
    /\ requests[q].pc = "locked"
    /\ Fresh(t)
    /\ tokens' = [tokens EXCEPT
            ![requests[q].token].revoked = "rotation",
            ![t] = NewRow(tokens[requests[q].token].login)]
    /\ Unlocks(q)

Ended(q) ==
    /\ requests[q].pc = "locked"
    /\ tokens' = [tokens EXCEPT ![requests[q].token].revoked = "logout"]
    /\ Unlocks(q)

\* Every step is one of these; only three of them change a row.
LEMMA TokenSteps ==
  ASSUME TokensIInv, [TokensNext]_tokenVars
  PROVE  /\ expired' \in 0..MaxToken
         /\ \/ UNCHANGED <<tokens, requests>>
            \/ \E t \in Tokens : Started(t)
            \/ \E q \in Requests :
                \/ UNCHANGED tokens /\ Unlocks(q)
                \/ Locks(q)
                \/ Ended(q)
                \/ \E t \in Tokens : Exchanged(q, t)
<1> USE TokenAssumption, TokensFromOne DEF TokensIInv
<1>1. CASE UNCHANGED tokenVars
  BY <1>1 DEF tokenVars, TokensTypeOK
<1>2. ASSUME NEW t \in Tokens, Login(t) PROVE expired' \in 0..MaxToken /\ Started(t)
  BY <1>2 DEF Login, Started, TokensTypeOK
<1>3. ASSUME NEW t \in Tokens, Expire(t)
      PROVE  expired' \in 0..MaxToken /\ UNCHANGED <<tokens, requests>>
  BY <1>3 DEF Expire
<1>4. ASSUME NEW q \in Requests, NEW op \in {"refresh", "logout"}, NEW t \in Tokens,
             Send(q, op, t)
      PROVE  expired' \in 0..MaxToken /\ UNCHANGED tokens /\ Unlocks(q)
  BY <1>4 DEF Send, Unlocks, TokensTypeOK, Request, Idle
<1>5. ASSUME NEW q \in Requests, RefreshRead(q)
      PROVE  expired' \in 0..MaxToken /\ ((UNCHANGED tokens /\ Unlocks(q)) \/ Locks(q))
  <2>1. requests[q] \in Request /\ requests[q].token \in Tokens
        /\ tokens[requests[q].token].issued
    BY <1>5 DEF RefreshRead, TokensTypeOK, Presented
  <2>2. CASE RefreshVerdict(requests[q].token) = "ok"
    <3>1. Live(requests[q].token)
      BY <2>1, <2>2 DEF RefreshVerdict, Live
    <3>2. requests' = [requests EXCEPT ![q].pc = "locked"]
      BY <1>5, <2>2 DEF RefreshRead
    <3> QED
      BY <1>5, <2>1, <3>1, <3>2 DEF RefreshRead, Locks, TokensTypeOK, Request
  <2>3. CASE RefreshVerdict(requests[q].token) # "ok"
    <3>1. RefreshVerdict(requests[q].token) \in {"revoked", "expired"}
      BY <2>3 DEF RefreshVerdict
    <3> QED
      BY <1>5, <2>1, <2>3, <3>1
      DEF RefreshRead, Unlocks, Answered, TokensTypeOK, Request
  <2> QED
    BY <2>2, <2>3
<1>6. ASSUME NEW q \in Requests, NEW t \in Tokens, RefreshCommit(q, t)
      PROVE  expired' \in 0..MaxToken /\ Exchanged(q, t)
  <2>1. requests[q] \in Request /\ requests[q].token \in Tokens
        /\ tokens[requests[q].token].issued
    BY <1>6 DEF RefreshCommit, TokensTypeOK, Presented
  <2>2. Unlocks(q)
    BY <1>6, <2>1 DEF RefreshCommit, Unlocks, Answered, TokensTypeOK, Request
  <2> QED
    BY <1>6, <2>2 DEF RefreshCommit, Exchanged, TokensTypeOK
<1>7. ASSUME NEW q \in Requests, LogoutRead(q)
      PROVE  expired' \in 0..MaxToken /\ ((UNCHANGED tokens /\ Unlocks(q)) \/ Locks(q))
  <2>1. requests[q] \in Request /\ requests[q].token \in Tokens
        /\ tokens[requests[q].token].issued
    BY <1>7 DEF LogoutRead, TokensTypeOK, Presented
  <2>2. CASE requests' = [requests EXCEPT ![q].pc = "locked"]
             /\ tokens[requests[q].token].revoked = "no"
    BY <1>7, <2>1, <2>2 DEF LogoutRead, Locks, Live, TokensTypeOK, Request
  <2>3. ASSUME requests' = [requests EXCEPT ![q] = Answered(@, "ok")] PROVE Unlocks(q)
    BY <2>1, <2>3 DEF Unlocks, Answered, TokensTypeOK, Request
  <2> QED
    BY <1>7, <2>2, <2>3 DEF LogoutRead, TokensTypeOK
<1>8. ASSUME NEW q \in Requests, LogoutCommit(q)
      PROVE  expired' \in 0..MaxToken /\ Ended(q)
  BY <1>8
  DEF LogoutCommit, Ended, Unlocks, Answered, TokensTypeOK, Request, Presented
<1>9. ASSUME NEW q \in Requests, RequestFail(q)
      PROVE  expired' \in 0..MaxToken /\ UNCHANGED tokens /\ Unlocks(q)
  BY <1>9 DEF RequestFail, Unlocks, Answered, TokensTypeOK, Request, Presented
<1>10. ASSUME NEW q \in Requests, Collect(q)
       PROVE  expired' \in 0..MaxToken /\ UNCHANGED tokens /\ Unlocks(q)
  BY <1>10 DEF Collect, Unlocks, TokensTypeOK, Request, Idle
<1>11. ASSUME NEW q \in Requests, LogoutDecode(q)
       PROVE  expired' \in 0..MaxToken /\ UNCHANGED tokens /\ Unlocks(q)
  <2>1. requests[q] \in Request /\ requests[q].token \in Tokens
        /\ tokens[requests[q].token].issued
    BY <1>11 DEF LogoutDecode, TokensTypeOK, Presented
  <2>2. CASE requests[q].token <= expired
    BY <1>11, <2>1, <2>2 DEF LogoutDecode, Unlocks, Answered, TokensTypeOK, Request
  <2>3. CASE ~(requests[q].token <= expired)
    BY <1>11, <2>1, <2>3 DEF LogoutDecode, Unlocks, TokensTypeOK, Request
  <2> QED
    BY <1>11, <2>2, <2>3 DEF LogoutDecode, TokensTypeOK
<1> QED
  BY <1>1, <1>2, <1>3, <1>4, <1>5, <1>6, <1>7, <1>8, <1>9, <1>10, <1>11
  DEF TokensNext, ServerStep

\* A locked token is issued and is nobody else's.
LEMMA LockHolder ==
  ASSUME TokensIInv, NEW q \in Requests, requests[q].pc = "locked"
  PROVE  /\ requests[q].token \in Tokens
         /\ tokens[requests[q].token].issued
         /\ Live(requests[q].token)
         /\ tokens[requests[q].token].login \in Tokens
         /\ \A r \in Requests \ {q} :
              requests[r].pc = "locked" => requests[r].token # requests[q].token
  BY DEF TokensIInv, Presented, LockedIsLive, LockedOnce, LoginsIssued

LEMMA TokensTypeStep ==
  ASSUME TokensIInv, [TokensNext]_tokenVars
  PROVE  TokensTypeOK'
<1> USE TokenAssumption, TokensFromOne
<1>1. tokens \in [Tokens -> Row] /\ requests \in [Requests -> Request]
  BY DEF TokensIInv, TokensTypeOK
<1>2. tokens' \in [Tokens -> Row]
  <2>1. \A l \in Tokens : NewRow(l) \in Row
    BY DEF NewRow, Row
  <2>2. ASSUME NEW t \in Tokens, Started(t) PROVE tokens' \in [Tokens -> Row]
    BY <1>1, <2>1, <2>2 DEF Started
  <2>3. ASSUME NEW q \in Requests, NEW t \in Tokens, Exchanged(q, t)
        PROVE  tokens' \in [Tokens -> Row]
    BY <1>1, <2>1, <2>3, LockHolder DEF Exchanged, Row
  <2>4. ASSUME NEW q \in Requests, Ended(q) PROVE tokens' \in [Tokens -> Row]
    BY <1>1, <2>4 DEF Ended, Row
  <2> QED
    BY <1>1, <2>2, <2>3, <2>4, TokenSteps DEF Locks
<1>3. requests' \in [Requests -> Request]
  BY <1>1, TokenSteps DEF Started, Exchanged, Ended, Unlocks, Locks
<1> QED
  BY <1>2, <1>3, TokenSteps DEF TokensTypeOK

LEMMA TokensStep ==
  ASSUME TokensIInv, [TokensNext]_tokenVars
  PROVE  TokensIInv'
<1> USE DEF TokensIInv
<1>1. TokensTypeOK'
  BY TokensTypeStep
<1>2. CASE UNCHANGED <<tokens, requests>>
  BY <1>1, <1>2 DEF AbsentTokens, LoginsIssued, Presented, LockedIsLive,
                    LockedOnce, OneLiveToken, Live
<1>3. ASSUME NEW t \in Tokens, Started(t) PROVE TokensIInv'
  <2>1. ~tokens[t].issued /\ tokens[t] = NoRow
    BY <1>3 DEF Started, Fresh, AbsentTokens
  <2>2. tokens'[t] = NewRow(t) /\ \A u \in Tokens \ {t} : tokens'[u] = tokens[u]
    BY <1>3 DEF Started, TokensTypeOK
  <2>3. \A u \in Tokens : tokens[u].issued => u # t /\ tokens[u].login # t
    BY <2>1 DEF LoginsIssued
  <2>4. AbsentTokens' /\ LoginsIssued'
    BY <2>2, <2>3 DEF AbsentTokens, LoginsIssued, NewRow
  <2>5. Presented' /\ LockedIsLive' /\ LockedOnce'
    BY <1>3, <2>2, <2>3 DEF Started, Presented, LockedIsLive, LockedOnce, Live
  <2>6. OneLiveToken'
    BY <2>2, <2>3 DEF OneLiveToken, Live, NewRow
  <2> QED
    BY <1>1, <2>4, <2>5, <2>6
<1>4. ASSUME NEW q \in Requests, UNCHANGED tokens, Unlocks(q) PROVE TokensIInv'
  BY <1>1, <1>4 DEF Unlocks, AbsentTokens, LoginsIssued, Presented, LockedIsLive,
                    LockedOnce, OneLiveToken, Live
<1>5. ASSUME NEW q \in Requests, Locks(q) PROVE TokensIInv'
  <2>1. LockedOnce'
    BY <1>5 DEF Locks, LockedOnce, TokenLocked
  <2> QED
    BY <1>1, <1>5, <2>1 DEF Locks, AbsentTokens, LoginsIssued, Presented,
                            LockedIsLive, OneLiveToken, Live
<1>6. ASSUME NEW q \in Requests, Ended(q) PROVE TokensIInv'
  <2> DEFINE k == requests[q].token
  <2>1. k \in Tokens /\ \A r \in Requests \ {q} :
          requests[r].pc = "locked" => requests[r].token # k
    BY <1>6, LockHolder DEF Ended
  <2>2. \A u \in Tokens :
          /\ tokens'[u].issued = tokens[u].issued
          /\ tokens'[u].login = tokens[u].login
          /\ u # k => tokens'[u] = tokens[u]
    BY <1>6 DEF Ended, TokensTypeOK, Row
  <2>3. tokens'[k].revoked # "no"
    BY <1>6, <2>1 DEF Ended, TokensTypeOK, Row
  <2>4. AbsentTokens' /\ LoginsIssued'
    BY <1>6, <2>1, <2>2, LockHolder DEF Ended, AbsentTokens, LoginsIssued
  <2>5. Presented' /\ LockedIsLive' /\ LockedOnce'
    BY <1>6, <2>1, <2>2
    DEF Ended, Unlocks, Presented, LockedIsLive, LockedOnce, Live
  <2>6. OneLiveToken'
    BY <2>2, <2>3 DEF OneLiveToken, Live
  <2> QED
    BY <1>1, <2>4, <2>5, <2>6
<1>7. ASSUME NEW q \in Requests, NEW t \in Tokens, Exchanged(q, t) PROVE TokensIInv'
  <2>1. PICK k \in Tokens, l \in Tokens :
          k = requests[q].token /\ l = tokens[k].login
    BY <1>7, LockHolder DEF Exchanged
  <2>2. /\ tokens[k].issued /\ Live(k)
        /\ \A r \in Requests \ {q} :
             requests[r].pc = "locked" => requests[r].token # k
    BY <1>7, <2>1, LockHolder DEF Exchanged
  <2>3. ~tokens[t].issued /\ t # k
    BY <1>7, <2>2 DEF Exchanged, Fresh
  <2>4. /\ tokens'[t] = NewRow(l)
        /\ tokens'[k] = [tokens[k] EXCEPT !.revoked = "rotation"]
        /\ \A u \in Tokens \ {t, k} : tokens'[u] = tokens[u]
    BY <1>7, <2>1, <2>3 DEF Exchanged, TokensTypeOK
  <2>5. tokens'[k].issued /\ tokens'[k].login = l /\ tokens'[k].revoked = "rotation"
    <3>1. tokens[k] \in Row
      BY DEF TokensTypeOK
    <3> QED
      BY <2>1, <2>2, <2>4, <3>1 DEF Row
  <2>6. tokens'[t].issued /\ tokens'[t].login = l /\ tokens'[t].revoked = "no"
    BY <2>4 DEF NewRow
  <2>7. tokens[l].issued
    BY <2>1, <2>2 DEF LoginsIssued
  <2>8. AbsentTokens' /\ LoginsIssued'
    <3>1. \A u \in Tokens : tokens[u].issued => tokens'[u].issued
      BY <2>4, <2>5, <2>6
    <3> QED
      BY <2>4, <2>5, <2>6, <2>7, <3>1 DEF AbsentTokens, LoginsIssued
  <2>9. Presented' /\ LockedIsLive' /\ LockedOnce'
    <3>1. \A u \in Tokens : tokens[u].issued => tokens'[u].issued
      BY <2>4, <2>5, <2>6
    <3>2. \A u \in Tokens : u # k /\ Live(u) => tokens'[u].issued /\ tokens'[u].revoked = "no"
      BY <2>4, <2>6 DEF Live
    <3>3. Presented'
      BY <1>7, <3>1 DEF Exchanged, Unlocks, Presented
    <3>4. LockedIsLive'
      <4> SUFFICES ASSUME NEW r \in Requests, requests'[r].pc = "locked"
                   PROVE  Live(requests[r].token)'
        BY DEF LockedIsLive
      <4>1. r # q /\ requests'[r] = requests[r]
        BY <1>7 DEF Exchanged, Unlocks
      <4>2. requests[r].token \in Tokens \ {k} /\ Live(requests[r].token)
        BY <2>2, <4>1 DEF Presented, LockedIsLive
      <4> QED
        BY <3>2, <4>1, <4>2 DEF Live
    <3>5. LockedOnce'
      BY <1>7 DEF Exchanged, Unlocks, LockedOnce
    <3> QED
      BY <3>3, <3>4, <3>5
  <2>10. OneLiveToken'
    \* Before the step k was the only live token of chain l, now t is.
    <3>1. \A u \in Tokens : tokens'[u].issued /\ tokens'[u].revoked = "no" =>
            u = t \/ (Live(u) /\ u # k /\ tokens'[u].login = tokens[u].login)
      BY <2>4, <2>5 DEF Live
    <3>2. \A u \in Tokens : Live(u) /\ u # k => tokens[u].login # l
      BY <2>1, <2>2 DEF OneLiveToken
    <3> QED
      BY <2>6, <3>1, <3>2 DEF OneLiveToken, Live
  <2> QED
    BY <1>1, <2>8, <2>9, <2>10
<1> QED
  BY <1>2, <1>3, <1>4, <1>5, <1>6, <1>7, TokenSteps

LEMMA TokensInductive == TokensSpec => []TokensIInv
<1>1. TokensInit => TokensIInv
  BY TokensInitially
<1>2. TokensIInv /\ [TokensNext]_tokenVars => TokensIInv'
  BY TokensStep
<1> QED
  BY <1>1, <1>2, PTL DEF TokensSpec

(***************************************************************************)
(* Every variable of the server keeps its type.                            *)
(***************************************************************************)
THEOREM TokensTypeCorrect == TokensSpec => []TokensTypeOK
<1>1. TokensIInv => TokensTypeOK
  BY DEF TokensIInv
<1> QED
  BY <1>1, TokensInductive, PTL

(***************************************************************************)
(* Any number of requests presenting one token leave its login at most one *)
(* token that is not revoked.                                              *)
(***************************************************************************)
THEOREM AlwaysOneLiveToken == TokensSpec => []OneLiveToken
<1>1. TokensIInv => OneLiveToken
  BY DEF TokensIInv
<1> QED
  BY <1>1, TokensInductive, PTL

-----------------------------------------------------------------------------
(* Refinement                                                              *)

\* The live tokens of chain l, and the tokens issued, as SessionChain sees them.
LiveOf(l) == {t \in Tokens : Live(t) /\ tokens[t].login = l}
Issued == {t \in Tokens : tokens[t].issued}

LEMMA ChainInitially == TokensInit => Chain!ChainInit
  BY DEF TokensInit, Chain!ChainInit, Live, NoRow

LEMMA ChainStep ==
  ASSUME TokensIInv, TokensIInv', [TokensNext]_tokenVars
  PROVE  [Chain!ChainNext]_(Chain!chainVars)
<1> USE DEF TokensIInv
<1> DEFINE live == [l \in Tokens |-> LiveOf(l)]
<1>1. CASE UNCHANGED tokens
  BY <1>1 DEF Chain!chainVars, Live
<1>2. ASSUME NEW t \in Tokens, Started(t) PROVE Chain!Start(t)
  <2>1. t \notin Issued
    BY <1>2 DEF Started, Fresh, Issued
  <2>2. tokens'[t] = NewRow(t) /\ \A u \in Tokens \ {t} : tokens'[u] = tokens[u]
    BY <1>2 DEF Started, TokensTypeOK
  <2>3. Issued' = Issued \cup {t}
    BY <2>2 DEF Issued, NewRow
  <2>4. \A u \in Tokens : Live(u) => u # t /\ tokens[u].login # t
    BY <2>1 DEF Live, LoginsIssued, Issued
  <2>5. LiveOf(t)' = {t}
    BY <2>2, <2>4 DEF LiveOf, Live, NewRow
  <2>6. \A l \in Tokens \ {t} : LiveOf(l)' = LiveOf(l)
    BY <2>2, <2>4 DEF LiveOf, Live, NewRow
  <2>7. live' = [live EXCEPT ![t] = {t}]
    BY <2>5, <2>6
  <2> QED
    BY <2>1, <2>3, <2>7 DEF Chain!Start, LiveOf, Issued
<1>3. ASSUME NEW q \in Requests, Ended(q)
      PROVE  \E l, last \in Tokens : Chain!End(l, last)
  <2>1. PICK k \in Tokens, l \in Tokens :
          k = requests[q].token /\ l = tokens[k].login /\ Live(k)
    BY <1>3, LockHolder DEF Ended
  <2>2. tokens[k] \in Row /\ tokens' = [tokens EXCEPT ![k].revoked = "logout"]
    BY <1>3, <2>1 DEF Ended, TokensTypeOK
  <2>3. /\ tokens'[k].issued /\ tokens'[k].revoked = "logout"
        /\ \A u \in Tokens \ {k} : tokens'[u] = tokens[u]
    BY <2>1, <2>2 DEF TokensTypeOK, Row, Live
  <2>4. Issued' = Issued
    BY <2>1, <2>3 DEF Issued, Live
  <2>5. LiveOf(l) = {k}
    BY <2>1 DEF LiveOf, OneLiveToken
  <2>6. LiveOf(l)' = {}
    BY <2>3, <2>5 DEF LiveOf, Live
  <2>7. \A m \in Tokens \ {l} : LiveOf(m)' = LiveOf(m)
    BY <2>1, <2>3 DEF LiveOf, Live
  <2>8. live' = [live EXCEPT ![l] = {}]
    BY <2>6, <2>7
  <2> QED
    BY <2>4, <2>5, <2>8 DEF Chain!End, LiveOf, Issued
<1>4. ASSUME NEW q \in Requests, NEW t \in Tokens, Exchanged(q, t)
      PROVE  \E l, old, new \in Tokens : Chain!Exchange(l, old, new)
  <2>1. PICK k \in Tokens, l \in Tokens :
          k = requests[q].token /\ l = tokens[k].login /\ Live(k)
    BY <1>4, LockHolder DEF Exchanged
  <2>2. t \notin Issued /\ t # k
    BY <1>4, <2>1 DEF Exchanged, Fresh, Issued, Live
  <2>3. /\ tokens'[t] = NewRow(l)
        /\ tokens'[k] = [tokens[k] EXCEPT !.revoked = "rotation"]
        /\ \A u \in Tokens \ {t, k} : tokens'[u] = tokens[u]
    BY <1>4, <2>1, <2>2 DEF Exchanged, TokensTypeOK
  <2>4. tokens[k] \in Row
    BY DEF TokensTypeOK
  <2>5. \A u \in Tokens :
          /\ tokens'[u].issued <=> u = t \/ tokens[u].issued
          /\ tokens'[u].revoked = "no" <=> u = t \/ (u # k /\ tokens[u].revoked = "no")
          /\ u # t => tokens'[u].login = tokens[u].login
    <3>1. /\ tokens'[k].issued <=> tokens[k].issued
          /\ tokens'[k].revoked = "rotation"
          /\ tokens'[k].login = tokens[k].login
      BY <2>3, <2>4 DEF Row
    <3>2. tokens'[t].issued /\ tokens'[t].revoked = "no"
      BY <2>3 DEF NewRow
    <3> QED
      BY <2>2, <2>3, <3>1, <3>2
  <2>6. Issued' = Issued \cup {t}
    BY <2>5 DEF Issued
  <2>7. LiveOf(l) = {k}
    BY <2>1 DEF LiveOf, OneLiveToken
  <2>8. tokens'[t].login = l
    BY <2>3 DEF NewRow
  <2>9. LiveOf(l)' = {t}
    <3>1. \A u \in Tokens : u \in LiveOf(l)' <=> u = t
      BY <2>2, <2>5, <2>7, <2>8 DEF LiveOf, Live
    <3> QED
      BY <3>1 DEF LiveOf
  <2>10. \A m \in Tokens \ {l} : LiveOf(m)' = LiveOf(m)
    <3>1. \A m \in Tokens \ {l}, u \in Tokens : u \in LiveOf(m)' <=> u \in LiveOf(m)
      BY <2>1, <2>2, <2>5, <2>8 DEF LiveOf, Live, Issued
    <3> QED
      BY <3>1 DEF LiveOf
  <2>11. live' = [live EXCEPT ![l] = {t}]
    BY <2>9, <2>10
  <2>12. Chain!Exchange(l, k, t)
    BY <2>2, <2>6, <2>7, <2>11 DEF Chain!Exchange, LiveOf, Issued
  <2> QED
    BY <2>12
<1> QED
  BY <1>1, <1>2, <1>3, <1>4, TokenSteps DEF Chain!ChainNext, Locks

(***************************************************************************)
(* Each use of a token exchanges the only good one of its login, and a     *)
(* chain that has ended does not come back: the rows of refresh_tokens     *)
(* implement SessionChain.                                                 *)
(***************************************************************************)
THEOREM TokensImplementChain == TokensSpec => ImplementsChain
<1>1. TokensIInv /\ TokensIInv' /\ [TokensNext]_tokenVars
        => [Chain!ChainNext]_(Chain!chainVars)
  BY ChainStep
<1> QED
  BY <1>1, TokensInductive, ChainInitially, PTL
  DEF TokensSpec, ImplementsChain, Chain!ChainSpec

=============================================================================
