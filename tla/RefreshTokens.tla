--------------------------- MODULE RefreshTokens ---------------------------
(***************************************************************************)
(* The server's refresh tokens.  A login starts a chain of tokens, each    *)
(* use of a token replaces it by the next, a logout ends the chain.  Any   *)
(* number of requests may present the same token at the same time; each    *)
(* locks the token's row before it decides.                                *)
(*                                                                         *)
(* Code: services/auth_service.py, repositories/refresh_token_repository.py*)
(*                                                                         *)
(* Whoever holds a token may present it: clients are in BrowserSession.    *)
(* No operation deactivates a user, so users are active.  Every token has  *)
(* the same lifetime, so they expire in the order they were issued.        *)
(***************************************************************************)
EXTENDS Naturals

CONSTANTS
    Requests,    \* concurrent requests to /auth/refresh and /auth/logout
    MaxToken     \* bound on the number of tokens ever issued

ASSUME TokenAssumption == MaxToken \in Nat \ {0}

VARIABLES
    tokens,      \* the rows of refresh_tokens
    expired,     \* tokens up to this one have expired
    requests     \* locals of the requests

tokenVars == <<tokens, expired, requests>>

Tokens == 1..MaxToken

\* `login' is the token that started the chain; no code reads it.
Row == [issued : BOOLEAN, revoked : {"no", "rotation", "logout"}, login : 0..MaxToken]
NoRow == [issued |-> FALSE, revoked |-> "no", login |-> 0]
NewRow(login) == [issued |-> TRUE, revoked |-> "no", login |-> login]

Idle == [op |-> "none", pc |-> "idle", token |-> 0, answer |-> "none", new |-> 0]
Request == [op : {"none", "refresh", "logout"},
            pc : {"idle", "sent", "decoded", "locked", "answered"},
            token : 0..MaxToken,
            answer : {"none", "ok", "revoked", "expired", "error"},
            new : 0..MaxToken]

TokensTypeOK ==
    /\ tokens \in [Tokens -> Row]
    /\ expired \in 0..MaxToken
    /\ requests \in [Requests -> Request]

TokensInit ==
    /\ tokens = [t \in Tokens |-> NoRow]
    /\ expired = 0
    /\ requests = [q \in Requests |-> Idle]

-----------------------------------------------------------------------------

Fresh(t) == ~tokens[t].issued /\ \A u \in Tokens : u < t => tokens[u].issued

Answered(request, answer) == [request EXCEPT !.pc = "answered", !.answer = answer]

\* login: the password was right.
Login(t) ==
    /\ Fresh(t)
    /\ tokens' = [tokens EXCEPT ![t] = NewRow(t)]
    /\ UNCHANGED <<expired, requests>>

Send(q, op, t) ==
    /\ requests[q] = Idle
    /\ tokens[t].issued
    /\ requests' = [requests EXCEPT ![q] =
            [Idle EXCEPT !.op = op, !.pc = "sent", !.token = t]]
    /\ UNCHANGED <<tokens, expired>>

\* Mutant: the SELECT without FOR UPDATE.
NeverLocked(t) == FALSE

\* get_for_update of one request excludes those of the others.
TokenLocked(t) == \E q \in Requests : requests[q].pc = "locked" /\ requests[q].token = t

\* The checks of refresh, in their order, once it has the row.
RefreshVerdict(t) ==
    IF tokens[t].revoked # "no" THEN "revoked"
    ELSE IF t <= expired THEN "expired" ELSE "ok"

RefreshRead(q) ==
    /\ requests[q].pc = "sent" /\ requests[q].op = "refresh"
    /\ ~TokenLocked(requests[q].token)
    /\ LET verdict == RefreshVerdict(requests[q].token) IN
        requests' = [requests EXCEPT ![q] =
            IF verdict = "ok" THEN [@ EXCEPT !.pc = "locked"] ELSE Answered(@, verdict)]
    /\ UNCHANGED <<tokens, expired>>

\* revoke, _issue_token_pair, commit.
RefreshCommit(q, t) ==
    /\ requests[q].pc = "locked" /\ requests[q].op = "refresh"
    /\ Fresh(t)
    /\ tokens' = [tokens EXCEPT
            ![requests[q].token].revoked = "rotation",
            ![t] = NewRow(tokens[requests[q].token].login)]
    /\ requests' = [requests EXCEPT ![q] = [Answered(@, "ok") EXCEPT !.new = t]]
    /\ UNCHANGED expired

\* logout verifies the JWT with its expiration, and then waits for the row.
LogoutDecode(q) ==
    /\ requests[q].pc = "sent" /\ requests[q].op = "logout"
    /\ requests' = [requests EXCEPT ![q] =
            IF @.token <= expired THEN Answered(@, "expired") ELSE [@ EXCEPT !.pc = "decoded"]]
    /\ UNCHANGED <<tokens, expired>>

LogoutRead(q) ==
    /\ requests[q].pc = "decoded" /\ requests[q].op = "logout"
    /\ ~TokenLocked(requests[q].token)
    /\ requests' = [requests EXCEPT ![q] =
            IF tokens[@.token].revoked = "no" THEN [@ EXCEPT !.pc = "locked"]
            ELSE Answered(@, "ok")]
    /\ UNCHANGED <<tokens, expired>>

LogoutCommit(q) ==
    /\ requests[q].pc = "locked" /\ requests[q].op = "logout"
    /\ tokens' = [tokens EXCEPT ![requests[q].token].revoked = "logout"]
    /\ requests' = [requests EXCEPT ![q] = Answered(@, "ok")]
    /\ UNCHANGED expired

\* A database error: rollback and a 500.
RequestFail(q) ==
    /\ requests[q].pc \in {"sent", "decoded", "locked"}
    /\ requests' = [requests EXCEPT ![q] = Answered(@, "error")]
    /\ UNCHANGED <<tokens, expired>>

\* The answer is read, or nobody waits for it any more.
Collect(q) ==
    /\ requests[q].pc = "answered"
    /\ requests' = [requests EXCEPT ![q] = Idle]
    /\ UNCHANGED <<tokens, expired>>

Expire(t) ==
    /\ tokens[t].issued
    /\ t = expired + 1
    /\ expired' = t
    /\ UNCHANGED <<tokens, requests>>

ServerStep(q) ==
    \/ RefreshRead(q)
    \/ \E t \in Tokens : RefreshCommit(q, t)
    \/ LogoutDecode(q)
    \/ LogoutRead(q)
    \/ LogoutCommit(q)

TokensNext ==
    \/ \E t \in Tokens : Login(t) \/ Expire(t)
    \/ \E q \in Requests :
        \/ \E op \in {"refresh", "logout"}, t \in Tokens : Send(q, op, t)
        \/ ServerStep(q)
        \/ RequestFail(q)
        \/ Collect(q)

TokensSpec == TokensInit /\ [][TokensNext]_tokenVars

-----------------------------------------------------------------------------

Live(t) == tokens[t].issued /\ tokens[t].revoked = "no"

(***************************************************************************)
(* However many requests present the same token at once, a login has at    *)
(* most one token that is not revoked: refresh decides under the lock of   *)
(* the row it revokes (README: "the used token is revoked and cannot be    *)
(* reused").                                                               *)
(***************************************************************************)
OneLiveToken ==
    \A t, u \in Tokens :
        Live(t) /\ Live(u) /\ tokens[t].login = tokens[u].login => t = u

(***************************************************************************)
(* The rows implement the chain of each login: every use of a token        *)
(* exchanges the only good one, and neither a refresh that overlaps a      *)
(* logout nor a revoked token presented again brings a chain back.         *)
(***************************************************************************)
Chain == INSTANCE SessionChain WITH
    live <- [l \in Tokens |-> {t \in Tokens : Live(t) /\ tokens[t].login = l}],
    issued <- {t \in Tokens : tokens[t].issued}

ImplementsChain == Chain!ChainSpec

=============================================================================
