---------------------------- MODULE SessionChain ----------------------------
(***************************************************************************)
(* What the server promises about the refresh tokens of a login, whatever  *)
(* requests present them at the same time: one token is good, each use     *)
(* exchanges it for a token never issued before, and a chain that has      *)
(* ended does not come back.  RefreshTokens implements it.                 *)
(***************************************************************************)

CONSTANT Tokens

VARIABLES
    live,    \* [login -> its good token, as a set of at most one]
    issued   \* the tokens issued so far

chainVars == <<live, issued>>

ChainInit ==
    /\ live = [l \in Tokens |-> {}]
    /\ issued = {}

\* A chain is named after its first token.
Start(l) ==
    /\ l \notin issued
    /\ live' = [live EXCEPT ![l] = {l}]
    /\ issued' = issued \cup {l}

Exchange(l, old, new) ==
    /\ live[l] = {old}
    /\ new \notin issued
    /\ live' = [live EXCEPT ![l] = {new}]
    /\ issued' = issued \cup {new}

End(l, last) ==
    /\ live[l] = {last}
    /\ live' = [live EXCEPT ![l] = {}]
    /\ UNCHANGED issued

ChainNext ==
    \E l \in Tokens :
        \/ Start(l)
        \/ \E old, new \in Tokens : Exchange(l, old, new)
        \/ \E last \in Tokens : End(l, last)

ChainSpec == ChainInit /\ [][ChainNext]_chainVars

=============================================================================
