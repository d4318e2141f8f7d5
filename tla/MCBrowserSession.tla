-------------------------- MODULE MCBrowserSession --------------------------
(* Instances of BrowserSession for TLC.                                    *)
EXTENDS BrowserSession, TLC

Symmetry ==
    UNION {Permutations(set) : set \in {Tabs, Pages, Restores, Requests}}
=============================================================================
