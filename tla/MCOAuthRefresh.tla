--------------------------- MODULE MCOAuthRefresh ---------------------------
(* Instances of OAuthRefresh for TLC: constants are given in the cfg.      *)
EXTENDS OAuthRefresh

CONSTANTS c1, c2, tick, test
==============================================================================
