-------------------------- MODULE MCBrowserSession --------------------------
(* Instances of BrowserSession for TLC: sessions that are told apart only   *)
(* by name.                                                                 *)
EXTENDS BrowserSession, TLC

AnySession == Permutations(Sessions)
=============================================================================
