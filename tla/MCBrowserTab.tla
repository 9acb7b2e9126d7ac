----------------------------- MODULE MCBrowserTab ---------------------------
(***************************************************************************)
(* Instances of BrowserTab: one passenger in one tab, two searches, one    *)
(* coach.                                                                  *)
(***************************************************************************)
EXTENDS BrowserTab

CONSTANTS searchA, searchB, coach, hold1, hold2

TwoSearches == {searchA, searchB}
OneCoach == {coach}
OneHold == {hold1}
TwoHolds == {hold1, hold2}
=============================================================================
