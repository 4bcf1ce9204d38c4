------------------------------ MODULE MCTracker ------------------------------
(* Tracker on the sets that TLC runs it on.                                  *)
EXTENDS Tracker

CONSTANTS firefox, kitty

MCIds == {firefox, kitty}
=============================================================================
