-------------------------- MODULE MCTerminalRelay --------------------------
(* TerminalRelay, with the bounds that the .cfg gives it.                   *)
EXTENDS TerminalRelay

=============================================================================
