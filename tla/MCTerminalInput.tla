-------------------------- MODULE MCTerminalInput --------------------------
(* Instances of TerminalInput for TLC. *)
EXTENDS TerminalInput
=============================================================================
