-------------------------- MODULE MCTerminalSession --------------------------
(* Small instances of TerminalSession.                                     *)
EXTENDS TerminalSession
=============================================================================
