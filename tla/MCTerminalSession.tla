------------------------- MODULE MCTerminalSession -------------------------
(* Bounds for model checking: the tabs and connect requests are model      *)
(* values.                                                                 *)
EXTENDS TerminalSession, TLC
=============================================================================
