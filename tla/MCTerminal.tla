----------------------------- MODULE MCTerminal -----------------------------
(* Small instances of the terminal for TLC. *)
EXTENDS Terminal
=============================================================================
