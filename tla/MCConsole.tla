------------------------------ MODULE MCConsole ------------------------------
(* An instance of Console for TLC. *)
EXTENDS Console

MCTyped == Letters \cup {CR, EOF, KILL, ERASE}
==============================================================================
