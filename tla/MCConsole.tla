------------------------------ MODULE MCConsole ------------------------------
(* A keyboard with a letter, Backspace, Enter and a key that gives no        *)
(* printable character.                                                      *)
EXTENDS Console
=============================================================================
