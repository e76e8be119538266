-------------------------- MODULE MCConfirmedCommit --------------------------
(* Two connections, the timer's process and two configurations.  The largest *)
(* timeout is scaled down; the arguments are a missing one, which means 600,  *)
(* text, zero, and a value that is one too large.                             *)
EXTENDS ConfirmedCommit

MCMaxUint == 700
MCTimeoutArg == {NoTimeout, NotANumber, 0, MCMaxUint + 1}
=============================================================================
