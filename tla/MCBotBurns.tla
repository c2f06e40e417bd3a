---------------------------- MODULE MCBotBurns ----------------------------
(* Small instances of BotBurns for TLC. *)
EXTENDS BotBurns

CONSTANTS u1, u2, p1, p2

\* A failed request or a restart, not both in one behaviour.
OneTrouble == faults + crashes <= 1
=============================================================================
