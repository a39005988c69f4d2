-------------------------- MODULE MCTelegramIntake --------------------------
(***************************************************************************)
(* Two people and an update with no text; each person's queue holds one     *)
(* message, so three from one person are enough to fill it.                 *)
(***************************************************************************)
EXTENDS TelegramIntake

CONSTANTS ann, bob

MCSender == [u \in Updates |-> CASE u \in {1, 3, 5} -> ann [] u = 2 -> bob [] OTHER -> None]
=============================================================================
