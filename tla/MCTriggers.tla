------------------------------- MODULE MCTriggers -------------------------------
(* Two scheduled triggers and their recoveries over two items. *)
EXTENDS Triggers

===============================================================================
