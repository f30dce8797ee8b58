------------------------------ MODULE MCRetention -----------------------------
(* Retention on a small calendar: days of two minutes. *)
EXTENDS Retention
===============================================================================
