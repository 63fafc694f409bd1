---- MODULE MCMessageWindow ----
(* MessageWindow on a small instance. *)
EXTENDS MessageWindow
====
