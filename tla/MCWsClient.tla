----------------------------- MODULE MCWsClient -----------------------------
(* A small instance of WsClient. *)
EXTENDS WsClient
=============================================================================
