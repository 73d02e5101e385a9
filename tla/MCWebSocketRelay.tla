-------------------------- MODULE MCWebSocketRelay --------------------------
(***************************************************************************)
(* A small instance of WebSocketRelay for TLC.                             *)
(***************************************************************************)
EXTENDS WebSocketRelay
=============================================================================
