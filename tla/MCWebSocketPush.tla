-------------------------- MODULE MCWebSocketPush ---------------------------
(* Instances of WebSocketPush for TLC.                                     *)
EXTENDS WebSocketPush
=============================================================================
