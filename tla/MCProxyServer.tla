---------------------------- MODULE MCProxyServer ----------------------------
(***************************************************************************)
(* Small instances of ProxyServer for TLC.                                 *)
(***************************************************************************)
EXTENDS ProxyServer

CONSTANTS c1, c2, c3

MCConns1 == {c1}
MCConns3 == {c1, c2, c3}
=============================================================================
