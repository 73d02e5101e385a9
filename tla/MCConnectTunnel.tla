--------------------------- MODULE MCConnectTunnel ---------------------------
(***************************************************************************)
(* A small instance of ConnectTunnel for TLC.                              *)
(***************************************************************************)
EXTENDS ConnectTunnel

\* A TLS client; a WebSocket or HTTP client; one that POSTs; an unknown
\* protocol whose first byte is that of TLS; a client with less to say than
\* the task asks for; one that says nothing.
MCScripts == {<<22, 3, 1, 5, 6, 7>>, <<71, 69, 84, 32, 47, 9>>, <<80, 79, 83, 84, 32>>,
              <<22, 9, 3, 5, 6>>, <<83, 0>>, <<22>>, <<>>}
MCRooms   == {1, 3, 8}
=============================================================================
