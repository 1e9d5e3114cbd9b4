------------------------------ MODULE OiServer ------------------------------
(***************************************************************************)
(* A listening socket of liboi (oi_server in oi_socket.c), as net.cc and   *)
(* http.cc use it, and one client in the backlog of the kernel.            *)
(***************************************************************************)
VARIABLES
  listening,   \* server->listening
  sfd,         \* its descriptor: "none", "open" or "closed"
  acceptW,     \* connection_watcher is active, on the loop
  client       \* "none", "waiting" in the backlog, or "taken"

serverVars == <<listening, sfd, acceptW, client>>

\* oi_server_init.
ServerInit ==
  /\ listening = FALSE
  /\ sfd = "none"
  /\ acceptW = FALSE
  /\ client = "none"

\* oi_server_listen and oi_server_attach, always called together; a failure
\* changes nothing.  An assertion asks for a server that does not listen.
Listen ==
  /\ ~listening
  /\ listening' = TRUE /\ sfd' = "open" /\ acceptW' = TRUE
  /\ UNCHANGED client

\* oi_server_close, and oi_server_detach, which it calls.  The kernel turns away
\* who waits.
ServerClose ==
  /\ listening' = FALSE /\ acceptW' = FALSE
  /\ sfd' = IF listening THEN "closed" ELSE sfd
  /\ client' = IF client = "waiting" THEN "none" ELSE client

\* A client connects: the kernel completes it, and the descriptor is readable.
Arrive ==
  /\ sfd = "open" /\ client = "none"
  /\ client' = "waiting"
  /\ UNCHANGED <<listening, sfd, acceptW>>

\* on_connection gets as far as accept (); it fails if the client has gone.
Accept ==
  /\ acceptW /\ client = "waiting"
  /\ client' = "taken"
  /\ UNCHANGED <<listening, sfd, acceptW>>
=============================================================================
