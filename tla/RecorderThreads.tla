--------------------------- MODULE RecorderThreads ---------------------------
(***************************************************************************)
(* Who is at work in the service: for every client the binder thread that  *)
(* serves its calls, one at a time (RecorderClient::lock_), and the thread *)
(* that cleans up when it has died (RecorderService::ClientDeathHandler).  *)
(***************************************************************************)
CONSTANTS Clients, None

Threads == Clients \X {"call", "death"}
Client(t) == t[1]
=============================================================================
