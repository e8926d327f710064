-------------------------- MODULE ThreadedHandshake --------------------------
(***************************************************************************)
(* rdmacm02: a thread for every connection that only waits until it is     *)
(* established and takes it down again.  What setup_connection created for *)
(* it is never freed.  Its client, client.c, is that of Handshake.         *)
(***************************************************************************)
EXTENDS CmThreads

\* main empties the table, the event loop starts.
Init == CmInit

\* cm_event_loop.
cm_event_loop == Main \/ MainDies

\* What setup_connection creates, if it does not end the process.
SetupConnection == CreateAll(<<"pd", "cc", "cq", "qp", "mr">>)

\* handle_request.
handle_request(c) ==
    \/ Accept(c, SetupConnection)
    \/ wpc[c] = "start" /\ Die
    \/ SemWait(c, "disconnect")
    \/ Disconnect(c) \/ DestroyId(c, "clear") \/ ClearSlot(c) \/ SemDestroy(c)

\* A client connects, waits for ESTABLISHED and disconnects.
client(c) == PeerConnect(c) \/ PeerEstablished(c) \/ PeerLeaves(c) \/ PeerGivesUp(c)

Next ==
    \/ cm_event_loop
    \/ \E c \in Conns : Running /\ (handle_request(c) \/ client(c))
    \/ (Quiet \/ ~Running) /\ UNCHANGED cmVars

Spec == Init /\ [][Next]_cmVars

\* Every thread of the server runs on, and no call has to fail; nothing is
\* assumed of the clients.
FairSpec ==
    /\ Spec
    /\ WF_cmVars(Main)
    /\ \A c \in Conns : WF_cmVars(Running /\ handle_request(c))

(***************************************************************************)
(* Properties.                                                             *)
(***************************************************************************)

\* A client that was told it is connected finds a thread of its own, before,
\* at or past its semaphore, and no thread serves two: every connection is
\* taken down by the server as well (server.c:29-45).
TakenDown ==
    \A c \in Conns : peer[c] = "idle" ~> qp[c] = "ERR" \/ ~Running
=============================================================================
