---------------------------- MODULE MediaServer ----------------------------
(***************************************************************************)
(* The server of frames: the main loop of `0711/v4l2_tcp_server.c`, one    *)
(* step per system call.  Its sockets block, so a recv() with nothing to   *)
(* receive is a step that is not enabled.                                  *)
(***************************************************************************)
EXTENDS MediaSockets, FiniteSetsExt

unchangedByServer == clientVars
unchangedSockets  == <<master_set, fdmax, backlog, peer, dropped>>

\* What select() would report of socket f.
Ready(f) == IF f = Listener THEN backlog # <<>>
            ELSE up[peer[f]] # <<>> \/ cpc[peer[f]] = "closed"

\* Seeded fault: the set given to select() is scanned, not the one it returns.
M_SelectReady ==
    /\ pc = "select"
    /\ \E f \in master_set : Ready(f)
    /\ read_fds' = master_set
    /\ i' = 0
    /\ pc' = "scan"
    /\ UNCHANGED <<unchangedByServer, unchangedSockets, part, final_ack, up,
                   down, reset, shown>>

\* read_fds = master_set, and select() keeps of it what is ready.
SelectReady ==
    /\ pc = "select"
    /\ \E f \in master_set : Ready(f)
    /\ read_fds' = {f \in master_set : Ready(f)}
    /\ i' = 0
    /\ pc' = "scan"
    /\ UNCHANGED <<unchangedByServer, unchangedSockets, part, final_ack, up,
                   down, reset, shown>>

\* select() fails: every socket is closed and the server ends.
SelectFails ==
    /\ pc = "select"
    /\ pc' = "down"
    /\ dropped' = {c \in Client : cpc[c] # "off"}
    /\ backlog' = <<>>
    /\ peer' = [f \in Fd |-> NoClient]
    /\ up' = [c \in Client |-> <<>>]
    /\ UNCHANGED <<unchangedByServer, i, master_set, read_fds, fdmax, part,
                   final_ack, down, reset, shown>>

\* The for loop over 0 .. fdmax.
ScanEnd ==
    /\ pc = "scan"
    /\ i > fdmax
    /\ pc' = "select"
    /\ UNCHANGED <<unchangedByServer, unchangedSockets, i, read_fds, part,
                   final_ack, up, down, reset, shown>>

\* Seeded fault: the loop does not end at fdmax.
M_ScanSkip ==
    /\ pc = "scan"
    /\ i \notin read_fds
    /\ i' = i + 1
    /\ UNCHANGED <<unchangedByServer, unchangedSockets, pc, read_fds, part,
                   final_ack, up, down, reset, shown>>

\* A socket that was not reported.
ScanSkip ==
    /\ pc = "scan"
    /\ i <= fdmax
    /\ i \notin read_fds
    /\ i' = i + 1
    /\ UNCHANGED <<unchangedByServer, unchangedSockets, pc, read_fds, part,
                   final_ack, up, down, reset, shown>>

AtListener == pc = "scan" /\ i = Listener /\ i \in read_fds
AtClient   == pc = "scan" /\ i <= fdmax /\ i \in read_fds \ {Listener}

\* Seeded fault: fdmax is not raised.
M_Accept ==
    /\ AtListener
    /\ FreeFd # {}
    /\ LET newfd == Min(FreeFd)
       IN  /\ peer' = [peer EXCEPT ![newfd] = Head(backlog)]
           /\ master_set' = master_set \cup {newfd}
    /\ backlog' = Tail(backlog)
    /\ i' = i + 1
    /\ UNCHANGED <<unchangedByServer, fdmax, pc, read_fds, part, final_ack, up,
                   down, dropped, reset, shown>>

\* accept(), FD_SET, and fdmax.
Accept ==
    /\ AtListener
    /\ FreeFd # {}
    /\ LET newfd == Min(FreeFd)
       IN  /\ peer' = [peer EXCEPT ![newfd] = Head(backlog)]
           /\ master_set' = master_set \cup {newfd}
           /\ fdmax' = IF newfd > fdmax THEN newfd ELSE fdmax
    /\ backlog' = Tail(backlog)
    /\ i' = i + 1
    /\ UNCHANGED <<unchangedByServer, pc, read_fds, part, final_ack, up, down,
                   dropped, reset, shown>>

\* accept() finds no free number: the connection stays where it is.
AcceptFails ==
    /\ AtListener
    /\ FreeFd = {}
    /\ i' = i + 1
    /\ UNCHANGED <<unchangedByServer, unchangedSockets, pc, read_fds, part,
                   final_ack, up, down, reset, shown>>

-----------------------------------------------------------------------------
\* One message: recv_all() of the type, the size and the body.

TakeSegment ==
    /\ up[Here] # <<>>
    /\ up' = [up EXCEPT ![Here] = Tail(@)]
    /\ UNCHANGED <<unchangedByServer, unchangedSockets, i, read_fds, final_ack,
                   down, reset, shown>>

RecvType ==
    /\ AtClient
    /\ TakeSegment
    /\ pc' = "size"
    /\ UNCHANGED part

\* The size, and malloc(), which may return nothing.
RecvSize ==
    /\ pc = "size"
    /\ TakeSegment
    /\ part' = 0
    /\ pc' \in {"body", "cleanup"}

\* Seeded fault: the body is taken for complete one segment early.
M_RecvBody ==
    /\ pc = "body"
    /\ TakeSegment
    /\ part' = part + 1
    /\ pc' = IF part' >= BodyParts - 1 THEN "show" ELSE "body"

RecvBody ==
    /\ pc = "body"
    /\ TakeSegment
    /\ part' = part + 1
    /\ pc' = IF part' = BodyParts THEN "show" ELSE "body"

\* recv() says that the client has closed the connection or that it is reset.
RecvEnds ==
    /\ AtClient \/ pc \in {"size", "body"}
    /\ (up[Here] = <<>> /\ cpc[Here] = "closed") \/ Here \in reset
    /\ pc' = "cleanup"
    /\ UNCHANGED <<unchangedByServer, unchangedSockets, i, read_fds, part,
                   final_ack, up, down, reset, shown>>

\* Seeded fault: success is reported whatever pa_simple_write() says.
M_Show ==
    /\ pc = "show"
    /\ pc' = "ack"
    /\ \/ shown' = [shown EXCEPT ![Here] = @ + 1] /\ final_ack' = 1
       \/ Here \in Microphone /\ final_ack' = 1 /\ UNCHANGED shown
    /\ UNCHANGED <<unchangedByServer, unchangedSockets, i, read_fds, part, up,
                   down, reset>>

\* display_frame() succeeds, pa_simple_write() may fail.  A type that is
\* neither (FramingKept: there is none) would be answered with 0.
Show ==
    /\ pc = "show"
    /\ pc' = "ack"
    /\ \/ shown' = [shown EXCEPT ![Here] = @ + 1] /\ final_ack' = 1
       \/ Here \in Microphone /\ final_ack' = 0 /\ UNCHANGED shown
    /\ UNCHANGED <<unchangedByServer, unchangedSockets, i, read_fds, part, up,
                   down, reset>>

\* send_all() of final_ack.  A client that is gone resets the connection; a
\* send() to a connection that is reset already is SIGPIPE and ends the
\* server.
Ack ==
    /\ pc = "ack"
    /\ i' = i + 1
    /\ IF cpc[Here] = "closed"
       THEN /\ pc' = IF Here \in reset THEN "down" ELSE "scan"
            /\ reset' = reset \cup {Here}
            /\ UNCHANGED down
       ELSE /\ pc' = "scan"
            /\ down' = [down EXCEPT ![Here] = Append(@, final_ack)]
            /\ UNCHANGED reset
    /\ UNCHANGED <<unchangedByServer, unchangedSockets, read_fds, part,
                   final_ack, up, shown>>

\* client_cleanup: close(), FD_CLR, and fdmax.
Cleanup ==
    /\ pc = "cleanup"
    /\ pc' = "scan"
    /\ i' = i + 1
    /\ peer' = [peer EXCEPT ![i] = NoClient]
    /\ master_set' = master_set \ {i}
    /\ fdmax' = IF i = fdmax THEN Max(master_set') ELSE fdmax
    /\ dropped' = dropped \cup {Here}
    /\ up' = [up EXCEPT ![Here] = <<>>]
    /\ UNCHANGED <<unchangedByServer, read_fds, part, final_ack, backlog, down,
                   reset, shown>>

Server ==
    \/ SelectReady \/ SelectFails \/ ScanEnd \/ ScanSkip
    \/ Accept \/ AcceptFails
    \/ RecvType \/ RecvSize \/ RecvBody \/ RecvEnds
    \/ Show \/ Ack \/ Cleanup
=============================================================================
