---------------------------- MODULE MediaClient ----------------------------
(***************************************************************************)
(* A sender of frames: main of `0711/v4l2_client.c` from its connect(),    *)
(* and main and capture_and_send of `0711/audio_client.c`, which send the  *)
(* same messages and take the same answers.                                *)
(***************************************************************************)
EXTENDS MediaSockets

unchangedByClient == <<serverVars, peer, dropped, shown>>

\* connect(): the kernel completes it; the server need not have accepted.
Connect(c) ==
    /\ cpc[c] = "off"
    /\ pc # "down"
    /\ cpc' = [cpc EXCEPT ![c] = "capture"]
    /\ backlog' = Append(backlog, c)
    /\ UNCHANGED <<unchangedByClient, left, sent, confirmed, up, down, reset>>

\* One frame of the camera, one buffer of the microphone.
Capture(c) ==
    /\ cpc[c] = "capture"
    /\ sent[c] < MaxFrames
    /\ sent' = [sent EXCEPT ![c] = @ + 1]
    /\ left' = [left EXCEPT ![c] = MessageLength]
    /\ cpc' = [cpc EXCEPT ![c] = "send"]
    /\ UNCHANGED <<unchangedByClient, confirmed, backlog, up, down, reset>>

\* send_all() of the type, the size, the body, as the connection takes it.
Send(c) ==
    /\ cpc[c] = "send"
    /\ c \notin dropped
    /\ Len(up[c]) < SockCap
    /\ up' = [up EXCEPT ![c] = Append(@, Segment(left[c]))]
    /\ left' = [left EXCEPT ![c] = @ - 1]
    /\ cpc' = [cpc EXCEPT ![c] = IF left[c] = 1 THEN "wait" ELSE "send"]
    /\ UNCHANGED <<unchangedByClient, sent, confirmed, backlog, down, reset>>

\* Seeded fault: a client that has waited too long sends the next frame.
M_WaitTimeout(c) ==
    /\ cpc[c] = "wait"
    /\ cpc' = [cpc EXCEPT ![c] = "capture"]
    /\ UNCHANGED <<unchangedByClient, left, sent, confirmed, backlog, up, down,
                   reset>>

\* select() returns 0 after five seconds without an answer.
WaitTimeout(c) ==
    /\ cpc[c] = "wait"
    /\ CloseClient(c)
    /\ UNCHANGED <<unchangedByClient, left, sent, confirmed, backlog, up>>

\* select() reports an answer or the end of the connection.
WaitReady(c) ==
    /\ cpc[c] = "wait"
    /\ down[c] # <<>> \/ c \in dropped
    /\ cpc' = [cpc EXCEPT ![c] = "recv"]
    /\ UNCHANGED <<unchangedByClient, left, sent, confirmed, backlog, up, down,
                   reset>>

\* recv_all() of the answer; on 1 the next frame.
ReadConfirmed(c) ==
    /\ cpc[c] = "recv"
    /\ down[c] # <<>>
    /\ Head(down[c]) = 1
    /\ down' = [down EXCEPT ![c] = Tail(@)]
    /\ confirmed' = [confirmed EXCEPT ![c] = @ + 1]
    /\ cpc' = [cpc EXCEPT ![c] = "capture"]
    /\ UNCHANGED <<unchangedByClient, left, sent, backlog, up, reset>>

\* Every other end of the loop: the answer 0, an error of read(), of
\* pa_simple_read(), send() or recv(), the end of the process from outside.
Leave(c) ==
    /\ cpc[c] \notin {"off", "closed"}
    /\ CloseClient(c)
    /\ UNCHANGED <<unchangedByClient, left, sent, confirmed, backlog, up>>

\* What keeps the loop going, and what must end it.
Refused(c) ==
    /\ \/ cpc[c] = "recv" /\ down[c] # <<>> /\ Head(down[c]) = 0
       \/ cpc[c] = "recv" /\ down[c] = <<>> /\ c \in dropped
       \/ cpc[c] = "send" /\ c \in dropped
    /\ Leave(c)

ClientStep(c) ==
    \/ Capture(c) \/ Send(c) \/ WaitReady(c) \/ ReadConfirmed(c) \/ Refused(c)

MediaClientNext(c) == Connect(c) \/ ClientStep(c) \/ WaitTimeout(c) \/ Leave(c)
=============================================================================
