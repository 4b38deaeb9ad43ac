------------------------------- MODULE Media -------------------------------
(***************************************************************************)
(* The media streaming of `0711/`: one server, cameras and microphones.    *)
(***************************************************************************)
EXTENDS MediaClient, MediaServer

Init ==
    /\ pc = "select" /\ i = 0 /\ part = 0 /\ final_ack = 1
    /\ master_set = {Listener} /\ read_fds = {} /\ fdmax = Listener
    /\ cpc = [c \in Client |-> "off"]
    /\ left = [c \in Client |-> 0]
    /\ sent = [c \in Client |-> 0] /\ confirmed = [c \in Client |-> 0]
    /\ shown = [c \in Client |-> 0]
    /\ backlog = <<>> /\ peer = [f \in Fd |-> NoClient]
    /\ up = [c \in Client |-> <<>>] /\ down = [c \in Client |-> <<>>]
    /\ dropped = {} /\ reset = {}

Next == Server \/ \E c \in Client : MediaClientNext(c)

Spec == Init /\ [][Next]_vars

\* The server and the clients run; that a client gives up after five seconds,
\* or is ended from outside, is possible and never certain.
Fairness == WF_vars(Server) /\ \A c \in Client : WF_vars(ClientStep(c))

FairSpec == Spec /\ Fairness

-----------------------------------------------------------------------------
TypeOK ==
    /\ pc \in {"select", "scan", "size", "body", "show", "ack", "cleanup", "down"}
    /\ i \in 0..(MaxFd + 1) /\ part \in 0..BodyParts /\ final_ack \in {0, 1}
    /\ master_set \in SUBSET (Fd \cup {Listener})
    /\ read_fds \in SUBSET (Fd \cup {Listener})
    /\ fdmax \in 0..MaxFd
    /\ cpc \in [Client -> {"off", "capture", "send", "wait", "recv", "closed"}]
    /\ left \in [Client -> 0..MessageLength]
    /\ sent \in [Client -> Nat] /\ confirmed \in [Client -> Nat]
    /\ shown \in [Client -> Nat]
    /\ backlog \in Seq(Client)
    /\ peer \in [Fd -> Client \cup {NoClient}]
    /\ up \in [Client -> Seq({"type", "size", "body"})]
    /\ down \in [Client -> Seq({0, 1})]
    /\ dropped \in SUBSET Client /\ reset \in SUBSET Client

\* fdmax is the largest socket the server watches, and it watches exactly
\* the sockets it has open, each of another client: FD_CLR and the while
\* loop behind it (v4l2_tcp_server.c:290-296) leave none out.
SocketsWatched ==
    pc # "down" =>
        /\ master_set = {Listener} \cup {f \in Fd : peer[f] # NoClient}
        /\ fdmax \in master_set
        /\ \A f \in master_set : f <= fdmax
        /\ \A f, g \in Fd : peer[f] = peer[g] /\ f # g => peer[f] = NoClient

\* What select() reported and the scan has not come to yet is still there
\* and still ready, whatever was accepted and closed before it in the same
\* scan: no accept() and no first recv() blocks the server.
ReportedIsReady ==
    pc \notin {"select", "down"} =>
        \A f \in read_fds : (f > i \/ (f = i /\ pc = "scan")) =>
            f \in master_set /\ Ready(f)

\* The next segment of each connection is the one the server will take it
\* for (v4l2_tcp_server.c:224-245).
Expected(c) == IF pc \in {"size", "body"} /\ c = Here THEN pc ELSE "type"
SegmentExpected(c) ==
    up[c] # <<>> => Head(up[c]) = Expected(c) \/ (pc = "cleanup" /\ c = Here)

\* A recv() in the middle of a message waits for a client that has more of it
\* to send, or says that the client is gone (v4l2_tcp_server.c:225-245).
SenderAwaited ==
    pc \in {"size", "body"} /\ up[Here] = <<>> =>
        cpc[Here] \in {"send", "closed"} /\ Here \notin dropped

\* A client that waits for the answer gets one: the server holds its
\* connection and has the last of its message before it or in hand, or has
\* answered; or the connection is closed.  A recv() of the answer does not
\* block (v4l2_client.c:193-221, audio_client.c:128-151).
Held(c) ==
    \/ \E k \in 1..Len(backlog) : backlog[k] = c
    \/ \E f \in Fd : peer[f] = c
AnswerOwed(c) ==
    /\ cpc[c] = "wait" /\ c \notin dropped =>
          /\ Held(c)
          /\ \/ down[c] # <<>> \/ up[c] # <<>>
             \/ pc \in {"show", "ack", "cleanup"} /\ Here = c
    /\ cpc[c] = "recv" => down[c] # <<>> \/ c \in dropped

\* Server and client are never out of step: neither takes a segment for what
\* it is not, nor waits for the other while that one waits for it.
FramingKept ==
    /\ SenderAwaited
    /\ \A c \in Client : SegmentExpected(c) /\ AnswerOwed(c)

\* The answer never goes to a connection that is reset: no SIGPIPE, though
\* nobody ignores it (v4l2_tcp_server.c:273).
AckIsSafe == pc = "ack" => Here \notin reset

\* The protocol keeps what MediaPromise says: a frame is shown once at most,
\* and confirmed only when it was shown.
P == INSTANCE MediaPromise WITH
       Client <- Client, sent <- sent, shown <- shown, confirmed <- confirmed
PromiseKept == P!Promise

-----------------------------------------------------------------------------
\* A client the server has accepted gets its frame through: the server takes
\* all of it and answers, or closes the connection, and the five seconds are
\* not needed for that (v4l2_tcp_server.c:198-283).
Accepted(c) == \E f \in Fd : peer[f] = c
AnswerComes ==
    \A c \in Client : (cpc[c] = "send" /\ Accepted(c))
                          ~> cpc[c] \notin {"send", "wait"}
=============================================================================
