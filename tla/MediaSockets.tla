---------------------------- MODULE MediaSockets ----------------------------
(***************************************************************************)
(* What the media programs of `0711/` share: the TCP connections between   *)
(* the server `v4l2_tcp_server.c` (module MediaServer) and its clients     *)
(* `v4l2_client.c` and `audio_client.c` (module MediaClient).              *)
(***************************************************************************)
EXTENDS Naturals, Sequences

CONSTANTS Camera,       \* clients that run v4l2_client
          Microphone,   \* clients that run audio_client
          MaxFd,        \* the largest socket number the server may get
          BodyParts,    \* segments the body of a message travels in
          SockCap,      \* segments a connection holds on its way
          MaxFrames     \* bound: frames each client sends

Client == Camera \cup Microphone

\* The other end of a socket number that is not in use.
NoClient == "none"

ASSUME MediaAssumption ==
    /\ Camera \cap Microphone = {}
    /\ MaxFd \in Nat /\ BodyParts \in Nat \ {0} /\ SockCap \in Nat \ {0}
    /\ MaxFrames \in Nat
    /\ NoClient \notin Client

VARIABLES
    \* the server
    pc,             \* where the server is in its main loop
    i,              \* the loop index: the socket it looks at
    master_set, read_fds, fdmax,
    part,           \* body segments received of the current message
    final_ack,
    \* the clients
    cpc,            \* where the client is in its send loop
    left,           \* segments it has still to send of its message
    sent,           \* frames it has begun to send
    confirmed,      \* confirmations it has read
    \* the kernel
    backlog,        \* connections nobody has accepted
    peer,           \* the client at the other end of each socket number
    up, down,       \* segments, answers on their way, by client
    dropped,        \* clients whose connection the server has closed
    reset,          \* clients whose connection is reset
    \* outside the programs: the frames on the screen or played
    shown

serverVars == <<pc, i, master_set, read_fds, fdmax, part, final_ack>>
clientVars == <<cpc, left, sent, confirmed>>
vars == <<serverVars, clientVars, backlog, peer, up, down, dropped, reset, shown>>

\* A message: its type, its size, the segments of its body.
MessageLength == BodyParts + 2
\* The segment a client sends when it has k to go.
Segment(k) == CASE k = MessageLength     -> "type"
                [] k = MessageLength - 1 -> "size"
                [] OTHER                 -> "body"

Listener == 0
Fd       == 1..MaxFd

\* The socket numbers that are free: accept() returns the least of them.
FreeFd == {f \in Fd : peer[f] = NoClient}

\* The client whose socket the server looks at.
Here == peer[i]

\* close() at the client's end, or its death: a connection that is closed
\* with an answer unread is reset.
CloseClient(c) ==
    /\ cpc' = [cpc EXCEPT ![c] = "closed"]
    /\ reset' = IF down[c] # <<>> THEN reset \cup {c} ELSE reset
    /\ down' = [down EXCEPT ![c] = <<>>]
=============================================================================
