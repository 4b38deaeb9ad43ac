----------------------------- MODULE WebServer -----------------------------
(***************************************************************************)
(* `0618/webserver.c`: main() accepts a connection, creates a thread that  *)
(* reads one request, answers it and closes, and joins that thread before  *)
(* it accepts again.  The thread gets the address of main()'s csock.       *)
(* pthread_create(), accept() and fdopen() are taken to succeed.           *)
(***************************************************************************)
EXTENDS Integers, Sequences, FiniteSets

CONSTANTS Browsers      \* bound: clients, each of one connection

ASSUME BrowsersAssumption == IsFiniteSet(Browsers)

VARIABLES
    webAt,      \* where main() is: "accept", "create" or "join"
    csock,      \* its csock: the client it belongs to
    backlog,    \* connections not yet accepted
    accepted,   \* number of accept()s; thread n serves the n-th connection
    workAt,     \* where each thread is
    conn,       \* its own csock
    method,     \* the request as it understood it
    asks,       \* what a client asks for: "GET", "POST", "other" or "none"
    lines,      \* how much it has sent: 0, 1 (request line), 2 (empty line)
    gone,       \* clients that have hung up
    deaf,       \* clients that read no more of a file longer than is buffered
    answers,    \* the answers a client was sent
    killed      \* SIGPIPE has ended the server

webVars == <<webAt, csock, backlog, accepted, workAt, conn, method, asks, lines,
             gone, deaf, answers, killed>>

Methods == {"GET", "POST", "other"}
Nobody  == "nobody"
Runs    == 1..Cardinality(Browsers)

WebInit ==
    /\ webAt = "accept" /\ csock = Nobody /\ backlog = <<>> /\ accepted = 0
    /\ workAt = [n \in Runs |-> "none"]
    /\ conn = [n \in Runs |-> Nobody]
    /\ method = [n \in Runs |-> "none"]
    /\ asks = [b \in Browsers |-> "none"]
    /\ lines = [b \in Browsers |-> 0]
    /\ gone = {} /\ deaf = {}
    /\ answers = [b \in Browsers |-> <<>>]
    /\ killed = FALSE

\* A client connects, sends its request line by line, and may hang up or stop
\* reading a file.
Visit(b) ==
    /\ asks[b] = "none"
    /\ \E m \in Methods : asks' = [asks EXCEPT ![b] = m]
    /\ backlog' = Append(backlog, b)
    /\ UNCHANGED <<webAt, csock, accepted, workAt, conn, method, lines, gone,
                   deaf, answers, killed>>

Send(b) ==
    /\ asks[b] # "none" /\ b \notin gone
    /\ lines[b] < 2
    /\ lines' = [lines EXCEPT ![b] = @ + 1]
    /\ UNCHANGED <<webAt, csock, backlog, accepted, workAt, conn, method, asks,
                   gone, deaf, answers, killed>>

HangUp(b) ==
    /\ asks[b] # "none" /\ b \notin gone
    /\ gone' = gone \cup {b}
    /\ UNCHANGED <<webAt, csock, backlog, accepted, workAt, conn, method, asks,
                   lines, deaf, answers, killed>>

StopReading(b) ==
    /\ asks[b] = "GET" /\ b \notin gone \cup deaf
    /\ deaf' = deaf \cup {b}
    /\ UNCHANGED <<webAt, csock, backlog, accepted, workAt, conn, method, asks,
                   lines, gone, answers, killed>>

-----------------------------------------------------------------------------
\* accept().
AcceptVisit ==
    /\ ~killed
    /\ webAt = "accept" /\ backlog # <<>>
    /\ csock' = Head(backlog)
    /\ backlog' = Tail(backlog)
    /\ accepted' = accepted + 1
    /\ webAt' = "create"
    /\ UNCHANGED <<workAt, conn, method, asks, lines, gone, deaf,
                   answers, killed>>

\* Seeded fault: main() does not wait for the thread.
M_CreateWorker ==
    /\ ~killed
    /\ webAt = "create"
    /\ workAt' = [workAt EXCEPT ![accepted] = "start"]
    /\ webAt' = "accept"
    /\ UNCHANGED <<csock, backlog, accepted, conn, method, asks, lines, gone,
                   deaf, answers, killed>>

\* pthread_create().
CreateWorker ==
    /\ ~killed
    /\ webAt = "create"
    /\ workAt' = [workAt EXCEPT ![accepted] = "start"]
    /\ webAt' = "join"
    /\ UNCHANGED <<csock, backlog, accepted, conn, method, asks, lines, gone,
                   deaf, answers, killed>>

\* pthread_join().
JoinWorker ==
    /\ ~killed
    /\ webAt = "join" /\ workAt[accepted] = "end"
    /\ webAt' = "accept"
    /\ UNCHANGED <<csock, backlog, accepted, workAt, conn, method, asks, lines,
                   gone, deaf, answers, killed>>

\* The thread reads csock through the pointer.
StartWorker(n) ==
    /\ workAt[n] = "start"
    /\ conn' = [conn EXCEPT ![n] = csock]
    /\ workAt' = [workAt EXCEPT ![n] = "line"]
    /\ UNCHANGED <<webAt, csock, backlog, accepted, method, asks, lines, gone,
                   deaf, answers, killed>>

\* Seeded fault: POST reads its headers like GET.
M_NextOf(m) == "headers"

NextOf(m) == IF m = "GET" THEN "headers" ELSE "answer"

\* fgets() of the request line and the choice by method.  Of a client that
\* hung up before it sent one the buffer is not initialised: it may still
\* hold any request of the thread before.
ReadRequest(n) ==
    /\ workAt[n] = "line"
    /\ LET b == conn[n]
       IN  \E m \in Methods :
             /\ IF lines[b] > 0 THEN m = asks[b] ELSE b \in gone
             /\ method' = [method EXCEPT ![n] = m]
             /\ workAt' = [workAt EXCEPT ![n] = NextOf(m)]
    /\ UNCHANGED <<webAt, csock, backlog, accepted, conn, asks, lines, gone,
                   deaf, answers, killed>>

\* fgets() up to the empty line.  If that never comes the loop looks at the
\* line before for ever.
ReadHeaders(n) ==
    /\ workAt[n] = "headers"
    /\ lines[conn[n]] = 2
    /\ workAt' = [workAt EXCEPT ![n] = "answer"]
    /\ UNCHANGED <<webAt, csock, backlog, accepted, conn, method, asks, lines,
                   gone, deaf, answers, killed>>

\* sendData(), sendOk() or sendError(), and both fclose().  A write to a
\* client that has hung up may raise SIGPIPE; one to a client that does not
\* read blocks.
Answer(n) ==
    /\ workAt[n] = "answer"
    /\ conn[n] \in deaf => conn[n] \in gone
    /\ answers' = [answers EXCEPT ![conn[n]] = Append(@, method[n])]
    /\ workAt' = [workAt EXCEPT ![n] = "end"]
    /\ \/ UNCHANGED killed
       \/ conn[n] \in gone /\ killed' = TRUE
    /\ UNCHANGED <<webAt, csock, backlog, accepted, conn, method, asks, lines,
                   gone, deaf>>

Work(n) ==
    /\ ~killed
    /\ StartWorker(n) \/ ReadRequest(n) \/ ReadHeaders(n) \/ Answer(n)
WebStep == AcceptVisit \/ CreateWorker \/ JoinWorker \/ \E n \in Runs : Work(n)
WebNext ==
    \/ WebStep
    \/ \E b \in Browsers : Visit(b) \/ Send(b) \/ HangUp(b) \/ StopReading(b)

-----------------------------------------------------------------------------
\* Client b is not lost: it waits to be accepted, main() has it in csock, or
\* one thread, by its own csock or main()'s, is at work for it.
InHand(b) ==
    \/ \E k \in 1..Len(backlog) : backlog[k] = b
    \/ webAt = "create" /\ csock = b
    \/ \E n \in Runs :
          \/ workAt[n] = "start" /\ csock = b
          \/ workAt[n] \in {"line", "headers", "answer"} /\ conn[n] = b

\* A client is answered at most once and, as long as it stays, with what it
\* asked for; until then somebody has it in hand: csock is not overwritten
\* before the thread has read it (webserver.c:56-57, 64).
AnswersOwnClient ==
    \A b \in Browsers :
        /\ Len(answers[b]) <= 1
        /\ asks[b] # "none" /\ answers[b] = <<>> => InHand(b)
        /\ b \notin gone /\ answers[b] # <<>> => answers[b] = <<asks[b]>>

\* A thread waits for a client that owes it the rest of its request, or hung
\* up before it had sent it, or does not read its answer.
WaitsForClient ==
    \E n \in Runs :
        LET b == conn[n]
        IN  \/ workAt[n] = "line" /\ lines[b] = 0
            \/ /\ workAt[n] = "headers" /\ lines[b] < 2
               /\ asks[b] = "GET" \/ b \in gone
            \/ workAt[n] = "answer" /\ b \in deaf \ gone

\* Every client is answered, unless one client is waited for for ever or
\* SIGPIPE has ended the server: only GET has to send an empty line, and only
\* GET is sent more than a socket buffers (webserver.c:47-57, 78-85, 97-104,
\* 126-130).
PatientClientsServed ==
    (<>[]~WaitsForClient) =>
        \A b \in Browsers :
            asks[b] # "none" ~> (answers[b] # <<>> \/ killed)
=============================================================================
