----------------------------- MODULE ChatClient -----------------------------
(***************************************************************************)
(* The terminal client of the chat server, `chat server/client_server.c`:  *)
(* the original process shows what the server sends, the process it forks  *)
(* reads the keyboard.  A line goes through a pipe to the original process *)
(* and the SIGUSR1 behind it makes its handler send on what one read()     *)
(* takes.  Pipes and sockets carry bytes, numbered as they are written.    *)
(* signal() installs handlers with SA_RESTART: read() and fgets() go on    *)
(* when a handler returns, and a handler keeps out its own signal.         *)
(***************************************************************************)
EXTENDS Integers, Sequences

CONSTANTS BufSize,      \* BUFSIZ: bytes one line or one read() may have
          PipeBytes,    \* bytes the pipe holds
          MaxTyped,     \* bound: lines typed, the end of the input included
          MaxHeard      \* bound: messages of the server

ASSUME ClientAssumption ==
    /\ BufSize \in Nat \ {0} /\ PipeBytes \in Nat /\ PipeBytes >= BufSize
    /\ MaxTyped \in Nat /\ MaxHeard \in Nat

VARIABLES
    mainAt,     \* where the original process is
    resume,     \* where it goes on when the handler of SIGUSR1 returns
    shows,      \* its g_cont
    taken,      \* what its handler has read and not yet sent
    rest,       \* its handler filled the buffer and left something behind
    usr1,       \* SIGUSR1 is pending for it
    typistAt,   \* where the forked process is
    types,      \* its g_cont
    line,       \* bytes of its buffer still to be written
    written,    \* bytes it has written
    input,      \* "open", "quit" (ends in quit without a newline) or "eof"
    pipe,       \* g_pfd
    sent,       \* what was written to the server
    heard,      \* messages of the server not yet read
    server,     \* the server keeps the connection open
    typed, said \* the bounds

mainVars   == <<mainAt, resume, shows, taken, rest>>
typistVars == <<typistAt, types, line, written, input, typed>>
netVars    == <<sent, heard, server, said>>
clientVars == <<mainVars, usr1, typistVars, pipe, netVars>>

MainPlaces == {"connect", "fork", "usr1", "chld", "shut", "test", "read", "leave",
               "wait", "handler", "send", "end"}
TypistPlaces == {"none", "start", "fgets", "write", "kill", "test", "end"}

Least(a, b) == IF a <= b THEN a ELSE b

MainLives   == mainAt # "end"
TypistLives == typistAt \notin {"none", "end"}

\* The original process has its handler once it is past signal(SIGUSR1, ..).
Installed == mainAt \notin {"connect", "fork", "usr1", "end"}

\* Who still has an end of the pipe open.  The original process closes its
\* read end at "leave", its write end at "shut".
At(places) ==
    \/ mainAt \in places
    \/ mainAt \in {"handler", "send"} /\ resume \in places
HasReader == MainLives /\ ~At({"wait"})
HasWriter == TypistLives \/ At({"connect", "fork", "usr1", "chld", "shut"})

ClientInit ==
    /\ mainAt = "connect" /\ resume = "test" /\ shows = TRUE /\ taken = <<>>
    /\ rest = FALSE
    /\ usr1 = FALSE
    /\ typistAt = "none" /\ types = TRUE /\ line = 0 /\ written = 0
    /\ input = "open" /\ typed = 0
    /\ pipe = <<>>
    /\ sent = <<>> /\ heard = 0 /\ server = FALSE /\ said = 0

-----------------------------------------------------------------------------
\* The original process.

\* connect(), whose result nobody looks at.
Connect ==
    /\ mainAt = "connect"
    /\ mainAt' = "fork"
    /\ server' \in BOOLEAN
    /\ UNCHANGED <<resume, shows, taken, rest, usr1, typistVars, pipe, sent,
                   heard, said>>

\* fork(); without a second process there is nothing to do.
Fork ==
    /\ mainAt = "fork"
    /\ \/ mainAt' = "usr1" /\ typistAt' = "start"
       \/ mainAt' = "end" /\ UNCHANGED typistAt
    /\ UNCHANGED <<resume, shows, taken, rest, usr1, types, line, written,
                   input, typed, pipe, netVars>>

\* signal(SIGUSR1), signal(SIGCHLD), close(g_pfd[1]).
Prepare ==
    /\ \/ mainAt = "usr1" /\ mainAt' = "chld"
       \/ mainAt = "chld" /\ mainAt' = "shut"
       \/ mainAt = "shut" /\ mainAt' = "test"
    /\ UNCHANGED <<resume, shows, taken, rest, usr1, typistVars, pipe, netVars>>

\* while (g_cont).
TestShows ==
    /\ mainAt = "test"
    /\ mainAt' = IF shows THEN "read" ELSE "leave"
    /\ UNCHANGED <<resume, shows, taken, rest, usr1, typistVars, pipe, netVars>>

\* read() of the socket blocks until the server has said something or is
\* gone; a g_cont cleared meanwhile is not looked at before that.
Show ==
    /\ mainAt = "read"
    /\ IF heard > 0
       THEN heard' = heard - 1 /\ mainAt' = "test"
       ELSE ~server /\ mainAt' = "leave" /\ UNCHANGED heard
    /\ UNCHANGED <<resume, shows, taken, rest, usr1, typistVars, pipe, sent,
                   server, said>>

\* close(g_pfd[0]) and kill(pid, SIGCHLD), which clears g_cont over there
\* once it has its handler.
Leave ==
    /\ mainAt = "leave"
    /\ mainAt' = "wait"
    /\ types' = (types /\ typistAt \in {"none", "start", "end"})
    /\ pipe' = <<>>
    /\ UNCHANGED <<resume, shows, taken, rest, usr1, typistAt, line, written,
                   input, typed, netVars>>

\* wait(NULL) and the end.
Wait ==
    /\ mainAt = "wait"
    /\ ~TypistLives
    /\ mainAt' = "end"
    /\ UNCHANGED <<resume, shows, taken, rest, usr1, typistVars, pipe, netVars>>

\* SIGUSR1 is delivered: the handler, or before there is one the end.
Deliver ==
    /\ usr1
    /\ mainAt \notin {"handler", "send", "end"}
    /\ usr1' = FALSE
    /\ mainAt' = IF Installed THEN "handler" ELSE "end"
    /\ resume' = mainAt
    /\ pipe' = IF Installed THEN pipe ELSE <<>>
    /\ UNCHANGED <<shows, taken, rest, typistVars, netVars>>

\* read(g_pfd[0], buf, BUFSIZ) in the handler: what there is, a buffer full
\* at most.  It blocks while the pipe is empty and has a writer, and fails
\* when it is closed already.
HandlerRead ==
    /\ mainAt = "handler"
    /\ pipe # <<>> \/ ~HasWriter \/ ~HasReader
    /\ taken' = SubSeq(pipe, 1, Least(BufSize, Len(pipe)))
    /\ pipe' = SubSeq(pipe, Least(BufSize, Len(pipe)) + 1, Len(pipe))
    /\ rest' = (pipe' # <<>>)
    /\ mainAt' = "send"
    /\ UNCHANGED <<resume, shows, usr1, typistVars, netVars>>

\* Seeded fault: write(.., strlen(buf)) stops at the first NUL.
M_HandlerSend ==
    /\ mainAt = "send"
    /\ server
    /\ sent' = sent \o SubSeq(taken, 1, IF taken = <<>> THEN 0 ELSE 1)
    /\ taken' = <<>>
    /\ mainAt' = resume
    /\ UNCHANGED <<resume, shows, rest, usr1, typistVars, pipe, heard, server,
                   said>>

\* write(g_sockfd, buf, n) in the handler.  When the server is gone the
\* first write is taken by the kernel and a later one ends the process.
HandlerSend ==
    /\ mainAt = "send"
    /\ server
    /\ sent' = sent \o taken
    /\ taken' = <<>>
    /\ mainAt' = resume
    /\ UNCHANGED <<resume, shows, rest, usr1, typistVars, pipe, heard, server,
                   said>>

HandlerSendFails ==
    /\ mainAt = "send"
    /\ ~server
    /\ taken' = <<>>
    /\ \/ mainAt' = resume /\ UNCHANGED pipe
       \/ mainAt' = "end" /\ pipe' = <<>>
    /\ UNCHANGED <<resume, shows, rest, usr1, typistVars, netVars>>

-----------------------------------------------------------------------------
\* The process at the keyboard.

TypistPrepares ==
    /\ typistAt = "start"
    /\ typistAt' = "fgets"
    /\ UNCHANGED <<mainVars, usr1, types, line, written, input, typed, pipe,
                   netVars>>

\* fgets() returns a line, or what it left in the buffer at end of file; a
\* last line "quit" is the only one without a newline behind it.
Type ==
    /\ typistAt = "fgets"
    /\ typed < MaxTyped
    /\ typed' = typed + 1
    /\ line' \in 1..BufSize
    /\ input' \in IF input = "open" THEN {"open", "quit", "eof"} ELSE {"eof"}
    /\ typistAt' = "write"
    /\ UNCHANGED <<mainVars, usr1, types, written, pipe, netVars>>

\* write(g_pfd[1]) goes on, over and over where the pipe is full, until the
\* buffer is in.  Without a reader SIGPIPE ends the process, which the
\* original process hears of by SIGCHLD.
TypistWrite ==
    /\ typistAt = "write"
    /\ HasReader
    /\ \E n \in 1..Least(line, PipeBytes - Len(pipe)) :
           /\ pipe' = pipe \o [k \in 1..n |-> written + k]
           /\ written' = written + n
           /\ line' = line - n
    /\ typistAt' = IF line' = 0 THEN "kill" ELSE "write"
    /\ UNCHANGED <<mainVars, usr1, types, input, typed, netVars>>

TypistEnds ==
    /\ typistAt' = "end"
    /\ shows' = (shows /\ At({"fork", "usr1", "chld", "end"}))
    /\ UNCHANGED <<mainAt, resume, taken, rest, usr1, types, line, written,
                   input, typed, pipe, netVars>>

TypistBroken == typistAt = "write" /\ ~HasReader /\ TypistEnds

\* Seeded fault: a signal is sent only into an idle process.
M_TypistSignals ==
    /\ typistAt = "kill"
    /\ usr1' = (usr1 \/ mainAt = "read")
    /\ typistAt' = "test"
    /\ UNCHANGED <<mainVars, types, line, written, input, typed, pipe, netVars>>

\* kill(getppid(), SIGUSR1); signals that are pending do not add up.
TypistSignals ==
    /\ typistAt = "kill"
    /\ usr1' = MainLives
    /\ typistAt' = "test"
    /\ UNCHANGED <<mainVars, types, line, written, input, typed, pipe, netVars>>

\* while (strcmp(buf, "quit") && g_cont).
TypistGoesOn ==
    /\ typistAt = "test"
    /\ input # "quit" /\ types
    /\ typistAt' = "fgets"
    /\ UNCHANGED <<mainVars, usr1, types, line, written, input, typed, pipe,
                   netVars>>

TypistStops == typistAt = "test" /\ (input = "quit" \/ ~types) /\ TypistEnds

-----------------------------------------------------------------------------
\* The server at the other end.
ServerSays ==
    /\ server
    /\ said < MaxHeard
    /\ said' = said + 1
    /\ heard' = heard + 1
    /\ UNCHANGED <<mainVars, usr1, typistVars, pipe, sent, server>>

ServerLeaves ==
    /\ server
    /\ server' = FALSE
    /\ UNCHANGED <<mainVars, usr1, typistVars, pipe, sent, heard, said>>

MainStep ==
    \/ Connect \/ Fork \/ Prepare \/ TestShows \/ Show \/ Leave \/ Wait
    \/ Deliver \/ HandlerRead \/ HandlerSend \/ HandlerSendFails
TypistStep ==
    \/ TypistPrepares \/ TypistWrite \/ TypistBroken
    \/ TypistSignals \/ TypistGoesOn \/ TypistStops
ClientNext == MainStep \/ TypistStep \/ Type \/ ServerSays \/ ServerLeaves

\* Both processes run; nothing makes the user type or the server speak.
ClientFairness == WF_clientVars(MainStep) /\ WF_clientVars(TypistStep)

-----------------------------------------------------------------------------
\* Somebody is still to take out what lies in the pipe: the handler, the
\* handler of a signal that is pending, or of one the typist is about to
\* send.  Only a read() that filled its buffer, with more than one line in
\* the pipe, leaves bytes without a signal to come.
LineIsAnnounced ==
    pipe # <<>> =>
        usr1 \/ mainAt = "handler" \/ typistAt \in {"write", "kill"} \/ rest

\* While client and server run, every byte that was written is on its way or
\* sent, once and in its order, though signals are merged and one run of the
\* handler may find several lines or a part of one; and none lies in the pipe
\* with nobody to take it out but what a full read() has left
\* (client_server.c:40-41, 84-85).
LinesKept ==
    /\ LineIsAnnounced
    /\ MainLives /\ server =>
          At({"wait"}) \/ sent \o taken \o pipe = [k \in 1..written |-> k]

\* A line that was put into the pipe whole does not wait there for the next
\* one: the signal behind it has the handler read, though signals are merged
\* and the process is busy elsewhere, or the original process has ended
\* (client_server.c:84 comes before 85).  What a full read() leaves is not
\* announced again.
LineLeavesPipe ==
    pipe # <<>> /\ (usr1 \/ typistAt = "kill") ~> pipe = <<>> \/ mainAt = "send"
=============================================================================
