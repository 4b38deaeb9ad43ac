------------------------------ MODULE ChatPipes ------------------------------
(***************************************************************************)
(* What the processes of the chat server share, and the kernel objects     *)
(* between them: the parent's tables, the two pipes of every child, the    *)
(* three sig_atomic_t flags, the process table as fork, exit, waitpid and  *)
(* kill change it.  ChatChild has the steps of a child, ChatParent those   *)
(* of the parent, ChatServer composes them.                                *)
(***************************************************************************)
EXTENDS ChatRegistry, FiniteSets

CONSTANTS MaxClient,    \* MAX_CLIENT of comm.h
          ChatRoom,     \* CHAT_ROOM of comm.h
          PipeCap,      \* pieces a pipe holds before write() says EAGAIN
          ReadMax,      \* pieces that fit in the buffer of one read()
          MaxParts,     \* pieces of the longest line or answer
          Inputs,       \* the lines a client may type
          Daemonized,   \* TRUE iff started with an argument (argc >= 2)
          MaxLines,     \* bound: lines typed by all clients together
          MaxConns      \* bound: connections that arrive

ASSUME ServerAssumption ==
    /\ 0 \notin Pid        \* what fork() returns to the child itself
    /\ MaxClient \in Nat \ {0} /\ ChatRoom \in Nat \ {0}
    /\ PipeCap \in Nat \ {0} /\ ReadMax \in Nat \ {0}
    /\ MaxParts \in Nat \ {0}
    /\ Inputs \subseteq Content
    /\ Daemonized \in BOOLEAN
    /\ MaxLines \in Nat /\ MaxConns \in Nat

VARIABLES
    \* the parent
    pc,             \* where the parent's loop is
    scan,           \* loop index i of the scan and of the shutdown loop
    job,            \* the write() loop a command started
    newPid,         \* the child fork() returned and no entry has yet
    active_children,
    room_info,
    parent_sigusr_arrived,
    child_exited_flag,
    \* the children, by pid
    cpc,            \* where the child is; "none" is no process of that pid
    child_sigusr_arrived,
    held,           \* the line read from the socket and not yet written
    heirs,          \* pids whose parent-side pipe ends the child inherited
    \* the kernel
    toParent,       \* child_pfd of each child: what the parent can read
    toChild,        \* parent_pfd of each child: what the child can read
    ends,           \* pids whose parent-side pipe ends the parent has open
    term,           \* pids with a SIGTERM pending
    \* the bounds
    lines, conns

parentVars == <<pc, scan, job, newPid, active_children, room_info>>
flagVars   == <<parent_sigusr_arrived, child_exited_flag>>
childVars  == <<cpc, child_sigusr_arrived, held, heirs>>
pipeVars   == <<toParent, toChild, ends>>
vars == <<parentVars, flagVars, childVars, pipeVars, term, lines, conns>>

-----------------------------------------------------------------------------
\* A pipe carries bytes and knows no messages.  It is a sequence of pieces,
\* runs of bytes that no read() and no write() divides: `part` counts the
\* pieces of one text from 1, and the first has "PID:" and the command in it.
\* "PID:line\0", as the child formats it.  `no` numbers the lines: it is no
\* field of the message, it lets properties say which line a piece is of.
Message == [pid : Pid, no : Nat, content : Content, part : Nat \ {0}]

\* What the parent writes to a child: an answer to /list or /users, a
\* whisper or a broadcast, caused by line `no` of client `from`.
JobKind == {"list", "users", "whisper", "broadcast"}
Payload == [kind : JobKind, from : Pid, no : Nat, part : Nat \ {0}]

\* A write loop: the command, the entry it works for (client_idx, or i for a
\* broadcast), the name a whisper looks for, the line, and the loop index.
Job   == [kind : JobKind, by : Nat, to : Content, no : Nat, k : Nat]
NoJob == [kind |-> "list", by |-> 0, to |-> NoName, no |-> 0, k |-> 0]

Line   == [no : Nat, content : Content]
NoLine == [no |-> 0, content |-> NoName]
NoPid  == 0

ParentPc == {"top", "reap", "clear", "accept", "forked", "scan", "deliver",
             "signal", "term", "wait", "down", "killed", "astray"}
ChildPc  == {"none", "start", "top", "read", "sock", "kill", "write", "exit",
             "zombie"}
LivePc   == ChildPc \ {"none", "zombie"}

Live(p)     == cpc[p] \in LivePc
ParentAlive == pc \notin {"down", "killed"}

\* The parent's ends of p's pipes were not close-on-exec and children forked
\* later keep their copies open: the pipes have a reader and a writer on the
\* parent's side while the parent or any such child has them.
ParentSideOpen(p) == p \in ends \/ \E q \in Pid : p \in heirs[q]

Least(a, b) == IF a <= b THEN a ELSE b

\* How many pieces of a text write() may put into a pipe: the whole text, a
\* part of it where a long one does not fit (more than PIPE_BUF need not be
\* written in one go), or nothing (EAGAIN).
Written(pipe) ==
    LET room == PipeCap - Len(pipe)
    IN  {n \in 0..Least(MaxParts, room) : n = 0 => MaxParts > room}

\* The first n pieces of the text that begins with piece m.
Pieces(m, n) == [k \in 1..n |-> [m EXCEPT !.part = k]]

\* read() takes what the pipe has, as far as the buffer goes, and so may end
\* in the middle of a text.
Chunk(pipe)     == Least(Len(pipe), ReadMax)

\* What is left behind it.
AfterRead(pipe) == SubSeq(pipe, Chunk(pipe) + 1, Len(pipe))

\* A process ends: its descriptors close, what was in the pipe it read is
\* gone, and the parent gets SIGCHLD; an orphan is reaped by init.
Die(p) ==
    /\ cpc' = [cpc EXCEPT ![p] = IF ParentAlive THEN "zombie" ELSE "none"]
    /\ child_exited_flag' = (child_exited_flag \/ ParentAlive)
    /\ toChild' = [toChild EXCEPT ![p] = <<>>]
    /\ heirs' = [heirs EXCEPT ![p] = {}]
    /\ held' = [held EXCEPT ![p] = NoLine]
    /\ child_sigusr_arrived' = [child_sigusr_arrived EXCEPT ![p] = FALSE]
    /\ term' = term \ {p}
=============================================================================
