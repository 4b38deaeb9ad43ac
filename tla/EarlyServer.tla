---------------------------- MODULE EarlyServer ----------------------------
(***************************************************************************)
(* `chat server/ex.c`, the chat server before it was split over files: the *)
(* same processes, tables and loop, with client_work and the handlers in   *)
(* the one file.  It knows /add and /join only, has no '!' commands, and   *)
(* signals a child before it writes to it, where server.c writes first.    *)
(* The steps the two programs share are those of ChatChild and ChatParent. *)
(***************************************************************************)
EXTENDS ChatServer

-----------------------------------------------------------------------------
\* client_work of ex.c.
EarlySetup(p) == ChildSetup(p)
EarlyFromParent(p) ==
    ChildClearFlag(p) \/ ChildNoFlag(p) \/ ChildRelay(p) \/ ChildReadNothing(p)
EarlyFromClient(p) ==
    \/ ChildIdle(p) \/ \E c \in Inputs : ChildReadLine(p, c)
    \/ ChildReadEof(p) \/ ChildSignalParent(p) \/ ChildWrite(p)
    \/ ChildBrokenPipe(p)
EarlyExit(p) == ChildExit(p) \/ ChildTerminated(p)
EarlyChild(p) ==
    EarlySetup(p) \/ EarlyFromParent(p) \/ EarlyFromClient(p) \/ EarlyExit(p)

\* The main loop of ex.c up to the scan, and the shutdown behind it.
EarlyTop == TopOfLoop \/ ClearExited
EarlyReap == ReapDone \/ \E p \in Pid : Reap(p)
EarlyAccept == AcceptIdle \/ AcceptScan \/ AcceptError
EarlyConnect == AcceptRefuse \/ AddChild \/ \E p \in Pid : AcceptFork(p)
EarlyShutdown ==
    TermChild \/ TermDone \/ WaitDone \/ \E p \in Pid : WaitChild(p)
EarlyScan == ScanDone \/ ScanEmpty

-----------------------------------------------------------------------------
\* What ex.c makes of a line.  Only '/' introduces a command.
EarlyAdd == HandleAdd
EarlyJoin == HandleJoin

\* strtok() leaves content NULL, which here is tested before it is used: the
\* message is malformed, logged and dropped.
EarlyMalformed ==
    /\ ReadPipe
    /\ ~Parsed
    /\ Updates(active_children, room_info)
    /\ UNCHANGED <<flagVars, noProcessStep>>

\* The rest of a line with a ':' in it, carried out for whoever it names.
EarlyRest == HandleRest

\* isRm and isList are computed and no branch asks for them.
EarlyDrop ==
    /\ TakeLine
    /\ Cmd \in Slashed \ {"add", "join"}
    /\ Updates(active_children, room_info)

EarlyName == HandleName

\* Text of a client in no room.
EarlyUnheard ==
    /\ TakeLine
    /\ Cmd \notin Slashed
    /\ active_children[scan].name # NoName
    /\ active_children[scan].room = Blank
    /\ Updates(active_children, room_info)

\* Seeded fault: no test for the empty room.
M_EarlyBroadcast ==
    /\ TakeLine
    /\ Cmd \notin Slashed
    /\ active_children[scan].name # NoName
    /\ Starts([kind |-> "broadcast", by |-> scan, to |-> NoName,
               no |-> FirstLine.no, k |-> 1])

\* Text of a client in a room: the loop over everybody begins.
EarlyBroadcast ==
    /\ TakeLine
    /\ Cmd \notin Slashed
    /\ active_children[scan].name # NoName
    /\ active_children[scan].room # Blank
    /\ Starts([kind |-> "broadcast", by |-> scan, to |-> NoName,
               no |-> FirstLine.no, k |-> 1])

\* Seeded fault: everybody is signalled and written to, whatever the room.
M_EarlyKill ==
    /\ pc = "deliver"
    /\ job.k <= JobEnd
    /\ child_sigusr_arrived' = [child_sigusr_arrived EXCEPT ![Target] =
                                    @ \/ cpc[Target] \in LivePc \ {"start"}]
    /\ pc' = "signal"
    /\ UNCHANGED <<scan, job, active_children, room_info, flagVars, toParent,
                   cpc, toChild, held, heirs, term, lines, ends, newPid, conns>>

\* kill(pid, SIGUSR1), before the write.  A zombie can be signalled too.
EarlyKill ==
    /\ pc = "deliver"
    /\ job.k <= JobEnd
    /\ Hit(job.k)
    /\ child_sigusr_arrived' = [child_sigusr_arrived EXCEPT ![Target] =
                                    @ \/ cpc[Target] \in LivePc \ {"start"}]
    /\ pc' = "signal"
    /\ UNCHANGED <<scan, job, active_children, room_info, flagVars, toParent,
                   cpc, toChild, held, heirs, term, lines, ends, newPid, conns>>

\* write() to a child that reads; on EAGAIN the line is dropped.
EarlyWrite ==
    /\ pc = "signal"
    /\ Live(Target)
    /\ \E n \in Written(toChild[Target]) :
           toChild' = [toChild EXCEPT ![Target] = @ \o Pieces(Answer, n)]
    /\ NextRound
    /\ pc' = "deliver"
    /\ UNCHANGED <<scan, active_children, room_info, flagVars, toParent, cpc,
                   child_sigusr_arrived, held, heirs, term, lines, ends,
                   newPid, conns>>

\* write() to a child that has ended: SIGPIPE ends the server.
EarlyBroken ==
    /\ pc = "signal"
    /\ ~Live(Target)
    /\ Dies
    /\ UNCHANGED toParent

EarlyDeliver ==
    SkipRound \/ EarlyKill \/ EarlyWrite \/ EarlyBroken \/ DeliverDone

EarlyParent ==
    \/ EarlyTop \/ EarlyReap \/ EarlyAccept \/ EarlyConnect \/ EarlyScan
    \/ EarlyAdd \/ EarlyJoin \/ EarlyDrop \/ EarlyName \/ EarlyUnheard
    \/ EarlyMalformed \/ EarlyRest
    \/ EarlyBroadcast \/ EarlyDeliver \/ EarlyShutdown

EarlyNext == EarlyParent \/ \E p \in Pid : EarlyChild(p)

EarlySpec == Init /\ [][EarlyNext]_vars

\* The kernel runs every process; clients do what they like.
EarlyFairSpec ==
    /\ EarlySpec
    /\ WF_vars(EarlyParent)
    /\ \A p \in Pid : WF_vars(EarlyChild(p)) /\ WF_vars(ChildTerminated(p))

-----------------------------------------------------------------------------
\* kill() cannot fail for want of a process, so the branch at ex.c:449 that
\* logs and does not write is never taken: the target of a round is a child
\* that is not reaped, and the table does not change between kill() and
\* write().
KillFindsChild ==
    /\ pc = "deliver" /\ job.k <= JobEnd /\ Hit(job.k) => cpc[Target] # "none"
    /\ pc = "signal" => cpc[Target] # "none" /\ Hit(job.k)

\* A line enters the pipe of a client only from a client of the same room,
\* and nobody without a room hears anybody (ex.c:436, 444).
RoomOf(p) == active_children[IndexOf(active_children, p)].room
RoomsApart ==
    [][\A p \in Pid : Len(toChild'[p]) > Len(toChild[p]) =>
           LET heard == toChild'[p][Len(toChild'[p])]
           IN  /\ {p, heard.from} \subseteq Listed
               /\ RoomOf(p) = RoomOf(heard.from) /\ RoomOf(p) # Blank]_vars

\* Every line the server writes to a client is read by the client's process,
\* or that process ends (ex.c:205: what comes from the parent is handed on
\* to the client).
BroadcastReachesChild ==
    \A p \in Pid : toChild[p] # <<>> ~> toChild[p] = <<>>
=============================================================================
