----------------------------- MODULE ChatParent -----------------------------
(***************************************************************************)
(* The process that accepts connections and owns the tables: main of       *)
(* `chat server/server.c`, clean_active_process and the handlers of        *)
(* `chat server/sig.c`.  A step is one system call with the table updates  *)
(* that follow it, or one access to a flag a signal handler writes.        *)
(***************************************************************************)
EXTENDS ChatPipes

unchangedByParent == <<toChild, held, heirs, child_sigusr_arrived, term, lines>>
noProcessStep == <<cpc, unchangedByParent, ends, newPid, conns>>

-----------------------------------------------------------------------------
\* Top of the loop: reaping, then accept().

\* if (child_exited_flag) ...
TopOfLoop ==
    /\ pc = "top"
    /\ pc' = IF child_exited_flag THEN "reap" ELSE "accept"
    /\ UNCHANGED <<scan, job, active_children, room_info, flagVars, toParent,
                   noProcessStep>>

\* One round of the waitpid(-1, .., WNOHANG) loop: some child p that has
\* ended is reaped, its entry closed and shifted out of the table.
Reap(p) ==
    /\ pc = "reap"
    /\ cpc[p] = "zombie"
    /\ cpc' = [cpc EXCEPT ![p] = "none"]
    /\ LET k == IndexOf(active_children, p)
       IN  /\ active_children' = IF k = 0 THEN active_children
                                 ELSE RemoveEntry(active_children, k)
           /\ ends' = IF k = 0 THEN ends ELSE ends \ {p}
           /\ toParent' = [toParent EXCEPT ![p] = <<>>]
    /\ UNCHANGED <<pc, scan, job, room_info, flagVars, unchangedByParent,
                   newPid, conns>>

\* waitpid() finds no child that has ended.
ReapDone ==
    /\ pc = "reap"
    /\ \A p \in Pid : cpc[p] # "zombie"
    /\ pc' = "clear"
    /\ UNCHANGED <<scan, job, active_children, room_info, flagVars, toParent,
                   noProcessStep>>

\* child_exited_flag = 0, after the loop and not before it.
ClearExited ==
    /\ pc = "clear"
    /\ child_exited_flag' = FALSE
    /\ pc' = "accept"
    /\ UNCHANGED <<scan, job, active_children, room_info,
                   parent_sigusr_arrived, toParent, noProcessStep>>

\* accept() returns no connection (EAGAIN, EINTR) and no child has signalled.
AcceptIdle ==
    /\ pc = "accept"
    /\ ~parent_sigusr_arrived
    /\ pc' = "top"
    /\ UNCHANGED <<scan, job, active_children, room_info, flagVars, toParent,
                   noProcessStep>>

\* accept() returns no connection and a child has signalled: scan them all.
AcceptScan ==
    /\ pc = "accept"
    /\ parent_sigusr_arrived
    /\ parent_sigusr_arrived' = FALSE
    /\ pc' = "scan"
    /\ scan' = 1
    /\ UNCHANGED <<job, active_children, room_info, child_exited_flag,
                   toParent, noProcessStep>>

\* accept() fails with any other error: the server shuts down.
AcceptError ==
    /\ pc = "accept"
    /\ pc' = "term"
    /\ scan' = 1
    /\ UNCHANGED <<job, active_children, room_info, flagVars, toParent,
                   noProcessStep>>

\* A connection arrives and is closed again: MAX_CLIENT clients are there, or
\* pipe(), fcntl() or fork() failed and what was opened is closed.
AcceptRefuse ==
    /\ pc = "accept"
    /\ conns < MaxConns
    /\ conns' = conns + 1
    /\ pc' = "top"
    /\ UNCHANGED <<scan, job, active_children, room_info, flagVars, toParent,
                   cpc, unchangedByParent, ends, newPid>>

\* A connection arrives, fork() makes child p, with new pipes and copies of
\* the parent's ends of everybody else's.
AcceptFork(p) ==
    /\ pc = "accept"
    /\ conns < MaxConns
    /\ Len(active_children) < MaxClient
    /\ cpc[p] = "none"
    /\ conns' = conns + 1
    /\ pc' = "forked"
    /\ newPid' = p
    /\ cpc' = [cpc EXCEPT ![p] = "start"]
    /\ ends' = ends \cup {p}
    /\ heirs' = [q \in Pid |-> IF q = p THEN ends ELSE heirs[q] \ {p}]
    /\ child_sigusr_arrived' = [child_sigusr_arrived EXCEPT ![p] = FALSE]
    /\ toParent' = [toParent EXCEPT ![p] = <<>>]
    /\ toChild' = [toChild EXCEPT ![p] = <<>>]
    /\ UNCHANGED <<scan, job, active_children, room_info, flagVars, held, term,
                   lines>>

\* The parent's side of the fork: the new entry.
AddChild ==
    /\ pc = "forked"
    /\ active_children' = Append(active_children, NewEntry(newPid))
    /\ newPid' = NoPid
    /\ pc' = "top"
    /\ UNCHANGED <<scan, job, room_info, flagVars, toParent, cpc,
                   unchangedByParent, ends, conns>>

-----------------------------------------------------------------------------
\* The scan: one read() of each child's pipe, and the command it brings.

EntryPid == active_children[scan].pid

\* End of the for loop over active_children.
ScanDone ==
    /\ pc = "scan"
    /\ scan > Len(active_children)
    /\ pc' = "top"
    /\ scan' = 1
    /\ UNCHANGED <<job, active_children, room_info, flagVars, toParent,
                   noProcessStep>>

\* Nothing to read from entry `scan`: EAGAIN, or end of file.
ScanEmpty ==
    /\ pc = "scan"
    /\ scan <= Len(active_children)
    /\ toParent[EntryPid] = <<>>
    /\ scan' = scan + 1
    /\ UNCHANGED <<pc, job, active_children, room_info, flagVars, toParent,
                   noProcessStep>>

\* read() returns what there is, or a buffer full of it.
ReadPipe ==
    /\ pc = "scan"
    /\ scan <= Len(active_children)
    /\ toParent[EntryPid] # <<>>
    /\ toParent' = [toParent EXCEPT ![EntryPid] = AfterRead(@)]

\* The two strtok() and strchr() find the first line of it: a pid, and what
\* follows the first ':'.  Whatever else came in the buffer is never looked
\* at.  Where a read() ended inside a line the next one begins with the rest
\* of it, which has no pid in front; an empty line has nothing behind it.
FirstLine == Head(toParent[EntryPid])
Cmd == FirstLine.content.kind
Arg == FirstLine.content.arg
Parsed == FirstLine.part = 1 /\ Cmd # "empty"

TakeLine ==
    /\ ReadPipe
    /\ Parsed
    /\ UNCHANGED <<flagVars, noProcessStep>>

\* The entry whose pid is the one in front of the line, client_idx.
Sender == IndexOf(active_children, FirstLine.pid)

\* A command that changes the tables and writes nothing.
Updates(list, rooms) ==
    /\ active_children' = list
    /\ room_info' = rooms
    /\ scan' = scan + 1
    /\ UNCHANGED <<pc, job>>

\* A command that writes to clients.
Starts(j) ==
    /\ job' = j
    /\ pc' = "deliver"
    /\ UNCHANGED <<scan, active_children, room_info>>

HandleAdd ==
    /\ TakeLine
    /\ Cmd = "add"
    /\ Updates(active_children, AddRoom(room_info, Arg, ChatRoom))

HandleJoin ==
    /\ TakeLine
    /\ Cmd = "join"
    /\ Updates(IF Sender = 0 THEN active_children
               ELSE MoveTo(active_children, Sender, Arg),
               room_info)

HandleLeave ==
    /\ TakeLine
    /\ Cmd = "leave"
    /\ Updates(IF Sender = 0 THEN active_children
               ELSE MoveTo(active_children, Sender, Blank),
               room_info)

HandleRm ==
    /\ TakeLine
    /\ Cmd = "rm"
    /\ Updates(Evict(active_children, Arg),
               RemoveRoom(room_info, Arg))

\* A '/' line that is no command: read and dropped.
HandleUnknown ==
    /\ TakeLine
    /\ Cmd = "slash"
    /\ Updates(active_children, room_info)

HandleQuery ==
    /\ TakeLine
    /\ Cmd \in {"list", "users"}
    /\ IF Cmd = "users" /\ Sender = 0
       THEN Updates(active_children, room_info)
       ELSE Starts([kind |-> Cmd, by |-> Sender, to |-> NoName,
                    no |-> FirstLine.no, k |-> 1])

\* Seeded fault: every such line renames the client.
M_HandleName ==
    /\ TakeLine
    /\ Cmd \notin Slashed
    /\ Updates(Rename(active_children, scan, FirstLine.content), room_info)

\* The first line of a client that is no '/' command is its name.
HandleName ==
    /\ TakeLine
    /\ Cmd \notin Slashed
    /\ active_children[scan].name = NoName
    /\ Updates(Rename(active_children, scan, FirstLine.content), room_info)

\* !whisper u: user_name is u; without a word behind it, user_name is
\* whatever its stack slot holds, the empty string included.
HandleWhisper ==
    /\ TakeLine
    /\ Cmd = "whisper"
    /\ active_children[scan].name # NoName
    /\ IF Sender = 0
       THEN Updates(active_children, room_info)
       ELSE \E u \in IF Arg # Blank THEN {Arg} ELSE Word :
               Starts([kind |-> "whisper", by |-> Sender, no |-> FirstLine.no,
                       to |-> [kind |-> "text", arg |-> u], k |-> 1])

\* '!' and no command, or text of a client in no room: read and dropped.
HandleNothing ==
    /\ TakeLine
    /\ active_children[scan].name # NoName
    /\ \/ Cmd = "bang"
       \/ Cmd = "text" /\ active_children[scan].room = Blank
    /\ Updates(active_children, room_info)

\* Seeded fault: a client in no room is heard too.
M_HandleBroadcast ==
    /\ TakeLine
    /\ Cmd = "text"
    /\ active_children[scan].name # NoName
    /\ Starts([kind |-> "broadcast", by |-> scan, to |-> NoName, no |-> FirstLine.no,
               k |-> 1])

\* Text of a client in a room, to everybody in that room.
HandleBroadcast ==
    /\ TakeLine
    /\ Cmd = "text"
    /\ active_children[scan].name # NoName
    /\ active_children[scan].room # Blank
    /\ Starts([kind |-> "broadcast", by |-> scan, to |-> NoName, no |-> FirstLine.no,
               k |-> 1])

\* The parent ends at once: init adopts the children and reaps them.
Dies ==
    /\ pc' = "killed"
    /\ scan' = 1 /\ job' = NoJob
    /\ ends' = {}
    /\ cpc' = [p \in Pid |-> IF cpc[p] = "zombie" THEN "none" ELSE cpc[p]]
    /\ UNCHANGED <<active_children, room_info, flagVars, unchangedByParent,
                   newPid, conns>>

\* No ':' with something behind it: content is NULL, and strchr() looks at it
\* before the test for NULL does (server.c:115, 118).
HandleNull == ReadPipe /\ ~Parsed /\ Dies

\* The rest of a line with a ':' in it is carried out for whoever the text in
\* front of that happens to name, with client_idx = -1 for an index if it is
\* nobody and the command /list.  The model follows the server no further.
HandleRest ==
    /\ ReadPipe
    /\ FirstLine.part > 1
    /\ pc' = "astray"
    /\ UNCHANGED <<scan, job, active_children, room_info, flagVars,
                   noProcessStep>>

-----------------------------------------------------------------------------
\* The write loops.

JobEnd == IF job.kind = "list" THEN Len(room_info) ELSE Len(active_children)

\* Does round k of the loop write, and to whom?
Hit(k) ==
    CASE job.kind = "list"    -> room_info[k] # Blank    \* else 0 bytes
      [] job.kind = "whisper" -> active_children[k].name = job.to
      [] OTHER -> active_children[k].room = active_children[job.by].room

Target == IF job.kind \in {"list", "users"}
          THEN active_children[job.by].pid
          ELSE active_children[job.k].pid

\* Seeded fault: the loop index is not advanced.
M_NextRound == job' = [job EXCEPT !.k = IF job.kind = "whisper"
                                        THEN JobEnd + 1 ELSE @]

\* The next round; a whisper breaks out at its first hit.
NextRound == job' = [job EXCEPT !.k = IF job.kind = "whisper"
                                      THEN JobEnd + 1 ELSE @ + 1]

SkipRound ==
    /\ pc = "deliver"
    /\ job.k <= JobEnd
    /\ ~Hit(job.k)
    /\ job' = [job EXCEPT !.k = @ + 1]
    /\ UNCHANGED <<pc, scan, active_children, room_info, flagVars, toParent,
                   noProcessStep>>

\* The text of one round.
Answer == [kind |-> job.kind, no |-> job.no, part |-> 1,
           from |-> active_children[job.by].pid]

\* write() to the pipe of Target, a child that still reads it; on EAGAIN the
\* text is dropped.
DeliverWrite ==
    /\ pc = "deliver"
    /\ job.k <= JobEnd
    /\ Hit(job.k)
    /\ Live(Target)
    /\ \E n \in Written(toChild[Target]) :
           /\ toChild' = [toChild EXCEPT ![Target] = @ \o Pieces(Answer, n)]
           /\ IF n > 0 THEN pc' = "signal" /\ UNCHANGED job
                       ELSE NextRound /\ UNCHANGED pc
    /\ UNCHANGED <<scan, active_children, room_info, flagVars, toParent, cpc,
                   held, heirs, child_sigusr_arrived, term, lines, ends,
                   newPid, conns>>

\* write() to the pipe of a child that has ended and is not reaped yet:
\* SIGPIPE has its default action.
DeliverBroken ==
    /\ pc = "deliver"
    /\ job.k <= JobEnd
    /\ Hit(job.k)
    /\ ~Live(Target)
    /\ Dies
    /\ UNCHANGED toParent

\* Seeded fault: the child is not signalled.
M_DeliverSignal ==
    /\ pc = "signal"
    /\ NextRound
    /\ pc' = "deliver"
    /\ UNCHANGED <<scan, active_children, room_info, flagVars, toParent, cpc,
                   toChild, child_sigusr_arrived, held, heirs, term, lines,
                   ends, newPid, conns>>

\* kill(pid, SIGUSR1) after a write.  Before ChildSetup the child runs the
\* handler it inherited, which sets a flag the child never looks at.
DeliverSignal ==
    /\ pc = "signal"
    /\ child_sigusr_arrived' = [child_sigusr_arrived EXCEPT ![Target] =
                                    @ \/ cpc[Target] \in LivePc \ {"start"}]
    /\ NextRound
    /\ pc' = "deliver"
    /\ UNCHANGED <<scan, active_children, room_info, flagVars, toParent, cpc,
                   toChild, held, heirs, term, lines, ends, newPid, conns>>

DeliverDone ==
    /\ pc = "deliver"
    /\ job.k > JobEnd
    /\ pc' = "scan"
    /\ scan' = scan + 1
    /\ job' = NoJob
    /\ UNCHANGED <<active_children, room_info, flagVars, toParent,
                   noProcessStep>>

-----------------------------------------------------------------------------
\* Shutdown.

\* Seeded fault: the descriptors are closed, the child is not terminated.
M_TermChild ==
    /\ pc = "term"
    /\ scan <= Len(active_children)
    /\ ends' = ends \ {EntryPid}
    /\ scan' = scan + 1
    /\ UNCHANGED <<pc, job, active_children, room_info, flagVars, toParent,
                   toChild, cpc, held, heirs, child_sigusr_arrived, term,
                   lines, newPid, conns>>

\* kill(pid, SIGTERM) and the two close() for one entry.
TermChild ==
    /\ pc = "term"
    /\ scan <= Len(active_children)
    /\ term' = IF Live(EntryPid) THEN term \cup {EntryPid} ELSE term
    /\ ends' = ends \ {EntryPid}
    /\ scan' = scan + 1
    /\ UNCHANGED <<pc, job, active_children, room_info, flagVars, toParent,
                   toChild, cpc, held, heirs, child_sigusr_arrived, lines,
                   newPid, conns>>

TermDone ==
    /\ pc = "term"
    /\ scan > Len(active_children)
    /\ pc' = "wait"
    /\ scan' = 1
    /\ UNCHANGED <<job, active_children, room_info, flagVars, toParent,
                   noProcessStep>>

\* wait() returns some child that has ended.
WaitChild(p) ==
    /\ pc = "wait"
    /\ cpc[p] = "zombie"
    /\ cpc' = [cpc EXCEPT ![p] = "none"]
    /\ UNCHANGED <<pc, scan, job, active_children, room_info, flagVars,
                   toParent, ends, unchangedByParent, newPid, conns>>

\* wait() says ECHILD: no child is left.  The process daemonize() forks is a
\* child too, and it spins in while(1){} for ever.
WaitDone ==
    /\ pc = "wait"
    /\ ~Daemonized
    /\ \A p \in Pid : cpc[p] = "none"
    /\ pc' = "down"
    /\ UNCHANGED <<scan, job, active_children, room_info, flagVars, toParent,
                   noProcessStep>>

Parent ==
    \/ TopOfLoop \/ ReapDone \/ ClearExited
    \/ AcceptIdle \/ AcceptScan \/ AcceptError \/ AcceptRefuse \/ AddChild
    \/ \E p \in Pid : Reap(p) \/ AcceptFork(p) \/ WaitChild(p)
    \/ ScanDone \/ ScanEmpty
    \/ HandleAdd \/ HandleJoin \/ HandleLeave \/ HandleRm \/ HandleUnknown
    \/ HandleQuery \/ HandleName \/ HandleWhisper \/ HandleNothing
    \/ HandleBroadcast \/ HandleNull \/ HandleRest
    \/ SkipRound \/ DeliverWrite \/ DeliverBroken \/ DeliverSignal
    \/ DeliverDone \/ TermChild \/ TermDone \/ WaitDone
=============================================================================
