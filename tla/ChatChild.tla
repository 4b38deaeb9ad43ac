------------------------------ MODULE ChatChild ------------------------------
(***************************************************************************)
(* The process that serves one client: client_work of                      *)
(* `chat server/clientprocess.c`, with the handlers of `chat server/sig.c`.*)
(* A step is one system call or one access to a flag a signal handler      *)
(* writes; the client at the other end of the socket is the environment.   *)
(***************************************************************************)
EXTENDS ChatPipes

unchangedByChild == <<parentVars, ends, conns>>

\* setup_signal_handlers_child_main and the closing of unused pipe ends.
\* Until here SIGUSR1 runs the handler inherited from the parent.
ChildSetup(p) ==
    /\ cpc[p] = "start"
    /\ cpc' = [cpc EXCEPT ![p] = "top"]
    /\ UNCHANGED <<unchangedByChild, flagVars, child_sigusr_arrived, held,
                   heirs, toParent, toChild, term, lines>>

\* if (child_sigusr_arrived) child_sigusr_arrived = 0;
ChildClearFlag(p) ==
    /\ cpc[p] = "top"
    /\ child_sigusr_arrived[p]
    /\ child_sigusr_arrived' = [child_sigusr_arrived EXCEPT ![p] = FALSE]
    /\ cpc' = [cpc EXCEPT ![p] = "read"]
    /\ UNCHANGED <<unchangedByChild, flagVars, held, heirs, toParent, toChild,
                   term, lines>>

ChildNoFlag(p) ==
    /\ cpc[p] = "top"
    /\ ~child_sigusr_arrived[p]
    /\ cpc' = [cpc EXCEPT ![p] = "sock"]
    /\ UNCHANGED <<unchangedByChild, flagVars, child_sigusr_arrived, held,
                   heirs, toParent, toChild, term, lines>>

\* One read() of the parent pipe, all of it written on to the client: the
\* socket takes it or is full (the text is dropped), or the write fails and
\* the loop ends.
ChildRelay(p) ==
    /\ cpc[p] = "read"
    /\ toChild[p] # <<>>
    /\ toChild' = [toChild EXCEPT ![p] = AfterRead(@)]
    /\ \E next \in {"sock", "exit"} : cpc' = [cpc EXCEPT ![p] = next]
    /\ UNCHANGED <<unchangedByChild, flagVars, child_sigusr_arrived, held,
                   heirs, toParent, term, lines>>

\* The parent pipe is empty: EAGAIN while some process has its write end,
\* else end of file, which ends the loop.
ChildReadNothing(p) ==
    /\ cpc[p] = "read"
    /\ toChild[p] = <<>>
    /\ cpc' = [cpc EXCEPT ![p] = IF ParentSideOpen(p) THEN "sock" ELSE "exit"]
    /\ UNCHANGED <<unchangedByChild, flagVars, child_sigusr_arrived, held,
                   heirs, toParent, toChild, term, lines>>

\* Seeded fault: the flag is cleared at the end of the round.
M_ChildIdle(p) ==
    /\ cpc[p] = "sock"
    /\ cpc' = [cpc EXCEPT ![p] = "top"]
    /\ child_sigusr_arrived' = [child_sigusr_arrived EXCEPT ![p] = FALSE]
    /\ UNCHANGED <<unchangedByChild, flagVars, held, heirs, toParent, toChild,
                   term, lines>>

\* The client has sent nothing: EAGAIN, usleep, and round again.
ChildIdle(p) ==
    /\ cpc[p] = "sock"
    /\ cpc' = [cpc EXCEPT ![p] = "top"]
    /\ UNCHANGED <<unchangedByChild, flagVars, child_sigusr_arrived, held,
                   heirs, toParent, toChild, term, lines>>

\* The client has sent line c.
ChildReadLine(p, c) ==
    /\ cpc[p] = "sock"
    /\ lines < MaxLines
    /\ lines' = lines + 1
    /\ held' = [held EXCEPT ![p] = [no |-> lines + 1, content |-> c]]
    /\ cpc' = [cpc EXCEPT ![p] = "kill"]
    /\ UNCHANGED <<unchangedByChild, flagVars, child_sigusr_arrived, heirs,
                   toParent, toChild, term>>

\* The client has disconnected, or reading its socket failed.
ChildReadEof(p) ==
    /\ cpc[p] = "sock"
    /\ cpc' = [cpc EXCEPT ![p] = "exit"]
    /\ UNCHANGED <<unchangedByChild, flagVars, child_sigusr_arrived, held,
                   heirs, toParent, toChild, term, lines>>

\* kill(main_pid, SIGUSR1): the parent's handler sets its flag.  A parent
\* blocked in wait() may come back from it with EINTR.
ChildSignalParent(p) ==
    /\ cpc[p] = "kill"
    /\ cpc' = [cpc EXCEPT ![p] = "write"]
    /\ parent_sigusr_arrived' = (parent_sigusr_arrived \/ ParentAlive)
    /\ \/ pc' = pc
       \/ /\ pc = "wait"
          /\ \A q \in Pid : cpc[q] # "zombie"
          /\ pc' = "down"
    /\ UNCHANGED <<scan, job, newPid, active_children, room_info, ends, conns,
                   child_exited_flag, child_sigusr_arrived, held, heirs,
                   toParent, toChild, term, lines>>

\* snprintf() of "PID:line".
Formatted(p) == [pid |-> p, no |-> held[p].no, content |-> held[p].content,
                 part |-> 1]

\* write() of the line to the parent pipe; what does not fit is dropped.
ChildWrite(p) ==
    /\ cpc[p] = "write"
    /\ ParentSideOpen(p)
    /\ \E n \in Written(toParent[p]) :
           toParent' = [toParent EXCEPT ![p] = @ \o Pieces(Formatted(p), n)]
    /\ held' = [held EXCEPT ![p] = NoLine]
    /\ cpc' = [cpc EXCEPT ![p] = "top"]
    /\ UNCHANGED <<unchangedByChild, flagVars, child_sigusr_arrived, heirs,
                   toChild, term, lines>>

\* write() to a pipe nobody can read any more: SIGPIPE has its default
\* action, so the process ends here and not behind the loop.
ChildBrokenPipe(p) ==
    /\ cpc[p] = "write"
    /\ ~ParentSideOpen(p)
    /\ Die(p)
    /\ UNCHANGED <<unchangedByChild, parent_sigusr_arrived, toParent, lines>>

\* close() of the descriptors and exit(0).
ChildExit(p) ==
    /\ cpc[p] = "exit"
    /\ Die(p)
    /\ UNCHANGED <<unchangedByChild, parent_sigusr_arrived, toParent, lines>>

\* SIGTERM, which a child does not handle.
ChildTerminated(p) ==
    /\ p \in term
    /\ Live(p)
    /\ Die(p)
    /\ UNCHANGED <<unchangedByChild, parent_sigusr_arrived, toParent, lines>>

Child(p) ==
    \/ ChildSetup(p) \/ ChildClearFlag(p) \/ ChildNoFlag(p)
    \/ ChildRelay(p) \/ ChildReadNothing(p)
    \/ ChildIdle(p) \/ ChildReadEof(p)
    \/ \E c \in Inputs : ChildReadLine(p, c)
    \/ ChildSignalParent(p) \/ ChildWrite(p) \/ ChildBrokenPipe(p)
    \/ ChildExit(p) \/ ChildTerminated(p)
=============================================================================
