---------------------------- MODULE SharedMemory ----------------------------
(***************************************************************************)
(* `0616/shm_sem.c`: parent and child share an integer and pace each other *)
(* with a System V semaphore.  Both remove the segment and the semaphore   *)
(* on their way out.  SEM_UNDO is left out: a process that has worked on   *)
(* the semaphore removes it before it exits.                               *)
(***************************************************************************)
EXTENDS Integers

VARIABLES
    semSet,     \* the semaphore exists
    semVal,     \* its value
    segment,    \* the segment exists under SHM_KEY; it may be an old one
    cVal,       \* the shared integer
    parentAt, childAt,          \* where the processes are
    raised, lowered             \* their loop counters i

memoryVars == <<semSet, semVal, segment, cVal, parentAt, childAt, raised,
                lowered>>

Loops == 3

MemoryInit ==
    /\ semSet = FALSE /\ semVal = 0
    /\ segment = FALSE /\ cVal = 0
    /\ parentAt = "start" /\ childAt = "none"
    /\ raised = 0 /\ lowered = 0

\* semget() and SETVAL; a segment may be left from an earlier run.
SetUp ==
    /\ parentAt = "start"
    /\ semSet' = TRUE /\ semVal' = 0
    /\ segment' \in BOOLEAN
    /\ parentAt' = "fork"
    /\ UNCHANGED <<cVal, childAt, raised, lowered>>

\* fork(); when it fails, neither branch is taken and shmctl() gets an
\* uninitialised identifier.
ForkChild ==
    /\ parentAt = "fork"
    /\ \/ parentAt' = "attach" /\ childAt' = "attach" /\ UNCHANGED segment
       \/ parentAt' = "remove" /\ segment' \in {segment, FALSE}
          /\ UNCHANGED childAt
    /\ UNCHANGED <<semSet, semVal, cVal, raised, lowered>>

\* The parent's shmget(IPC_CREAT) and shmat(); it returns when one fails.
ParentAttaches ==
    /\ parentAt = "attach"
    /\ \/ segment' = TRUE /\ parentAt' = "v"
       \/ segment' \in {segment, TRUE} /\ parentAt' = "failed"
    /\ UNCHANGED <<semSet, semVal, cVal, childAt, raised, lowered>>

\* The child's shmget() finds only what is there; *cVal = 1.
ChildAttaches ==
    /\ childAt = "attach"
    /\ \/ segment /\ cVal' = 1 /\ childAt' = "add"
       \/ childAt' = "failed" /\ UNCHANGED cVal
    /\ UNCHANGED <<semSet, semVal, segment, parentAt, raised, lowered>>

\* Seeded fault: the parent stops a round early.
M_ParentRaises ==
    /\ parentAt = "v"
    /\ raised' = raised + 1
    /\ semVal' = IF semSet THEN semVal + 1 ELSE semVal
    /\ parentAt' = IF raised' = Loops - 1 THEN "wait" ELSE "v"
    /\ UNCHANGED <<semSet, segment, cVal, childAt, lowered>>

\* v(1); an operation on a removed semaphore only prints an error.
ParentRaises ==
    /\ parentAt = "v"
    /\ raised' = raised + 1
    /\ semVal' = IF semSet THEN semVal + 1 ELSE semVal
    /\ parentAt' = IF raised' = Loops THEN "wait" ELSE "v"
    /\ UNCHANGED <<semSet, segment, cVal, childAt, lowered>>

ChildAdds ==
    /\ childAt = "add"
    /\ cVal' = cVal + 1
    /\ childAt' = "p"
    /\ UNCHANGED <<semSet, semVal, segment, parentAt, raised, lowered>>

\* Seeded fault: the loop of the child is a round short.
M_ChildLowers ==
    /\ childAt = "p"
    /\ ~semSet \/ semVal > 0
    /\ lowered' = lowered + 1
    /\ semVal' = IF semSet THEN semVal - 1 ELSE semVal
    /\ childAt' = IF lowered' = Loops - 1 THEN "remove" ELSE "add"
    /\ UNCHANGED <<semSet, segment, cVal, parentAt, raised>>

\* Seeded fault: IPC_NOWAIT, and the error goes unnoticed.
M_ChildTries ==
    /\ childAt = "p"
    /\ lowered' = lowered + 1
    /\ semVal' = IF semSet /\ semVal > 0 THEN semVal - 1 ELSE semVal
    /\ childAt' = IF lowered' = Loops THEN "remove" ELSE "add"
    /\ UNCHANGED <<semSet, segment, cVal, parentAt, raised>>

\* p(1) and the next round.
ChildLowers ==
    /\ childAt = "p"
    /\ ~semSet \/ semVal > 0
    /\ lowered' = lowered + 1
    /\ semVal' = IF semSet THEN semVal - 1 ELSE semVal
    /\ childAt' = IF lowered' = Loops THEN "remove" ELSE "add"
    /\ UNCHANGED <<semSet, segment, cVal, parentAt, raised>>

\* waitpid() of the parent.
ParentWaits ==
    /\ parentAt = "wait"
    /\ childAt \in {"failed", "end"}
    /\ parentAt' = "remove"
    /\ UNCHANGED <<semSet, semVal, segment, cVal, childAt, raised, lowered>>

\* shmctl(IPC_RMID) and semctl(IPC_RMID), at the end of either process; a
\* removal of what is gone fails silently.
ChildRemoves ==
    /\ childAt = "remove"
    /\ childAt' = "end"
    /\ semSet' = FALSE /\ segment' = FALSE
    /\ UNCHANGED <<semVal, cVal, parentAt, raised, lowered>>

\* After a failed fork() the identifier given to shmctl() is no segment's.
ParentRemoves ==
    /\ parentAt = "remove"
    /\ parentAt' = "end"
    /\ semSet' = FALSE
    /\ segment' = (segment /\ childAt = "none")
    /\ UNCHANGED <<semVal, cVal, childAt, raised, lowered>>

MemoryNext ==
    \/ SetUp \/ ForkChild \/ ParentAttaches \/ ChildAttaches
    \/ ParentRaises \/ ChildAdds \/ ChildLowers
    \/ ParentWaits \/ ChildRemoves \/ ParentRemoves

-----------------------------------------------------------------------------
\* Neither process works on a semaphore the other has removed: the child
\* goes only after three p(), which need the three v() of the parent
\* (shm_sem.c:78-85, 102-114).
SetOutlivesUse == parentAt = "v" \/ childAt = "p" => semSet

\* The child stays one step behind: it has added at most one more than the
\* parent has allowed (shm_sem.c:79-81, 104-105); and it never waits for a
\* parent that waits for it (shm_sem.c:78-84, 102-106).
ChildKeepsBehind ==
    /\ cVal <= raised + 2
    /\ childAt = "p" /\ semSet /\ semVal = 0 => parentAt # "wait"

\* The run ends, if the parent could attach.
SampleEnds == parentAt = "v" ~> parentAt = "end"
=============================================================================
