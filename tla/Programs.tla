------------------------------ MODULE Programs ------------------------------
(***************************************************************************)
(* The smaller programs of the repository side by side: one of them is     *)
(* started and the others stay as they are.  They share nothing, so that   *)
(* one set of behaviours serves to check them all.                         *)
(***************************************************************************)
EXTENDS ChatClient, Threads, NamedSemaphore, SharedMemory, WebServer, BmpViewer

VARIABLE program        \* the one that was started

ProgramNames == {"client_server", "thread_mutex", "posix_sem", "shm_sem",
                 "webserver", "bmpViewer"}

allVars == <<clientVars, threadVars, semaphoreVars, memoryVars, webVars,
             viewVars, program>>

ProgramsInit ==
    /\ ClientInit /\ ThreadsInit /\ SemaphoreInit /\ MemoryInit /\ WebInit
    /\ ViewInit
    /\ program \in ProgramNames

Runs1(name, next) == program = name /\ next /\ UNCHANGED program
RunClient ==
    /\ Runs1("client_server", ClientNext)
    /\ UNCHANGED <<threadVars, semaphoreVars, memoryVars, webVars, viewVars>>
RunThreads ==
    /\ Runs1("thread_mutex", ThreadsNext)
    /\ UNCHANGED <<clientVars, semaphoreVars, memoryVars, webVars, viewVars>>
RunSemaphore ==
    /\ Runs1("posix_sem", SemaphoreNext)
    /\ UNCHANGED <<clientVars, threadVars, memoryVars, webVars, viewVars>>
RunMemory ==
    /\ Runs1("shm_sem", MemoryNext)
    /\ UNCHANGED <<clientVars, threadVars, semaphoreVars, webVars, viewVars>>
RunWeb ==
    /\ Runs1("webserver", WebNext)
    /\ UNCHANGED <<clientVars, threadVars, semaphoreVars, memoryVars, viewVars>>
RunViewer ==
    /\ Runs1("bmpViewer", ViewNext)
    /\ UNCHANGED <<clientVars, threadVars, semaphoreVars, memoryVars, webVars>>

ProgramsNext ==
    \/ RunClient \/ RunThreads \/ RunSemaphore
    \/ RunMemory \/ RunWeb \/ RunViewer

\* The scheduler runs every process and thread that can go on; users,
\* clients, servers and the killing of a program are left free.  Only one
\* program runs, and only the chat client has two processes that must both
\* go on for its promise.
Scheduled ==
    \/ RunClient /\ MainStep
    \/ RunSemaphore /\ SemaphoreStep
    \/ RunMemory
    \/ RunWeb /\ WebStep
ProgramsFairness ==
    WF_allVars(Scheduled) /\ WF_allVars(RunClient /\ TypistStep)

ProgramsSpec ==
    ProgramsInit /\ [][ProgramsNext]_allVars /\ ProgramsFairness
=============================================================================
