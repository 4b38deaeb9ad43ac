--------------------------- MODULE NamedSemaphore ---------------------------
(***************************************************************************)
(* `0616/posix_sem.c` and `0616/thread.c`, two programs that open the same *)
(* named semaphore "posix_sem".  The name outlives a program that is       *)
(* killed, and sem_open(O_CREAT) then takes the value it finds.  One       *)
(* program runs at a time.  The counter cnt of thread.c is only printed    *)
(* and is left out.                                                        *)
(***************************************************************************)
EXTENDS Integers

CONSTANT MaxRuns        \* bound: programs started

ASSUME SemaphoreAssumption == MaxRuns \in Nat

VARIABLES
    named,      \* the value of the semaphore, NoName when there is none
    running,    \* "none", "posix_sem" or "thread"
    semAt,      \* where the program's main() is
    waits,      \* sem_wait()s done: cnt of posix_sem.c, i of pthreadV()
    posts,      \* sem_post()s done: i of pthreadP()
    stale,      \* history: a killed program has left the semaphore behind
    runs        \* the bound

semaphoreVars == <<named, running, semAt, waits, posts, stale, runs>>

NoName == -1
Slots   == 8            \* sem_open() of posix_sem.c, and its limit of cnt
Rounds  == 10           \* of both threads of thread.c
Opened(value) == IF named = NoName THEN value ELSE named

SemaphoreInit ==
    /\ named = NoName
    /\ running = "none" /\ semAt = "end"
    /\ waits = 0 /\ posts = 0
    /\ stale = FALSE
    /\ runs = 0

StartRun(program, value) ==
    /\ running = "none"
    /\ runs < MaxRuns
    /\ runs' = runs + 1
    /\ running' = program
    /\ named' = Opened(value)
    /\ semAt' = "run"
    /\ waits' = 0 /\ posts' = 0
    /\ UNCHANGED stale

OpenPosixSem == StartRun("posix_sem", Slots)
OpenThread   == StartRun("thread", 7)

\* v(): posix_sem.c counts, then waits.
CountUp ==
    /\ running = "posix_sem" /\ semAt = "run"
    /\ waits < Slots
    /\ waits' = waits + 1
    /\ semAt' = "wait"
    /\ UNCHANGED <<named, running, posts, stale, runs>>

SemWait ==
    /\ running = "posix_sem" /\ semAt = "wait"
    /\ named > 0
    /\ named' = named - 1
    /\ semAt' = "run"
    /\ UNCHANGED <<running, waits, posts, stale, runs>>

\* p() at the limit of cnt, and out of the loop.
CountDown ==
    /\ running = "posix_sem" /\ semAt = "run"
    /\ waits = Slots
    /\ named' = named + 1
    /\ posts' = 1
    /\ semAt' = "close"
    /\ UNCHANGED <<running, waits, stale, runs>>

\* A round of pthreadV().
ThreadWaits ==
    /\ running = "thread" /\ semAt = "run"
    /\ waits < Rounds
    /\ named > 0
    /\ waits' = waits + 1
    /\ named' = named - 1
    /\ UNCHANGED <<running, semAt, posts, stale, runs>>

\* Seeded fault: pthreadP() is a round short.
M_ThreadPosts ==
    /\ running = "thread" /\ semAt = "run"
    /\ posts < Rounds - 1
    /\ posts' = posts + 1
    /\ named' = named + 1
    /\ UNCHANGED <<running, semAt, waits, stale, runs>>

\* A round of pthreadP().
ThreadPosts ==
    /\ running = "thread" /\ semAt = "run"
    /\ posts < Rounds
    /\ posts' = posts + 1
    /\ named' = named + 1
    /\ UNCHANGED <<running, semAt, waits, stale, runs>>

\* pthread_join() of both.
JoinBoth ==
    /\ running = "thread" /\ semAt = "run"
    /\ waits = Rounds /\ posts = Rounds
    /\ semAt' = "close"
    /\ UNCHANGED <<named, running, waits, posts, stale, runs>>

\* Seeded fault: the name is not unlinked.
M_CloseRun ==
    /\ semAt = "close"
    /\ running' = "none"
    /\ semAt' = "end"
    /\ UNCHANGED <<named, waits, posts, stale, runs>>

\* sem_close(), a sem_destroy() without effect, sem_unlink().
CloseRun ==
    /\ semAt = "close"
    /\ running' = "none"
    /\ named' = NoName
    /\ stale' = FALSE
    /\ semAt' = "end"
    /\ UNCHANGED <<waits, posts, runs>>

\* A signal ends the program before sem_unlink().
KillRun ==
    /\ running # "none"
    /\ running' = "none"
    /\ stale' = TRUE
    /\ semAt' = "end"
    /\ UNCHANGED <<named, waits, posts, runs>>

SemaphoreStep ==
    \/ CountUp \/ SemWait \/ CountDown
    \/ ThreadWaits \/ ThreadPosts \/ JoinBoth \/ CloseRun
SemaphoreNext == SemaphoreStep \/ OpenPosixSem \/ OpenThread \/ KillRun

-----------------------------------------------------------------------------
\* posix_sem.c waits in vain only behind a program that was killed: eight
\* waits fit the value it gives a new semaphore, and every program that ends
\* takes the name away (posix_sem.c:24-44).  In thread.c the thread that
\* waits has, behind whatever program, the other still to post.
WaitsOnlyAfterKill ==
    /\ running = "posix_sem" /\ semAt = "wait" /\ named = 0 => stale
    /\ running = "thread" /\ waits < Rounds /\ named = 0 => posts < Rounds

\* thread.c ends whatever value it found: ten posts feed ten waits.
ThreadEnds == running = "thread" ~> running = "none"
=============================================================================
