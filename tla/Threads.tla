------------------------------ MODULE Threads ------------------------------
(***************************************************************************)
(* `0616/thread_mutex.c` and `0616/thread_no_mutex.c`: one thread adds one *)
(* to g_var, another takes one away, each with a printf() before and after *)
(* and the first program with a mutex around it all.  g_var++ is a load    *)
(* and a store.  `locks` tells the programs apart; every pthread_create()  *)
(* succeeds.                                                               *)
(***************************************************************************)
EXTENDS Integers

VARIABLES
    locks,      \* TRUE: thread_mutex.c, FALSE: thread_no_mutex.c
    gvar,       \* g_var
    mid,        \* the mutex: "free", its holder, or "gone"
    thrAt,      \* where each thread is
    loaded,     \* what g_var++ or g_var-- has read
    thrMain     \* where main() is

threadVars == <<locks, gvar, mid, thrAt, loaded, thrMain>>

Workers == {"inc", "dec"}
Change(t) == IF t = "inc" THEN 1 ELSE -1

ThreadsInit ==
    /\ locks = TRUE
    /\ gvar = 1
    /\ mid = "free"
    /\ thrAt = [t \in Workers |-> "none"]
    /\ loaded = [t \in Workers |-> 0]
    /\ thrMain = "start"

MainGoes(from, to) == thrMain = from /\ thrMain' = to
ThreadGoes(t, from, to) ==
    thrAt[t] = from /\ thrAt' = [thrAt EXCEPT ![t] = to]

\* One of the programs is run.
StartThreads ==
    /\ MainGoes("start", "inc")
    /\ locks' \in BOOLEAN
    /\ UNCHANGED <<gvar, mid, thrAt, loaded>>

\* pthread_create() for the thread that adds, then for the other.
CreateThread(t) ==
    /\ MainGoes(t, IF t = "inc" THEN "dec" ELSE "join inc")
    /\ ThreadGoes(t, "none", "lock")
    /\ UNCHANGED <<locks, gvar, mid, loaded>>

\* pthread_join() of the one, then of the other.
JoinThread(t) ==
    /\ thrAt[t] = "end"
    /\ IF t = "inc" THEN MainGoes("join inc", "join dec")
                    ELSE MainGoes("join dec", "destroy")
    /\ UNCHANGED <<locks, gvar, mid, thrAt, loaded>>

DestroyMutex ==
    /\ MainGoes("destroy", "end")
    /\ mid' = IF locks THEN "gone" ELSE mid
    /\ UNCHANGED <<locks, gvar, thrAt, loaded>>

\* Seeded fault: the thread that takes away forgets the lock.
M_LockMutex(t) ==
    /\ ThreadGoes(t, "lock", "load")
    /\ IF locks /\ t = "inc" THEN mid = "free" /\ mid' = t ELSE UNCHANGED mid
    /\ UNCHANGED <<locks, gvar, loaded, thrMain>>

\* pthread_mutex_lock().
LockMutex(t) ==
    /\ ThreadGoes(t, "lock", "load")
    /\ IF locks THEN mid = "free" /\ mid' = t ELSE UNCHANGED mid
    /\ UNCHANGED <<locks, gvar, loaded, thrMain>>

\* g_var++ or g_var--, first half.
LoadCount(t) ==
    /\ ThreadGoes(t, "load", "store")
    /\ loaded' = [loaded EXCEPT ![t] = gvar]
    /\ UNCHANGED <<locks, gvar, mid, thrMain>>

\* The second half.
StoreCount(t) ==
    /\ ThreadGoes(t, "store", "unlock")
    /\ gvar' = loaded[t] + Change(t)
    /\ UNCHANGED <<locks, mid, loaded, thrMain>>

\* pthread_mutex_unlock() and the end of the thread.
UnlockMutex(t) ==
    /\ ThreadGoes(t, "unlock", "end")
    /\ mid' = IF locks THEN "free" ELSE mid
    /\ UNCHANGED <<locks, gvar, loaded, thrMain>>

ThreadsNext ==
    \/ StartThreads \/ DestroyMutex
    \/ \E t \in Workers :
          \/ CreateThread(t) \/ JoinThread(t)
          \/ LockMutex(t) \/ LoadCount(t) \/ StoreCount(t) \/ UnlockMutex(t)

-----------------------------------------------------------------------------
\* With the mutex no change of g_var is lost: once both threads are through
\* it is 1 again (thread_mutex.c:25-31, 37-43).
CountKept == locks /\ (\A t \in Workers : thrAt[t] = "end") => gvar = 1
=============================================================================
