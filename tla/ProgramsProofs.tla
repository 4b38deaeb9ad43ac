--------------------------- MODULE ProgramsProofs ---------------------------
(***************************************************************************)
(* Theorems about the smaller programs.  Whichever of them is started, a   *)
(* step either is one of its own or leaves its state alone, so that each   *)
(* has an inductive invariant of its own.                                  *)
(***************************************************************************)
EXTENDS Programs, SequenceTheorems, FiniteSetTheorems, TLAPS

\* A step of the whole is a step of one program; the others stay.
LEMMA OneProgramRuns ==
  ASSUME [ProgramsNext]_allVars
  PROVE  /\ [ClientNext]_clientVars
         /\ [ThreadsNext]_threadVars
         /\ [SemaphoreNext]_semaphoreVars
         /\ [MemoryNext]_memoryVars
         /\ [WebNext]_webVars
         /\ [ViewNext]_viewVars
  BY DEF ProgramsNext, RunClient, RunThreads, RunSemaphore, RunMemory, RunWeb,
         RunViewer, Runs1, allVars

-----------------------------------------------------------------------------
(* Threads: two threads and a counter.                                     *)

Places == {"none", "lock", "load", "store", "unlock", "end"}

\* How far a thread has changed g_var.
Done(t) == IF thrAt[t] \in {"unlock", "end"} THEN 1 ELSE 0

ThreadsType ==
    /\ gvar \in Int
    /\ thrAt \in [Workers -> Places]
    /\ loaded \in [Workers -> Int]
    /\ thrMain \in {"start", "inc", "dec", "join inc", "join dec", "destroy", "end"}

\* main() is no further than the threads allow.
MainFollows ==
    /\ thrMain = "start" => gvar = 1 /\ \A t \in Workers : thrAt[t] = "none"
    /\ thrMain \in {"join dec", "destroy", "end"} => thrAt["inc"] = "end"
    /\ thrMain \in {"destroy", "end"} => thrAt["dec"] = "end"

\* A thread between lock and unlock holds the mutex, and what it has read is
\* still what the counter is.
HolderAlone ==
    locks => \A t \in Workers :
        /\ thrAt[t] \in {"load", "store", "unlock"} => mid = t
        /\ thrAt[t] = "store" => loaded[t] = gvar

CountIsDone == locks => gvar = 1 + Done("inc") - Done("dec")

ThreadsInv == ThreadsType /\ MainFollows /\ HolderAlone /\ CountIsDone

LEMMA ThreadsStep ==
  ASSUME ThreadsInv, [ThreadsNext]_threadVars
  PROVE  ThreadsInv'
<1> USE DEF ThreadsInv, Workers
<1>1. CASE StartThreads
  BY <1>1 DEF StartThreads, MainGoes, ThreadsType, MainFollows, HolderAlone,
              CountIsDone, Done
<1>2. CASE DestroyMutex
  BY <1>2 DEF DestroyMutex, MainGoes, ThreadsType, MainFollows, HolderAlone,
              CountIsDone, Done
<1>3. ASSUME NEW t \in Workers, CreateThread(t)
      PROVE  ThreadsInv'
  BY <1>3 DEF CreateThread, MainGoes, ThreadGoes, ThreadsType, MainFollows,
              HolderAlone, CountIsDone, Done, Places
<1>4. ASSUME NEW t \in Workers, JoinThread(t)
      PROVE  ThreadsInv'
  BY <1>4 DEF JoinThread, MainGoes, ThreadsType, MainFollows, HolderAlone,
              CountIsDone, Done
<1>5. ASSUME NEW t \in Workers, LockMutex(t)
      PROVE  ThreadsInv'
  BY <1>5 DEF LockMutex, ThreadGoes, ThreadsType, MainFollows, HolderAlone,
              CountIsDone, Done, Places
<1>6. ASSUME NEW t \in Workers, LoadCount(t)
      PROVE  ThreadsInv'
  BY <1>6 DEF LoadCount, ThreadGoes, ThreadsType, MainFollows, HolderAlone,
              CountIsDone, Done, Places
<1>7. ASSUME NEW t \in Workers, StoreCount(t)
      PROVE  ThreadsInv'
  <2>1. /\ thrAt[t] = "store" /\ thrAt' = [thrAt EXCEPT ![t] = "unlock"]
        /\ gvar' = loaded[t] + Change(t)
        /\ UNCHANGED <<locks, mid, loaded, thrMain>>
    BY <1>7 DEF StoreCount, ThreadGoes
  <2>2. ThreadsType'
    <3>1. loaded[t] \in Int
      BY <1>7 DEF ThreadsType
    <3>2. Change(t) \in Int
      BY DEF Change
    <3>3. gvar' \in Int
      BY <2>1, <3>1, <3>2
    <3>4. thrAt' \in [Workers -> Places]
      BY <2>1 DEF ThreadsType, Places
    <3>5. QED
      BY <2>1, <3>3, <3>4 DEF ThreadsType
  <2>3. MainFollows' /\ HolderAlone'
    BY <1>7, <2>1 DEF ThreadsType, MainFollows, HolderAlone, Places
  <2>4. CountIsDone'
    <3> SUFFICES ASSUME locks
                 PROVE  gvar' = 1 + Done("inc")' - Done("dec")'
      BY <2>1 DEF CountIsDone
    <3>1. /\ gvar = 1 + Done("inc") - Done("dec")
          /\ gvar' = gvar + Change(t)
      BY <1>7, <2>1 DEF HolderAlone, CountIsDone
    <3>2. Done("inc") \in Int /\ Done("dec") \in Int
      BY DEF Done
    <3>3. CASE t = "inc"
      <4>1. Done("inc") = 0 /\ Done("inc")' = 1 /\ Done("dec")' = Done("dec")
        BY <2>1, <3>3 DEF Done, ThreadsType
      <4>2. gvar' = gvar + 1
        BY <3>1, <3>3 DEF Change
      <4>3. QED
        BY <3>1, <3>2, <4>1, <4>2
    <3>4. CASE t = "dec"
      <4>1. Done("dec") = 0 /\ Done("dec")' = 1 /\ Done("inc")' = Done("inc")
        BY <2>1, <3>4 DEF Done, ThreadsType
      <4>2. gvar' = gvar - 1
        BY <3>1, <3>2, <3>4 DEF Change
      <4>3. QED
        BY <3>1, <3>2, <4>1, <4>2
    <3>5. QED
      BY <1>7, <3>3, <3>4
  <2>5. QED
    BY <2>2, <2>3, <2>4
<1>8. ASSUME NEW t \in Workers, UnlockMutex(t)
      PROVE  ThreadsInv'
  BY <1>8 DEF UnlockMutex, ThreadGoes, ThreadsType, MainFollows, HolderAlone,
              CountIsDone, Done, Places
<1>9. CASE UNCHANGED threadVars
  BY <1>9 DEF threadVars, ThreadsType, MainFollows, HolderAlone, CountIsDone, Done
<1>10. QED
  BY <1>1, <1>2, <1>3, <1>4, <1>5, <1>6, <1>7, <1>8, <1>9 DEF ThreadsNext

\* With the mutex no change of the counter is lost (thread_mutex.c).
THEOREM CountCorrect == ProgramsSpec => []CountKept
<1>1. ProgramsInit => ThreadsInv
  BY DEF ProgramsInit, ThreadsInit, ThreadsInv, ThreadsType, MainFollows,
         HolderAlone, CountIsDone, Done, Workers, Places
<1>2. ThreadsInv /\ [ProgramsNext]_allVars => ThreadsInv'
  BY OneProgramRuns, ThreadsStep
<1>3. ThreadsInv => CountKept
  BY DEF ThreadsInv, CountIsDone, Done, CountKept, Workers
<1>4. QED
  BY <1>1, <1>2, <1>3, PTL DEF ProgramsSpec

-----------------------------------------------------------------------------
(* NamedSemaphore: a name that outlives its programs.                      *)

\* Unless a killed program left it behind, the semaphore exists while its
\* program runs, and posix_sem.c finds in it the eight it put there.
SemaphoreInv ==
    /\ waits \in Nat /\ posts \in Nat
    /\ named \in Int
    /\ running # "none" => semAt \in {"run", "wait", "close"}
    /\ ~stale /\ running = "none" => named = NoName /\ semAt # "close"
    /\ running = "none" => semAt = "end"
    /\ ~stale /\ running = "posix_sem" =>
          /\ semAt = "run" => named = Slots - waits
          /\ semAt = "wait" => named = Slots - waits + 1 /\ waits <= Slots
    /\ posts <= Rounds /\ (running = "thread" => waits <= Rounds)
    /\ named = NoName \/ named >= 0
    /\ running # "none" => named >= 0
    /\ running = "thread" => named >= posts - waits

LEMMA SemaphoreKeeps ==
  ASSUME SemaphoreInv, [SemaphoreNext]_semaphoreVars
  PROVE  SemaphoreInv'
<1> USE DEF SemaphoreInv, Slots, Rounds, NoName
<1>1. CASE OpenPosixSem \/ OpenThread
  BY <1>1 DEF OpenPosixSem, OpenThread, StartRun, Opened
<1>2. CASE CountUp \/ SemWait \/ CountDown
  BY <1>2 DEF CountUp, SemWait, CountDown
<1>3. CASE ThreadWaits \/ ThreadPosts \/ JoinBoth
  BY <1>3 DEF ThreadWaits, ThreadPosts, JoinBoth
<1>4. CASE CloseRun \/ KillRun
  BY <1>4 DEF CloseRun, KillRun
<1>5. CASE UNCHANGED semaphoreVars
  BY <1>5 DEF semaphoreVars
<1>6. QED
  BY <1>1, <1>2, <1>3, <1>4, <1>5 DEF SemaphoreNext, SemaphoreStep

\* posix_sem.c is stuck only behind a program that was killed, and thread.c
\* never, however often and in whatever order the programs are run.
THEOREM WaitsCorrect == ProgramsSpec => []WaitsOnlyAfterKill
<1>1. ProgramsInit => SemaphoreInv
  BY DEF ProgramsInit, SemaphoreInit, SemaphoreInv, NoName, Rounds
<1>2. SemaphoreInv /\ [ProgramsNext]_allVars => SemaphoreInv'
  BY OneProgramRuns, SemaphoreKeeps
<1>3. SemaphoreInv => WaitsOnlyAfterKill
  BY DEF SemaphoreInv, WaitsOnlyAfterKill, Slots, Rounds
<1>4. QED
  BY <1>1, <1>2, <1>3, PTL DEF ProgramsSpec

-----------------------------------------------------------------------------
(* SharedMemory: parent and child.                                         *)

MemoryType ==
    /\ semVal \in Int /\ cVal \in Int
    /\ raised \in 0..Loops /\ lowered \in 0..Loops
    /\ parentAt \in {"start", "fork", "attach", "failed", "v", "wait", "remove", "end"}
    /\ childAt \in {"none", "attach", "failed", "add", "p", "remove", "end"}

\* Who is where when, and that the semaphore is there until the child goes.
SetLasts ==
    /\ parentAt = "start" => childAt = "none" /\ semVal = 0
    /\ parentAt = "fork" => childAt = "none" /\ semSet /\ semVal = 0
    /\ childAt = "none" => raised = 0 /\ lowered = 0
                           /\ parentAt \in {"start", "fork", "remove", "end"}
    /\ childAt \in {"attach", "add", "p", "remove"} =>
          semSet /\ parentAt \in {"attach", "v", "wait", "failed"}
    /\ childAt = "failed" /\ parentAt \in {"attach", "v"} => semSet
    /\ childAt = "end" => parentAt \notin {"attach", "v"}

\* The value of the semaphore is what the parent is ahead.
Ahead ==
    /\ parentAt \in {"attach", "failed"} => raised = 0
    /\ parentAt = "v" => raised < Loops
    /\ parentAt = "wait" => raised = Loops
    /\ lowered <= raised
    /\ semSet /\ parentAt # "start" => semVal = raised - lowered

ChildCounts ==
    /\ childAt \in {"none", "attach", "failed"} => cVal <= 0 /\ lowered = 0
    /\ childAt = "add" => cVal = lowered + 1 /\ lowered < Loops
    /\ childAt = "p" => cVal = lowered + 2 /\ lowered < Loops
    /\ childAt \in {"remove", "end"} => cVal = lowered + 1 /\ lowered = Loops

MemoryInv == MemoryType /\ SetLasts /\ Ahead /\ ChildCounts

LEMMA MemoryKeeps ==
  ASSUME MemoryInv, [MemoryNext]_memoryVars
  PROVE  MemoryInv'
<1> USE DEF MemoryInv, MemoryType, SetLasts, Ahead, ChildCounts, Loops
<1>1. CASE SetUp
  BY <1>1 DEF SetUp
<1>2. CASE ForkChild
  BY <1>2 DEF ForkChild
<1>3. CASE ParentAttaches \/ ChildAttaches
  <2>1. CASE ParentAttaches
    <3>1. /\ parentAt = "attach" /\ parentAt' \in {"v", "failed"}
          /\ UNCHANGED <<semSet, semVal, cVal, childAt, raised, lowered>>
      BY <2>1, Zenon DEF ParentAttaches
    <3>2. QED
      BY <3>1
  <2>2. CASE ChildAttaches
    BY <2>2 DEF ChildAttaches
  <2>3. QED
    BY <1>3, <2>1, <2>2
<1>4. CASE ParentRaises
  BY <1>4 DEF ParentRaises
<1>5. CASE ChildAdds \/ ChildLowers
  BY <1>5 DEF ChildAdds, ChildLowers
<1>6. CASE ParentWaits
  BY <1>6 DEF ParentWaits
<1>7. CASE ChildRemoves \/ ParentRemoves
  <2>1. CASE ChildRemoves
    BY <2>1 DEF ChildRemoves
  <2>2. CASE ParentRemoves
    BY <2>2 DEF ParentRemoves
  <2>3. QED
    BY <1>7, <2>1, <2>2
<1>8. CASE UNCHANGED memoryVars
  BY <1>8 DEF memoryVars
<1>9. QED
  BY <1>1, <1>2, <1>3, <1>4, <1>5, <1>6, <1>7, <1>8 DEF MemoryNext

LEMMA MemoryInductive == ProgramsSpec => []MemoryInv
<1>1. ProgramsInit => MemoryInv
  <2>1. ProgramsInit => MemoryInit
    BY DEF ProgramsInit
  <2>2. MemoryInit => MemoryInv
   <3>1. MemoryInit => MemoryType
    BY DEF MemoryInit, MemoryType, Loops
   <3>2. MemoryInit => SetLasts
    BY DEF MemoryInit, SetLasts, Loops
   <3>3. MemoryInit => Ahead
    BY DEF MemoryInit, Ahead, Loops
   <3>4. MemoryInit => ChildCounts
    BY DEF MemoryInit, ChildCounts, Loops
   <3> QED BY <3>1, <3>2, <3>3, <3>4 DEF MemoryInv
  <2>3. QED
    BY <2>1, <2>2
<1>2. MemoryInv /\ [ProgramsNext]_allVars => MemoryInv'
  BY OneProgramRuns, MemoryKeeps
<1>3. QED
  BY <1>1, <1>2, PTL DEF ProgramsSpec

\* Neither process of shm_sem.c works on a semaphore the other has removed.
THEOREM SetCorrect == ProgramsSpec => []SetOutlivesUse
<1>1. MemoryInv => SetOutlivesUse
  BY DEF MemoryInv, MemoryType, SetLasts, SetOutlivesUse
<1>2. QED
  BY <1>1, MemoryInductive, PTL

\* The child adds no more than the parent has allowed, and one, and the two
\* never wait for each other (shm_sem.c:78-84, 102-111).
THEOREM BehindCorrect == ProgramsSpec => []ChildKeepsBehind
<1>1. MemoryInv => ChildKeepsBehind
  BY DEF MemoryInv, MemoryType, Ahead, ChildCounts, ChildKeepsBehind, Loops
<1>2. QED
  BY <1>1, MemoryInductive, PTL

-----------------------------------------------------------------------------
(* ChatClient: the lines of the keyboard.                                  *)

Numbers(n) == [k \in 1..n |-> k]
Kept == At({"wait"}) \/ (sent \o taken) \o pipe = Numbers(written)

ClientType ==
    /\ written \in Nat /\ line \in Nat
    /\ mainAt \in MainPlaces
    /\ sent \in Seq(Nat) /\ taken \in Seq(Nat) /\ pipe \in Seq(Nat)

\* Nothing is written before the second process has started, and a handler
\* that runs was installed.
Started ==
    /\ mainAt \in {"connect", "fork"} => typistAt = "none"
    /\ mainAt = "connect" => sent = <<>> /\ taken = <<>> /\ pipe = <<>>
    /\ typistAt \in {"none", "start"} => written = 0
    /\ mainAt \in {"handler", "send"} =>
          resume \in {"chld", "shut", "test", "read", "leave", "wait"}
    /\ mainAt # "send" => taken = <<>>

ClientInv == ClientType /\ Started /\ (MainLives /\ server => Kept)

LEMMA ConcatBytes ==
  ASSUME NEW s \in Seq(Nat), NEW t \in Seq(Nat), NEW u \in Seq(Nat)
  PROVE  (s \o t) \o u = s \o (t \o u)
  BY ConcatAssociative

LEMMA NextNumbers ==
  ASSUME NEW m \in Nat, NEW n \in Nat
  PROVE  /\ [k \in 1..n |-> m + k] \in Seq(Nat)
         /\ Numbers(m) \o [k \in 1..n |-> m + k] = Numbers(m + n)
<1> DEFINE next == [k \in 1..n |-> m + k]
           first == Numbers(m)
           both == Numbers(m + n)
<1>1. first \in Seq(Nat) /\ Len(first) = m /\ \A i \in 1..m : first[i] = i
  BY DEF Numbers
<1>2. both \in Seq(Nat) /\ Len(both) = m + n /\ \A i \in 1..(m + n) : both[i] = i
  BY DEF Numbers
<1>3. next \in Seq(Nat) /\ Len(next) = n /\ \A i \in 1..n : next[i] = m + i
  OBVIOUS
<1> HIDE DEF next, first, both
<1>4. /\ first \o next \in Seq(Nat)
      /\ Len(first \o next) = Len(first) + Len(next)
      /\ \A i \in 1..(Len(first) + Len(next)) : (first \o next)[i] =
             IF i <= Len(first) THEN first[i] ELSE next[i - Len(first)]
  BY <1>1, <1>3, ConcatProperties
<1>5. ASSUME NEW i \in 1..(m + n)
      PROVE  (first \o next)[i] = both[i]
  <2>1. (first \o next)[i] = IF i <= m THEN first[i] ELSE next[i - m]
    BY <1>3, <1>4, <1>1
  <2>2. CASE i <= m
    BY <1>1, <1>2, <2>1, <2>2
  <2>3. CASE ~(i <= m)
    <3>1. i - m \in 1..n
      BY <2>3
    <3>2. next[i - m] = i
      BY <1>3, <3>1
    <3>3. QED
      BY <1>2, <2>1, <2>3, <3>2
  <2>4. QED
    BY <2>2, <2>3
<1>6. first \o next = both
  <2>1. Len(first \o next) = Len(both) /\ Len(both) = m + n
    BY <1>3, <1>4, <1>1, <1>2
  <2>2. QED
    BY <1>4, <1>5, <1>2, <2>1, SeqEqual
<1>7. QED
  BY <1>3, <1>6 DEF next, first, both

\* What a read() takes and what it leaves are the pipe as it was.
LEMMA ReadSplits ==
  ASSUME pipe \in Seq(Nat), HandlerRead
  PROVE  taken' \in Seq(Nat) /\ pipe' \in Seq(Nat) /\ taken' \o pipe' = pipe
<1> DEFINE n == Least(BufSize, Len(pipe))
<1>1. n \in 0..Len(pipe)
  BY ClientAssumption DEF Least
<1>2. taken' = SubSeq(pipe, 1, n) /\ pipe' = SubSeq(pipe, n + 1, Len(pipe))
  BY DEF HandlerRead
<1> HIDE DEF n
<1>3. SubSeq(pipe, 1, n) \o SubSeq(pipe, n + 1, Len(pipe)) = SubSeq(pipe, 1, Len(pipe))
  <2>1. 1 \in 1..(Len(pipe) + 1) /\ n \in (1 - 1)..Len(pipe) /\ Len(pipe) \in n..Len(pipe)
    BY <1>1
  <2>2. QED
    BY <2>1, ConcatAdjacentSubSeq
<1>4. SubSeq(pipe, 1, n) \in Seq(Nat) /\ SubSeq(pipe, n + 1, Len(pipe)) \in Seq(Nat)
  <2>1. \A i \in 1..Len(pipe) : pipe[i] \in Nat
    OBVIOUS
  <2>2. \A i \in 1..n : pipe[i] \in Nat
    BY <1>1, <2>1
  <2>3. \A i \in (n + 1)..Len(pipe) : pipe[i] \in Nat
    BY <1>1, <2>1
  <2>4. QED
    BY <1>1, <2>2, <2>3, SubSeqProperties
<1>5. QED
  BY <1>2, <1>3, <1>4, SubSeqFull

\* Steps that leave the lines where they are.
LEMMA LinesStay ==
  ASSUME ClientInv, UNCHANGED <<sent, taken, pipe>>, UNCHANGED written,
         MainLives' /\ server' => MainLives /\ server,
         At({"wait"}) => At({"wait"})'
  PROVE  MainLives' /\ server' => Kept'
  BY DEF ClientInv, Kept

LEMMA ClientKeeps ==
  ASSUME ClientInv, [ClientNext]_clientVars
  PROVE  ClientInv'
<1> USE DEF ClientInv, MainPlaces
<1>1. CASE Connect
  <2>1. ClientType' /\ Started'
    BY <1>1 DEF Connect, typistVars, ClientType, Started
  <2>2. sent' = <<>> /\ taken' = <<>> /\ pipe' = <<>> /\ written' = 0
    BY <1>1 DEF Connect, typistVars, Started
  <2>3. Numbers(0) = <<>>
    BY DEF Numbers
  <2>4. (sent' \o taken') \o pipe' = <<>>
    BY <2>2
  <2>5. QED
    BY <2>1, <2>2, <2>3, <2>4 DEF Kept
<1>2. CASE Fork
  <2>1. ClientType' /\ Started'
    BY <1>2 DEF Fork, netVars, ClientType, Started
  <2>2. UNCHANGED <<sent, taken, pipe>> /\ UNCHANGED written
        /\ (MainLives' /\ server' => MainLives /\ server)
        /\ (At({"wait"}) => At({"wait"})')
    BY <1>2 DEF Fork, netVars, MainLives, At, Started
  <2>3. QED
    BY <2>1, <2>2, LinesStay
<1>3. CASE Prepare \/ TestShows
  <2>1. ClientType' /\ Started'
    BY <1>3 DEF Prepare, TestShows, netVars, typistVars, ClientType, Started
  <2>2. UNCHANGED <<sent, taken, pipe>> /\ UNCHANGED written
        /\ (MainLives' /\ server' => MainLives /\ server)
        /\ (At({"wait"}) => At({"wait"})')
    BY <1>3 DEF Prepare, TestShows, netVars, typistVars, MainLives, At
  <2>3. QED
    BY <2>1, <2>2, LinesStay
<1>4. CASE Show \/ Wait
  <2>1. ClientType' /\ Started'
    BY <1>4 DEF Show, Wait, netVars, typistVars, ClientType, Started
  <2>2. UNCHANGED <<sent, taken, pipe>> /\ UNCHANGED written
        /\ (MainLives' /\ server' => MainLives /\ server)
        /\ (MainLives' => (At({"wait"}) => At({"wait"})'))
    BY <1>4 DEF Show, Wait, netVars, typistVars, MainLives, At
  <2>3. QED
    BY <2>1, <2>2 DEF Kept
<1>5. CASE Leave
  <2>1. ClientType' /\ Started'
    BY <1>5 DEF Leave, netVars, ClientType, Started
  <2>2. At({"wait"})'
    BY <1>5 DEF Leave, At
  <2>3. QED
    BY <2>1, <2>2 DEF Kept
<1>6. CASE Deliver
  <2>1. CASE Installed
    <3>1. ClientType' /\ Started'
      BY <1>6, <2>1 DEF Deliver, Installed, netVars, typistVars, ClientType, Started
    <3>2. QED
      BY <1>6, <2>1, <3>1 DEF Deliver, Installed, netVars, typistVars,
         MainLives, At, Kept
  <2>2. CASE ~Installed
    <3>1. mainAt' = "end" /\ pipe' = <<>> /\ UNCHANGED <<taken, typistVars, netVars>>
          /\ mainAt # "send"
      BY <1>6, <2>2 DEF Deliver
    <3>2. QED
      BY <3>1 DEF ClientType, Started, MainLives, netVars, typistVars
  <2>3. QED
    BY <2>1, <2>2
<1>7. CASE HandlerRead
  <2>1. taken = <<>> /\ mainAt = "handler" /\ mainAt' = "send"
        /\ UNCHANGED <<resume, typistVars, netVars>>
    BY <1>7 DEF HandlerRead, Started
  <2>2. taken' \in Seq(Nat) /\ pipe' \in Seq(Nat) /\ taken' \o pipe' = pipe
    BY <1>7, ReadSplits DEF ClientType
  <2>3. ClientType' /\ Started'
    BY <2>1, <2>2 DEF ClientType, Started, typistVars, netVars
  <2>4. (sent' \o taken') \o pipe' = (sent \o taken) \o pipe
    <3>1. sent \o taken = sent
      BY <2>1, ConcatEmptySeq DEF ClientType
    <3>2. (sent \o taken') \o pipe' = sent \o (taken' \o pipe')
      <4>1. sent \in Seq(Nat)
        BY DEF ClientType
      <4>2. QED
        BY <2>2, <4>1, ConcatBytes
    <3>3. QED
      BY <2>1, <2>2, <3>1, <3>2 DEF netVars
  <2>5. QED
    BY <2>1, <2>3, <2>4 DEF Kept, At, MainLives, netVars, typistVars
<1>8. CASE HandlerSend
  <2>1. taken' = <<>> /\ sent' = sent \o taken
        /\ mainAt = "send" /\ mainAt' = resume
        /\ UNCHANGED <<resume, typistVars, pipe, server>>
    BY <1>8 DEF HandlerSend
  <2>2. ClientType' /\ Started'
    BY <2>1, ConcatProperties, EmptySeq DEF ClientType, Started, typistVars
  <2>3. (sent' \o taken') \o pipe' = (sent \o taken) \o pipe
    BY <2>1, ConcatEmptySeq, ConcatProperties DEF ClientType
  <2>4. QED
    BY <2>1, <2>2, <2>3 DEF Kept, At, MainLives, typistVars, Started
<1>9. CASE HandlerSendFails
  <2>1. taken' = <<>> /\ mainAt = "send" /\ mainAt' \in {resume, "end"}
        /\ pipe' \in {pipe, <<>>} /\ ~server'
        /\ UNCHANGED <<resume, typistVars, sent>>
    BY <1>9 DEF HandlerSendFails, netVars
  <2>2. ClientType' /\ Started'
    BY <2>1, EmptySeq DEF ClientType, Started, typistVars
  <2>3. QED
    BY <2>1, <2>2
<1>10. CASE TypistPrepares \/ TypistSignals \/ TypistGoesOn
  <2>1. ClientType' /\ Started'
    BY <1>10 DEF TypistPrepares, TypistSignals, TypistGoesOn, netVars, mainVars,
       ClientType, Started
  <2>2. UNCHANGED <<sent, taken, pipe>> /\ UNCHANGED written
        /\ (MainLives' /\ server' => MainLives /\ server)
        /\ (At({"wait"}) => At({"wait"})')
    BY <1>10 DEF TypistPrepares, TypistSignals, TypistGoesOn, netVars, mainVars,
       MainLives, At
  <2>3. QED
    BY <2>1, <2>2, LinesStay
<1>11. CASE Type
  <2>1. ClientType' /\ Started'
    BY <1>11 DEF Type, netVars, mainVars, ClientType, Started
  <2>2. UNCHANGED <<sent, taken, pipe>> /\ UNCHANGED written
        /\ (MainLives' /\ server' => MainLives /\ server)
        /\ (At({"wait"}) => At({"wait"})')
    BY <1>11 DEF Type, netVars, mainVars, ClientType, MainLives, At
  <2>3. QED
    BY <2>1, <2>2, LinesStay
<1>12. CASE TypistWrite
  <2>1. PICK n \in 1..Least(line, PipeBytes - Len(pipe)) :
            /\ pipe' = pipe \o [k \in 1..n |-> written + k]
            /\ written' = written + n
            /\ line' = line - n
    BY <1>12 DEF TypistWrite
  <2>2. n \in Nat /\ line' \in Nat /\ written' \in Nat
    BY <2>1, ClientAssumption DEF ClientType, Least
  <2>3. typistAt = "write" /\ typistAt' \in {"write", "kill"}
        /\ UNCHANGED <<mainVars, netVars>>
    BY <1>12 DEF TypistWrite
  <2>4. /\ [k \in 1..n |-> written + k] \in Seq(Nat)
        /\ Numbers(written) \o [k \in 1..n |-> written + k] = Numbers(written')
    BY <2>1, <2>2, NextNumbers DEF ClientType
  <2>5. pipe' \in Seq(Nat)
    BY <2>1, <2>4, ConcatProperties DEF ClientType
  <2>6. ClientType' /\ Started'
    BY <2>2, <2>3, <2>5 DEF ClientType, Started, mainVars, netVars
  <2>7. (sent' \o taken') \o pipe' =
            ((sent \o taken) \o pipe) \o [k \in 1..n |-> written + k]
    <3>1. sent \o taken \in Seq(Nat)
      BY ConcatProperties DEF ClientType
    <3> DEFINE next == [k \in 1..n |-> written + k]
    <3>2. next \in Seq(Nat) /\ pipe \in Seq(Nat)
      BY <2>4 DEF ClientType
    <3>3. pipe' = pipe \o next /\ UNCHANGED <<sent, taken>>
      BY <2>1, <2>3 DEF mainVars, netVars
    <3> HIDE DEF next
    <3>4. (sent \o taken) \o (pipe \o next) = ((sent \o taken) \o pipe) \o next
      BY <3>1, <3>2, ConcatBytes
    <3>5. QED
      BY <3>3, <3>4 DEF next
  <2>8. QED
    BY <2>3, <2>4, <2>6, <2>7 DEF Kept, At, MainLives, mainVars, netVars
<1>13. CASE TypistBroken
  <2>1. typistAt = "write" /\ ~HasReader /\ typistAt' = "end"
        /\ UNCHANGED <<mainAt, resume, taken, line, written, pipe, netVars>>
    BY <1>13 DEF TypistBroken, TypistEnds
  <2>2. ClientType' /\ Started'
    BY <2>1 DEF ClientType, Started, netVars
  <2>3. QED
    BY <2>1, <2>2 DEF HasReader, Kept, At, MainLives, netVars
<1>14. CASE TypistStops
  <2>1. typistAt = "test" /\ typistAt' = "end"
        /\ UNCHANGED <<mainAt, resume, taken, line, written, pipe, netVars>>
    BY <1>14 DEF TypistStops, TypistEnds
  <2>2. ClientType' /\ Started'
    BY <2>1 DEF ClientType, Started, netVars
  <2>3. QED
    BY <2>1, <2>2 DEF Kept, At, MainLives, netVars
<1>15. CASE ServerSays \/ ServerLeaves
  <2>1. UNCHANGED <<mainVars, typistVars, pipe, sent>> /\ (server' => server)
    BY <1>15 DEF ServerSays, ServerLeaves
  <2>2. QED
    BY <2>1 DEF ClientType, Started, Kept, At, MainLives, mainVars,
       typistVars
<1>16. CASE UNCHANGED clientVars
  BY <1>16 DEF clientVars, mainVars, typistVars, netVars, ClientType, Started,
     Kept, At, MainLives
<1>17. QED
  BY <1>1, <1>2, <1>3, <1>4, <1>5, <1>6, <1>7, <1>8, <1>9, <1>10, <1>11, <1>12,
     <1>13, <1>14, <1>15, <1>16
  DEF ClientNext, MainStep, TypistStep

\* Nothing is in a pipe nobody writes yet or nobody reads any more, and what
\* is in it is announced but for the rest of a full read().
PipeInv ==
    /\ ~HasReader \/ typistAt \in {"none", "start"} => pipe = <<>>
    /\ LineIsAnnounced

LEMMA PipeKeeps ==
  ASSUME ClientInv, PipeInv, [ClientNext]_clientVars
  PROVE  PipeInv'
<1> USE DEF PipeInv, LineIsAnnounced, HasReader, At, MainLives
<1>1. CASE Connect \/ Fork
  BY <1>1 DEF Connect, Fork, ClientInv, Started, typistVars, netVars
<1>2. CASE Prepare \/ TestShows \/ Show \/ Wait
  BY <1>2 DEF Prepare, TestShows, Show, Wait, typistVars, netVars
<1>3. CASE Leave
  BY <1>3 DEF Leave
<1>4. CASE Deliver
  <2>1. CASE Installed
    BY <1>4, <2>1 DEF Deliver, typistVars
  <2>2. CASE ~Installed
    BY <1>4, <2>2 DEF Deliver
  <2>3. QED
    BY <2>1, <2>2
<1>5. CASE HandlerRead
  <2>1. pipe \in Seq(Nat)
    BY DEF ClientInv, ClientType
  <2>2. taken' \in Seq(Nat) /\ pipe' \in Seq(Nat) /\ taken' \o pipe' = pipe
    BY <1>5, <2>1, ReadSplits
  <2>3. pipe = <<>> => pipe' = <<>>
    <3>1. Len(pipe) = Len(taken') + Len(pipe') /\ Len(taken') \in Nat
      BY <2>2, ConcatProperties
    <3>2. QED
      BY <2>2, <3>1, EmptySeq
  <2>4. /\ mainAt = "handler" /\ mainAt' = "send" /\ rest' = (pipe' # <<>>)
        /\ UNCHANGED <<resume, typistAt>>
    BY <1>5 DEF HandlerRead, typistVars
  <2>5. QED
    BY <2>3, <2>4
<1>6. CASE HandlerSend \/ HandlerSendFails
  BY <1>6 DEF HandlerSend, HandlerSendFails, typistVars, ClientInv, Started
<1>7. CASE TypistPrepares \/ TypistGoesOn \/ Type
  BY <1>7 DEF TypistPrepares, TypistGoesOn, Type, mainVars
<1>8. CASE TypistWrite
  BY <1>8 DEF TypistWrite, mainVars
<1>9. CASE TypistSignals
  BY <1>9 DEF TypistSignals, mainVars
<1>10. CASE TypistBroken \/ TypistStops
  BY <1>10 DEF TypistBroken, TypistStops, TypistEnds
<1>11. CASE ServerSays \/ ServerLeaves
  BY <1>11 DEF ServerSays, ServerLeaves, mainVars, typistVars
<1>12. CASE UNCHANGED clientVars
  BY <1>12 DEF clientVars, mainVars, typistVars
<1>13. QED
  BY <1>1, <1>2, <1>3, <1>4, <1>5, <1>6, <1>7, <1>8, <1>9, <1>10, <1>11, <1>12
  DEF ClientNext, MainStep, TypistStep

\* No byte is lost, doubled or overtaken between keyboard and server, and none
\* left in the pipe with no signal behind it but by a read() that filled its
\* buffer, for lines of any length up to the buffer's and any number of them
\* (client_server.c:40-41, 84-85).
THEOREM LinesCorrect == ProgramsSpec => []LinesKept
<1>1. ProgramsInit => ClientInv /\ PipeInv
  <2>1. ProgramsInit => ClientInit
    BY DEF ProgramsInit
  <2>2. ClientInit => ClientInv
    BY EmptySeq DEF ClientInit, ClientInv, ClientType, Started, MainPlaces
  <2>3. ClientInit => PipeInv
    BY DEF ClientInit, PipeInv, LineIsAnnounced
  <2>4. QED
    BY <2>1, <2>2, <2>3
<1>2. ClientInv /\ PipeInv /\ [ProgramsNext]_allVars => ClientInv' /\ PipeInv'
  <2>1. ClientInv /\ [ProgramsNext]_allVars => ClientInv'
    BY OneProgramRuns, ClientKeeps
  <2>2. ClientInv /\ PipeInv /\ [ProgramsNext]_allVars => PipeInv'
    BY OneProgramRuns, PipeKeeps
  <2>3. QED
    BY <2>1, <2>2
<1>3. ClientInv /\ PipeInv => LinesKept
  BY DEF ClientInv, PipeInv, Kept, LinesKept, Numbers
<1>4. QED
  BY <1>1, <1>2, <1>3, PTL DEF ProgramsSpec

-----------------------------------------------------------------------------
(* WebServer: one thread at a time.                                        *)

Active == {"start", "line", "headers", "answer"}

WebType ==
    /\ accepted \in Nat
    /\ webAt \in {"accept", "create", "join"}
    /\ backlog \in Seq(Browsers)
    /\ workAt \in [Runs -> Active \cup {"none", "end"}]
    /\ method \in [Runs -> Methods \cup {"none"}]
    /\ asks \in [Browsers -> Methods \cup {"none"}]
    /\ DOMAIN conn = Runs
    /\ DOMAIN answers = Browsers

\* Connections that wait are different clients, not yet answered.
BacklogFresh ==
    /\ \A i, j \in 1..Len(backlog) : backlog[i] = backlog[j] => i = j
    /\ \A i \in 1..Len(backlog) :
          asks[backlog[i]] # "none" /\ answers[backlog[i]] = <<>>
    /\ \A b \in Browsers : asks[b] = "none" => answers[b] = <<>>

\* The thread that runs is the one main() joins, and serves csock.
OneAtATime ==
    /\ webAt # "accept" =>
          /\ accepted > 0
          /\ csock \in Browsers /\ asks[csock] # "none"
          /\ \A i \in 1..Len(backlog) : backlog[i] # csock
    /\ webAt = "create" => answers[csock] = <<>>
    /\ \A n \in Runs :
          /\ workAt[n] \in Active => webAt = "join" /\ n = accepted
          /\ n > accepted \/ (n = accepted /\ webAt = "create") => workAt[n] = "none"

Served ==
    \A n \in Runs :
        /\ workAt[n] \in Active => answers[csock] = <<>>
        /\ workAt[n] \in Active \ {"start"} => conn[n] = csock
        /\ workAt[n] \in {"headers", "answer"} =>
              method[n] \in Methods /\ (csock \notin gone => method[n] = asks[csock])

OwnAnswers ==
    \A b \in Browsers :
        /\ answers[b] = <<>> \/ \E m \in Methods : answers[b] = <<m>>
        /\ b \notin gone /\ answers[b] # <<>> => answers[b] = <<asks[b]>>

WebInv == WebType /\ BacklogFresh /\ OneAtATime /\ Served /\ OwnAnswers

LEMMA VisitKeeps ==
  ASSUME WebInv, NEW b \in Browsers, Visit(b)
  PROVE  WebInv'
<1>1. PICK m \in Methods : asks' = [asks EXCEPT ![b] = m]
  BY DEF Visit
<1>2. /\ asks[b] = "none" /\ backlog' = Append(backlog, b)
      /\ UNCHANGED <<webAt, csock, accepted, workAt, conn, method, gone, answers>>
  BY DEF Visit
<1>3. WebType'
  BY <1>1, <1>2, AppendProperties DEF WebInv, WebType
<1>4. Len(backlog') = Len(backlog) + 1 /\ backlog'[Len(backlog) + 1] = b
      /\ \A i \in 1..Len(backlog) : backlog'[i] = backlog[i]
  BY <1>2, AppendProperties DEF WebInv, WebType
<1>5. m # "none"
  BY DEF Methods
<1>6. \A i \in 1..Len(backlog) : backlog[i] # b /\ backlog[i] \in Browsers
  BY <1>2, ElementOfSeq DEF WebInv, WebType, BacklogFresh
<1>7. Len(backlog) \in Nat
  BY LenProperties DEF WebInv, WebType
<1>8. BacklogFresh'
  BY <1>1, <1>2, <1>4, <1>5, <1>6, <1>7 DEF WebInv, WebType, BacklogFresh
<1>9. OneAtATime'
  BY <1>1, <1>2, <1>4, <1>5, <1>6, <1>7 DEF WebInv, WebType, OneAtATime
<1>10. Served'
  <2>1. \A n \in Runs : workAt[n] \in Active => csock # b /\ csock \in Browsers
    BY <1>2 DEF WebInv, OneAtATime
  <2>2. QED
    BY <1>1, <1>2, <2>1 DEF WebInv, WebType, Served, Active
<1>11. OwnAnswers'
  BY <1>1, <1>2 DEF WebInv, WebType, BacklogFresh, OwnAnswers
<1>12. QED
  BY <1>3, <1>8, <1>9, <1>10, <1>11 DEF WebInv

LEMMA ClientActs ==
  ASSUME WebInv, NEW b \in Browsers, Send(b) \/ HangUp(b) \/ StopReading(b)
  PROVE  WebInv'
<1>1. UNCHANGED <<webAt, csock, backlog, accepted, workAt, conn, method, asks,
                  answers>> /\ gone \subseteq gone'
  BY DEF Send, HangUp, StopReading
<1>2. WebType' /\ BacklogFresh' /\ OneAtATime'
  BY <1>1 DEF WebInv, WebType, BacklogFresh, OneAtATime
<1>3. Served' /\ OwnAnswers'
  BY <1>1 DEF WebInv, Served, OwnAnswers
<1>4. QED
  BY <1>2, <1>3 DEF WebInv

LEMMA AcceptKeeps ==
  ASSUME WebInv, AcceptVisit
  PROVE  WebInv'
<1>1. /\ webAt = "accept" /\ backlog # <<>>
      /\ csock' = Head(backlog) /\ backlog' = Tail(backlog)
      /\ accepted' = accepted + 1 /\ webAt' = "create"
      /\ UNCHANGED <<workAt, conn, method, asks, gone, answers>>
  BY DEF AcceptVisit
<1>2. backlog \in Seq(Browsers) /\ Len(backlog) \in Nat /\ Len(backlog) > 0
  BY <1>1, EmptySeq, LenProperties DEF WebInv, WebType
<1>3. /\ csock' = backlog[1] /\ csock' \in Browsers
      /\ backlog' \in Seq(Browsers) /\ Len(backlog') = Len(backlog) - 1
      /\ \A i \in 1..Len(backlog') : backlog'[i] = backlog[i + 1]
  BY <1>1, <1>2, HeadTailProperties
<1>4. \A i \in 1..Len(backlog') : i + 1 \in 1..Len(backlog) /\ i + 1 # 1
  BY <1>2, <1>3
<1>5. 1 \in 1..Len(backlog)
  BY <1>2
<1>6. \A n \in Runs : workAt[n] \notin Active
  BY <1>1 DEF WebInv, OneAtATime
<1>7. WebType'
  BY <1>1, <1>3 DEF WebInv, WebType
<1>8. BacklogFresh'
  <2>1. \A i, j \in 1..Len(backlog') : backlog'[i] = backlog'[j] => i = j
    BY <1>3, <1>4 DEF WebInv, BacklogFresh
  <2>2. QED
    BY <1>1, <1>3, <1>4, <2>1 DEF WebInv, BacklogFresh
<1>9. OneAtATime'
  <2>1. accepted' > 0 /\ asks'[csock'] # "none" /\ answers'[csock'] = <<>>
    BY <1>1, <1>3, <1>5 DEF WebInv, WebType, BacklogFresh
  <2>2. \A i \in 1..Len(backlog') : backlog'[i] # csock'
    BY <1>3, <1>4, <1>5 DEF WebInv, BacklogFresh
  <2>3. \A n \in Runs : n > accepted' \/ n = accepted' => n > accepted
    BY <1>1 DEF WebInv, WebType, Runs
  <2>4. \A n \in Runs :
          n > accepted' \/ (n = accepted' /\ webAt' = "create") => workAt'[n] = "none"
    BY <1>1, <2>3 DEF WebInv, OneAtATime
  <2>5. QED
    BY <1>1, <1>3, <1>6, <2>1, <2>2, <2>4 DEF OneAtATime
<1>10. Served'
  BY <1>1, <1>6 DEF Served, Active
<1>11. OwnAnswers'
  BY <1>1 DEF WebInv, OwnAnswers
<1>12. QED
  BY <1>7, <1>8, <1>9, <1>10, <1>11 DEF WebInv

LEMMA MainKeeps ==
  ASSUME WebInv, CreateWorker \/ JoinWorker
  PROVE  WebInv'
<1>1. CASE CreateWorker
  <2>1. /\ webAt = "create" /\ webAt' = "join"
        /\ workAt' = [workAt EXCEPT ![accepted] = "start"]
        /\ UNCHANGED <<csock, backlog, accepted, conn, method, asks, gone, answers>>
    BY <1>1 DEF CreateWorker
  <2>2. \A n \in Runs : workAt[n] \notin Active
    BY <2>1 DEF WebInv, OneAtATime
  <2>3. \A n \in Runs : workAt'[n] = IF n = accepted THEN "start" ELSE workAt[n]
    BY <2>1 DEF WebInv, WebType
  <2>4. WebType' /\ BacklogFresh'
    BY <2>1 DEF WebInv, WebType, BacklogFresh, Active
  <2>5. OneAtATime'
    BY <2>1, <2>2, <2>3 DEF WebInv, WebType, OneAtATime, Active, Runs
  <2>6. Served' /\ OwnAnswers'
    BY <2>1, <2>2, <2>3 DEF WebInv, OneAtATime, Served, OwnAnswers, Active
  <2>7. QED
    BY <2>4, <2>5, <2>6 DEF WebInv
<1>2. CASE JoinWorker
  <2>1. /\ webAt = "join" /\ webAt' = "accept" /\ workAt[accepted] = "end"
        /\ UNCHANGED <<csock, backlog, accepted, workAt, conn, method, asks,
                       gone, answers>>
    BY <1>2 DEF JoinWorker
  <2>2. \A n \in Runs : workAt[n] \notin Active
    BY <2>1 DEF WebInv, OneAtATime, Active
  <2>3. WebType' /\ BacklogFresh' /\ Served' /\ OwnAnswers'
    BY <2>1, <2>2 DEF WebInv, WebType, BacklogFresh, Served, OwnAnswers
  <2>4. OneAtATime'
    BY <2>1, <2>2 DEF WebInv, OneAtATime
  <2>5. QED
    BY <2>3, <2>4 DEF WebInv
<1>3. QED
  BY <1>1, <1>2

\* A step of a thread: it is the one that runs, and only it changes.
LEMMA WorkerRuns ==
  ASSUME WebInv, NEW n \in Runs, workAt[n] \in Active
  PROVE  /\ webAt = "join" /\ n = accepted /\ accepted \in Runs
         /\ csock \in Browsers /\ asks[csock] \in Methods
         /\ answers[csock] = <<>>
         /\ \A k \in Runs : k # n => workAt[k] \notin Active
         /\ \A i \in 1..Len(backlog) : backlog[i] # csock
<1>1. webAt = "join" /\ n = accepted
  BY DEF WebInv, OneAtATime
<1>2. csock \in Browsers /\ asks[csock] # "none"
      /\ \A i \in 1..Len(backlog) : backlog[i] # csock
  BY <1>1 DEF WebInv, OneAtATime
<1>3. \A k \in Runs : k # n => workAt[k] \notin Active
  BY <1>1 DEF WebInv, OneAtATime
<1>4. QED
  BY <1>1, <1>2, <1>3 DEF WebInv, WebType, Served

\* Reading csock, the request line or the headers.
LEMMA ReadingKeeps ==
  ASSUME WebInv, NEW n \in Runs, StartWorker(n) \/ ReadRequest(n) \/ ReadHeaders(n)
  PROVE  WebInv'
<1>1. PICK to \in {"line", "headers", "answer"} :
        workAt' = [workAt EXCEPT ![n] = to]
  BY DEF StartWorker, ReadRequest, ReadHeaders, NextOf
<1>2. workAt[n] \in {"start", "line", "headers"}
  BY DEF StartWorker, ReadRequest, ReadHeaders
<1>3. UNCHANGED <<webAt, csock, backlog, accepted, asks, gone, answers>>
  BY DEF StartWorker, ReadRequest, ReadHeaders
<1>4. workAt[n] \in Active
  BY <1>2 DEF Active
<1>5. \A k \in Runs : workAt'[k] = IF k = n THEN to ELSE workAt[k]
  BY <1>1 DEF WebInv, WebType
<1>6. \A k \in Runs : k # n => workAt'[k] \notin Active
  BY <1>4, <1>5, WorkerRuns
<1>7. workAt'[n] = to /\ to \in Active
  BY <1>5 DEF Active
<1>8. BacklogFresh' /\ OwnAnswers'
  BY <1>3 DEF WebInv, BacklogFresh, OwnAnswers
<1>9. OneAtATime'
  BY <1>3, <1>4, <1>5, <1>6, <1>7, WorkerRuns DEF WebInv, OneAtATime, Active
<1>10. CASE StartWorker(n)
  <2>1. conn' = [conn EXCEPT ![n] = csock] /\ UNCHANGED method /\ to = "line"
    BY <1>7, <1>10, <1>5 DEF StartWorker, WebInv, WebType
  <2>2. WebType'
    BY <1>1, <1>3, <1>7, <2>1 DEF WebInv, WebType
  <2>3. Served'
    BY <1>3, <1>4, <1>6, <1>7, <2>1, WorkerRuns DEF WebInv, WebType, Served, Active
  <2>4. QED
    BY <1>8, <1>9, <2>2, <2>3 DEF WebInv
<1>11. CASE ReadRequest(n)
  <2>1. conn[n] = csock
    BY <1>11 DEF ReadRequest, WebInv, Served, Active
  <2>2. PICK m \in Methods :
          /\ IF lines[conn[n]] > 0 THEN m = asks[conn[n]] ELSE conn[n] \in gone
          /\ method' = [method EXCEPT ![n] = m]
    BY <1>11 DEF ReadRequest
  <2>3. csock \notin gone => m = asks[csock]
    BY <2>1, <2>2
  <2>4. UNCHANGED conn
    BY <1>11 DEF ReadRequest
  <2>5. WebType'
    BY <1>1, <1>3, <1>7, <2>2, <2>4 DEF WebInv, WebType
  <2>6. method'[n] = m
    BY <2>2 DEF WebInv, WebType
  <2>7. Served'
    BY <1>3, <1>4, <1>6, <1>7, <2>1, <2>3, <2>4, <2>6, WorkerRuns DEF Served, Active
  <2>8. QED
    BY <1>8, <1>9, <2>5, <2>7 DEF WebInv
<1>12. CASE ReadHeaders(n)
  <2>1. UNCHANGED <<conn, method>> /\ workAt[n] = "headers"
    BY <1>12 DEF ReadHeaders
  <2>2. WebType'
    BY <1>1, <1>3, <1>7, <2>1 DEF WebInv, WebType
  <2>3. /\ conn[n] = csock /\ method[n] \in Methods
        /\ csock \notin gone => method[n] = asks[csock]
    BY <2>1 DEF WebInv, Served, Active
  <2>4. Served'
    BY <1>3, <1>4, <1>6, <1>7, <2>1, <2>3, WorkerRuns DEF Served, Active
  <2>5. QED
    BY <1>8, <1>9, <2>2, <2>4 DEF WebInv
<1>13. QED
  BY <1>10, <1>11, <1>12

LEMMA AnswerKeeps ==
  ASSUME WebInv, NEW n \in Runs, Answer(n)
  PROVE  WebInv'
<1>1. /\ workAt[n] = "answer" /\ workAt' = [workAt EXCEPT ![n] = "end"]
      /\ answers' = [answers EXCEPT ![conn[n]] = Append(@, method[n])]
      /\ UNCHANGED <<webAt, csock, backlog, accepted, conn, method, asks, gone>>
  BY DEF Answer
<1>2. workAt[n] \in Active
  BY <1>1 DEF Active
<1>3. /\ conn[n] = csock /\ method[n] \in Methods
      /\ csock \notin gone => method[n] = asks[csock]
  BY <1>1 DEF WebInv, Served, Active
<1>4. answers' = [answers EXCEPT ![csock] = <<method[n]>>]
  <2>1. answers[csock] = <<>>
    BY <1>2, WorkerRuns
  <2>2. Append(<<>>, method[n]) = <<method[n]>>
    BY <1>3, EmptySeq, AppendIsConcat
  <2>3. answers' = [answers EXCEPT ![csock] = Append(answers[csock], method[n])]
    BY <1>1, <1>3
  <2>4. QED
    BY <2>1, <2>2, <2>3
<1>5. \A k \in Runs : workAt'[k] = IF k = n THEN "end" ELSE workAt[k]
  BY <1>1 DEF WebInv, WebType
<1>6. \A k \in Runs : workAt'[k] \notin Active
  BY <1>2, <1>5, WorkerRuns DEF Active
<1>7. \A b \in Browsers : answers'[b] = IF b = csock THEN <<method[n]>> ELSE answers[b]
  BY <1>4 DEF WebInv, WebType
<1>8. WebType'
  BY <1>1, <1>4 DEF WebInv, WebType
<1>9. BacklogFresh'
  <2>1. \A i \in 1..Len(backlog) : backlog[i] \in Browsers /\ backlog[i] # csock
    BY <1>2, WorkerRuns, ElementOfSeq DEF WebInv, WebType
  <2>2. asks[csock] # "none"
    BY <1>2, WorkerRuns DEF Methods
  <2>3. QED
    BY <1>1, <1>7, <2>1, <2>2 DEF WebInv, BacklogFresh
<1>10. OneAtATime'
  BY <1>1, <1>2, <1>5, <1>6, WorkerRuns DEF WebInv, OneAtATime
<1>11. Served'
  BY <1>6 DEF Served, Active
<1>12. OwnAnswers'
  BY <1>1, <1>3, <1>7 DEF WebInv, OwnAnswers
<1>13. QED
  BY <1>8, <1>9, <1>10, <1>11, <1>12 DEF WebInv

LEMMA WebKeeps ==
  ASSUME WebInv, [WebNext]_webVars
  PROVE  WebInv'
<1>1. CASE UNCHANGED webVars
  BY <1>1 DEF webVars, WebInv, WebType, BacklogFresh, OneAtATime, Served, OwnAnswers
<1>2. CASE WebNext
  BY <1>2, VisitKeeps, ClientActs, AcceptKeeps, MainKeeps, ReadingKeeps, AnswerKeeps
  DEF WebNext, WebStep, Work
<1>3. QED
  BY <1>1, <1>2

\* Every client that has come was accepted or waits for it: there are never
\* more threads than clients.
Visitors == {b \in Browsers : asks[b] # "none"}
VisitsCounted == accepted + Len(backlog) = Cardinality(Visitors)

NobodyLost == \A b \in Browsers : asks[b] # "none" /\ answers[b] = <<>> => InHand(b)

LEMMA VisitorsFinite ==
  /\ Cardinality(Visitors) \in Nat
  /\ Cardinality(Visitors) <= Cardinality(Browsers)
BY BrowsersAssumption, FS_Subset, FS_CardinalityType DEF Visitors

\* Whatever the threads do changes no count.
LEMMA CountStays ==
  ASSUME VisitsCounted, UNCHANGED <<accepted, backlog, asks>>
  PROVE  VisitsCounted'
BY DEF VisitsCounted, Visitors

LEMMA VisitLosesNobody ==
  ASSUME WebInv, VisitsCounted, NobodyLost, NEW b \in Browsers, Visit(b)
  PROVE  VisitsCounted' /\ NobodyLost'
<1>1. PICK m \in Methods : asks' = [asks EXCEPT ![b] = m]
  BY DEF Visit
<1>2. /\ asks[b] = "none" /\ backlog' = Append(backlog, b) /\ m # "none"
      /\ UNCHANGED <<webAt, csock, accepted, workAt, conn, answers>>
  BY DEF Visit, Methods
<1>3. /\ Len(backlog) \in Nat /\ Len(backlog') = Len(backlog) + 1
      /\ backlog'[Len(backlog) + 1] = b
      /\ \A i \in 1..Len(backlog) : backlog'[i] = backlog[i]
  BY <1>2, AppendProperties, LenProperties DEF WebInv, WebType
<1>4. VisitsCounted'
  <2>1. b \notin Visitors /\ Visitors' = Visitors \cup {b}
    BY <1>1, <1>2 DEF WebInv, WebType, Visitors
  <2>2. IsFiniteSet(Visitors)
    BY BrowsersAssumption, FS_Subset DEF Visitors
  <2>3. Cardinality(Visitors') = Cardinality(Visitors) + 1
    BY <2>1, <2>2, FS_AddElement
  <2>4. QED
    BY <1>2, <1>3, <2>3, VisitorsFinite DEF VisitsCounted, WebInv, WebType
<1>5. ASSUME NEW c \in Browsers, asks'[c] # "none", answers'[c] = <<>>
      PROVE  InHand(c)'
  <2>1. CASE c = b
    <3>1. Len(backlog) + 1 \in 1..Len(backlog')
      BY <1>3
    <3>2. QED
      BY <1>3, <2>1, <3>1 DEF InHand
  <2>2. CASE c # b
    <3>1. asks[c] # "none" /\ answers[c] = <<>>
      BY <1>1, <1>2, <1>5, <2>2 DEF WebInv, WebType
    <3>2. InHand(c)
      BY <3>1 DEF NobodyLost
    <3>3. \A i \in 1..Len(backlog) : i \in 1..Len(backlog')
      BY <1>3
    <3>4. QED
      BY <1>2, <1>3, <3>2, <3>3 DEF InHand
  <2>3. QED
    BY <2>1, <2>2
<1>6. QED
  BY <1>4, <1>5 DEF NobodyLost

LEMMA AcceptLosesNobody ==
  ASSUME WebInv, VisitsCounted, NobodyLost, AcceptVisit
  PROVE  VisitsCounted' /\ NobodyLost'
<1>1. /\ webAt = "accept" /\ backlog # <<>>
      /\ csock' = Head(backlog) /\ backlog' = Tail(backlog)
      /\ accepted' = accepted + 1 /\ webAt' = "create"
      /\ UNCHANGED <<workAt, conn, asks, answers>>
  BY DEF AcceptVisit
<1>2. backlog \in Seq(Browsers) /\ Len(backlog) \in Nat /\ Len(backlog) > 0
  BY <1>1, EmptySeq, LenProperties DEF WebInv, WebType
<1>3. /\ csock' = backlog[1] /\ Len(backlog') = Len(backlog) - 1
      /\ \A i \in 1..Len(backlog') : backlog'[i] = backlog[i + 1]
  BY <1>1, <1>2, HeadTailProperties
<1>4. VisitsCounted'
  BY <1>1, <1>2, <1>3, VisitorsFinite DEF VisitsCounted, Visitors, WebInv, WebType
<1>5. ASSUME NEW c \in Browsers, asks'[c] # "none", answers'[c] = <<>>
      PROVE  InHand(c)'
  <2>1. \A n \in Runs : workAt[n] \notin Active
    BY <1>1 DEF WebInv, OneAtATime
  <2>2. PICK k \in 1..Len(backlog) : backlog[k] = c
    BY <1>1, <1>5, <2>1 DEF NobodyLost, InHand, Active
  <2>3. CASE k = 1
    BY <1>1, <1>3, <2>2, <2>3 DEF InHand
  <2>4. CASE k # 1
    <3>1. k - 1 \in 1..Len(backlog') /\ (k - 1) + 1 = k
      BY <1>2, <1>3, <2>4
    <3>2. backlog'[k - 1] = c
      BY <1>3, <2>2, <3>1
    <3>3. QED
      BY <3>1, <3>2 DEF InHand
  <2>5. QED
    BY <2>3, <2>4
<1>6. QED
  BY <1>4, <1>5 DEF NobodyLost

LEMMA MainLosesNobody ==
  ASSUME WebInv, VisitsCounted, NobodyLost, CreateWorker \/ JoinWorker
  PROVE  VisitsCounted' /\ NobodyLost'
<1>1. UNCHANGED <<csock, backlog, accepted, conn, asks, answers>>
  BY DEF CreateWorker, JoinWorker
<1>2. VisitsCounted'
  BY <1>1, CountStays
<1>3. CASE CreateWorker
  <2>1. /\ webAt = "create" /\ workAt' = [workAt EXCEPT ![accepted] = "start"]
    BY <1>3 DEF CreateWorker
  <2>2. accepted \in Runs
    <3>1. accepted \in Nat /\ accepted > 0 /\ Len(backlog) \in Nat
      BY <2>1, LenProperties DEF WebInv, WebType, OneAtATime
    <3>2. Cardinality(Browsers) \in Nat
      BY BrowsersAssumption, FS_CardinalityType
    <3>3. QED
      BY <3>1, <3>2, VisitorsFinite DEF VisitsCounted, Runs
  <2>3. \A n \in Runs : workAt[n] \notin Active
    BY <2>1 DEF WebInv, OneAtATime
  <2>4. workAt'[accepted] = "start"
    BY <2>1, <2>2 DEF WebInv, WebType
  <2>5. ASSUME NEW c \in Browsers, asks'[c] # "none", answers'[c] = <<>>
        PROVE  InHand(c)'
    <3>1. (\E k \in 1..Len(backlog) : backlog[k] = c) \/ csock = c
      BY <1>1, <2>3, <2>5 DEF NobodyLost, InHand, Active
    <3>2. QED
      BY <1>1, <2>2, <2>4, <3>1 DEF InHand
  <2>6. QED
    BY <1>2, <2>5 DEF NobodyLost
<1>4. CASE JoinWorker
  <2>1. webAt = "join" /\ UNCHANGED workAt
    BY <1>4 DEF JoinWorker
  <2>2. \A c : InHand(c) => InHand(c)'
    BY <1>1, <2>1 DEF InHand
  <2>3. QED
    BY <1>1, <1>2, <2>2 DEF NobodyLost
<1>5. QED
  BY <1>3, <1>4

LEMMA WorkerLosesNobody ==
  ASSUME WebInv, VisitsCounted, NobodyLost, NEW n \in Runs,
         StartWorker(n) \/ ReadRequest(n) \/ ReadHeaders(n) \/ Answer(n)
  PROVE  VisitsCounted' /\ NobodyLost'
<1>1. /\ UNCHANGED <<webAt, csock, backlog, accepted, asks>>
      /\ workAt[n] \in Active
  BY DEF StartWorker, ReadRequest, ReadHeaders, Answer, Active
<1>2. VisitsCounted'
  BY <1>1, CountStays
<1>3. webAt = "join" /\ \A k \in Runs : k # n => workAt[k] \notin Active
  BY <1>1, WorkerRuns
<1>4. ASSUME NEW c \in Browsers, asks'[c] # "none", answers'[c] = <<>>, answers[c] = <<>>
      PROVE  \/ \E k \in 1..Len(backlog) : backlog[k] = c
             \/ workAt[n] = "start" /\ csock = c
             \/ workAt[n] \in {"line", "headers", "answer"} /\ conn[n] = c
  BY <1>1, <1>3, <1>4 DEF NobodyLost, InHand, Active
<1>5. CASE StartWorker(n)
  <2>1. workAt[n] = "start" /\ workAt'[n] = "line" /\ conn'[n] = csock
        /\ UNCHANGED answers
    BY <1>5 DEF StartWorker, WebInv, WebType
  <2>2. QED
    BY <1>1, <1>2, <1>4, <2>1 DEF NobodyLost, InHand
<1>6. CASE ReadRequest(n) \/ ReadHeaders(n)
  <2>1. workAt[n] # "start" /\ workAt'[n] \in {"line", "headers", "answer"}
        /\ UNCHANGED <<conn, answers>>
    BY <1>6 DEF ReadRequest, ReadHeaders, NextOf, WebInv, WebType
  <2>2. QED
    BY <1>1, <1>2, <1>4, <2>1 DEF NobodyLost, InHand
<1>7. CASE Answer(n)
  <2>1. /\ workAt[n] = "answer" /\ UNCHANGED conn
        /\ answers' = [answers EXCEPT ![conn[n]] = Append(@, method[n])]
    BY <1>7 DEF Answer
  <2>2. conn[n] = csock /\ csock \in Browsers /\ answers[csock] = <<>>
    BY <1>1, <2>1, WorkerRuns DEF WebInv, Served, Active
  <2>3. Append(<<>>, method[n]) # <<>>
    OBVIOUS
  <2>4. answers'[csock] # <<>> /\ \A c \in Browsers : c # csock => answers'[c] = answers[c]
    BY <2>1, <2>2, <2>3 DEF WebInv, WebType
  <2>5. ASSUME NEW c \in Browsers, asks'[c] # "none", answers'[c] = <<>>
        PROVE  InHand(c)'
    <3>1. c # csock /\ answers[c] = <<>>
      BY <2>4, <2>5
    <3>2. \E k \in 1..Len(backlog) : backlog[k] = c
      BY <1>4, <2>1, <2>2, <2>5, <3>1
    <3>3. QED
      BY <1>1, <3>2 DEF InHand
  <2>6. QED
    BY <1>2, <2>5 DEF NobodyLost
<1>8. QED
  BY <1>5, <1>6, <1>7

LEMMA WebLosesNobody ==
  ASSUME WebInv, VisitsCounted, NobodyLost, [WebNext]_webVars
  PROVE  VisitsCounted' /\ NobodyLost'
<1>1. ASSUME NEW b \in Browsers, Send(b) \/ HangUp(b) \/ StopReading(b)
      PROVE  VisitsCounted' /\ NobodyLost'
  BY <1>1, CountStays DEF Send, HangUp, StopReading, NobodyLost, InHand
<1>2. CASE UNCHANGED webVars
  BY <1>2, CountStays DEF webVars, NobodyLost, InHand
<1>3. CASE WebNext
  BY <1>1, <1>3, VisitLosesNobody, AcceptLosesNobody, MainLosesNobody, WorkerLosesNobody
  DEF WebNext, WebStep, Work
<1>4. QED
  BY <1>2, <1>3

\* Every client that stays gets the answer to its own request and no second
\* one, and until then somebody has it in hand, for any number of clients
\* (webserver.c:56-64).
THEOREM AnswersCorrect == ProgramsSpec => []AnswersOwnClient
<1> DEFINE Inv == WebInv /\ VisitsCounted /\ NobodyLost
<1>1. ProgramsInit => Inv
  <2>1. ProgramsInit => WebInit
    BY DEF ProgramsInit
  <2>2. WebInit => WebInv
    BY EmptySeq DEF WebInit, WebInv, WebType, BacklogFresh, OneAtATime, Served,
       OwnAnswers, Active
  <2>3. WebInit => VisitsCounted
    <3>1. WebInit => Visitors = {} /\ accepted = 0 /\ Len(backlog) = 0
      BY EmptySeq DEF WebInit, Visitors
    <3>2. QED
      BY <3>1, FS_EmptySet DEF VisitsCounted
  <2>4. WebInit => NobodyLost
    BY DEF WebInit, NobodyLost
  <2>5. QED
    BY <2>1, <2>2, <2>3, <2>4
<1>2. Inv /\ [ProgramsNext]_allVars => Inv'
  <2>1. WebInv /\ [ProgramsNext]_allVars => WebInv'
    BY OneProgramRuns, WebKeeps
  <2>2. Inv /\ [ProgramsNext]_allVars => VisitsCounted' /\ NobodyLost'
    BY OneProgramRuns, WebLosesNobody
  <2>3. QED
    BY <2>1, <2>2
<1>3. Inv => AnswersOwnClient
  <2>1. Len(<<>>) <= 1 /\ \A m \in Methods : Len(<<m>>) <= 1
    OBVIOUS
  <2>2. QED
    BY <2>1 DEF WebInv, OwnAnswers, NobodyLost, AnswersOwnClient
<1>4. QED
  BY <1>1, <1>2, <1>3, PTL DEF ProgramsSpec

-----------------------------------------------------------------------------
(* BmpViewer: who frees pData.                                             *)

\* Wherever main() may free pData it is a buffer still allocated, or NULL.
ViewInv ==
    /\ ~badFree
    /\ viewAt \in {"map", "file", "header", "data"} => pData = "first"
    /\ viewAt \in {"read", "convert", "copy"} => pData = "data"
    /\ viewAt \in {"map", "file", "header", "data", "read", "convert", "copy", "unwind"} =>
          pData \in held \cup {"null"}

LEMMA ViewKeeps ==
  ASSUME ViewInv, [ViewNext]_viewVars
  PROVE  ViewInv'
<1> USE DEF ViewInv
<1>1. CASE OpenScreen
  BY <1>1 DEF OpenScreen, Acquire
<1>2. CASE QueryScreen
  BY <1>2 DEF QueryScreen
<1>3. CASE AllocPixels
  BY <1>3 DEF AllocPixels, Acquire
<1>4. CASE AllocFirst
  BY <1>4 DEF AllocFirst, Acquire
<1>5. CASE MapScreen
  BY <1>5 DEF MapScreen, Acquire
<1>6. CASE OpenBmp
  BY <1>6 DEF OpenBmp
<1>7. CASE ReadHeader
  BY <1>7 DEF ReadHeader, Release
<1>8. CASE AllocData
  BY <1>8 DEF AllocData, Release
<1>9. CASE ReadData
  BY <1>9 DEF ReadData, Release
<1>10. CASE Convert
  BY <1>10 DEF Convert
<1>11. CASE CopyAndEnd
  BY <1>11 DEF CopyAndEnd, Release, FreeData
<1>12. CASE Unwind
  BY <1>12 DEF Unwind, Release, FreeData
<1>13. CASE UNCHANGED viewVars
  BY <1>13 DEF viewVars
<1>14. QED
  BY <1>1, <1>2, <1>3, <1>4, <1>5, <1>6, <1>7, <1>8, <1>9, <1>10, <1>11, <1>12,
     <1>13
  DEF ViewNext

\* Whichever call of the viewer fails, pData is not freed twice
\* (bmpHeader.c:128-129, bmpViewer.c:120-128).
THEOREM FreeCorrect == ProgramsSpec => []NoDoubleFree
<1>1. ProgramsInit => ViewInv
  BY DEF ProgramsInit, ViewInit, ViewInv
<1>2. ViewInv /\ [ProgramsNext]_allVars => ViewInv'
  BY OneProgramRuns, ViewKeeps
<1>3. ViewInv => NoDoubleFree
  BY DEF ViewInv, NoDoubleFree
<1>4. QED
  BY <1>1, <1>2, <1>3, PTL DEF ProgramsSpec

-----------------------------------------------------------------------------
(* BmpViewer: where its indices point.                                     *)

LEMMA ProductGrows ==
  ASSUME NEW a \in Nat, NEW b \in Nat, NEW c \in Nat, a <= b
  PROVE  a * c \in Nat /\ a * c <= b * c
<1>1. PICK d \in Nat : b = a + d
  <2>1. b - a \in Nat /\ b = a + (b - a)
    OBVIOUS
  <2>2. QED
    BY <2>1
<1>2. d * c \in Nat /\ a * c \in Nat /\ (a + d) * c = a * c + d * c
  OBVIOUS
<1>3. QED
  BY <1>1, <1>2

\* An index into rows of length w stays within h rows.
LEMMA IndexInRows ==
  ASSUME NEW w \in Nat, NEW h \in Nat, NEW y \in Nat, NEW x \in Nat,
         y < h, x < w
  PROVE  y * w + x \in Nat /\ y * w + x < h * w
<1>1. (y + 1) * w <= h * w /\ y * w \in Nat
  BY ProductGrows
<1>2. (y + 1) * w = y * w + w
  OBVIOUS
<1>3. h * w \in Nat
  OBVIOUS
<1>4. QED
  BY <1>1, <1>2, <1>3

\* A remainder of what is small enough is the number itself.
LEMMA SmallRemainder ==
  ASSUME NEW m \in Nat \ {0}, NEW a \in 0..(m - 1)
  PROVE  a % m = a
<1>1. \A i \in Int, j \in Nat \ {0} : i % j \in 0..(j - 1) /\ i = j * (i \div j) + (i % j)
  OBVIOUS
<1> QED
  BY <1>1

\* An int keeps what it can count.
LEMMA WrappedKeeps ==
  ASSUME NEW n \in -IntHalf..(IntHalf - 1)
  PROVE  Wrapped(n) = n
<1>1. 2 * IntHalf \in Nat \ {0} /\ n + IntHalf \in 0..(2 * IntHalf - 1)
  BY ViewerAssumption
<1>2. (n + IntHalf) % (2 * IntHalf) = n + IntHalf
  BY <1>1, SmallRemainder
<1>3. QED
  BY <1>2, ViewerAssumption DEF Wrapped

\* Padding makes a row no shorter, and leaves one of whole words alone.
FullRow(w) == ((w * 3 + 3) \div 4) * 4

LEMMA FullRowFacts ==
  ASSUME NEW w \in Nat
  PROVE  /\ FullRow(w) \in Nat /\ w * 3 <= FullRow(w) /\ w * 3 + 3 <= FullRow(w) + 3
         /\ FullRow(w) % 4 = 0
         /\ w % 4 = 0 => FullRow(w) = w * 3
  BY DEF FullRow

\* A row an int can count is what the code computes.
LEMMA PaddingFacts ==
  ASSUME NEW w \in Nat, FullRow(w) < IntHalf
  PROVE  PaddedRow(w) = FullRow(w)
<1>1. w * 3 + 3 < IntHalf
  <2>1. \A a, b \in Nat : a % 4 = 0 /\ b % 4 = 0 /\ a < b => a + 3 < b
    OBVIOUS
  <2>2. FullRow(w) \in Nat /\ FullRow(w) % 4 = 0 /\ w * 3 + 3 <= FullRow(w) + 3
    BY FullRowFacts
  <2>3. IntHalf \in Nat /\ IntHalf % 4 = 0
    BY ViewerAssumption
  <2>4. FullRow(w) + 3 < IntHalf
    BY <2>1, <2>2, <2>3
  <2>5. QED
    BY <2>2, <2>3, <2>4
<1>2. Wrapped(w * 3 + 3) = w * 3 + 3
  BY <1>1, WrappedKeeps, ViewerAssumption
<1>3. QED
  BY <1>2 DEF PaddedRow, Quotient, FullRow

\* What the code computes for a picture whose rows are countable.
LEMMA CountableFacts ==
  ASSUME NEW w \in Nat \ {0}, NEW h \in Nat \ {0}, picture.w = w, picture.h = h,
         Countable
  PROVE  /\ PaddedRow(w) = FullRow(w)
         /\ FullRow(w) * h \in Nat /\ FullRow(w) * h < IntHalf
         /\ DataSize(picture) = FullRow(w) * h
<1>1. FullRow(w) \in Nat /\ FullRow(w) * h < IntHalf
  BY FullRowFacts DEF Countable, FullRow
<1> HIDE DEF FullRow
<1>2. FullRow(w) * h \in Nat /\ FullRow(w) <= FullRow(w) * h
  <2>1. 1 * FullRow(w) <= h * FullRow(w) /\ h * FullRow(w) \in Nat
    BY <1>1, ProductGrows
  <2>2. h * FullRow(w) = FullRow(w) * h /\ 1 * FullRow(w) = FullRow(w)
    BY <1>1
  <2>3. QED
    BY <2>1, <2>2
<1>3. PaddedRow(w) = FullRow(w)
  BY <1>1, <1>2, PaddingFacts, ViewerAssumption
<1>4. (FullRow(w) * h) % (2 * SizeHalf) = FullRow(w) * h
  <2>1. 2 * SizeHalf \in Nat \ {0} /\ FullRow(w) * h \in 0..(2 * SizeHalf - 1)
    BY <1>1, <1>2, ViewerAssumption
  <2>2. QED
    BY <2>1, SmallRemainder
<1>5. QED
  BY <1>1, <1>2, <1>3, <1>4 DEF DataSize

\* No offset of a countable picture wraps.
LEMMA OffsetStays ==
  ASSUME NEW w \in Nat \ {0}, NEW h \in Nat \ {0}, picture.w = w, picture.h = h,
         Countable, NEW y \in 0..(h - 1), NEW x \in 0..(w - 1), NEW r, r = h - 1 - y
  PROVE  /\ SourceRow(y) = r * w * 3
         /\ Wrapped(SourceRow(y) + x * 3) = r * w * 3 + x * 3
         /\ r * w * 3 + x * 3 >= 0
         /\ r * w * 3 + x * 3 + 2 < FullRow(w) * h
<1>1. r \in Nat /\ r < h /\ w * 3 \in Nat
  OBVIOUS
<1>2. /\ r * (w * 3) + (x * 3 + 2) \in Nat
      /\ r * (w * 3) + (x * 3 + 2) < h * (w * 3)
  <2>1. x * 3 + 2 \in Nat /\ x * 3 + 2 < w * 3
    OBVIOUS
  <2>2. QED
    BY <1>1, <2>1, IndexInRows
<1>3. FullRow(w) \in Nat /\ w * 3 <= FullRow(w)
  BY FullRowFacts
<1>4. (w * 3) * h <= FullRow(w) * h
  BY <1>1, <1>3, ProductGrows
<1>5. r * w * 3 = r * (w * 3) /\ r * (w * 3) \in Nat /\ (w * 3) * h = h * (w * 3)
  BY <1>1
<1>6. FullRow(w) * h \in Nat /\ FullRow(w) * h < IntHalf /\ h * (w * 3) \in Nat
  BY <1>1, CountableFacts
<1> DEFINE k == r * w * 3
           n == r * w * 3 + x * 3
<1>7. /\ k \in Nat /\ n \in Nat /\ k <= n /\ n + 2 < FullRow(w) * h
  BY <1>2, <1>4, <1>5, <1>6
<1>8. SourceRow(y) = Wrapped(k)
  BY DEF SourceRow
<1> HIDE DEF k
<1>9. n = k + x * 3
  BY DEF k
<1> HIDE DEF n
<1>10. Wrapped(k) = k /\ Wrapped(n) = n
  BY <1>6, <1>7, WrappedKeeps, ViewerAssumption
<1>11. QED
  BY <1>7, <1>8, <1>9, <1>10 DEF k, n

\* What a visible pixel is read from and written to.
LEMMA PixelStays ==
  ASSUME screen.w \in Nat, screen.h \in Nat, picture.w \in Int, picture.h \in Int,
         NEW p \in Visible
  PROVE  /\ p[2] * screen.w + p[1] \in 0..(ScreenSize - 1)
         /\ Countable => LET d == Wrapped(SourceRow(p[2]) + p[1] * 3)
                         IN  d >= 0 /\ d + 2 < DataSize(picture)
<1> DEFINE w == picture.w
           h == picture.h
           x == p[1]
           y == p[2]
<1>1. /\ x \in Nat /\ x < w /\ y \in Nat /\ y < h
      /\ x < screen.w /\ y < screen.h
  BY DEF Visible
<1>2. w \in Nat \ {0} /\ h \in Nat \ {0} /\ y \in 0..(h - 1) /\ x \in 0..(w - 1)
  BY <1>1
<1>3. y * screen.w + x \in 0..(ScreenSize - 1)
  <2>1. y * screen.w + x \in Nat /\ y * screen.w + x < screen.h * screen.w
    BY <1>1, IndexInRows
  <2>2. screen.h * screen.w = ScreenSize /\ ScreenSize \in Nat
    BY DEF ScreenSize
  <2>3. QED
    BY <2>1, <2>2
<1>4. ASSUME Countable
      PROVE  /\ Wrapped(SourceRow(y) + x * 3) >= 0
             /\ Wrapped(SourceRow(y) + x * 3) + 2 < DataSize(picture)
  <2>1. DataSize(picture) = FullRow(w) * h
    BY <1>2, <1>4, CountableFacts
  <2> DEFINE r == h - 1 - y
  <2> HIDE DEF w, h, x, y
  <2>2. /\ Wrapped(SourceRow(y) + x * 3) = r * w * 3 + x * 3
        /\ r * w * 3 + x * 3 >= 0
        /\ r * w * 3 + x * 3 + 2 < FullRow(w) * h
    <3>1. picture.w = w /\ picture.h = h
      BY DEF w, h
    <3>2. \A i : i = h - 1 - y =>
              /\ Wrapped(SourceRow(y) + x * 3) = i * w * 3 + x * 3
              /\ i * w * 3 + x * 3 >= 0
              /\ i * w * 3 + x * 3 + 2 < FullRow(w) * h
      BY <1>2, <1>4, <3>1, OffsetStays
    <3>3. QED
      BY <3>2
  <2>3. FullRow(w) * h \in Int /\ r * w * 3 + x * 3 \in Int
    BY <1>2, FullRowFacts
  <2>4. QED
    BY <2>1, <2>2, <2>3
<1>5. QED
  BY <1>3, <1>4

\* The sizes are known before anything is drawn, and nothing is drawn twice.
DrawInv ==
    /\ screen.w \in Nat /\ screen.h \in Nat /\ picture.w \in Int /\ picture.h \in Int
    /\ drawn \in {{}, Pixels}
    /\ viewAt \notin {"copy", "end"} => drawn = {}
    /\ viewAt = "copy" => drawn = Pixels

LEMMA DrawKeeps ==
  ASSUME DrawInv, [ViewNext]_viewVars
  PROVE  DrawInv'
<1>1. ASSUME UNCHANGED <<screen, picture, drawn>>, viewAt \notin {"copy", "end"},
             viewAt' # "copy"
      PROVE  DrawInv'
  BY <1>1 DEF DrawInv
<1>2. ASSUME UNCHANGED <<screen, picture, drawn>>, viewAt' = "end"
      PROVE  DrawInv'
  BY <1>2 DEF DrawInv, Pixels, Visible, SourceRow
<1>3. CASE OpenScreen \/ AllocPixels \/ AllocFirst \/ MapScreen
  BY <1>1, <1>3 DEF OpenScreen, AllocPixels, AllocFirst, MapScreen, Acquire
<1>4. CASE QueryScreen
  <2>1. viewAt = "info" /\ UNCHANGED <<picture, drawn>> /\ viewAt' # "copy"
    BY <1>4 DEF QueryScreen
  <2>2. screen'.w \in Nat /\ screen'.h \in Nat
    <3>1. \A w \in ScreenSides : w \in Nat
      BY ViewerAssumption
    <3>2. QED
      BY <1>4, <3>1 DEF QueryScreen, DrawInv
  <2>3. QED
    BY <2>1, <2>2 DEF DrawInv
<1>5. CASE ReadHeader
  <2>1. viewAt = "header" /\ UNCHANGED <<screen, drawn>> /\ viewAt' # "copy"
    BY <1>5 DEF ReadHeader
  <2>2. picture'.w \in Int /\ picture'.h \in Int
    <3>1. \A w \in Sides : w \in Int
      BY ViewerAssumption
    <3>2. QED
      BY <1>5, <3>1 DEF ReadHeader, DrawInv
  <2>3. QED
    BY <2>1, <2>2 DEF DrawInv
<1>6. CASE OpenBmp \/ AllocData \/ ReadData
  BY <1>1, <1>6 DEF OpenBmp, AllocData, ReadData
<1>7. CASE Convert
  BY <1>7 DEF Convert, DrawInv, Pixels, Visible, SourceRow
<1>8. CASE CopyAndEnd \/ Unwind
  BY <1>2, <1>8 DEF CopyAndEnd, Unwind
<1>9. CASE UNCHANGED viewVars
  BY <1>9 DEF viewVars, DrawInv, Pixels, Visible, SourceRow
<1>10. QED
  BY <1>3, <1>4, <1>5, <1>6, <1>7, <1>8, <1>9 DEF ViewNext

LEMMA DrawInductive == ProgramsSpec => []DrawInv
<1>1. ProgramsInit => DrawInv
  BY DEF ProgramsInit, ViewInit, DrawInv
<1>2. DrawInv /\ [ProgramsNext]_allVars => DrawInv'
  BY OneProgramRuns, DrawKeeps
<1>3. QED
  BY <1>1, <1>2, PTL DEF ProgramsSpec

\* Whatever a header says, the viewer writes inside the screen's buffer, and
\* it reads inside the data of every picture whose rows an int counts, for
\* ints and addresses of any width (bmpViewer.c:136-158, bmpHeader.c:110-113).
THEOREM BuffersCorrect == ProgramsSpec => []StaysInBuffers
<1>1. DrawInv => StaysInBuffers
  <2> SUFFICES ASSUME DrawInv, NEW d \in drawn
               PROVE  d[1] \in 0..(ScreenSize - 1) /\ (Countable => InData(d))
    BY DEF StaysInBuffers
  <2>1. PICK p \in Visible :
            d = <<p[2] * screen.w + p[1], Wrapped(SourceRow(p[2]) + p[1] * 3)>>
    BY DEF DrawInv, Pixels
  <2>2. d[1] = p[2] * screen.w + p[1] /\ d[2] = Wrapped(SourceRow(p[2]) + p[1] * 3)
    BY <2>1
  <2>3. QED
    BY <2>2, PixelStays DEF DrawInv, InData
<1>2. QED
  BY <1>1, DrawInductive, PTL

\* A picture of any size without padding whose rows an int counts is shown the
\* right way up (bmpViewer.c:139-156).
THEOREM UprightCorrect == ProgramsSpec => []PictureIsUpright
<1>1. DrawInv => PictureIsUpright
  <2> DEFINE w == picture.w
             h == picture.h
             Cells == {d \in (0..(h - 1)) \X (0..(w - 1)) :
                          d[2] < screen.w /\ h - 1 - d[1] < screen.h}
             There(c) == <<(h - 1 - c[1]) * screen.w + c[2],
                           c[1] * PaddedRow(w) + c[2] * 3>>
             From(p) == <<p[2] * screen.w + p[1],
                          Wrapped(SourceRow(p[2]) + p[1] * 3)>>
  <2> SUFFICES ASSUME DrawInv, viewAt = "copy", w % 4 = 0, Countable
               PROVE  Pixels = {There(c) : c \in Cells}
    BY DEF DrawInv, PictureIsUpright
  <2>1. w \in Int /\ h \in Int
    BY DEF DrawInv
  <2>2. ASSUME NEW x \in 0..(w - 1), NEW y \in 0..(h - 1), NEW r, r = h - 1 - y
        PROVE  There(<<r, x>>) = From(<<x, y>>)
    <3>1. w \in Nat \ {0} /\ h \in Nat \ {0}
      BY <2>1
    <3>2. PaddedRow(w) = w * 3
      BY <3>1, CountableFacts, FullRowFacts
    <3>3. r \in Int /\ h - 1 - r = y
      BY <2>1, <2>2
    <3>4. Wrapped(SourceRow(y) + x * 3) = r * w * 3 + x * 3
      BY <2>2, <3>1, OffsetStays
    <3>5. r * (w * 3) = r * w * 3
      BY <3>1, <3>3
    <3>6. Wrapped(SourceRow(y) + x * 3) = r * PaddedRow(w) + x * 3
      BY <3>2, <3>4, <3>5
    <3>7. QED
      BY <3>3, <3>6
  <2>3. ASSUME NEW p \in Visible
        PROVE  From(p) \in {There(c) : c \in Cells}
    <3> DEFINE c == <<h - 1 - p[2], p[1]>>
    <3>1. p[1] \in 0..(w - 1) /\ p[2] \in 0..(h - 1) /\ p = <<p[1], p[2]>>
          /\ p[1] < screen.w /\ p[2] < screen.h
      BY DEF Visible
    <3>2. h - 1 - p[2] \in 0..(h - 1) /\ h - 1 - (h - 1 - p[2]) = p[2]
      BY <2>1, <3>1
    <3>3. c \in Cells
      BY <3>1, <3>2
    <3>4. There(c) = From(p)
      BY <2>2, <3>1
    <3>5. QED
      BY <3>3, <3>4
  <2>4. ASSUME NEW c \in Cells
        PROVE  There(c) \in Pixels
    <3> DEFINE p == <<c[2], h - 1 - c[1]>>
    <3>1. c[1] \in 0..(h - 1) /\ c[2] \in 0..(w - 1) /\ c = <<c[1], c[2]>>
          /\ c[2] < screen.w /\ h - 1 - c[1] < screen.h
      OBVIOUS
    <3>2. h - 1 - c[1] \in 0..(h - 1) /\ h - 1 - (h - 1 - c[1]) = c[1]
      BY <2>1, <3>1
    <3>3. p \in Visible
      BY <3>1, <3>2 DEF Visible
    <3>4. There(c) = From(p)
      BY <2>2, <3>1, <3>2
    <3>5. QED
      BY <3>3, <3>4 DEF Pixels
  <2>5. QED
    BY <2>3, <2>4 DEF Pixels
<1>2. QED
  BY <1>1, DrawInductive, PTL
=============================================================================
