-------------------------- MODULE EarlyServerProofs --------------------------
(***************************************************************************)
(* What holds of EarlyServer.  The steps it shares with ChatServer keep    *)
(* the invariants of ChatServer, ChatDelivery and ChatOrderProofs; its own *)
(* are added here.                                                         *)
(***************************************************************************)
EXTENDS EarlyServer, ChatDeliveryProofs, ChatOrderProofs

\* A write loop is a broadcast to a room, and between kill() and write() the
\* round still has the client it was for.
BroadcastInv ==
    /\ pc \in {"deliver", "signal"} =>
           job.kind = "broadcast" /\ active_children[job.by].room # Blank
    /\ pc = "signal" => Hit(job.k)

EInv == IInv /\ BroadcastInv

-----------------------------------------------------------------------------
\* The steps of ex.c that are steps of server.c.
Shared ==
    \/ EarlyTop \/ EarlyReap \/ EarlyAccept \/ EarlyConnect \/ EarlyScan
    \/ EarlyAdd \/ EarlyJoin \/ EarlyName \/ EarlyRest \/ SkipRound
    \/ DeliverDone \/ EarlyShutdown \/ \E p \in Pid : EarlyChild(p)

LEMMA SharedIsNext == Shared => Next
<1>1. ASSUME NEW p \in Pid, EarlyChild(p) PROVE Child(p)
  BY <1>1 DEF EarlyChild, EarlySetup, EarlyFromParent, EarlyFromClient,
     EarlyExit, Child
<1>2. CASE Shared /\ ~\E p \in Pid : EarlyChild(p)
  BY <1>2 DEF Shared, EarlyTop, EarlyReap, EarlyAccept, EarlyConnect,
     EarlyScan, EarlyAdd, EarlyJoin, EarlyName, EarlyRest, EarlyShutdown,
     Parent, Next
<1>3. CASE \E p \in Pid : EarlyChild(p)
  BY <1>1, <1>3 DEF Next
<1> QED
  BY <1>2, <1>3

LEMMA SharedKeeps ==
    ASSUME EInv, Shared \/ UNCHANGED vars
    PROVE  EInv'
<1>1. IInv'
  BY SharedIsNext, TypeNext, RegistryNext, OwnLinesNext, JobNext DEF EInv, IInv
<1>2. job \in Job
  BY DEF EInv, IInv, TypeOK
<1>3. CASE pc' \notin {"deliver", "signal"}
  BY <1>1, <1>3 DEF EInv, BroadcastInv
<1>4. CASE UNCHANGED <<pc, job, active_children, room_info>>
  BY <1>1, <1>4 DEF EInv, BroadcastInv, Hit
<1>5. ASSUME NEW p \in Pid, EarlyChild(p)
      PROVE  EInv'
  <2>1. /\ UNCHANGED <<job, active_children, room_info>>
        /\ pc' = pc \/ pc' = "down"
    BY <1>5 DEF EarlyChild, EarlySetup, EarlyFromParent, EarlyFromClient,
       EarlyExit, ChildSetup, ChildClearFlag, ChildNoFlag, ChildRelay,
       ChildReadNothing, ChildIdle, ChildReadEof, ChildReadLine,
       ChildSignalParent, ChildWrite, ChildBrokenPipe, ChildExit,
       ChildTerminated, unchangedByChild, parentVars
  <2> QED
    BY <1>3, <1>4, <2>1
<1>6. CASE SkipRound
  <2>1. /\ job' = [job EXCEPT !.k = job.k + 1] /\ job.k + 1 \in Nat
        /\ pc = "deliver" /\ pc' = pc /\ UNCHANGED active_children
    BY <1>2, <1>6 DEF SkipRound, Job
  <2>2. job'.kind = job.kind /\ job'.by = job.by
    BY <1>2, <2>1, RoundFacts
  <2> QED
    BY <1>1, <2>1, <2>2 DEF EInv, BroadcastInv
<1>7. CASE \/ EarlyTop \/ EarlyReap \/ EarlyAccept \/ EarlyConnect
           \/ EarlyShutdown \/ DeliverDone
  BY <1>3, <1>7 DEF EarlyTop, EarlyReap, EarlyAccept, EarlyConnect,
     EarlyShutdown, TopOfLoop, ClearExited, ReapDone, Reap, AcceptIdle,
     AcceptScan, AcceptError, AcceptRefuse, AddChild, AcceptFork, TermChild,
     TermDone, WaitDone, WaitChild, DeliverDone
<1>8. CASE EarlyScan \/ EarlyAdd \/ EarlyJoin \/ EarlyName \/ EarlyRest
  BY <1>3, <1>8 DEF EarlyScan, EarlyAdd, EarlyJoin, EarlyName, EarlyRest,
     ScanDone, ScanEmpty, HandleAdd, HandleJoin, HandleName, HandleRest,
     TakeLine, ReadPipe, Updates
<1> QED
  BY <1>4, <1>5, <1>6, <1>7, <1>8 DEF Shared, vars, parentVars

\* What is left of a child's pipe bears the pid of that child.
LEMMA ReadKeepsOwn ==
    ASSUME EInv, EntryPid \in Pid,
           toParent' = [toParent EXCEPT ![EntryPid] =
                            AfterRead(toParent[EntryPid])]
    PROVE  OwnLines'
<1>1. toParent \in [Pid -> Seq(Message)] /\ OwnLines
  BY DEF EInv, IInv, TypeOK
<1> SUFFICES ASSUME NEW p \in Pid, NEW k \in 1..Len(toParent'[p])
             PROVE  toParent'[p][k].pid = p
  BY DEF OwnLines
<1>2. CASE p = EntryPid
  <2>1. toParent'[p] = AfterRead(toParent[p])
    BY <1>1, <1>2
  <2>2. toParent[p] \in Seq(Message)
    BY <1>1
  <2>3. \A j \in 1..Len(AfterRead(toParent[p])) :
            \E i \in 1..Len(toParent[p]) :
                AfterRead(toParent[p])[j] = toParent[p][i]
    BY <2>2, AfterReadFacts
  <2>4. PICK i \in 1..Len(toParent[p]) :
            AfterRead(toParent[p])[k] = toParent[p][i]
    BY <2>1, <2>3
  <2> QED
    BY <1>1, <2>1, <2>4 DEF OwnLines
<1>3. CASE p # EntryPid
  BY <1>1, <1>3 DEF OwnLines
<1> QED
  BY <1>2, <1>3

\* A line read and dropped, or broadcast.
LEMMA EarlyTakes ==
    ASSUME EInv, TakeLine,
           \/ Updates(active_children, room_info)
           \/ /\ active_children[scan].room # Blank
              /\ Starts([kind |-> "broadcast", by |-> scan, to |-> NoName,
                         no |-> FirstLine.no, k |-> 1])
    PROVE  EInv'
<1> DEFINE j == [kind |-> "broadcast", by |-> scan, to |-> NoName,
                 no |-> FirstLine.no, k |-> 1]
<1>1. /\ IInv /\ scan \in 1..Len(active_children) /\ EntryPid \in Pid
      /\ FirstLine.no \in Nat /\ pc = "scan"
      /\ toParent \in [Pid -> Seq(Message)] /\ scan \in Nat
      /\ active_children \in Seq(Entry) /\ room_info \in Seq(Word)
      /\ Len(room_info) <= ChatRoom
      /\ UNCHANGED <<cpc, newPid, ends, active_children, room_info>>
  BY SenderFound DEF TakeLine, ReadPipe, EInv, IInv, TypeOK, noProcessStep,
     Updates, Starts
<1>2. j \in Job /\ j.by = scan /\ j.k = 1 /\ j.kind = "broadcast"
  BY <1>1, NullTypes DEF Job, JobKind
<1>3. TypeOK'
  <2>1. CASE Updates(active_children, room_info)
    BY <1>1, <2>1, TypeUpdates
  <2>2. CASE Starts(j)
    BY <1>1, <1>2, <2>2, TypeStarts
  <2> QED
    BY <2>1, <2>2
<1>4. pc' = "scan" \/ (pc' = "deliver" /\ job' = j /\ UNCHANGED scan
                           /\ active_children[scan].room # Blank)
  BY <1>1 DEF Updates, Starts
<1> HIDE DEF j
<1>5. RegistryExact'
  BY <1>1, <1>4, RegistryKept DEF KeepsRegistry
<1>6. OwnLines'
  BY <1>1, ReadKeepsOwn DEF TakeLine, ReadPipe
<1>7. JobInv'
  BY <1>1, <1>2, <1>4 DEF JobInv
<1>8. BroadcastInv'
  BY <1>1, <1>2, <1>4 DEF BroadcastInv
<1> QED
  BY <1>3, <1>5, <1>6, <1>7, <1>8 DEF EInv, IInv

\* A malformed message is taken out of the pipe, and that is all.
LEMMA MalformedForms ==
    ASSUME EInv, EarlyMalformed
    PROVE  /\ pc = "scan" /\ pc' = "scan" /\ scan' = scan + 1
           /\ EntryPid \in Pid /\ toParent[EntryPid] # <<>>
           /\ toParent' = [toParent EXCEPT ![EntryPid] =
                                AfterRead(toParent[EntryPid])]
           /\ toParent' \in [Pid -> Seq(Message)]
           /\ UNCHANGED <<job, active_children, room_info, flagVars,
                          noProcessStep>>
<1>1. ReadPipe /\ UNCHANGED <<flagVars, noProcessStep>>
      /\ Updates(active_children, room_info)
  BY DEF EarlyMalformed
<1>2. /\ pc = "scan" /\ EntryPid \in Pid /\ toParent[EntryPid] # <<>>
      /\ toParent' = [toParent EXCEPT ![EntryPid] =
                           AfterRead(toParent[EntryPid])]
      /\ toParent' \in [Pid -> Seq(Message)]
  BY <1>1, ReadPipeFacts DEF EInv
<1> QED
  BY <1>1, <1>2 DEF Updates

LEMMA MalformedKeeps ==
    ASSUME EInv, EarlyMalformed
    PROVE  EInv'
<1>1. /\ IInv /\ pc = "scan" /\ pc' = "scan" /\ scan' = scan + 1
      /\ EntryPid \in Pid /\ toParent \in [Pid -> Seq(Message)]
      /\ toParent' = [toParent EXCEPT ![EntryPid] =
                           AfterRead(toParent[EntryPid])]
      /\ toParent' \in [Pid -> Seq(Message)]
      /\ UNCHANGED <<job, active_children, room_info, flagVars, noProcessStep>>
  BY MalformedForms DEF EInv, IInv, TypeOK
<1>2. TypeOK'
  BY <1>1 DEF IInv, TypeOK, flagVars, noProcessStep, unchangedByParent
<1>3. RegistryExact'
  BY <1>1, RegistryKept DEF KeepsRegistry, noProcessStep
<1>4. OwnLines'
  BY <1>1, ReadKeepsOwn
<1> QED
  BY <1>1, <1>2, <1>3, <1>4 DEF EInv, IInv, JobInv, BroadcastInv

\* What write() does to the pipe of the client of this round.
LEMMA EarlyWriteFacts ==
    ASSUME EInv, EarlyWrite
    PROVE  /\ Target \in Pid /\ active_children[job.by].pid \in Pid
           /\ \E n \in Nat :
                 /\ toChild' = [toChild EXCEPT ![Target] =
                                    toChild[Target] \o Pieces(Answer, n)]
                 /\ toChild' \in [Pid -> Seq(Payload)]
                 /\ Len(toChild[Target]) \in Nat
                 /\ Len(toChild'[Target]) = Len(toChild[Target]) + n
                 /\ \A k \in 1..n :
                        toChild'[Target][Len(toChild[Target]) + k] =
                            [kind |-> job.kind, no |-> job.no, part |-> k,
                             from |-> active_children[job.by].pid]
                 /\ n = 0 => UNCHANGED toChild
<1>0. Target \in Pid /\ active_children[job.by].pid \in Pid /\ IInv
  BY TargetFacts DEF EarlyWrite, EInv, IInv, JobInv
<1>1. PICK n \in Written(toChild[Target]) :
          toChild' = [toChild EXCEPT ![Target] = @ \o Pieces(Answer, n)]
  BY DEF EarlyWrite
<1> DEFINE t == Target
           from == active_children[job.by].pid
           s == toChild[t]
           m == Answer
<1>2. /\ s \in Seq(Payload) /\ n \in Nat
      /\ \A k \in 1..n :
             /\ [m EXCEPT !.part = k] \in Payload
             /\ [m EXCEPT !.part = k] =
                    [kind |-> job.kind, no |-> job.no, part |-> k, from |-> from]
  BY <1>0, AnswerFacts
<1>3. toChild \in [Pid -> Seq(Payload)] /\ t \in Pid
  BY <1>0 DEF IInv, TypeOK
<1>4. toChild' = [toChild EXCEPT ![t] = toChild[t] \o Pieces(m, n)]
  BY <1>1, <1>2
<1>5. \A k \in 1..n : [m EXCEPT !.part = k] \in Payload
  BY <1>2
<1> HIDE DEF s, m, t, from
<1>6. /\ s \o Pieces(m, n) \in Seq(Payload)
      /\ Len(s) \in Nat /\ Len(s \o Pieces(m, n)) = Len(s) + n
      /\ \A k \in 1..n :
             (s \o Pieces(m, n))[Len(s) + k] = [m EXCEPT !.part = k]
  BY <1>2, <1>5, WrittenFacts
<1>7. toChild'[t] = s \o Pieces(m, n)
  BY <1>3, <1>4 DEF s
<1>8. toChild' \in [Pid -> Seq(Payload)]
  BY <1>3, <1>4, <1>6, <1>7
<1>9. \A k \in 1..n :
          toChild'[t][Len(s) + k] = [kind |-> job.kind, no |-> job.no,
                                     part |-> k, from |-> from]
  BY <1>2, <1>6, <1>7
<1>10. Len(toChild'[t]) = Len(s) + n
  BY <1>6, <1>7
<1>11. ASSUME n = 0
       PROVE  UNCHANGED toChild
  <2>1. Pieces(m, n) = <<>>
    <3>1. Pieces(m, n) \in Seq(Payload) /\ Len(Pieces(m, n)) = 0
      BY <1>2, <1>5, <1>11, PiecesFacts
    <3> QED
      BY <3>1, EmptySeq
  <2>2. s \o <<>> = s
    BY <1>2, ConcatEmptySeq
  <2> QED
    BY <1>3, <1>4, <2>1, <2>2 DEF s
<1> QED
  BY <1>0, <1>2, <1>4, <1>6, <1>8, <1>9, <1>10, <1>11 DEF s, m, t, from

\* One round of the loop: kill(), then write().
LEMMA EarlyRounds ==
    ASSUME EInv, EarlyKill \/ EarlyWrite
    PROVE  EInv'
<1>1. /\ IInv /\ TypeOK /\ RegistryExact /\ OwnLines /\ JobInv /\ BroadcastInv
      /\ job \in Job /\ active_children \in Seq(Entry)
      /\ toChild \in [Pid -> Seq(Payload)] /\ JobEnd \in Nat
      /\ pc \in {"deliver", "signal"} /\ job.k <= JobEnd
  BY LenProperties
     DEF EInv, IInv, TypeOK, JobInv, JobEnd, EarlyKill, EarlyWrite
<1>2. /\ UNCHANGED <<scan, active_children, room_info, flagVars, toParent, cpc,
                     held, heirs, term, lines, ends, newPid, conns>>
      /\ pc' \in {"deliver", "signal"}
  BY DEF EarlyKill, EarlyWrite
<1>3. \/ UNCHANGED job /\ pc' = "signal" /\ Hit(job.k)
      \/ pc' = "deliver" /\ \E n \in Nat \ {0} : job' = [job EXCEPT !.k = n]
  <2>1. ASSUME NextRound
        PROVE  \E n \in Nat \ {0} : job' = [job EXCEPT !.k = n]
    <3>1. JobEnd + 1 \in Nat \ {0} /\ job.k + 1 \in Nat \ {0}
      BY <1>1 DEF Job
    <3> QED
      BY <2>1, <3>1 DEF NextRound
  <2> QED
    BY <2>1 DEF EarlyKill, EarlyWrite
<1>4. /\ job' \in Job /\ job'.by = job.by /\ job'.kind = job.kind /\ job'.k # 0
  <2>1. CASE UNCHANGED job
    BY <1>1, <2>1 DEF JobInv
  <2>2. ASSUME NEW n \in Nat \ {0}, job' = [job EXCEPT !.k = n]
        PROVE  /\ job' \in Job /\ job'.by = job.by /\ job'.kind = job.kind
               /\ job'.k # 0
    BY <1>1, <2>2, RoundFacts
  <2> QED
    BY <1>3, <2>1, <2>2
<1>5. Target \in Pid /\ active_children[job.by].pid \in Pid
  BY <1>1, TargetFacts
<1>6. toChild' \in [Pid -> Seq(Payload)]
  BY <1>1, EarlyWriteFacts DEF EarlyKill
<1>7. child_sigusr_arrived' \in [Pid -> BOOLEAN]
  <2>1. child_sigusr_arrived \in [Pid -> BOOLEAN]
    BY <1>1 DEF TypeOK
  <2> QED
    BY <2>1 DEF EarlyKill, EarlyWrite
<1>8. TypeOK'
  BY <1>1, <1>2, <1>4, <1>6, <1>7 DEF TypeOK, ParentPc, flagVars
<1>9. RegistryExact'
  BY <1>1, <1>2, RegistryKept DEF KeepsRegistry
<1>10. OwnLines'
  BY <1>1, <1>2 DEF OwnLines
<1>11. JobInv'
  <2>1. pc' = "signal" => job'.k <= JobEnd'
    BY <1>1, <1>2, <1>3 DEF JobEnd
  <2> QED
    BY <1>1, <1>2, <1>4, <2>1 DEF JobInv
<1>12. BroadcastInv'
  <2>1. pc' = "signal" => Hit(job.k)'
    BY <1>2, <1>3 DEF Hit
  <2> QED
    BY <1>1, <1>2, <1>4, <2>1 DEF BroadcastInv
<1> QED
  BY <1>8, <1>9, <1>10, <1>11, <1>12 DEF EInv, IInv

LEMMA EarlyBrokenKeeps ==
    ASSUME EInv, EarlyBroken
    PROVE  EInv'
<1>1. TypeOK'
  BY NullTypes DEF EarlyBroken, Dies, EInv, IInv, TypeOK, ParentPc, ChildPc,
     flagVars, unchangedByParent
<1>2. RegistryExact' /\ OwnLines' /\ JobInv' /\ BroadcastInv'
  BY DEF EarlyBroken, Dies, EInv, IInv, RegistryExact, OwnLines, JobInv,
     BroadcastInv
<1> QED
  BY <1>1, <1>2 DEF EInv, IInv

\* The tables, the pipes and the loops of ex.c agree in every reachable state.
THEOREM EarlyInductive == EarlySpec => []EInv
<1>1. Init => EInv
  BY IInvInit DEF EInv, BroadcastInv, Init
<1>2. EInv /\ [EarlyNext]_vars => EInv'
  <2> SUFFICES ASSUME EInv, [EarlyNext]_vars PROVE EInv'
    OBVIOUS
  <2>1. CASE EarlyDrop \/ EarlyUnheard \/ EarlyBroadcast
    BY <2>1, EarlyTakes DEF EarlyDrop, EarlyUnheard, EarlyBroadcast
  <2>2. CASE EarlyKill \/ EarlyWrite
    BY <2>2, EarlyRounds
  <2>3. CASE EarlyBroken \/ EarlyMalformed
    BY <2>3, EarlyBrokenKeeps, MalformedKeeps
  <2>4. CASE Shared \/ UNCHANGED vars
    BY <2>4, SharedKeeps
  <2> QED
    BY <2>1, <2>2, <2>3, <2>4 DEF EarlyNext, EarlyParent, EarlyDeliver, Shared
<1> QED
  BY <1>1, <1>2, PTL DEF EarlySpec

\* kill() always finds a child that is not reaped, and the write after it is
\* to that child: ex.c:449 is never taken.
THEOREM KillFindsCorrect == EarlySpec => []KillFindsChild
<1>1. ASSUME EInv, pc \in {"deliver", "signal"}, job.k <= JobEnd
      PROVE  cpc[Target] # "none"
  <2>1. Target \in Pid /\ Target \in Listed
    BY <1>1, TargetFacts DEF EInv
  <2> QED
    BY <1>1, <2>1 DEF EInv, IInv, RegistryExact
<1>2. EInv => KillFindsChild
  BY <1>1 DEF KillFindsChild, EInv, IInv, JobInv, BroadcastInv
<1> QED
  BY <1>2, EarlyInductive, PTL

-----------------------------------------------------------------------------
\* Under the invariant the entry of a listed process is the one found.
LEMMA RoomFound ==
    ASSUME EInv, pc \in {"deliver", "signal"}, NEW k \in 1..Len(active_children)
    PROVE  /\ active_children[k].pid \in Listed
           /\ RoomOf(active_children[k].pid) = active_children[k].room
<1>1. /\ active_children \in Seq(Entry)
      /\ \A i, j \in 1..Len(active_children) :
             active_children[i].pid = active_children[j].pid => i = j
  BY DEF EInv, IInv, TypeOK, RegistryExact
<1>2. IndexOf(active_children, active_children[k].pid) = k
  BY <1>1, IndexOfFacts
<1> QED
  BY <1>2 DEF RoomOf, Listed

\* Only a write() lengthens the pipe of a client.
LEMMA OnlyWriteLengthens ==
    ASSUME EInv, [EarlyNext]_vars, ~EarlyWrite, NEW p \in Pid
    PROVE  ~(Len(toChild'[p]) > Len(toChild[p]))
<1>1. toChild \in [Pid -> Seq(Payload)] /\ Len(toChild[p]) \in Nat
      /\ Len(<<>>) = 0
  BY LenProperties, EmptySeq DEF EInv, IInv, TypeOK
<1>2. CASE toChild'[p] \in {toChild[p], <<>>}
  BY <1>1, <1>2
<1>3. ASSUME NEW q \in Pid, EarlyChild(q)
      PROVE  ~(Len(toChild'[p]) > Len(toChild[p]))
  <2>1. toChild'[p] \in {toChild[p], <<>>, AfterRead(toChild[p])}
    BY <1>1, <1>3 DEF EarlyChild, EarlySetup, EarlyFromParent, EarlyFromClient,
       EarlyExit, ChildSetup, ChildClearFlag, ChildNoFlag, ChildRelay,
       ChildReadNothing, ChildIdle, ChildReadEof, ChildReadLine,
       ChildSignalParent, ChildWrite, ChildBrokenPipe, ChildExit,
       ChildTerminated, Die
  <2>2. /\ AfterRead(toChild[p]) \in Seq(Payload)
        /\ Len(AfterRead(toChild[p])) <= Len(toChild[p])
    BY <1>1, AfterReadFacts
  <2>3. Len(AfterRead(toChild[p])) \in Nat
    BY <2>2, LenProperties
  <2> QED
    BY <1>1, <1>2, <2>1, <2>2, <2>3
<1>4. CASE EarlyParent
  <2>1. CASE \E q \in Pid : AcceptFork(q)
    BY <1>1, <1>2, <2>1 DEF AcceptFork
  <2>2. CASE EarlyTop \/ EarlyReap \/ EarlyAccept \/ EarlyShutdown \/ EarlyScan
             \/ AcceptRefuse \/ AddChild
    BY <1>2, <2>2 DEF EarlyTop, EarlyReap, EarlyAccept, EarlyShutdown, EarlyScan,
       TopOfLoop, ClearExited, ReapDone, Reap, AcceptIdle, AcceptScan,
       AcceptError, AcceptRefuse, AddChild, TermChild, TermDone, WaitDone,
       WaitChild, ScanDone, ScanEmpty, noProcessStep, unchangedByParent
  <2>3. CASE EarlyAdd \/ EarlyJoin \/ EarlyDrop \/ EarlyName \/ EarlyUnheard
             \/ EarlyBroadcast \/ EarlyMalformed \/ EarlyRest
    BY <1>2, <2>3 DEF EarlyAdd, EarlyJoin, EarlyDrop, EarlyName, EarlyUnheard,
       EarlyBroadcast, EarlyMalformed, EarlyRest, HandleAdd, HandleJoin,
       HandleName, HandleRest, TakeLine, noProcessStep, unchangedByParent
  <2>4. CASE SkipRound \/ EarlyKill \/ EarlyBroken \/ DeliverDone
    BY <1>2, <2>4 DEF SkipRound, EarlyKill, EarlyBroken, Dies, DeliverDone,
       noProcessStep, unchangedByParent
  <2> QED
    BY <1>4, <2>1, <2>2, <2>3, <2>4 DEF EarlyParent, EarlyConnect, EarlyDeliver
<1> QED
  BY <1>2, <1>3, <1>4 DEF EarlyNext, vars, pipeVars

\* A line goes to a client of the room its author is in, which is a room
\* (ex.c:436, 444), although the table may have changed since it was typed.
THEOREM RoomsCorrect == EarlySpec => RoomsApart
<1>1. ASSUME EInv, EarlyWrite, NEW p \in Pid, Len(toChild'[p]) > Len(toChild[p])
      PROVE  LET heard == toChild'[p][Len(toChild'[p])]
             IN  /\ {p, heard.from} \subseteq Listed
                 /\ RoomOf(p) = RoomOf(heard.from) /\ RoomOf(p) # Blank
  <2>1. /\ toChild \in [Pid -> Seq(Payload)] /\ job \in Job /\ pc = "signal"
        /\ active_children \in Seq(Entry) /\ job.k <= JobEnd
        /\ job.kind = "broadcast" /\ active_children[job.by].room # Blank
        /\ Hit(job.k) /\ job.by \in 1..Len(active_children) /\ job.k # 0
    BY <1>1 DEF EInv, IInv, TypeOK, BroadcastInv, JobInv, EarlyWrite
  <2>2. PICK n \in Nat :
            /\ Target \in Pid
            /\ toChild' = [toChild EXCEPT ![Target] =
                               toChild[Target] \o Pieces(Answer, n)]
            /\ Len(toChild[Target]) \in Nat
            /\ Len(toChild'[Target]) = Len(toChild[Target]) + n
            /\ \A k \in 1..n :
                   toChild'[Target][Len(toChild[Target]) + k] =
                       [kind |-> job.kind, no |-> job.no, part |-> k,
                        from |-> active_children[job.by].pid]
    BY <1>1, EarlyWriteFacts
  <2>3. Len(toChild[p]) \in Nat
    BY <2>1, LenProperties
  <2>4. p = Target
    <3>1. toChild'[p] # toChild[p]
      BY <1>1, <2>3
    <3> QED
      BY <2>1, <2>2, <3>1
  <2>5. toChild'[p][Len(toChild'[p])].from = active_children[job.by].pid
    <3>1. n \in 1..n /\ Len(toChild'[p]) = Len(toChild[p]) + n
      BY <1>1, <2>2, <2>3, <2>4
    <3>2. toChild'[p][Len(toChild'[p])] =
              [kind |-> job.kind, no |-> job.no, part |-> n,
               from |-> active_children[job.by].pid]
      BY <2>2, <2>4, <3>1
    <3> QED
      BY <3>2
  <2>6. job.k \in 1..Len(active_children)
    BY <2>1, LenProperties DEF JobEnd, Job
  <2>7. p = active_children[job.k].pid
    BY <2>1, <2>4 DEF Target
  <2>8. active_children[job.k].room = active_children[job.by].room
    BY <2>1 DEF Hit
  <2> QED
    BY <1>1, <2>1, <2>5, <2>6, <2>7, <2>8, RoomFound
<1>2. EInv /\ [EarlyNext]_vars =>
          [\A p \in Pid : Len(toChild'[p]) > Len(toChild[p]) =>
               LET heard == toChild'[p][Len(toChild'[p])]
               IN  /\ {p, heard.from} \subseteq Listed
                   /\ RoomOf(p) = RoomOf(heard.from) /\ RoomOf(p) # Blank]_vars
  BY <1>1, OnlyWriteLengthens
<1> QED
  BY <1>2, EarlyInductive, PTL DEF EarlySpec, RoomsApart

-----------------------------------------------------------------------------
(* What ex.c shares with server.c: the tables are right, names stay.       *)

\* A line without a branch, or of a client that is not heard, is dropped.
EarlyIgnores == EarlyDrop \/ EarlyUnheard
\* The steps of ex.c that server.c does not have.
EarlyOwn ==
    \/ EarlyIgnores \/ EarlyMalformed \/ EarlyBroadcast
    \/ EarlyKill \/ EarlyWrite \/ EarlyBroken

LEMMA SharedOrOwn == [EarlyNext]_vars => [Next]_vars \/ EarlyOwn
<1>1. EarlyNext => Shared \/ EarlyOwn
  BY DEF EarlyNext, EarlyParent, EarlyDeliver, Shared, EarlyOwn, EarlyIgnores
<1> QED
  BY <1>1, SharedIsNext

LEMMA OwnKeepsTables ==
    ASSUME EarlyOwn
    PROVE  UNCHANGED <<active_children, room_info>>
BY DEF EarlyOwn, EarlyIgnores, EarlyMalformed, EarlyDrop, EarlyUnheard,
   EarlyBroadcast, EarlyKill, EarlyWrite, EarlyBroken, Dies, Updates, Starts

\* The parent's own steps only read the pipes of the children.
LEMMA OwnConsecutive ==
    ASSUME EInv, AllConsecutive, EarlyOwn
    PROVE  AllConsecutive'
<1>1. toParent \in [Pid -> Seq(Message)]
  BY DEF EInv, IInv, TypeOK
<1>2. CASE UNCHANGED toParent
  BY <1>2 DEF AllConsecutive, Consecutive
<1>3. CASE ReadPipe
  <2>1. /\ EntryPid \in Pid
        /\ toParent' = [toParent EXCEPT ![EntryPid] =
                             AfterRead(toParent[EntryPid])]
    BY <1>3, ReadPipeFacts DEF EInv
  <2>2. Consecutive(AfterRead(toParent[EntryPid]))
    BY <1>1, <2>1, ConsecutiveRead DEF AllConsecutive
  <2>3. \A q \in Pid : Consecutive(toParent'[q])
    BY <1>1, <2>1, <2>2 DEF AllConsecutive
  <2> QED
    BY <2>3 DEF AllConsecutive, Consecutive
<1> QED
  BY <1>2, <1>3 DEF EarlyOwn, EarlyIgnores, EarlyMalformed, EarlyDrop,
     EarlyUnheard, EarlyBroadcast, EarlyKill, EarlyWrite, EarlyBroken, TakeLine

\* One entry for every child that is not reaped, pipe ends to match, and the
\* sender of every line that is read from its beginning found in the table
\* (ex.c:99-111, 387-391, 411-416, 538-547): what is read and does not begin
\* with a line is the rest of one whose beginning was read right before.
THEOREM EarlyTablesCorrect ==
    EarlySpec => [](TypeOK /\ RegistryExact /\ SenderIsScanned)
<1>1. EInv /\ AllConsecutive => TypeOK /\ RegistryExact /\ SenderIsScanned
  BY SenderFound DEF EInv, SenderIsScanned, AllConsecutive, IInv, JobInv
<1>2. Init => AllConsecutive
  BY EmptySeq DEF Init, AllConsecutive, Consecutive
<1>3. EInv /\ AllConsecutive /\ [EarlyNext]_vars => AllConsecutive'
  BY SharedOrOwn, OwnConsecutive, ConsecutiveNext DEF EInv
<1> QED
  BY <1>1, <1>2, <1>3, EarlyInductive, PTL DEF EarlySpec

\* A client keeps its name (ex.c:426-428), whoever is reaped before it.
THEOREM EarlyNamesCorrect == EarlySpec => NamesStay
<1>1. ASSUME EInv, EInv', [EarlyNext]_vars, NEW p \in Listed, p \in Listed'
      PROVE  EntryOf(p)'.name = EntryOf(p).name \/ EntryOf(p).name = NoName
  <2>1. CASE [Next]_vars
    BY <1>1, <2>1, NamesKept DEF EInv
  <2>2. CASE EarlyOwn
    BY <2>2, OwnKeepsTables DEF EntryOf
  <2> QED
    BY <1>1, <2>1, <2>2, SharedOrOwn
<1>2. EInv /\ EInv' /\ [EarlyNext]_vars =>
          [\A p \in Listed : p \in Listed' =>
               \/ EntryOf(p)'.name = EntryOf(p).name
               \/ EntryOf(p).name = NoName]_vars
  BY <1>1
<1> QED
  BY <1>2, EarlyInductive, PTL DEF EarlySpec, NamesStay

-----------------------------------------------------------------------------
(* The earlier server keeps the promise of the later one.                  *)

LEMMA OwnSpeaks ==
    ASSUME EInv, SpeakerInv, EarlyOwn
    PROVE  SpeakerInv'
<1>1. job \in Job
  BY DEF EInv, IInv, TypeOK
<1>2. CASE EarlyIgnores \/ EarlyMalformed \/ EarlyBroken
  <2>1. pc' \notin {"deliver", "signal"}
    BY <1>2 DEF EarlyIgnores, EarlyMalformed, EarlyDrop, EarlyUnheard,
       EarlyBroken, Dies, TakeLine, ReadPipe, Updates
  <2> QED
    BY <2>1 DEF SpeakerInv
<1>3. CASE EarlyBroadcast
  <2> DEFINE j == [kind |-> "broadcast", by |-> scan, to |-> NoName,
                   no |-> FirstLine.no, k |-> 1]
  <2>1. job' = j /\ UNCHANGED active_children
    BY <1>3 DEF EarlyBroadcast, Starts
  <2>2. Speaks(j)
    BY <1>3 DEF EarlyBroadcast, Speaks
  <2> QED
    BY <2>1, <2>2 DEF SpeakerInv, Speaks
<1>4. CASE EarlyKill \/ EarlyWrite
  <2>1. /\ UNCHANGED active_children /\ pc \in {"deliver", "signal"}
        /\ UNCHANGED job \/ \E n : job' = [job EXCEPT !.k = n]
    BY <1>4 DEF EarlyKill, EarlyWrite, NextRound
  <2>2. job'.by = job.by /\ job'.kind = job.kind
    BY <1>1, <2>1 DEF Job
  <2> QED
    BY <2>1, <2>2 DEF SpeakerInv, Speaks
<1> QED
  BY <1>2, <1>3, <1>4 DEF EarlyOwn

LEMMA OwnMaps ==
    ASSUME EInv, SpeakerInv, EarlyOwn
    PROVE  P!PromiseStep \/ UNCHANGED P!promiseVars
<1>1. UNCHANGED <<active_children, room_info>>
  BY OwnKeepsTables
<1>2. CASE UNCHANGED toChild
  BY <1>1, <1>2, MembersAre DEF RoomNames, P!promiseVars
<1>3. CASE EarlyIgnores \/ EarlyMalformed \/ EarlyBroadcast \/ EarlyKill
           \/ EarlyBroken
  BY <1>2, <1>3 DEF EarlyIgnores, EarlyMalformed, EarlyDrop, EarlyUnheard,
     EarlyBroadcast, EarlyKill, EarlyBroken, Dies, TakeLine, noProcessStep,
     unchangedByParent
<1>4. CASE EarlyWrite /\ toChild' # toChild
  <2>1. /\ toChild \in [Pid -> Seq(Payload)] /\ pc = "signal" /\ IInv
        /\ job.k <= JobEnd /\ Hit(job.k)
    BY <1>4 DEF EInv, IInv, TypeOK, JobInv, BroadcastInv, EarlyWrite
  <2>2. RoundTells
    BY <1>1, <1>4, EarlyWriteFacts DEF RoundTells
  <2> QED
    BY <2>1, <2>2, ToldMaps DEF P!PromiseStep
<1> QED
  BY <1>2, <1>3, <1>4 DEF EarlyOwn

\* ex.c is to its clients what ChatPromise says, as server.c is: it knows
\* fewer commands and signals before it writes (ex.c:448-451); ChatPromise
\* does not tell them apart, since it does not say when a line is read.
THEOREM EarlyPromiseCorrect == EarlySpec => PromiseKept
<1>1. Init => SpeakerInv /\ P!PromiseInit
  BY PromiseStarts
<1>2. EInv /\ EInv' /\ SpeakerInv /\ [EarlyNext]_vars =>
          SpeakerInv' /\ [P!PromiseNext]_(P!promiseVars)
  <2> SUFFICES ASSUME EInv, EInv', SpeakerInv, [EarlyNext]_vars
               PROVE  SpeakerInv' /\ (P!PromiseStep \/ UNCHANGED P!promiseVars)
    BY DEF P!PromiseNext
  <2>1. CASE [Next]_vars
    BY <2>1, SpeakerNext, ChatStepMaps DEF EInv
  <2>2. CASE EarlyOwn
    BY <2>2, OwnSpeaks, OwnMaps
  <2> QED
    BY <2>1, <2>2, SharedOrOwn
<1> QED
  BY <1>1, <1>2, EarlyInductive, PTL DEF EarlySpec, PromiseKept, P!Promise

-----------------------------------------------------------------------------
(* Order.                                                                  *)

\* Between kill() and write() the round has written nothing yet.
NotYetWritten == pc = "signal" => RoundUnwritten

EOInv == OInv /\ NotYetWritten

LEMMA OwnOrdered ==
    ASSUME EInv, EInv', EOInv, EarlyOwn
    PROVE  EOInv'
<1>1. /\ IInv /\ IInv' /\ OInv /\ job \in Job
      /\ toParent \in [Pid -> Seq(Message)] /\ toChild \in [Pid -> Seq(Payload)]
      /\ cpc \in [Pid -> ChildPc] /\ lines \in Nat
  BY DEF EInv, EOInv, IInv, TypeOK
<1>2. \A p \in Pid : Rest(toParent[p], toParent[p]) /\ Rest(toChild[p], toChild[p])
  BY <1>1, RestFacts
<1>3. CASE EarlyIgnores \/ EarlyBroadcast
  <2>1. /\ TakeLine /\ pc' \in {"scan", "deliver"}
        /\ pc' # "scan" => /\ job'.no = FirstLine.no /\ job'.by = scan
                           /\ UNCHANGED active_children
    BY <1>3 DEF EarlyIgnores, EarlyDrop, EarlyUnheard, EarlyBroadcast,
       TakeLine, ReadPipe, Updates, Starts
  <2>2. OInv'
    BY <1>1, <2>1, LineOrdered
  <2> QED
    BY <2>1, <2>2 DEF EOInv, NotYetWritten
<1>4. ASSUME UNCHANGED <<lines, toChild, toParent, held>>,
             \A p \in Pid : cpc'[p] \in {"kill", "write"} => cpc'[p] = cpc[p],
             Looping' =>
               /\ Looping /\ UNCHANGED active_children
               /\ job'.by = job.by /\ job'.no = job.no /\ job'.kind = job.kind
               /\ job.k <= job'.k
               /\ pc = "signal" /\ pc' # "signal" => job.k < job'.k
      PROVE  OInv'
  <2>1. \A p \in Pid : Rest(toParent[p], toParent'[p]) /\ Rest(toChild[p], toChild'[p])
    BY <1>2, <1>4
  <2> QED
    BY <1>1, <1>4, <2>1, OrderFrame
<1>8. CASE EarlyMalformed
  <2>1. /\ EntryPid \in Pid /\ UNCHANGED <<lines, cpc, held, toChild>>
        /\ toParent' = [toParent EXCEPT ![EntryPid] =
                             AfterRead(toParent[EntryPid])]
        /\ ~Looping' /\ pc' # "signal"
    BY <1>8, MalformedForms DEF Looping, noProcessStep, unchangedByParent
  <2>2. \A p \in Pid : Rest(toParent[p], AfterRead(toParent[p]))
    BY <1>1, RestFacts
  <2>3. \A p \in Pid : Rest(toParent[p], toParent'[p]) /\ Rest(toChild[p], toChild'[p])
    BY <1>1, <1>2, <2>1, <2>2
  <2>4. OInv'
    BY <1>1, <2>1, <2>3, OrderFrame
  <2> QED
    BY <2>1, <2>4 DEF EOInv, NotYetWritten
<1>5. CASE EarlyBroken
  <2>1. /\ UNCHANGED <<lines, toChild, toParent, held>> /\ ~Looping'
        /\ pc' # "signal"
    BY <1>5 DEF EarlyBroken, Dies, Looping, unchangedByParent
  <2>2. \A p \in Pid : cpc'[p] \in {"kill", "write"} => cpc'[p] = cpc[p]
    BY <1>1, <1>5 DEF EarlyBroken, Dies
  <2> QED
    BY <1>4, <2>1, <2>2 DEF EOInv, NotYetWritten
<1>6. CASE EarlyKill
  <2>1. /\ UNCHANGED <<lines, toChild, toParent, held, cpc, job, active_children>>
        /\ pc = "deliver" /\ pc' = "signal"
    BY <1>6 DEF EarlyKill
  <2>2. OInv'
    BY <1>1, <1>4, <2>1 DEF Looping, Job
  <2>3. RoundUnwritten
    BY <1>1, <2>1 DEF OInv, RoundsBehind, RoundUnwritten, Looping
  <2>4. Worker' = Worker
    BY <2>1 DEF Worker
  <2>5. RoundUnwritten'
    BY <2>1, <2>3, <2>4 DEF RoundUnwritten
  <2> QED
    BY <2>2, <2>5 DEF EOInv, NotYetWritten
<1>7. CASE EarlyWrite
  <2>1. /\ UNCHANGED <<lines, toParent, held, cpc, active_children>>
        /\ pc = "signal" /\ pc' = "deliver" /\ NextRound /\ RoundUnwritten
        /\ Looping /\ Looping' /\ job.k <= JobEnd
    BY <1>1, <1>7 DEF EarlyWrite, EOInv, NotYetWritten, Looping, IInv, JobInv
  <2>2. /\ job.k < job'.k /\ job'.by = job.by /\ job'.no = job.no
        /\ job'.kind = job.kind
    BY <1>1, <2>1, RoundsGoUp
  <2>3. CASE UNCHANGED toChild
    <3>1. job'.k \in Nat /\ job.k \in Nat
      BY <1>1 DEF IInv, TypeOK, Job
    <3>2. OInv'
      BY <1>4, <2>1, <2>2, <2>3, <3>1
    <3> QED
      BY <2>1, <3>2 DEF EOInv, NotYetWritten
  <2>4. CASE toChild' # toChild
    <3>1. \E n \in Nat \ {0} :
              toChild' = [toChild EXCEPT ![Target] =
                              toChild[Target] \o Pieces(Answer, n)]
      BY <1>7, <2>4, EarlyWriteFacts
    <3>3. RoundWrites
      BY <2>1, <2>2, <3>1 DEF RoundWrites
    <3>2. OInv'
      BY <1>1, <2>1, <3>3, AppendOrdered
    <3> QED
      BY <2>1, <3>2 DEF EOInv, NotYetWritten
  <2> QED
    BY <2>3, <2>4
<1> QED
  BY <1>3, <1>5, <1>6, <1>7, <1>8 DEF EarlyOwn

\* While the parent is between kill() and write(), the others only read.
LEMMA SharedOrdered ==
    ASSUME EInv, EInv', EOInv, Shared \/ UNCHANGED vars
    PROVE  EOInv'
<1>1. OInv'
  BY SharedIsNext, OrderedNext DEF EInv, EOInv
<1>2. /\ toChild \in [Pid -> Seq(Payload)]
      /\ toChild' \in [Pid -> Seq(Payload)]
  BY DEF EInv, IInv, TypeOK
<1>3. ASSUME pc' = "signal"
      PROVE  /\ pc = "signal" /\ UNCHANGED <<job, active_children>>
             /\ \A q \in Pid :
                    toChild'[q] \in {toChild[q], <<>>, AfterRead(toChild[q])}
  <2>1. CASE UNCHANGED vars
    BY <1>3, <2>1 DEF vars, parentVars, pipeVars
  <2>2. ASSUME NEW p \in Pid, EarlyChild(p)
        PROVE  /\ pc = "signal" /\ UNCHANGED <<job, active_children>>
               /\ \A q \in Pid :
                      toChild'[q] \in {toChild[q], <<>>, AfterRead(toChild[q])}
    <3>1. Child(p)
      BY <2>2 DEF EarlyChild, EarlySetup, EarlyFromParent, EarlyFromClient,
         EarlyExit, Child
    <3>2. pc = "signal" /\ UNCHANGED <<job, active_children>>
      BY <1>3, <3>1 DEF Child, ChildSetup, ChildClearFlag, ChildNoFlag, ChildRelay,
         ChildReadNothing, ChildIdle, ChildReadEof, ChildReadLine,
         ChildSignalParent, ChildWrite, ChildBrokenPipe, ChildExit,
         ChildTerminated, unchangedByChild, parentVars
    <3>3. \A q \in Pid : toChild'[q] \in {toChild[q], <<>>, AfterRead(toChild[q])}
      BY <1>2, <3>1 DEF Child, ChildSetup, ChildClearFlag, ChildNoFlag,
         ChildRelay, ChildReadNothing, ChildIdle, ChildReadEof, ChildReadLine,
         ChildSignalParent, ChildWrite, ChildBrokenPipe, ChildExit,
         ChildTerminated, Die
    <3> QED
      BY <3>2, <3>3
  <2>3. CASE Shared /\ ~\E p \in Pid : EarlyChild(p)
    BY <1>3, <2>3 DEF Shared, EarlyTop, EarlyReap, EarlyAccept, EarlyConnect,
       EarlyScan, EarlyAdd, EarlyJoin, EarlyName, EarlyRest, EarlyShutdown,
       TopOfLoop, ClearExited, ReapDone, Reap, AcceptIdle, AcceptScan,
       AcceptError, AcceptRefuse, AddChild, AcceptFork, ScanDone, ScanEmpty,
       HandleAdd, HandleJoin, HandleName, HandleRest, TakeLine, ReadPipe,
       Updates, SkipRound, DeliverDone, TermChild, TermDone, WaitDone, WaitChild
  <2> QED
    BY <2>1, <2>2, <2>3
<1>4. ASSUME pc' = "signal" PROVE RoundUnwritten'
  <2>1. /\ RoundUnwritten /\ job' = job /\ active_children' = active_children
        /\ Worker' = Worker
    BY <1>3, <1>4 DEF EOInv, NotYetWritten, Worker
  <2>2. ASSUME NEW q \in Pid, NEW j \in 1..Len(toChild'[q])
        PROVE  \E i \in 1..Len(toChild[q]) : toChild'[q][j] = toChild[q][i]
    <3>1. CASE toChild'[q] = toChild[q]
      BY <3>1
    <3>2. CASE toChild'[q] = <<>>
      BY <3>2, EmptySeq
    <3>3. CASE toChild'[q] = AfterRead(toChild[q])
      BY <1>2, <3>3, AfterReadFacts
    <3> QED
      BY <1>3, <1>4, <3>1, <3>2, <3>3
  <2> QED
    BY <2>1, <2>2 DEF RoundUnwritten
<1> QED
  BY <1>1, <1>4 DEF EOInv, NotYetWritten

\* In ex.c too a client gets the lines of another in the order in which they
\* were typed and none twice (ex.c:381-388, 442-451), although the signal for
\* a line runs ahead of it.
THEOREM EarlyOrderCorrect == EarlySpec => []InOrder
<1>1. Init => EOInv
  BY OrderedInit DEF EOInv, NotYetWritten, Init
<1>2. EInv /\ EInv' /\ EOInv /\ [EarlyNext]_vars => EOInv'
  <2>1. EarlyNext => Shared \/ EarlyOwn
    BY DEF EarlyNext, EarlyParent, EarlyDeliver, Shared, EarlyOwn, EarlyIgnores
  <2> QED
    BY <2>1, SharedOrdered, OwnOrdered
<1>3. EOInv => InOrder
  BY DEF EOInv, OInv
<1> QED
  BY <1>1, <1>2, <1>3, EarlyInductive, PTL DEF EarlySpec

-----------------------------------------------------------------------------
(* Handlers.                                                               *)

LEMMA OwnAddressed ==
    ASSUME EInv, AInv, EarlyOwn
    PROVE  AInv'
<1>1. /\ IInv /\ LinesTyped /\ StartIsMute /\ LoopAddressed /\ job \in Job
      /\ toParent \in [Pid -> Seq(Message)] /\ cpc \in [Pid -> ChildPc]
      /\ active_children \in Seq(Entry)
      /\ UNCHANGED <<held, active_children, room_info>>
  BY OwnKeepsTables DEF EInv, AInv, IInv, TypeOK, EarlyOwn, EarlyIgnores,
     EarlyMalformed, EarlyDrop, EarlyUnheard, EarlyBroadcast, EarlyKill,
     EarlyWrite, EarlyBroken, Dies, TakeLine, noProcessStep, unchangedByParent
<1>2. ASSUME NEW k \in 1..Len(active_children)
      PROVE  active_children[k].pid \in Pid
  <2>1. active_children[k] \in Entry
    BY <1>1, ElementOfSeq
  <2> QED
    BY <2>1 DEF Entry
<1>3. ASSUME UNCHANGED toParent,
             \A p \in Pid : cpc'[p] \in {"start", "kill", "write"} => cpc'[p] = cpc[p]
      PROVE  LinesTyped' /\ StartIsMute'
  <2>1. LinesTyped'
    BY <1>1, <1>3 DEF LinesTyped
  <2>2. StartIsMute'
    BY <1>1, <1>2, <1>3 DEF StartIsMute
  <2> QED
    BY <2>1, <2>2
<1>4. CASE EarlyIgnores \/ EarlyMalformed \/ EarlyBroadcast
  <2>1. ReadPipe /\ UNCHANGED cpc /\ pc = "scan"
    BY <1>4 DEF EarlyIgnores, EarlyMalformed, EarlyDrop, EarlyUnheard,
       EarlyBroadcast, TakeLine, ReadPipe, noProcessStep
  <2>2. /\ EntryPid \in Pid /\ cpc[EntryPid] # "start"
        /\ scan \in 1..Len(active_children) /\ EntryPid = active_children[scan].pid
        /\ toParent' = [toParent EXCEPT ![EntryPid] = AfterRead(toParent[EntryPid])]
    BY <1>1, <2>1, ReadPipeFacts DEF EntryPid, StartIsMute
  <2>3. \A k \in 1..Len(AfterRead(toParent[EntryPid])) :
            \E i \in 1..Len(toParent[EntryPid]) :
                AfterRead(toParent[EntryPid])[k] = toParent[EntryPid][i]
    <3>1. toParent[EntryPid] \in Seq(Message)
      BY <1>1, <2>2
    <3> QED
      BY <3>1, AfterReadFacts
  <2>4. LinesTyped'
    <3>1. \A p \in Pid : cpc'[p] \in {"kill", "write"} => held'[p].content \in Inputs
      <4>1. held' = held /\ cpc' = cpc /\ LinesTyped
        BY <1>1, <2>1
      <4> QED
        BY <4>1 DEF LinesTyped
    <3>2. \A p \in Pid : \A k \in 1..Len(toParent'[p]) :
              toParent'[p][k].content \in Inputs
      <4>1. SUFFICES ASSUME NEW p \in Pid, NEW k \in 1..Len(toParent'[p])
                     PROVE  toParent'[p][k].content \in Inputs
        OBVIOUS
      <4>2. CASE p = EntryPid
        <5>1. toParent'[p] = AfterRead(toParent[EntryPid])
          BY <1>1, <2>1, <2>2, <4>2
        <5>2. PICK i \in 1..Len(toParent[EntryPid]) :
                  toParent'[p][k] = toParent[EntryPid][i]
          BY <2>3, <4>1, <5>1
        <5> QED
          BY <1>1, <2>2, <5>2 DEF LinesTyped
      <4>3. CASE p # EntryPid
        <5>1. toParent'[p] = toParent[p]
          BY <1>1, <2>1, <2>2, <4>3
        <5> QED
          BY <1>1, <4>1, <5>1 DEF LinesTyped
      <4> QED
        BY <4>2, <4>3
    <3> QED
      BY <3>1, <3>2 DEF LinesTyped
  <2>5. StartIsMute'
    BY <1>1, <1>2, <2>1, <2>2 DEF StartIsMute
  <2>6. LoopAddressed'
    <3>1. CASE EarlyIgnores \/ EarlyMalformed
      BY <2>1, <3>1 DEF EarlyIgnores, EarlyMalformed, EarlyDrop, EarlyUnheard,
         Updates, LoopAddressed
    <3>2. CASE EarlyBroadcast
      <4> DEFINE j == [kind |-> "broadcast", by |-> scan, to |-> NoName,
                       no |-> FirstLine.no, k |-> 1]
      <4>1. job' = j /\ pc' = "deliver" /\ active_children[scan].room # Blank
        BY <3>2 DEF EarlyBroadcast, Starts
      <4>2. Addressed(j)
        BY <2>2, <4>1 DEF Addressed
      <4> QED
        BY <1>1, <2>1, <4>1, <4>2 DEF LoopAddressed, Addressed
    <3> QED
      BY <1>4, <3>1, <3>2
  <2> QED
    BY <2>4, <2>5, <2>6 DEF AInv
<1>5. CASE EarlyBroken
  <2>1. LinesTyped' /\ StartIsMute'
    BY <1>1, <1>3, <1>5 DEF EarlyBroken, Dies
  <2> QED
    BY <1>5, <2>1 DEF EarlyBroken, Dies, AInv, LoopAddressed
<1>6. CASE EarlyKill \/ EarlyWrite
  <2>1. /\ UNCHANGED <<cpc, toParent>> /\ pc \in {"deliver", "signal"}
        /\ UNCHANGED job \/ \E n : job' = [job EXCEPT !.k = n]
        /\ pc' = "signal" => UNCHANGED job /\ Hit(job.k)
    BY <1>6 DEF EarlyKill, EarlyWrite, NextRound
  <2>2. job'.by = job.by /\ job'.kind = job.kind /\ job'.to = job.to
    BY <1>1, <2>1 DEF Job
  <2>3. Addressed(job)'
    BY <1>1, <2>1, <2>2 DEF LoopAddressed, Addressed
  <2>4. pc' = "signal" => Hit(job.k)'
    BY <1>1, <2>1 DEF Hit
  <2> QED
    BY <1>3, <2>1, <2>3, <2>4 DEF AInv, LoopAddressed
<1> QED
  BY <1>4, <1>5, <1>6 DEF EarlyOwn

\* The kill() of ex.c too finds the handler of the child installed
\* (ex.c:172, 448): only who is in a room is signalled, and who is in one has
\* spoken.
THEOREM EarlySignalCorrect == EarlySpec => []SignalFindsHandler
<1>1. Init => AInv
  BY AInvInit
<1>2. EInv /\ AInv /\ [EarlyNext]_vars => AInv'
  BY SharedOrOwn, OwnAddressed, LinesTypedNext, StartIsMuteNext, LoopAddressedNext
     DEF AInv, EInv
<1>3. EInv /\ AInv => SignalFindsHandler
  BY TargetHasHandler DEF SignalFindsHandler, Unready, EInv, IInv, JobInv, BroadcastInv
<1> QED
  BY <1>1, <1>2, <1>3, EarlyInductive, PTL DEF EarlySpec
=============================================================================
