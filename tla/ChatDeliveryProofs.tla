------------------------- MODULE ChatDeliveryProofs -------------------------
(***************************************************************************)
(* What the parent's write loops and kill() do to the children of          *)
(* ChatServer: a signal finds the handler installed, and what is written   *)
(* is announced. Then what all of it is to the clients: ChatPromise.       *)
(***************************************************************************)
EXTENDS ChatServerProofs

\* The lines on their way to the parent are lines a client typed.
LinesTyped ==
    /\ \A p \in Pid : cpc[p] \in {"kill", "write"} => held[p].content \in Inputs
    /\ \A p \in Pid : \A k \in 1..Len(toParent[p]) :
           toParent[p][k].content \in Inputs

\* A child that has no handler yet has said nothing, so it has no name and
\* is in no room.
StartIsMute ==
    /\ \A p \in Pid : cpc[p] = "start" => toParent[p] = <<>>
    /\ \A k \in 1..Len(active_children) :
           cpc[active_children[k].pid] = "start" =>
               /\ active_children[k].name = NoName
               /\ active_children[k].room = Blank

\* A write loop works for a child that has spoken; a whisper looks for a
\* name that is not empty unless it came without one, a broadcast for a room
\* that is not.
Addressed(j) ==
    /\ cpc[active_children[j.by].pid] # "start"
    /\ j.kind = "whisper" => BareWhisper \/ j.to # NoName
    /\ j.kind = "broadcast" => active_children[j.by].room # Blank
LoopAddressed ==
    /\ pc \in {"deliver", "signal"} => Addressed(job)
    /\ pc = "signal" => Hit(job.k)

AInv == LinesTyped /\ StartIsMute /\ LoopAddressed

-----------------------------------------------------------------------------
\* The commands leave a nameless, roomless entry of a silent child as it is.
KeepsMute(list) ==
    \A k \in 1..Len(active_children) :
        cpc[active_children[k].pid] = "start" =>
            list[k].name = NoName /\ list[k].room = Blank

LEMMA SenderHasSpoken ==
    ASSUME IInv, AInv, TakeLine
    PROVE  /\ scan \in 1..Len(active_children) /\ Sender = scan
           /\ active_children[scan] \in Entry
           /\ cpc[active_children[scan].pid] # "start"
           /\ FirstLine.content \in Inputs
<1>1. /\ scan \in 1..Len(active_children) /\ Sender = scan /\ EntryPid \in Pid
      /\ active_children \in Seq(Entry) /\ toParent[EntryPid] \in Seq(Message)
      /\ toParent[EntryPid] # <<>>
  BY SenderFound DEF TakeLine, ReadPipe, IInv, TypeOK
<1>2. active_children[scan] \in Entry
  BY <1>1, ElementOfSeq
<1>3. cpc[EntryPid] # "start"
  BY <1>1 DEF AInv, StartIsMute
<1>4. 1 \in 1..Len(toParent[EntryPid]) /\ FirstLine = toParent[EntryPid][1]
  BY <1>1, HeadTailProperties, EmptySeq DEF FirstLine
<1> QED
  BY <1>1, <1>2, <1>3, <1>4 DEF EntryPid, AInv, LinesTyped

\* What a command does: it updates the tables, or starts a write loop.
LEMMA HandleAddressed ==
    ASSUME IInv, AInv, Handle
    PROVE  /\ TakeLine
           /\ \/ \E list, rooms : /\ KeepsPids(list) /\ KeepsMute(list)
                                  /\ Updates(list, rooms)
              \/ \E j \in Job : j.by = scan /\ Addressed(j) /\ Starts(j)
<1>1. TakeLine
  BY HandleForms
<1>2. /\ scan \in 1..Len(active_children) /\ Sender = scan /\ Arg \in Word
      /\ FirstLine.content \in Content /\ FirstLine.no \in Nat /\ Cmd \in Kind
      /\ cpc[active_children[scan].pid] # "start"
      /\ FirstLine.content \in Inputs
  BY <1>1, SenderFound, SenderHasSpoken DEF TakeLine, ReadPipe
<1>3. /\ active_children \in Seq(Entry) /\ Blank \in Word /\ NoName \in Content
      /\ scan \in Nat
  BY NullTypes DEF IInv, TypeOK, Word
<1>4. KeepsPids(active_children) /\ KeepsMute(active_children)
  BY <1>3 DEF KeepsPids, KeepsMute, AInv, StartIsMute
<1>5. ASSUME NEW r \in Word
      PROVE  /\ KeepsPids(MoveTo(active_children, scan, r))
             /\ KeepsMute(MoveTo(active_children, scan, r))
  <2> DEFINE list == MoveTo(active_children, scan, r)
  <2>1. /\ list \in Seq(Entry) /\ Len(list) = Len(active_children)
        /\ \A j \in 1..Len(active_children) :
               /\ list[j].pid = active_children[j].pid
               /\ list[j].name = active_children[j].name
               /\ list[j].room = IF j = scan THEN r ELSE active_children[j].room
    BY <1>2, <1>3, MoveToFacts
  <2> QED
    BY <1>2, <1>4, <2>1 DEF KeepsPids, KeepsMute
<1>6. KeepsPids(Evict(active_children, Arg)) /\ KeepsMute(Evict(active_children, Arg))
  <2> DEFINE list == Evict(active_children, Arg)
  <2>1. /\ list \in Seq(Entry) /\ Len(list) = Len(active_children)
        /\ \A j \in 1..Len(active_children) :
               /\ list[j].pid = active_children[j].pid
               /\ list[j].name = active_children[j].name
               /\ list[j].room \in {active_children[j].room, Blank}
    BY <1>2, <1>3, EvictFacts
  <2> QED
    BY <1>4, <2>1 DEF KeepsPids, KeepsMute
<1>7. /\ KeepsPids(Rename(active_children, scan, FirstLine.content))
      /\ KeepsMute(Rename(active_children, scan, FirstLine.content))
  <2> DEFINE list == Rename(active_children, scan, FirstLine.content)
  <2>1. /\ list \in Seq(Entry) /\ Len(list) = Len(active_children)
        /\ \A j \in 1..Len(active_children) :
               /\ list[j].pid = active_children[j].pid
               /\ list[j].room = active_children[j].room
               /\ list[j].name = IF j = scan THEN FirstLine.content
                                 ELSE active_children[j].name
    BY <1>2, <1>3, RenameFacts
  <2> QED
    BY <1>2, <1>4, <2>1 DEF KeepsPids, KeepsMute
<1>8. CASE HandleAdd \/ HandleUnknown \/ HandleNothing
  BY <1>1, <1>4, <1>8 DEF HandleAdd, HandleUnknown, HandleNothing
<1>9. CASE HandleJoin \/ HandleLeave
  BY <1>1, <1>2, <1>3, <1>5, <1>9 DEF HandleJoin, HandleLeave
<1>10. CASE HandleRm
  BY <1>1, <1>6, <1>10 DEF HandleRm
<1>11. CASE HandleName
  BY <1>1, <1>7, <1>11 DEF HandleName
<1>12. CASE HandleQuery
  <2> DEFINE j == [kind |-> Cmd, by |-> Sender, to |-> NoName,
                   no |-> FirstLine.no, k |-> 1]
  <2>1. Starts(j) /\ Cmd \in {"list", "users"}
    BY <1>2, <1>3, <1>12 DEF HandleQuery
  <2>2. j \in Job /\ j.by = scan /\ Addressed(j)
    BY <1>2, <1>3, <2>1 DEF Job, JobKind, Addressed
  <2> QED
    BY <1>1, <2>1, <2>2
<1>13. CASE HandleWhisper
  <2>1. Cmd = "whisper" /\ Sender # 0
    BY <1>2, <1>13 DEF HandleWhisper
  <2>2. PICK w \in IF Arg # Blank THEN {Arg} ELSE Word :
            Starts([kind |-> "whisper", by |-> Sender, no |-> FirstLine.no,
                    to |-> [kind |-> "text", arg |-> w], k |-> 1])
    BY <1>13, <2>1, Zenon DEF HandleWhisper
  <2> DEFINE j == [kind |-> "whisper", by |-> Sender, no |-> FirstLine.no,
                   to |-> [kind |-> "text", arg |-> w], k |-> 1]
  <2>3. w \in Word /\ [kind |-> "text", arg |-> w] \in Content
    BY <1>2, <2>2 DEF Content, Kind
  <2>4. j \in Job /\ j.by = scan
    BY <1>2, <1>3, <2>3 DEF Job, JobKind
  <2>5. BareWhisper \/ j.to # NoName
    <3>1. CASE Arg # Blank
      BY <2>2, <3>1 DEF NoName
    <3>2. CASE Arg = Blank
      BY <1>2, <2>1, <3>2 DEF BareWhisper, Cmd, Arg
    <3> QED
      BY <3>1, <3>2
  <2>6. Addressed(j)
    BY <1>2, <2>5 DEF Addressed
  <2> QED
    BY <1>1, <2>2, <2>4, <2>6
<1>14. CASE HandleBroadcast
  <2> DEFINE j == [kind |-> "broadcast", by |-> scan, to |-> NoName,
                   no |-> FirstLine.no, k |-> 1]
  <2>1. j \in Job /\ j.by = scan /\ Starts(j)
    BY <1>2, <1>3, <1>14 DEF HandleBroadcast, Job, JobKind
  <2>2. Addressed(j)
    BY <1>2, <1>14 DEF HandleBroadcast, Addressed
  <2> QED
    BY <1>1, <2>1, <2>2
<1> QED
  BY <1>8, <1>9, <1>10, <1>11, <1>12, <1>13, <1>14 DEF Handle

-----------------------------------------------------------------------------
\* A line is typed by the client, kept in `held` and written to the pipe.
LEMMA LinesTypedNext == IInv /\ AInv /\ [Next]_vars => LinesTyped'
<1> SUFFICES ASSUME IInv, AInv, [Next]_vars PROVE LinesTyped'
  OBVIOUS
<1> USE DEF LinesTyped
<1>1. /\ LinesTyped /\ toParent \in [Pid -> Seq(Message)]
      /\ cpc \in [Pid -> ChildPc] /\ held \in [Pid -> Line]
  BY DEF AInv, IInv, TypeOK
<1>2. ASSUME \A p \in Pid :
                 cpc'[p] \in {"kill", "write"} =>
                     cpc[p] \in {"kill", "write"} /\ held'[p] = held[p],
             \/ UNCHANGED toParent
             \/ \E p \in Pid : toParent' = [toParent EXCEPT ![p] = <<>>]
             \/ \E p \in Pid : toParent' = [toParent EXCEPT ![p] =
                                                AfterRead(toParent[p])]
      PROVE  LinesTyped'
  <2>1. \A p \in Pid : cpc'[p] \in {"kill", "write"} => held'[p].content \in Inputs
    BY <1>1, <1>2
  <2>2. CASE UNCHANGED toParent
    BY <1>1, <2>1, <2>2
  <2>3. ASSUME NEW p \in Pid, toParent' = [toParent EXCEPT ![p] = <<>>]
        PROVE  LinesTyped'
    BY <1>1, <2>1, <2>3
  <2>4. ASSUME NEW p \in Pid,
               toParent' = [toParent EXCEPT ![p] = AfterRead(toParent[p])]
        PROVE  LinesTyped'
    <3>1. \A k \in 1..Len(AfterRead(toParent[p])) :
              \E j \in 1..Len(toParent[p]) :
                  AfterRead(toParent[p])[k] = toParent[p][j]
      BY <1>1, AfterReadFacts
    <3> QED
      BY <1>1, <2>1, <2>4, <3>1
  <2> QED
    BY <1>2, <2>2, <2>3, <2>4
<1>3. ASSUME NEW p \in Pid, NEW c \in Inputs, ChildReadLine(p, c)
      PROVE  LinesTyped'
  <2>1. held'[p].content = c /\ \A q \in Pid \ {p} : held'[q] = held[q]
    BY <1>1, <1>3 DEF ChildReadLine
  <2>2. UNCHANGED toParent /\ \A q \in Pid \ {p} : cpc'[q] = cpc[q]
    BY <1>1, <1>3 DEF ChildReadLine
  <2> QED
    BY <1>1, <2>1, <2>2
<1>4. ASSUME NEW p \in Pid, ChildWrite(p)
      PROVE  LinesTyped'
  <2>1. held[p].content \in Inputs
    BY <1>1, <1>4 DEF ChildWrite
  <2>2. PICK n \in Nat :
            /\ toParent' = [toParent EXCEPT ![p] =
                                toParent[p] \o Pieces(Formatted(p), n)]
            /\ Len(toParent[p]) \in Nat
            /\ Len(toParent'[p]) = Len(toParent[p]) + n
            /\ \A k \in 1..Len(toParent[p]) : toParent'[p][k] = toParent[p][k]
            /\ \A k \in 1..n :
                   toParent'[p][Len(toParent[p]) + k] =
                       [pid |-> p, no |-> held[p].no,
                        content |-> held[p].content, part |-> k]
    BY <1>4, ChildWriteFacts
  <2>3. ASSUME NEW k \in 1..Len(toParent'[p])
        PROVE  toParent'[p][k].content \in Inputs
    <3> DEFINE i == k - Len(toParent[p])
    <3>1. CASE k \in 1..Len(toParent[p])
      BY <1>1, <2>2, <3>1
    <3>2. CASE k \notin 1..Len(toParent[p])
      <4>1. i \in 1..n /\ k = Len(toParent[p]) + i
        BY <2>2, <3>2
      <4> HIDE DEF i
      <4>2. toParent'[p][k] = [pid |-> p, no |-> held[p].no,
                               content |-> held[p].content, part |-> i]
        BY <2>2, <4>1
      <4> QED
        BY <2>1, <4>2
    <3> QED
      BY <3>1, <3>2
  <2>4. \A q \in Pid \ {p} : toParent'[q] = toParent[q]
    BY <1>1, <2>2
  <2>6. \A q \in Pid : cpc'[q] \in {"kill", "write"} =>
            cpc[q] \in {"kill", "write"} /\ held'[q] = held[q]
    BY <1>1, <1>4 DEF ChildWrite
  <2> QED
    BY <1>1, <2>3, <2>4, <2>6
<1>5. ASSUME NEW p \in Pid, Child(p)
      PROVE  LinesTyped'
  <2>1. CASE \/ ChildSetup(p) \/ ChildClearFlag(p) \/ ChildNoFlag(p)
             \/ ChildRelay(p) \/ ChildReadNothing(p)
             \/ ChildIdle(p) \/ ChildReadEof(p) \/ ChildSignalParent(p)
    BY <1>1, <1>2, <2>1 DEF ChildSetup, ChildClearFlag, ChildNoFlag, ChildRelay,
       ChildReadNothing, ChildIdle, ChildReadEof, ChildSignalParent
  <2>2. CASE ChildBrokenPipe(p) \/ ChildExit(p) \/ ChildTerminated(p)
    BY <1>1, <1>2, <2>2 DEF ChildBrokenPipe, ChildExit, ChildTerminated, Die
  <2> QED
    BY <1>3, <1>4, <1>5, <2>1, <2>2 DEF Child
<1>6. CASE Handle
  <2>1. TakeLine
    BY <1>6, HandleForms
  <2> QED
    BY <1>2, <2>1, ReadPipeFacts
       DEF TakeLine, noProcessStep, unchangedByParent
<1>9. CASE Misread
  BY <1>2, <1>9, MisreadForms
<1>7. CASE Parent /\ ~Handle /\ ~Misread
  <2>1. \A p \in Pid : cpc'[p] \in {"kill", "write"} => cpc[p] \in {"kill", "write"}
    BY <1>1, <1>7 DEF Parent, Handle, Misread, TopOfLoop, Reap, ReapDone,
       ClearExited, AcceptIdle, AcceptScan, AcceptError, AcceptRefuse,
       AcceptFork, AddChild, WaitChild, ScanDone, ScanEmpty, SkipRound,
       DeliverWrite, DeliverBroken, Dies, DeliverSignal, DeliverDone, TermChild,
       TermDone, WaitDone, noProcessStep
  <2>2. UNCHANGED held
    BY <1>7 DEF Parent, Handle, Misread, TopOfLoop, Reap, ReapDone,
       ClearExited, AcceptIdle, AcceptScan, AcceptError, AcceptRefuse,
       AcceptFork, AddChild, WaitChild, ScanDone, ScanEmpty, SkipRound,
       DeliverWrite, DeliverBroken, Dies, DeliverSignal, DeliverDone, TermChild,
       TermDone, WaitDone, noProcessStep, unchangedByParent
  <2>3. \/ UNCHANGED toParent
        \/ \E p \in Pid : toParent' = [toParent EXCEPT ![p] = <<>>]
    BY <1>7 DEF Parent, Handle, Misread, TopOfLoop, Reap, ReapDone,
       ClearExited, AcceptIdle, AcceptScan, AcceptError, AcceptRefuse,
       AcceptFork, AddChild, WaitChild, ScanDone, ScanEmpty, SkipRound,
       DeliverWrite, DeliverBroken, Dies, DeliverSignal, DeliverDone, TermChild,
       TermDone, WaitDone
  <2> QED
    BY <1>2, <2>1, <2>2, <2>3
<1>8. CASE UNCHANGED vars
  BY <1>2, <1>8 DEF vars, childVars, pipeVars
<1> QED
  BY <1>5, <1>6, <1>7, <1>8, <1>9 DEF Next

-----------------------------------------------------------------------------
\* The steps of the parent that are no command and change no table.
Plain ==
    \/ TopOfLoop \/ ReapDone \/ ClearExited \/ AcceptIdle \/ AcceptScan
    \/ AcceptError \/ AcceptRefuse \/ ScanDone \/ ScanEmpty \/ SkipRound
    \/ DeliverWrite \/ DeliverBroken \/ DeliverSignal \/ DeliverDone
    \/ TermChild \/ TermDone \/ WaitDone \/ \E p \in Pid : WaitChild(p)

\* Only fork() makes a child that has no handler.
OnlyForkStarts == \A p \in Pid : cpc'[p] = "start" => cpc[p] = "start"

LEMMA StartsByFork ==
    ASSUME IInv,
           \/ \E p \in Pid : Child(p) \/ Reap(p)
           \/ Handle \/ Misread \/ Plain \/ AddChild \/ UNCHANGED vars
    PROVE  OnlyForkStarts
<1> USE DEF OnlyForkStarts
<1>1. cpc \in [Pid -> ChildPc]
  BY DEF IInv, TypeOK
<1>2. ASSUME NEW p \in Pid, Child(p)
      PROVE  OnlyForkStarts
  BY <1>1, <1>2 DEF Child, ChildSetup, ChildClearFlag, ChildNoFlag,
     ChildRelay, ChildReadNothing, ChildIdle, ChildReadEof, ChildReadLine,
     ChildSignalParent, ChildWrite, ChildBrokenPipe, ChildExit,
     ChildTerminated, Die
<1>3. CASE Handle
  BY <1>3, HandleForms DEF TakeLine, noProcessStep
<1>4. CASE Plain
  BY <1>1, <1>4 DEF Plain, TopOfLoop, ReapDone, ClearExited, AcceptIdle,
     AcceptScan, AcceptError, AcceptRefuse, WaitChild, ScanDone, ScanEmpty,
     SkipRound, DeliverWrite, DeliverBroken, Dies, DeliverSignal, DeliverDone,
     TermChild, TermDone, WaitDone, noProcessStep
<1>5. ASSUME NEW p \in Pid, Reap(p)
      PROVE  OnlyForkStarts
  BY <1>1, <1>5 DEF Reap
<1>6. CASE UNCHANGED vars \/ AddChild
  BY <1>6 DEF vars, childVars, AddChild
<1>7. CASE Misread
  BY <1>7, MisreadForms
<1> QED
  BY <1>2, <1>3, <1>4, <1>5, <1>6, <1>7

\* fork() gives the child new pipes, and the entry it gets is a new one; the
\* table shifts whole entries; a line makes its sender no silent child.
LEMMA StartIsMuteNext ==
    ASSUME IInv, AInv, [Next]_vars
    PROVE  StartIsMute'
<1> USE DEF StartIsMute
<1>1. /\ StartIsMute /\ toParent \in [Pid -> Seq(Message)]
      /\ cpc \in [Pid -> ChildPc] /\ active_children \in Seq(Entry)
  BY DEF AInv, IInv, TypeOK
<1>2. \A k \in 1..Len(active_children) : active_children[k].pid \in Pid
  <2>1. \A k \in 1..Len(active_children) : active_children[k] \in Entry
    BY <1>1, ElementOfSeq
  <2> QED
    BY <2>1 DEF Entry
<1>3. ASSUME OnlyForkStarts, UNCHANGED active_children,
             \A p \in Pid : \/ toParent'[p] \in {toParent[p], <<>>}
                            \/ cpc[p] # "start"
      PROVE  StartIsMute'
  BY <1>1, <1>2, <1>3 DEF OnlyForkStarts
<1>4. ASSUME NEW p \in Pid, Child(p)
      PROVE  StartIsMute'
  <2>1. OnlyForkStarts
    BY <1>4, StartsByFork
  <2>2. \A q \in Pid : toParent'[q] = toParent[q] \/ cpc[q] # "start"
    BY <1>1, <1>4 DEF Child, ChildSetup, ChildClearFlag, ChildNoFlag,
       ChildRelay, ChildReadNothing, ChildIdle, ChildReadEof, ChildReadLine,
       ChildSignalParent, ChildWrite, ChildBrokenPipe, ChildExit,
       ChildTerminated, Die
  <2>3. UNCHANGED active_children
    BY <1>4 DEF Child, ChildSetup, ChildClearFlag, ChildNoFlag,
       ChildRelay, ChildReadNothing, ChildIdle, ChildReadEof, ChildReadLine,
       ChildSignalParent, ChildWrite, ChildBrokenPipe, ChildExit,
       ChildTerminated, unchangedByChild, parentVars
  <2> QED
    BY <1>3, <2>1, <2>2, <2>3
<1>5. CASE Handle
  <2>1. TakeLine /\ OnlyForkStarts /\ UNCHANGED cpc
    BY <1>5, HandleForms, StartsByFork DEF TakeLine, noProcessStep
  <2>2. EntryPid \in Pid /\ cpc[EntryPid] # "start"
    BY <2>1, ScannedEntry, SenderHasSpoken DEF TakeLine, ReadPipe, EntryPid
  <2>3. \A q \in Pid : toParent'[q] = toParent[q] \/ cpc[q] # "start"
    BY <1>1, <2>1, <2>2 DEF TakeLine, ReadPipe
  <2>4. CASE \E j \in Job : Starts(j)
    BY <1>3, <2>1, <2>3, <2>4 DEF Starts
  <2>5. CASE \E list, rooms : /\ KeepsPids(list) /\ KeepsMute(list)
                              /\ Updates(list, rooms)
    <3>1. /\ Len(active_children') = Len(active_children)
          /\ \A k \in 1..Len(active_children) :
                 active_children'[k].pid = active_children[k].pid
          /\ KeepsMute(active_children')
      BY <2>5 DEF KeepsPids, Updates
    <3> QED
      BY <1>1, <2>1, <2>3, <3>1 DEF KeepsMute
  <2> QED
    BY <1>5, <2>4, <2>5, HandleAddressed
<1>6. CASE Plain
  <2>1. UNCHANGED <<toParent, active_children>>
    BY <1>6 DEF Plain, TopOfLoop, ReapDone, ClearExited, AcceptIdle,
       AcceptScan, AcceptError, AcceptRefuse, WaitChild, ScanDone, ScanEmpty,
       SkipRound, DeliverWrite, DeliverBroken, Dies, DeliverSignal,
       DeliverDone, TermChild, TermDone, WaitDone
  <2> QED
    BY <1>3, <1>6, <2>1, StartsByFork
<1>7. ASSUME NEW p \in Pid, Reap(p)
      PROVE  StartIsMute'
  <2> DEFINE k == IndexOf(active_children, p)
             n == Len(active_children)
  <2>1. OnlyForkStarts /\ toParent' = [toParent EXCEPT ![p] = <<>>]
    BY <1>7, StartsByFork DEF Reap
  <2>2. CASE k = 0
    BY <1>1, <1>3, <1>7, <2>1, <2>2 DEF Reap
  <2>3. CASE k # 0
    <3>1. \A i, j \in 1..n :
              active_children[i].pid = active_children[j].pid => i = j
      BY <1>7 DEF Reap, IInv, RegistryExact
    <3>2. k \in 1..n
      BY <1>1, <2>3, <3>1, IndexOfFacts
    <3>3. active_children' = RemoveEntry(active_children, k)
      BY <1>7, <2>3 DEF Reap
    <3> HIDE DEF k
    <3>4. n \in Nat /\ n > 0
      BY <1>1, <3>2, LenProperties
    <3>5. /\ Len(active_children') = n - 1
          /\ \A j \in 1..(n - 1) : active_children'[j] =
                 IF j < k THEN active_children[j] ELSE active_children[j + 1]
      BY <1>1, <3>3, <3>4, RemoveEntryFacts
    <3>6. \A j \in 1..Len(active_children') :
              \E i \in 1..n : active_children'[j] = active_children[i]
      BY <3>2, <3>4, <3>5
    <3>7. \A q \in Pid : cpc'[q] = "start" => toParent'[q] = <<>>
      BY <1>1, <2>1 DEF OnlyForkStarts
    <3> HIDE DEF n
    <3>8. ASSUME NEW j \in 1..Len(active_children'),
                 cpc'[active_children'[j].pid] = "start"
          PROVE  active_children'[j].name = NoName /\ active_children'[j].room = Blank
      <4>1. PICK i \in 1..n : active_children'[j] = active_children[i]
        BY <3>6
      <4> QED
        BY <1>1, <1>2, <2>1, <3>8, <4>1 DEF OnlyForkStarts, n
    <3> QED
      BY <3>7, <3>8
  <2> QED
    BY <2>2, <2>3
<1>8. ASSUME NEW p \in Pid, AcceptFork(p)
      PROVE  StartIsMute'
  <2>1. /\ \A q \in Pid \ {p} : cpc'[q] = cpc[q] /\ toParent'[q] = toParent[q]
        /\ toParent'[p] = <<>> /\ UNCHANGED active_children
    BY <1>1, <1>8 DEF AcceptFork
  <2>2. p \notin Listed
    BY <1>8 DEF AcceptFork, IInv, RegistryExact
  <2>3. \A k \in 1..Len(active_children) : active_children[k].pid # p
    BY <2>2 DEF Listed
  <2> QED
    BY <1>1, <1>2, <2>1, <2>3
<1>9. CASE AddChild
  <2> DEFINE n == Len(active_children)
  <2>1. newPid \in Pid /\ UNCHANGED <<cpc, toParent>>
    BY <1>9 DEF AddChild, IInv, RegistryExact
  <2>2. NewEntry(newPid) \in Entry
    BY <2>1, NullTypes DEF NewEntry, Entry, Word
  <2>3. /\ Len(active_children') = n + 1 /\ n \in Nat
        /\ \A i \in 1..n : active_children'[i] = active_children[i]
        /\ active_children'[n + 1] = NewEntry(newPid)
    BY <1>1, <1>9, <2>2, AppendProperties, LenProperties DEF AddChild
  <2>4. ASSUME NEW i \in 1..(n + 1), cpc[active_children'[i].pid] = "start"
        PROVE  active_children'[i].name = NoName /\ active_children'[i].room = Blank
    <3>1. CASE i \in 1..n
      BY <1>1, <2>3, <2>4, <3>1
    <3>2. CASE i = n + 1
      BY <2>3, <3>2 DEF NewEntry
    <3> QED
      BY <2>3, <3>1, <3>2
  <2> QED
    BY <1>1, <2>1, <2>3, <2>4
<1>10. CASE UNCHANGED vars
  <2>1. OnlyForkStarts
    BY <1>10, StartsByFork
  <2> QED
    BY <1>3, <1>10, <2>1 DEF vars, pipeVars, parentVars
<1>11. CASE Misread
  <2>1. OnlyForkStarts
    BY <1>11, StartsByFork
  <2>2. /\ UNCHANGED active_children /\ EntryPid \in Pid
        /\ toParent[EntryPid] # <<>>
        /\ toParent' = [toParent EXCEPT ![EntryPid] =
                             AfterRead(toParent[EntryPid])]
    BY <1>11, MisreadForms
  <2>3. cpc[EntryPid] # "start"
    BY <1>1, <2>2
  <2>4. \A q \in Pid : toParent'[q] = toParent[q] \/ cpc[q] # "start"
    BY <1>1, <2>2, <2>3
  <2> QED
    BY <1>3, <2>1, <2>2, <2>4
<1> QED
  BY <1>4, <1>5, <1>6, <1>7, <1>8, <1>9, <1>10, <1>11
     DEF Next, Parent, Handle, Misread, Plain

-----------------------------------------------------------------------------
\* During a write loop the table stays, and whom the loop works for.
LEMMA LoopAddressedNext ==
    ASSUME IInv, AInv, [Next]_vars
    PROVE  LoopAddressed'
<1>1. /\ LoopAddressed /\ job \in Job /\ cpc \in [Pid -> ChildPc]
      /\ active_children \in Seq(Entry)
      /\ JobInv
  BY DEF AInv, IInv, TypeOK
<1>2. CASE pc' \notin {"deliver", "signal"}
  BY <1>2 DEF LoopAddressed
<1>3. ASSUME pc \in {"deliver", "signal"}
      PROVE  active_children[job.by].pid \in Pid
  <2>1. active_children[job.by] \in Entry
    BY <1>1, <1>3, ElementOfSeq DEF JobInv
  <2> QED
    BY <2>1 DEF Entry
<1>4. ASSUME pc \in {"deliver", "signal"}, OnlyForkStarts,
             UNCHANGED active_children,
             job'.by = job.by, job'.kind = job.kind, job'.to = job.to
      PROVE  Addressed(job)'
  BY <1>1, <1>3, <1>4 DEF LoopAddressed, Addressed, OnlyForkStarts
<1>5. ASSUME OnlyForkStarts, UNCHANGED <<pc, job, active_children, room_info>>
      PROVE  LoopAddressed'
  <2>1. CASE pc \in {"deliver", "signal"}
    BY <1>1, <1>4, <1>5, <2>1 DEF LoopAddressed, Hit
  <2> QED
    BY <1>2, <1>5, <2>1
<1>6. ASSUME NEW p \in Pid, Child(p)
      PROVE  LoopAddressed'
  <2>1. OnlyForkStarts
    BY <1>6, StartsByFork
  <2>2. /\ UNCHANGED <<job, active_children, room_info>>
        /\ pc' = pc \/ pc' = "down"
    BY <1>6 DEF Child, ChildSetup, ChildClearFlag, ChildNoFlag,
       ChildRelay, ChildReadNothing, ChildIdle, ChildReadEof, ChildReadLine,
       ChildSignalParent, ChildWrite, ChildBrokenPipe, ChildExit,
       ChildTerminated, unchangedByChild, parentVars
  <2> QED
    BY <1>2, <1>5, <2>1, <2>2
<1>7. CASE Handle
  <2>1. pc = "scan" /\ UNCHANGED cpc
    BY <1>7, HandleForms DEF TakeLine, ReadPipe, noProcessStep
  <2>2. CASE \E j \in Job : j.by = scan /\ Addressed(j) /\ Starts(j)
    BY <2>1, <2>2 DEF Starts, LoopAddressed, Addressed
  <2>3. CASE \E list, rooms : Updates(list, rooms)
    BY <1>2, <2>1, <2>3 DEF Updates
  <2> QED
    BY <1>7, <2>2, <2>3, HandleAddressed
<1>8. ASSUME NEW n, job' = [job EXCEPT !.k = n]
      PROVE  job'.by = job.by /\ job'.kind = job.kind /\ job'.to = job.to
  BY <1>1, <1>8 DEF Job
<1>9. ASSUME NextRound
      PROVE  job'.by = job.by /\ job'.kind = job.kind /\ job'.to = job.to
  BY <1>8, <1>9 DEF NextRound
<1>10. CASE SkipRound
  <2>1. OnlyForkStarts
    BY <1>10, StartsByFork DEF Plain
  <2>2. Addressed(job)'
    BY <1>4, <1>8, <1>10, <2>1 DEF SkipRound
  <2> QED
    BY <1>10, <2>2 DEF SkipRound, LoopAddressed
<1>11. CASE DeliverWrite
  <2>1. OnlyForkStarts
    BY <1>11, StartsByFork DEF Plain
  <2>2. CASE pc' = "signal" /\ UNCHANGED job
    <3>1. Addressed(job)'
      BY <1>4, <1>11, <2>1, <2>2 DEF DeliverWrite
    <3>2. Hit(job.k)'
      BY <1>11, <2>2 DEF DeliverWrite, Hit
    <3> QED
      BY <3>1, <3>2 DEF LoopAddressed
  <2>3. CASE NextRound /\ UNCHANGED pc
    <3>1. Addressed(job)'
      BY <1>4, <1>9, <1>11, <2>1, <2>3 DEF DeliverWrite
    <3> QED
      BY <1>11, <2>3, <3>1 DEF DeliverWrite, LoopAddressed
  <2> QED
    BY <1>11, <2>2, <2>3, DeliverWriteFacts
<1>12. CASE DeliverSignal
  <2>1. OnlyForkStarts
    BY <1>12, StartsByFork DEF Plain
  <2>2. Addressed(job)'
    BY <1>4, <1>9, <1>12, <2>1 DEF DeliverSignal
  <2> QED
    BY <1>12, <2>2 DEF DeliverSignal, LoopAddressed
<1>13. CASE \/ TopOfLoop \/ ReapDone \/ ClearExited \/ AcceptIdle \/ AcceptScan
            \/ AcceptError \/ AcceptRefuse \/ ScanDone \/ ScanEmpty
            \/ DeliverBroken \/ DeliverDone \/ TermChild \/ TermDone \/ WaitDone
            \/ AddChild \/ \E p \in Pid : Reap(p) \/ AcceptFork(p) \/ WaitChild(p)
  BY <1>2, <1>13 DEF TopOfLoop, ReapDone, ClearExited, AcceptIdle, AcceptScan,
     AcceptError, AcceptRefuse, ScanDone, ScanEmpty, DeliverBroken, Dies,
     DeliverDone, TermChild, TermDone, WaitDone, AddChild, Reap, AcceptFork,
     WaitChild
<1>14. CASE UNCHANGED vars
  <2>1. OnlyForkStarts
    BY <1>14, StartsByFork
  <2> QED
    BY <1>5, <1>14, <2>1 DEF vars, parentVars
<1>15. CASE Misread
  BY <1>2, <1>15, MisreadForms
<1> QED
  BY <1>6, <1>7, <1>10, <1>11, <1>12, <1>13, <1>14, <1>15
     DEF Next, Parent, Handle, Misread

LEMMA AInvInit == Init => AInv
BY EmptySeq DEF Init, AInv, LinesTyped, StartIsMute, LoopAddressed

\* What the tables know of a child that is not set up is nothing, so no write
\* loop chooses it but that of a bare !whisper.
THEOREM AddressedInductive == Spec => [](IInv /\ AInv)
<1>1. Init => IInv /\ AInv
  BY IInvInit, AInvInit
<1>2. IInv /\ AInv /\ [Next]_vars => AInv'
  BY LinesTypedNext, StartIsMuteNext, LoopAddressedNext DEF AInv
<1>3. IInv /\ [Next]_vars => IInv'
  BY TypeNext, RegistryNext, OwnLinesNext, JobNext DEF IInv
<1> QED
  BY <1>1, <1>2, <1>3, PTL DEF Spec

\* Under the invariant a child the parent writes to has its handler, or is
\* one a bare !whisper picked.
Unready == BareWhisper /\ job.kind = "whisper" /\ job.to = NoName

LEMMA TargetHasHandler ==
    ASSUME IInv, AInv, pc \in {"deliver", "signal"}, job.k <= JobEnd, Hit(job.k)
    PROVE  cpc[Target] # "start" \/ Unready
<1>1. /\ job \in Job /\ job.k \in 1..JobEnd /\ Addressed(job)
      /\ active_children \in Seq(Entry)
  <2>1. job \in Job /\ JobEnd \in Nat /\ job.k # 0
    BY LenProperties DEF IInv, TypeOK, JobInv, JobEnd
  <2> QED
    BY <2>1 DEF AInv, LoopAddressed, IInv, TypeOK, Job
<1>2. CASE job.kind \in {"list", "users"}
  BY <1>1, <1>2 DEF Target, Addressed
<1>3. CASE job.kind = "whisper"
  <2>1. job.k \in 1..Len(active_children)
    BY <1>1, <1>3 DEF JobEnd
  <2>2. active_children[job.k].name = job.to /\ (BareWhisper \/ job.to # NoName)
    BY <1>1, <1>3 DEF Hit, Addressed
  <2> QED
    BY <1>3, <2>1, <2>2 DEF Target, AInv, StartIsMute, Unready
<1>4. CASE job.kind = "broadcast"
  <2>1. job.k \in 1..Len(active_children)
    BY <1>1, <1>4 DEF JobEnd
  <2>2. active_children[job.k].room # Blank
    BY <1>1, <1>4 DEF Hit, Addressed
  <2> QED
    BY <1>4, <2>1, <2>2 DEF Target, AInv, StartIsMute
<1> QED
  BY <1>1, <1>2, <1>3, <1>4 DEF Job, JobKind

\* kill() finds the child's handler installed (clientprocess.c:8, 34): a child
\* is written to only for its own question, by its name or in its room, and
\* has spoken before; only a !whisper without a name reaches a silent one.
THEOREM SignalCorrect == Spec => []SignalFindsHandler
<1>1. IInv /\ AInv => SignalFindsHandler
  <2> SUFFICES ASSUME IInv, AInv, pc = "signal"
               PROVE  cpc[Target] # "start" \/ Unready
    BY DEF SignalFindsHandler, Unready
  <2>1. job.k <= JobEnd /\ Hit(job.k)
    BY DEF IInv, JobInv, AInv, LoopAddressed
  <2> QED
    BY <2>1, TargetHasHandler
<1> QED
  BY <1>1, AddressedInductive, PTL

-----------------------------------------------------------------------------
\* From the write to the read.

\* A pipe holds what fits, and one nobody reads any more is gone.
PipesFit ==
    /\ \A p \in Pid : Len(toChild[p]) <= PipeCap
    /\ \A p \in Pid : cpc[p] \in {"none", "zombie"} => toChild[p] = <<>>

\* Nothing but bare whispers has come for a child without a handler.
OnlyBare(p) == BareWhisper /\ OnlyWhispers(toChild[p])
FirstWords ==
    \A p \in Pid : cpc[p] = "start" => toChild[p] = <<>> \/ OnlyBare(p)

WInv == PipesFit /\ FirstWords /\ NoLostWakeupToChild

\* The child itself will read: it has seen the signal or looks already.
WillRead(p) == child_sigusr_arrived[p] \/ cpc[p] \in {"read", "exit"}

\* A step after which p needs no other announcement than before.
Harmless(p) ==
    \/ toChild'[p] = <<>>
    \/ Leftover(toChild'[p]) /\ cpc'[p] \in LivePc \ {"start"}
    \/ /\ toChild'[p] = toChild[p]
       /\ cpc'[p] \in {"none", "start", "zombie"} => cpc'[p] = cpc[p]
       /\ WillRead(p) => WillRead(p)'

LEMMA HarmlessKeeps ==
    ASSUME IInv, WInv, \A p \in Pid : Harmless(p),
           \A p \in Pid : Len(toChild'[p]) \in Nat,
           pc = "signal" => pc' = "signal" /\ Target' = Target
    PROVE  WInv'
<1>1. Len(<<>>) = 0 /\ PipeCap \in Nat /\ ReadMax \in Nat
  BY EmptySeq, ServerAssumption
<1>2. PipesFit'
  <2> SUFFICES ASSUME NEW p \in Pid
               PROVE  /\ Len(toChild'[p]) <= PipeCap
                      /\ cpc'[p] \in {"none", "zombie"} => toChild'[p] = <<>>
    BY DEF PipesFit
  <2>1. CASE Leftover(toChild'[p]) /\ cpc'[p] \in LivePc \ {"start"}
    BY <1>1, <2>1 DEF Leftover, LivePc
  <2> QED
    BY <1>1, <2>1 DEF Harmless, PipesFit, WInv
<1>3. FirstWords'
  BY DEF Harmless, FirstWords, OnlyBare, OnlyWhispers, WInv
<1>4. ASSUME NEW p \in Pid, toChild'[p] # <<>>, ~Leftover(toChild'[p])
      PROVE  Announced(p)' \/ OnlyBare(p)'
  <2>1. toChild[p] # <<>> /\ toChild'[p] = toChild[p] /\ (WillRead(p) => WillRead(p)')
    BY <1>4 DEF Harmless
  <2>2. WillRead(p) \/ (pc = "signal" /\ Target = p) \/ OnlyBare(p)
    BY <1>4, <2>1 DEF WInv, NoLostWakeupToChild, Announced, WillRead, OnlyBare
  <2>3. WillRead(p)' \/ (pc' = "signal" /\ Target' = p) \/ OnlyBare(p)'
    BY <2>1, <2>2 DEF OnlyBare, OnlyWhispers
  <2> QED
    BY <2>3 DEF Announced, WillRead
<1> QED
  BY <1>2, <1>3, <1>4 DEF WInv, NoLostWakeupToChild, OnlyBare

\* A child clears its flag on the way to the read, and one read leaves what
\* a full buffer has no room for.
LEMMA ChildHarmless ==
    ASSUME IInv, WInv, NEW p \in Pid, Child(p), NEW q \in Pid
    PROVE  Harmless(q)
<1> USE DEF Harmless, WillRead
<1>1. /\ cpc \in [Pid -> ChildPc] /\ toChild \in [Pid -> Seq(Payload)]
      /\ child_sigusr_arrived \in [Pid -> BOOLEAN]
  BY DEF IInv, TypeOK
<1>2. CASE ChildRelay(p)
  <2>1. CASE q # p
    BY <1>1, <1>2, <2>1 DEF ChildRelay
  <2>2. CASE q = p
    <3> DEFINE s == toChild[p]
    <3>1. /\ Len(s) \in Nat /\ Len(s) <= PipeCap /\ s \in Seq(Payload)
          /\ ReadMax \in Nat \ {0} /\ PipeCap \in Nat
      BY <1>1, LenProperties, ServerAssumption DEF WInv, PipesFit
    <3>2. toChild'[p] = AfterRead(s) /\ cpc'[p] \in {"sock", "exit"}
      BY <1>1, <1>2 DEF ChildRelay
    <3> HIDE DEF s
    <3>3. CASE Len(s) <= ReadMax
      <4>1. Chunk(s) = Len(s)
        BY <3>1, <3>3 DEF Chunk, Least
      <4>2. AfterRead(s) = <<>>
        BY <3>1, <4>1, SubSeqEmpty DEF AfterRead
      <4> QED
        BY <2>2, <3>2, <4>2
    <3>4. CASE Len(s) > ReadMax
      <4>1. Chunk(s) = ReadMax
        BY <3>1, <3>4 DEF Chunk, Least
      <4>2. Len(AfterRead(s)) = Len(s) - ReadMax
        BY <3>1, <3>4, <4>1, SubSeqProperties DEF AfterRead
      <4>3. Leftover(toChild'[p])
        BY <3>1, <3>2, <4>2 DEF Leftover
      <4> QED
        BY <2>2, <3>2, <4>3 DEF LivePc, ChildPc
    <3> QED
      BY <3>1, <3>3, <3>4
  <2> QED
    BY <2>1, <2>2
<1>3. CASE ChildClearFlag(p)
  BY <1>1, <1>3 DEF ChildClearFlag
<1>4. CASE ChildReadNothing(p)
  BY <1>1, <1>4 DEF ChildReadNothing
<1>5. CASE ChildSetup(p) \/ ChildNoFlag(p) \/ ChildIdle(p) \/ ChildReadEof(p)
           \/ (\E c \in Inputs : ChildReadLine(p, c))
           \/ ChildSignalParent(p) \/ ChildWrite(p)
  BY <1>1, <1>5 DEF ChildSetup, ChildNoFlag, ChildIdle, ChildReadEof,
     ChildReadLine, ChildSignalParent, ChildWrite
<1>6. CASE ChildBrokenPipe(p) \/ ChildExit(p) \/ ChildTerminated(p)
  BY <1>1, <1>6 DEF ChildBrokenPipe, ChildExit, ChildTerminated, Die
<1> QED
  BY <1>2, <1>3, <1>4, <1>5, <1>6 DEF Child

LEMMA WakeupNext ==
    ASSUME IInv, IInv', AInv, WInv, [Next]_vars
    PROVE  WInv'
<1>0. \A p \in Pid : Len(toChild'[p]) \in Nat
  BY LenProperties DEF IInv, TypeOK
<1>1. /\ cpc \in [Pid -> ChildPc] /\ toChild \in [Pid -> Seq(Payload)]
      /\ child_sigusr_arrived \in [Pid -> BOOLEAN]
      /\ job \in Job
  BY DEF IInv, TypeOK
<1>2. ASSUME NEW p \in Pid, Child(p)
      PROVE  WInv'
  <2>1. UNCHANGED <<job, active_children>> /\ (pc = "signal" => pc' = "signal")
    BY <1>2 DEF Child, ChildSetup, ChildClearFlag, ChildNoFlag,
       ChildRelay, ChildReadNothing, ChildIdle, ChildReadEof, ChildReadLine,
       ChildSignalParent, ChildWrite, ChildBrokenPipe, ChildExit,
       ChildTerminated, unchangedByChild, parentVars
  <2>2. Target' = Target
    BY <2>1 DEF Target
  <2>3. \A q \in Pid : Harmless(q)
    BY <1>2, ChildHarmless
  <2> QED
    BY <2>1, <2>2, <2>3, HarmlessKeeps, <1>0
<1>3. ASSUME UNCHANGED <<cpc, toChild, child_sigusr_arrived>>, pc # "signal"
      PROVE  WInv'
  <2>1. \A q \in Pid : Harmless(q)
    BY <1>3 DEF Harmless, WillRead
  <2> QED
    BY <1>0, <1>3, <2>1, HarmlessKeeps
<1>4. CASE Handle
  BY <1>3, <1>4, HandleForms DEF TakeLine, ReadPipe, noProcessStep, unchangedByParent
<1>5. CASE \/ TopOfLoop \/ ReapDone \/ ClearExited \/ AcceptIdle \/ AcceptScan
           \/ AcceptError \/ AcceptRefuse \/ ScanDone \/ ScanEmpty \/ SkipRound
           \/ DeliverDone \/ TermChild \/ TermDone \/ WaitDone \/ AddChild
  BY <1>3, <1>5 DEF TopOfLoop, ReapDone, ClearExited, AcceptIdle, AcceptScan,
     AcceptError, AcceptRefuse, ScanDone, ScanEmpty, SkipRound, DeliverDone,
     TermChild, TermDone, WaitDone, AddChild, noProcessStep, unchangedByParent
<1>6. CASE DeliverBroken \/ \E p \in Pid : Reap(p) \/ WaitChild(p)
  <2>1. \A q \in Pid : Harmless(q)
    BY <1>1, <1>6 DEF DeliverBroken, Dies, Reap, WaitChild, noProcessStep,
       unchangedByParent, Harmless, WillRead, WInv, PipesFit
  <2>2. pc # "signal"
    BY <1>6 DEF DeliverBroken, Dies, Reap, WaitChild
  <2> QED
    BY <2>1, <2>2, HarmlessKeeps, <1>0
<1>7. CASE \E p \in Pid : AcceptFork(p)
  <2>1. \A q \in Pid : Harmless(q)
    BY <1>1, <1>7 DEF AcceptFork, Harmless, WillRead
  <2>2. pc # "signal"
    BY <1>7 DEF AcceptFork
  <2> QED
    BY <2>1, <2>2, HarmlessKeeps, <1>0
<1>8. CASE DeliverWrite
  <2>1. CASE UNCHANGED toChild
    BY <1>3, <1>8, <2>1 DEF DeliverWrite
  <2>2. CASE toChild' # toChild
    <3>0. PICK n \in Nat :
              /\ toChild' = [toChild EXCEPT ![Target] =
                                 toChild[Target] \o Pieces(Answer, n)]
              /\ Len(toChild[Target]) \in Nat
              /\ Len(toChild'[Target]) = Len(toChild[Target]) + n
              /\ \A k \in 1..Len(toChild[Target]) :
                     toChild'[Target][k] = toChild[Target][k]
              /\ \A k \in 1..n :
                     toChild'[Target][Len(toChild[Target]) + k] =
                         [kind |-> job.kind, no |-> job.no, part |-> k,
                          from |-> active_children[job.by].pid]
              /\ Len(toChild'[Target]) <= PipeCap
              /\ n = 0 => UNCHANGED toChild
              /\ n > 0 => pc' = "signal" /\ UNCHANGED job
      BY <1>8, DeliverWriteFacts
    <3>1. /\ pc' = "signal" /\ UNCHANGED <<job, active_children, cpc>>
          /\ UNCHANGED child_sigusr_arrived /\ pc = "deliver"
          /\ job.k <= JobEnd /\ Live(Target)
      BY <1>8, <2>2, <3>0 DEF DeliverWrite
    <3>2. Target \in Pid
      BY <1>8, DeliverWriteFacts
    <3>5. Target' = Target
      BY <3>1 DEF Target
    <3>6. \A q \in Pid : q # Target => toChild'[q] = toChild[q]
      BY <1>1, <3>0
    <3>7. PipesFit'
      BY <3>0, <3>1, <3>2, <3>6 DEF PipesFit, WInv, Live, LivePc
    <3>8. ASSUME NEW q \in Pid, q # Target, toChild'[q] # <<>>,
                 ~Leftover(toChild'[q])
          PROVE  Announced(q)' \/ OnlyBare(q)'
      <4>1. WillRead(q) \/ OnlyBare(q)
        BY <3>1, <3>6, <3>8
           DEF WInv, NoLostWakeupToChild, Announced, WillRead, OnlyBare
      <4>2. WillRead(q)' \/ OnlyBare(q)'
        BY <3>1, <3>6, <3>8, <4>1 DEF WillRead, OnlyBare, OnlyWhispers
      <4> QED
        BY <4>2 DEF Announced, WillRead
    <3>9. Announced(Target)'
      BY <3>1, <3>5 DEF Announced
    <3>10. NoLostWakeupToChild'
      BY <3>5, <3>8, <3>9 DEF NoLostWakeupToChild, OnlyBare
    <3>11. cpc[Target] = "start" => OnlyBare(Target)'
      <4> SUFFICES ASSUME cpc[Target] = "start" PROVE OnlyBare(Target)'
        OBVIOUS
      <4>1. BareWhisper /\ job.kind = "whisper"
        BY <1>8, <3>1, TargetHasHandler DEF Unready, DeliverWrite
      <4>2. OnlyWhispers(toChild[Target])
        BY <3>2, EmptySeq DEF WInv, FirstWords, OnlyBare, OnlyWhispers
      <4>4. ASSUME NEW k \in 1..Len(toChild'[Target])
            PROVE  toChild'[Target][k].kind = "whisper"
        <5> DEFINE i == k - Len(toChild[Target])
        <5>1. CASE k \in 1..Len(toChild[Target])
          BY <3>0, <4>2, <5>1 DEF OnlyWhispers
        <5>2. CASE k \notin 1..Len(toChild[Target])
          <6>1. i \in 1..n /\ k = Len(toChild[Target]) + i
            BY <3>0, <5>2
          <6> HIDE DEF i
          <6>2. toChild'[Target][k] =
                    [kind |-> job.kind, no |-> job.no, part |-> i,
                     from |-> active_children[job.by].pid]
            BY <3>0, <6>1
          <6> QED
            BY <4>1, <6>2
        <5> QED
          BY <5>1, <5>2
      <4> QED
        BY <4>1, <4>4, <3>5 DEF OnlyBare, OnlyWhispers
    <3>12. FirstWords'
      <4> SUFFICES ASSUME NEW q \in Pid, cpc'[q] = "start"
                   PROVE  toChild'[q] = <<>> \/ OnlyBare(q)'
        BY DEF FirstWords
      <4>1. CASE q = Target
        BY <3>1, <3>5, <3>11, <4>1
      <4>2. CASE q # Target
        BY <3>1, <3>6, <4>2 DEF WInv, FirstWords, OnlyBare, OnlyWhispers
      <4> QED
        BY <4>1, <4>2
    <3> QED
      BY <3>7, <3>10, <3>12 DEF WInv
  <2> QED
    BY <2>1, <2>2
<1>9. CASE DeliverSignal
  <2>1. /\ pc = "signal" /\ UNCHANGED <<toChild, cpc>>
        /\ child_sigusr_arrived' = [child_sigusr_arrived EXCEPT ![Target] =
                                        @ \/ cpc[Target] \in LivePc \ {"start"}]
    BY <1>9 DEF DeliverSignal
  <2>2. Target \in Pid
    BY <2>1, TargetFacts DEF IInv, JobInv
  <2>3. PipesFit' /\ FirstWords'
    BY <2>1 DEF PipesFit, FirstWords, OnlyBare, OnlyWhispers, WInv
  <2>4. ASSUME NEW q \in Pid, toChild'[q] # <<>>, ~Leftover(toChild'[q])
        PROVE  Announced(q)' \/ OnlyBare(q)'
    <3>1. toChild[q] # <<>> /\ cpc[q] \in LivePc /\ ~Leftover(toChild[q])
      BY <1>1, <2>1, <2>4 DEF WInv, PipesFit, LivePc
    <3>2. CASE cpc[q] = "start" \/ OnlyBare(q)
      BY <2>1, <3>1, <3>2 DEF WInv, FirstWords, OnlyBare, OnlyWhispers
    <3>3. CASE q = Target /\ cpc[q] # "start"
      <4>1. cpc[q] \in LivePc \ {"start"}
        BY <3>1, <3>3
      <4>2. child_sigusr_arrived'[q]
        BY <1>1, <2>1, <2>2, <3>3, <4>1, Zenon
      <4> QED
        BY <4>2 DEF Announced
    <3>4. CASE q # Target /\ ~OnlyBare(q)
      <4>1. child_sigusr_arrived[q] \/ cpc[q] \in {"read", "exit"}
        BY <3>1, <3>4 DEF WInv, NoLostWakeupToChild, Announced, OnlyBare
      <4>2. child_sigusr_arrived'[q] = child_sigusr_arrived[q]
        BY <1>1, <2>1, <3>4, Zenon
      <4> QED
        BY <2>1, <4>1, <4>2 DEF Announced
    <3> QED
      BY <3>2, <3>3, <3>4
  <2> QED
    BY <2>3, <2>4 DEF WInv, NoLostWakeupToChild, OnlyBare
<1>10. CASE UNCHANGED vars
  <2>1. \A q \in Pid : Harmless(q)
    BY <1>10 DEF Harmless, WillRead, vars, childVars, pipeVars
  <2>2. Target' = Target /\ pc' = pc
    BY <1>10 DEF Target, vars, parentVars
  <2> QED
    BY <2>1, <2>2, HarmlessKeeps, <1>0
<1>11. CASE Misread
  <2>1. /\ pc # "signal" /\ UNCHANGED <<toChild, child_sigusr_arrived>>
        /\ \A q \in Pid : \/ cpc'[q] = cpc[q]
                          \/ cpc[q] = "zombie" /\ cpc'[q] = "none"
    BY <1>11, MisreadForms
  <2>2. \A q \in Pid : Harmless(q)
    BY <1>1, <2>1 DEF Harmless, WillRead, WInv, PipesFit
  <2> QED
    BY <2>1, <2>2, HarmlessKeeps, <1>0
<1> QED
  BY <1>2, <1>4, <1>5, <1>6, <1>7, <1>8, <1>9, <1>10, <1>11
     DEF Next, Parent, Handle, Misread

\* What the parent has written to a child is announced until it is read
\* (server.c:349-357, clientprocess.c:36-41), whatever the clients type and
\* however much fits in a pipe and in the buffer of a read.
THEOREM WakeupCorrect == Spec => []NoLostWakeupToChild
<1>1. Init => WInv
  BY EmptySeq, ServerAssumption
     DEF Init, WInv, PipesFit, FirstWords, NoLostWakeupToChild
<1>2. IInv /\ IInv' /\ AInv /\ WInv /\ [Next]_vars => WInv'
  BY WakeupNext
<1>3. WInv => NoLostWakeupToChild
  BY DEF WInv
<1> QED
  BY <1>1, <1>2, <1>3, AddressedInductive, PTL DEF Spec

-----------------------------------------------------------------------------
(* What the server promises to its clients.                                *)

\* A write loop that passes words on works for a client with a name, and
\* one that passes them to a room for a client who is in one.
Speaks(j) ==
    /\ j.kind \in {"whisper", "broadcast"} => active_children[j.by].name # NoName
    /\ j.kind = "broadcast" => active_children[j.by].room # Blank
SpeakerInv == pc \in {"deliver", "signal"} => Speaks(job)

LEMMA SpeakerNext ==
    ASSUME IInv, SpeakerInv, [Next]_vars
    PROVE  SpeakerInv'
<1>1. job \in Job
  BY DEF IInv, TypeOK
<1>2. CASE pc' \notin {"deliver", "signal"}
  BY <1>2 DEF SpeakerInv
<1>3. ASSUME UNCHANGED active_children, pc \in {"deliver", "signal"},
             job'.by = job.by, job'.kind = job.kind
      PROVE  SpeakerInv'
  BY <1>3 DEF SpeakerInv, Speaks
<1>4. CASE UNCHANGED <<pc, job, active_children>>
  BY <1>2, <1>3, <1>4
<1>5. ASSUME NEW p \in Pid, Child(p)
      PROVE  SpeakerInv'
  <2>1. UNCHANGED <<job, active_children>> /\ (pc' = pc \/ pc' = "down")
    BY <1>5 DEF Child, ChildSetup, ChildClearFlag, ChildNoFlag,
       ChildRelay, ChildReadNothing, ChildIdle, ChildReadEof, ChildReadLine,
       ChildSignalParent, ChildWrite, ChildBrokenPipe, ChildExit,
       ChildTerminated, unchangedByChild, parentVars
  <2> QED
    BY <1>2, <1>4, <2>1
<1>6. CASE Handle
  <2>1. TakeLine
    BY <1>6, HandleForms
  <2>2. pc = "scan" /\ Sender = scan
    BY <2>1, SenderFound DEF TakeLine, ReadPipe
  <2>3. CASE \E list, rooms : Updates(list, rooms)
    BY <1>2, <2>2, <2>3 DEF Updates
  <2>4. ASSUME NEW j, Starts(j), Speaks(j)
        PROVE  SpeakerInv'
    BY <2>4 DEF Starts, SpeakerInv, Speaks
  <2>5. CASE HandleBroadcast
    <3> DEFINE j == [kind |-> "broadcast", by |-> scan, to |-> NoName,
                     no |-> FirstLine.no, k |-> 1]
    <3>1. Starts(j) /\ Speaks(j)
      BY <2>5 DEF HandleBroadcast, Speaks
    <3> QED
      BY <2>4, <3>1
  <2>6. CASE HandleWhisper
    <3>1. PICK u : Starts([kind |-> "whisper", by |-> scan, no |-> FirstLine.no,
                           to |-> [kind |-> "text", arg |-> u], k |-> 1])
                   \/ \E list, rooms : Updates(list, rooms)
      BY <2>2, <2>6 DEF HandleWhisper
    <3>2. active_children[scan].name # NoName
      BY <2>6 DEF HandleWhisper
    <3> DEFINE j == [kind |-> "whisper", by |-> scan, no |-> FirstLine.no,
                     to |-> [kind |-> "text", arg |-> u], k |-> 1]
    <3>3. Speaks(j)
      BY <3>2 DEF Speaks
    <3> QED
      BY <2>3, <2>4, <3>1, <3>3
  <2>7. CASE HandleQuery
    <3> DEFINE j == [kind |-> Cmd, by |-> Sender, to |-> NoName,
                     no |-> FirstLine.no, k |-> 1]
    <3>1. Starts(j) \/ Updates(active_children, room_info)
      BY <2>7 DEF HandleQuery
    <3>2. Cmd \in {"list", "users"}
      BY <2>7 DEF HandleQuery
    <3>3. Speaks(j)
      BY <3>2 DEF Speaks
    <3> QED
      BY <2>3, <2>4, <3>1, <3>3
  <2>8. CASE HandleAdd \/ HandleJoin \/ HandleLeave \/ HandleRm \/ HandleUnknown
             \/ HandleName \/ HandleNothing
    BY <2>3, <2>8 DEF HandleAdd, HandleJoin, HandleLeave, HandleRm,
       HandleUnknown, HandleName, HandleNothing
  <2> QED
    BY <1>6, <2>5, <2>6, <2>7, <2>8 DEF Handle
<1>7. ASSUME NEW n, job' = [job EXCEPT !.k = n]
      PROVE  job'.by = job.by /\ job'.kind = job.kind
  BY <1>1, <1>7 DEF Job
<1>8. CASE SkipRound
  BY <1>3, <1>7, <1>8 DEF SkipRound
<1>9. CASE DeliverWrite \/ DeliverSignal
  <2>1. /\ UNCHANGED active_children /\ pc \in {"deliver", "signal"}
        /\ NextRound \/ UNCHANGED job
    BY <1>9, DeliverWriteFacts DEF DeliverWrite, DeliverSignal
  <2>2. job'.by = job.by /\ job'.kind = job.kind
    BY <1>7, <2>1 DEF NextRound
  <2> QED
    BY <1>3, <2>1, <2>2
<1>10. CASE \/ TopOfLoop \/ ReapDone \/ ClearExited \/ AcceptIdle \/ AcceptScan
            \/ AcceptError \/ AcceptRefuse \/ ScanDone \/ ScanEmpty
            \/ DeliverBroken \/ DeliverDone \/ TermChild \/ TermDone \/ WaitDone
            \/ AddChild \/ \E p \in Pid : Reap(p) \/ AcceptFork(p) \/ WaitChild(p)
  BY <1>2, <1>10 DEF TopOfLoop, ReapDone, ClearExited, AcceptIdle, AcceptScan,
     AcceptError, AcceptRefuse, ScanDone, ScanEmpty, DeliverBroken, Dies,
     DeliverDone, TermChild, TermDone, WaitDone, AddChild, Reap, AcceptFork,
     WaitChild
<1>11. CASE UNCHANGED vars
  BY <1>4, <1>11 DEF vars, parentVars
<1>12. CASE Misread
  BY <1>2, <1>12, MisreadForms
<1> QED
  BY <1>5, <1>6, <1>8, <1>9, <1>10, <1>11, <1>12 DEF Next, Parent, Handle, Misread

\* The clients in a table.
Pids(list) == {list[k].pid : k \in 1..Len(list)}
Unique(list) == \A j, k \in 1..Len(list) : list[j].pid = list[k].pid => j = k
MembersIn(list) ==
    [p \in Pids(list) |->
        LET k == CHOOSE k \in 1..Len(list) : list[k].pid = p
        IN  [name |-> list[k].name, room |-> list[k].room]]

LEMMA MembersAre == /\ Members = MembersIn(active_children)
                    /\ Members' = MembersIn(active_children')
                    /\ Listed = Pids(active_children)
                    /\ Listed' = Pids(active_children')
BY DEF Members, MembersIn, Pids, Listed

LEMMA MemberFacts ==
    ASSUME NEW list, Unique(list)
    PROVE  /\ DOMAIN MembersIn(list) = Pids(list)
           /\ \A k \in 1..Len(list) :
                  /\ list[k].pid \in Pids(list)
                  /\ MembersIn(list)[list[k].pid] =
                         [name |-> list[k].name, room |-> list[k].room]
<1>1. ASSUME NEW k \in 1..Len(list)
      PROVE  (CHOOSE i \in 1..Len(list) : list[i].pid = list[k].pid) = k
  BY DEF Unique
<1> QED
  BY <1>1 DEF MembersIn, Pids

\* A function with the clients of a table, and with what it has of them.
LEMMA MembersUnique ==
    ASSUME NEW list, Unique(list), NEW f,
           f = [p \in Pids(list) |-> f[p]],
           \A k \in 1..Len(list) :
               f[list[k].pid] = [name |-> list[k].name, room |-> list[k].room]
    PROVE  MembersIn(list) = f
<1> DEFINE at(p) == CHOOSE k \in 1..Len(list) : list[k].pid = p
           of(p) == [name |-> list[at(p)].name, room |-> list[at(p)].room]
<1>1. ASSUME NEW p \in Pids(list)
      PROVE  of(p) = f[p]
  <2>1. PICK k \in 1..Len(list) : list[k].pid = p
    BY DEF Pids
  <2>2. at(p) = k
    BY <2>1 DEF Unique
  <2> QED
    BY <2>1, <2>2
<1>2. MembersIn(list) = [p \in Pids(list) |-> of(p)]
  BY DEF MembersIn
<1> HIDE DEF of
<1>3. [p \in Pids(list) |-> of(p)] = [p \in Pids(list) |-> f[p]]
  BY <1>1
<1> QED
  BY <1>2, <1>3

LEMMA TableUnique ==
    ASSUME IInv, pc \notin {"wait", "down", "killed"}
    PROVE  /\ active_children \in Seq(Entry) /\ Len(active_children) \in Nat
           /\ Unique(active_children)
           /\ DOMAIN Members = Listed
           /\ \A k \in 1..Len(active_children) :
                  /\ active_children[k] \in Entry
                  /\ active_children[k].pid \in Listed
                  /\ Members[active_children[k].pid] =
                         [name |-> active_children[k].name,
                          room |-> active_children[k].room]
<1>1. active_children \in Seq(Entry)
  BY DEF IInv, TypeOK
<1>2. Unique(active_children)
  BY DEF IInv, RegistryExact, Unique
<1> QED
  BY <1>1, <1>2, MembersAre, MemberFacts, ElementOfSeq, LenProperties

\* What a step makes of the clients.
LEMMA NextMembers ==
    ASSUME IInv', pc' \notin {"wait", "down", "killed"}, NEW f,
           f = [p \in Listed' |-> f[p]],
           \A k \in 1..Len(active_children') :
               f[active_children'[k].pid] = [name |-> active_children'[k].name,
                                             room |-> active_children'[k].room]
    PROVE  Members' = f
<1>1. Unique(active_children')
  BY DEF IInv, RegistryExact, Unique
<1>2. Members' = MembersIn(active_children') /\ Listed' = Pids(active_children')
  BY MembersAre
<1> DEFINE list == active_children'
<1>3. /\ Unique(list) /\ f = [p \in Pids(list) |-> f[p]]
      /\ \A k \in 1..Len(list) :
             f[list[k].pid] = [name |-> list[k].name, room |-> list[k].room]
  BY <1>1, <1>2
<1>4. Members' = MembersIn(list)
  BY <1>2
<1> HIDE DEF list
<1> QED
  BY <1>3, <1>4, MembersUnique

LEMMA EnterMaps ==
    ASSUME IInv, IInv', AddChild
    PROVE  \E p \in Pid : P!Enter(p)
<1> DEFINE n == Len(active_children)
           f == [q \in Listed \cup {newPid} |->
                    IF q = newPid THEN P!Newcomer ELSE Members[q]]
<1>1. /\ newPid \in Pid \ Listed /\ pc = "forked" /\ pc' = "top"
      /\ UNCHANGED <<room_info, toChild>>
  BY DEF AddChild, IInv, RegistryExact, unchangedByParent
<1>2. /\ active_children \in Seq(Entry) /\ n \in Nat /\ DOMAIN Members = Listed
      /\ \A k \in 1..n : /\ active_children[k].pid \in Listed
                         /\ Members[active_children[k].pid] =
                                [name |-> active_children[k].name,
                                 room |-> active_children[k].room]
  BY <1>1, TableUnique
<1>3. NewEntry(newPid) \in Entry
  BY <1>1, NullTypes DEF NewEntry, Entry, Word
<1>4. /\ Len(active_children') = n + 1
      /\ \A k \in 1..n : active_children'[k] = active_children[k]
      /\ active_children'[n + 1] = NewEntry(newPid)
  BY <1>2, <1>3, AppendProperties DEF AddChild
<1>5. Listed' = Listed \cup {newPid}
  <2>1. \A q : q \in Listed' <=> \E k \in 1..(n + 1) : active_children'[k].pid = q
    BY <1>4 DEF Listed
  <2>2. \A q : q \in Listed <=> \E k \in 1..n : active_children'[k].pid = q
    BY <1>4 DEF Listed
  <2>3. active_children'[n + 1].pid = newPid
    BY <1>4 DEF NewEntry
  <2>4. \A k \in 1..(n + 1) : k \in 1..n \/ k = n + 1
    BY <1>2
  <2>5. n + 1 \in 1..(n + 1) /\ 1..n \subseteq 1..(n + 1)
    BY <1>2
  <2> QED
    BY <2>1, <2>2, <2>3, <2>4, <2>5
<1>6. \A k \in 1..Len(active_children') :
          f[active_children'[k].pid] = [name |-> active_children'[k].name,
                                        room |-> active_children'[k].room]
  <2> SUFFICES ASSUME NEW k \in 1..(n + 1)
               PROVE  f[active_children'[k].pid] =
                          [name |-> active_children'[k].name,
                           room |-> active_children'[k].room]
    BY <1>4
  <2>1. CASE k \in 1..n
    BY <1>1, <1>2, <1>4, <2>1
  <2>2. CASE k = n + 1
    BY <1>4, <2>2 DEF NewEntry, P!Newcomer
  <2> QED
    BY <1>2, <2>1, <2>2
<1>7. f = [q \in Listed \cup {newPid} |-> f[q]]
  OBVIOUS
<1>8. Members' = f
  <2> HIDE DEF f
  <2> QED
    BY <1>1, <1>5, <1>6, <1>7, NextMembers
<1> QED
  BY <1>1, <1>2, <1>8 DEF P!Enter, P!Present, RoomNames

LEMMA LeaveMaps ==
    ASSUME IInv, IInv', NEW p \in Pid, Reap(p)
    PROVE  P!Leave(p) \/ UNCHANGED <<Members, RoomNames, toChild>>
<1> DEFINE n == Len(active_children)
           i == IndexOf(active_children, p)
           f == [q \in Listed \ {p} |-> Members[q]]
<1>1. /\ pc = "reap" /\ pc' = "reap" /\ UNCHANGED <<room_info, toChild>>
  BY DEF Reap, unchangedByParent
<1>2. /\ active_children \in Seq(Entry) /\ n \in Nat /\ DOMAIN Members = Listed
      /\ Unique(active_children)
      /\ \A k \in 1..n : /\ active_children[k].pid \in Listed
                         /\ Members[active_children[k].pid] =
                                [name |-> active_children[k].name,
                                 room |-> active_children[k].room]
  BY <1>1, TableUnique
<1>3. CASE i = 0
  <2>1. UNCHANGED active_children
    BY <1>3 DEF Reap
  <2> QED
    BY <1>1, <2>1, MembersAre DEF RoomNames
<1>4. CASE i # 0
  <2>1. i \in 1..n /\ active_children[i].pid = p
    BY <1>2, <1>4, IndexOfFacts DEF Unique
  <2>2. active_children' = RemoveEntry(active_children, i)
    BY <1>4 DEF Reap
  <2> HIDE DEF i
  <2>3. /\ Len(active_children') = n - 1
        /\ \A k \in 1..(n - 1) :
               active_children'[k] = IF k < i THEN active_children[k]
                                     ELSE active_children[k + 1]
    BY <1>2, <2>1, <2>2, RemoveEntryFacts
  <2>4. \A k \in 1..(n - 1) : \E j \in 1..n :
            j # i /\ active_children'[k] = active_children[j]
    <3> TAKE k \in 1..(n - 1)
    <3>1. CASE k < i
      BY <1>2, <2>1, <2>3, <3>1
    <3>2. CASE ~(k < i)
      BY <1>2, <2>1, <2>3, <3>2
    <3> QED
      BY <3>1, <3>2
  <2>5. \A j \in 1..n : j # i => \E k \in 1..(n - 1) :
            active_children'[k] = active_children[j]
    <3> TAKE j \in 1..n
    <3>1. CASE j < i
      BY <1>2, <2>1, <2>3, <3>1
    <3>2. CASE j > i
      <4>1. j - 1 \in 1..(n - 1) /\ ~(j - 1 < i) /\ (j - 1) + 1 = j
        BY <1>2, <2>1, <3>2
      <4> QED
        BY <2>3, <4>1
    <3> QED
      BY <2>1, <3>1, <3>2
  <2>6. Listed' = Listed \ {p}
    <3>1. \A j \in 1..n : active_children[j].pid = p <=> j = i
      BY <1>2, <2>1 DEF Unique
    <3>2. Listed' = {active_children'[k].pid : k \in 1..(n - 1)}
      BY <2>3 DEF Listed
    <3> QED
      <4>1. \A q : q \in Listed' <=>
                \E k \in 1..(n - 1) : active_children'[k].pid = q
        BY <3>2
      <4>2. \A q : q \in Listed <=> \E j \in 1..n : active_children[j].pid = q
        BY DEF Listed
      <4>3. ASSUME NEW q \in Listed' PROVE q \in Listed /\ q # p
        <5>1. PICK k \in 1..(n - 1) : active_children'[k].pid = q
          BY <4>1
        <5>2. PICK j \in 1..n : j # i /\ active_children'[k] = active_children[j]
          BY <2>4
        <5> QED
          BY <3>1, <4>2, <5>1, <5>2
      <4>4. ASSUME NEW q \in Listed, q # p PROVE q \in Listed'
        <5>1. PICK j \in 1..n : active_children[j].pid = q
          BY <4>2
        <5>2. PICK k \in 1..(n - 1) : active_children'[k] = active_children[j]
          BY <2>5, <3>1, <4>4, <5>1
        <5> QED
          BY <4>1, <5>1, <5>2
      <4> QED
        BY <4>3, <4>4
  <2>7. \A k \in 1..Len(active_children') :
            f[active_children'[k].pid] = [name |-> active_children'[k].name,
                                          room |-> active_children'[k].room]
    <3> SUFFICES ASSUME NEW k \in 1..(n - 1)
                 PROVE  f[active_children'[k].pid] =
                            [name |-> active_children'[k].name,
                             room |-> active_children'[k].room]
      BY <2>3
    <3>1. PICK j \in 1..n : j # i /\ active_children'[k] = active_children[j]
      BY <2>4
    <3>2. active_children[j].pid # p
      BY <1>2, <2>1, <3>1 DEF Unique
    <3> QED
      BY <1>2, <3>1, <3>2
  <2>8. f = [q \in Listed \ {p} |-> f[q]]
    OBVIOUS
  <2>9. Members' = f
    <3> HIDE DEF f
    <3> QED
      BY <1>1, <2>6, <2>7, <2>8, NextMembers
  <2> QED
    BY <1>1, <1>2, <2>1, <2>9 DEF P!Leave, P!Present, RoomNames
<1> QED
  BY <1>3, <1>4

\* /rm brings no room in; /add brings in the one that is named.
LEMMA NoNewRoom ==
    ASSUME IInv, NEW w \in Word
    PROVE  \A i \in 1..Len(RemoveRoom(room_info, w)) :
               \E j \in 1..Len(room_info) :
                   RemoveRoom(room_info, w)[i] = room_info[j]
<1> DEFINE n == Len(room_info)
           At == {k \in 1..n : room_info[k] = w}
           first == CHOOSE k \in At : \A l \in At : k <= l
<1>1. room_info \in Seq(Word) /\ n \in Nat
  BY LenProperties DEF IInv, TypeOK
<1>2. CASE At = {}
  BY <1>2 DEF RemoveRoom
<1>3. CASE At # {}
  <2>1. RemoveRoom(room_info, w) = RemoveEntry(room_info, first)
    BY <1>3 DEF RemoveRoom
  <2>2. n > 0
    BY <1>1, <1>3
  <2> HIDE DEF first
  <2>3. /\ Len(RemoveEntry(room_info, first)) = n - 1
        /\ \A i \in 1..(n - 1) : RemoveEntry(room_info, first)[i] =
               IF i < first THEN room_info[i] ELSE room_info[i + 1]
    BY <1>1, <2>2, RemoveEntryFacts
  <2> QED
    BY <1>1, <2>1, <2>3
<1> QED
  BY <1>2, <1>3

LEMMA OpenMaps ==
    ASSUME IInv, HandleAdd
    PROVE  P!OpenRoom(Arg) \/ UNCHANGED <<Members, RoomNames, toChild>>
<1> DEFINE n == Len(room_info)
<1>1. /\ Arg \in Word /\ room_info' = AddRoom(room_info, Arg, ChatRoom)
      /\ UNCHANGED <<active_children, toChild>>
  BY SenderFound DEF HandleAdd, TakeLine, ReadPipe, Updates, noProcessStep, unchangedByParent
<1>2. room_info \in Seq(Word) /\ n \in Nat
  BY LenProperties DEF IInv, TypeOK
<1>3. UNCHANGED Members
  BY <1>1, MembersAre
<1>4. CASE room_info' = room_info
  BY <1>1, <1>3, <1>4 DEF RoomNames
<1>5. CASE room_info' = Append(room_info, Arg)
  <2>1. /\ Len(room_info') = n + 1 /\ room_info'[n + 1] = Arg
        /\ \A k \in 1..n : room_info'[k] = room_info[k]
    BY <1>1, <1>2, <1>5, AppendProperties
  <2>2. \A k \in 1..(n + 1) : k \in 1..n \/ k = n + 1
    BY <1>2
  <2>3. n + 1 \in 1..(n + 1) /\ 1..n \subseteq 1..(n + 1)
    BY <1>2
  <2>4. \A w : w \in RoomNames' <=> w \in RoomNames \/ w = Arg
    BY <2>1, <2>2, <2>3 DEF RoomNames
  <2>5. RoomNames' = RoomNames \cup {Arg}
    BY <2>4
  <2> QED
    BY <1>1, <1>3, <2>5 DEF P!OpenRoom
<1> QED
  BY <1>1, <1>4, <1>5 DEF AddRoom

\* A command that says something of one client says it of who typed it.
LEMMA EditMaps ==
    ASSUME IInv, IInv', TakeLine, NEW list, Updates(list, room_info),
           NEW p, p = EntryPid
    PROVE  /\ \A w \in Word :
                  list = MoveTo(active_children, scan, w) => P!GoTo(p, w)
           /\ \A c \in Content :
                  /\ list = Rename(active_children, scan, c)
                  /\ active_children[scan].name = NoName
                  => P!TakeName(p, c)
<1> DEFINE n == Len(active_children)
<1>1. /\ pc = "scan" /\ pc' = "scan" /\ scan \in 1..n /\ active_children' = list
      /\ UNCHANGED <<room_info, toChild>> /\ p = active_children[scan].pid
  BY SenderFound DEF TakeLine, ReadPipe, Updates, noProcessStep,
     unchangedByParent, EntryPid
<1>2. /\ active_children \in Seq(Entry) /\ n \in Nat /\ DOMAIN Members = Listed
      /\ \A k \in 1..n : /\ active_children[k].pid \in Listed
                         /\ Members[active_children[k].pid] =
                                [name |-> active_children[k].name,
                                 room |-> active_children[k].room]
  BY <1>1, TableUnique
<1> DEFINE e == active_children[scan]
<1>3. p \in Listed /\ Members[p] = [name |-> e.name, room |-> e.room]
  BY <1>1, <1>2
<1>4. \A k \in 1..n : k # scan => active_children[k].pid # p
  BY <1>1, TableUnique DEF Unique
<1>5. ASSUME Len(list) = n, NEW f, f = [q \in Listed |-> f[q]],
             \A k \in 1..n : list[k].pid = active_children[k].pid,
             \A k \in 1..n : f[active_children[k].pid] =
                                 [name |-> list[k].name, room |-> list[k].room]
      PROVE  Members' = f
  <2>1. Listed' = Listed
    BY <1>1, <1>5 DEF Listed
  <2> QED
    BY <1>1, <1>5, <2>1, NextMembers
<1>6. ASSUME NEW w \in Word, list = MoveTo(active_children, scan, w)
      PROVE  P!GoTo(p, w)
  <2> DEFINE f == [Members EXCEPT ![p].room = w]
  <2>1. /\ Len(list) = n
        /\ \A k \in 1..n :
               /\ list[k].pid = active_children[k].pid
               /\ list[k].name = active_children[k].name
               /\ list[k].room = IF k = scan THEN w ELSE active_children[k].room
    <3>1. /\ Len(MoveTo(active_children, scan, w)) = n
          /\ \A k \in 1..n :
                 /\ MoveTo(active_children, scan, w)[k].pid = active_children[k].pid
                 /\ MoveTo(active_children, scan, w)[k].name = active_children[k].name
                 /\ MoveTo(active_children, scan, w)[k].room =
                        IF k = scan THEN w ELSE active_children[k].room
      BY <1>1, <1>2, MoveToFacts
    <3> QED
      BY <1>6, <3>1
  <2>2. \A k \in 1..n : f[active_children[k].pid] =
                            [name |-> list[k].name, room |-> list[k].room]
    <3> TAKE k \in 1..n
    <3>1. CASE k = scan
      <4>1. f[p] = [Members[p] EXCEPT !.room = w]
        BY <1>2, <1>3
      <4>2. [Members[p] EXCEPT !.room = w] = [name |-> e.name, room |-> w]
        BY <1>3
      <4>3. /\ list[k].room = w /\ list[k].name = e.name
            /\ active_children[k].pid = p
        BY <1>1, <2>1, <3>1
      <4> QED
        BY <4>1, <4>2, <4>3
    <3>2. CASE k # scan
      <4>1. active_children[k].pid # p /\ active_children[k].pid \in Listed
        BY <1>2, <1>4, <3>2
      <4>2. f[active_children[k].pid] = Members[active_children[k].pid]
        BY <1>2, <4>1
      <4> QED
        BY <1>2, <2>1, <3>2, <4>2
    <3> QED
      BY <3>1, <3>2
  <2>3. f = [q \in Listed |-> f[q]]
    BY <1>2
  <2>4. Members' = f
    <3> HIDE DEF f
    <3> QED
      BY <1>5, <2>1, <2>2, <2>3
  <2> QED
    BY <1>1, <1>2, <1>3, <2>4 DEF P!GoTo, P!Present, RoomNames
<1>7. ASSUME NEW c \in Content, list = Rename(active_children, scan, c),
             active_children[scan].name = NoName
      PROVE  P!TakeName(p, c)
  <2> DEFINE f == [Members EXCEPT ![p].name = c]
  <2>1. /\ Len(list) = n
        /\ \A k \in 1..n :
               /\ list[k].pid = active_children[k].pid
               /\ list[k].room = active_children[k].room
               /\ list[k].name = IF k = scan THEN c ELSE active_children[k].name
    <3>1. /\ Len(Rename(active_children, scan, c)) = n
          /\ \A k \in 1..n :
                 /\ Rename(active_children, scan, c)[k].pid = active_children[k].pid
                 /\ Rename(active_children, scan, c)[k].room = active_children[k].room
                 /\ Rename(active_children, scan, c)[k].name =
                        IF k = scan THEN c ELSE active_children[k].name
      BY <1>1, <1>2, RenameFacts
    <3> QED
      BY <1>7, <3>1
  <2>2. \A k \in 1..n : f[active_children[k].pid] =
                            [name |-> list[k].name, room |-> list[k].room]
    <3> TAKE k \in 1..n
    <3>1. CASE k = scan
      <4>1. f[p] = [Members[p] EXCEPT !.name = c]
        BY <1>2, <1>3
      <4>2. [Members[p] EXCEPT !.name = c] = [name |-> c, room |-> e.room]
        BY <1>3
      <4>3. /\ list[k].name = c /\ list[k].room = e.room
            /\ active_children[k].pid = p
        BY <1>1, <2>1, <3>1
      <4> QED
        BY <4>1, <4>2, <4>3
    <3>2. CASE k # scan
      <4>1. active_children[k].pid # p /\ active_children[k].pid \in Listed
        BY <1>2, <1>4, <3>2
      <4>2. f[active_children[k].pid] = Members[active_children[k].pid]
        BY <1>2, <4>1
      <4> QED
        BY <1>2, <2>1, <3>2, <4>2
    <3> QED
      BY <3>1, <3>2
  <2>3. f = [q \in Listed |-> f[q]]
    BY <1>2
  <2>4. Members' = f
    <3> HIDE DEF f
    <3> QED
      BY <1>5, <2>1, <2>2, <2>3
  <2>5. Members[p].name = NoName
    BY <1>7, <1>3
  <2> QED
    BY <1>1, <1>2, <1>3, <2>4, <2>5 DEF P!TakeName, P!Present, RoomNames
<1> QED
  BY <1>6, <1>7

LEMMA CloseMaps ==
    ASSUME IInv, IInv', HandleRm
    PROVE  \E r \in Word : P!CloseRoom(r)
<1> DEFINE n == Len(active_children)
           f == [p \in Listed |-> IF Members[p].room = Arg
                                  THEN [Members[p] EXCEPT !.room = Blank]
                                  ELSE Members[p]]
<1>1. /\ pc = "scan" /\ pc' = "scan" /\ Arg \in Word /\ UNCHANGED toChild
      /\ active_children' = Evict(active_children, Arg)
      /\ room_info' = RemoveRoom(room_info, Arg)
  BY SenderFound DEF HandleRm, TakeLine, ReadPipe, Updates, noProcessStep,
     unchangedByParent
<1>2. /\ active_children \in Seq(Entry) /\ n \in Nat /\ DOMAIN Members = Listed
      /\ \A k \in 1..n : /\ active_children[k] \in Entry
                         /\ active_children[k].pid \in Listed
                         /\ Members[active_children[k].pid] =
                                [name |-> active_children[k].name,
                                 room |-> active_children[k].room]
  BY <1>1, TableUnique
<1>3. /\ Len(active_children') = n
      /\ \A k \in 1..n :
             /\ active_children'[k].pid = active_children[k].pid
             /\ active_children'[k].name = active_children[k].name
  BY <1>1, <1>2, EvictFacts
<1>4. \A k \in 1..n : active_children'[k].room =
          IF active_children[k].room = Arg THEN Blank ELSE active_children[k].room
  BY <1>1, <1>2 DEF Evict, Entry
<1>5. Listed' = Listed
  BY <1>3 DEF Listed
<1>6. \A k \in 1..Len(active_children') :
          f[active_children'[k].pid] = [name |-> active_children'[k].name,
                                        room |-> active_children'[k].room]
  <2> SUFFICES ASSUME NEW k \in 1..n
               PROVE  f[active_children'[k].pid] =
                          [name |-> active_children'[k].name,
                           room |-> active_children'[k].room]
    BY <1>3
  <2> DEFINE p == active_children[k].pid
             e == active_children[k]
  <2>1. p \in Listed /\ Members[p] = [name |-> e.name, room |-> e.room]
    BY <1>2
  <2>2. f[p] = [name |-> e.name, room |-> IF e.room = Arg THEN Blank ELSE e.room]
    BY <2>1
  <2> QED
    BY <1>3, <1>4, <2>2
<1>7. f = [p \in Listed |-> f[p]]
  OBVIOUS
<1>8. Members' = f
  <2> HIDE DEF f
  <2> QED
    BY <1>1, <1>5, <1>6, <1>7, NextMembers
<1>9. RoomNames' \in {RoomNames, RoomNames \ {Arg}}
  <2>1. RoomNames \ {Arg} \subseteq RoomNames'
    BY <1>1, RoomsKept DEF RoomNames
  <2>2. RoomNames' \subseteq RoomNames
    BY <1>1, NoNewRoom DEF RoomNames
  <2> QED
    BY <2>1, <2>2
<1> QED
  BY <1>1, <1>2, <1>8, <1>9 DEF P!CloseRoom, P!Present

LEMMA HandleMaps ==
    ASSUME IInv, IInv', Handle
    PROVE  P!PromiseStep \/ UNCHANGED P!promiseVars
<1>1. TakeLine /\ UNCHANGED toChild
  BY HandleForms DEF TakeLine, noProcessStep, unchangedByParent
<1>2. /\ Sender = scan /\ scan \in 1..Len(active_children) /\ EntryPid \in Pid
      /\ Arg \in Word /\ FirstLine.content \in Content
  BY <1>1, SenderFound DEF TakeLine, ReadPipe
<1>3. CASE UNCHANGED <<active_children, room_info>>
  BY <1>1, <1>3, MembersAre DEF RoomNames, P!promiseVars
<1>4. CASE HandleQuery \/ HandleWhisper \/ HandleNothing \/ HandleBroadcast
           \/ HandleUnknown
  <2>1. (\E j : Starts(j)) \/ Updates(active_children, room_info)
    BY <1>4 DEF HandleQuery, HandleWhisper, HandleNothing, HandleBroadcast,
       HandleUnknown
  <2> QED
    BY <1>3, <2>1 DEF Starts, Updates
<1>5. CASE HandleAdd
  BY <1>2, <1>5, OpenMaps DEF P!PromiseStep, P!promiseVars
<1>6. CASE HandleRm
  BY <1>6, CloseMaps DEF P!PromiseStep
<1>7. CASE HandleJoin \/ HandleLeave
  <2>1. PICK w \in Word : Updates(MoveTo(active_children, scan, w), room_info)
    BY <1>2, <1>7 DEF HandleJoin, HandleLeave, Word
  <2>2. P!GoTo(EntryPid, w)
    BY <1>1, <2>1, EditMaps
  <2> QED
    BY <1>2, <2>2 DEF P!PromiseStep
<1>8. CASE HandleName
  <2>1. /\ Updates(Rename(active_children, scan, FirstLine.content), room_info)
        /\ active_children[scan].name = NoName
    BY <1>8 DEF HandleName
  <2>2. P!TakeName(EntryPid, FirstLine.content)
    BY <1>1, <1>2, <2>1, EditMaps
  <2> QED
    BY <1>2, <2>2 DEF P!PromiseStep
<1> QED
  BY <1>4, <1>5, <1>6, <1>7, <1>8 DEF Handle

\* The write of a round puts a text, or as much of it as fits, behind what
\* is in one pipe.
RoundTells ==
    /\ UNCHANGED <<active_children, room_info>>
    /\ \E n \in Nat \ {0} :
           toChild' = [toChild EXCEPT ![Target] =
                           toChild[Target] \o Pieces(Answer, n)]

\* What is behind the old messages is the new text.
LEMMA NewText ==
    ASSUME NEW S, NEW s \in Seq(S), NEW u \in Seq(S), Len(u) > 0
    PROVE  /\ Len(s) + 1 \in 1..Len(s \o u)
           /\ SubSeq(s \o u, Len(s) + 1, Len(s \o u)) = u
<1>1. Len(s) \in Nat /\ Len(u) \in Nat
  BY LenProperties
<1>2. Len(s \o u) = Len(s) + Len(u)
  BY ConcatProperties
<1>3. /\ Len(s) + 1 \in Len(s) + 1 .. Len(s) + Len(u)
      /\ Len(s) + Len(u) \in Len(s) + 1 .. Len(s) + Len(u)
  BY <1>1
<1>4. SubSeq(s \o u, Len(s) + 1, Len(s) + Len(u)) =
          SubSeq(u, (Len(s) + 1) - Len(s), (Len(s) + Len(u)) - Len(s))
  BY <1>3, SubSeqOfConcat2
<1>5. (Len(s) + 1) - Len(s) = 1 /\ (Len(s) + Len(u)) - Len(s) = Len(u)
  BY <1>1
<1>6. SubSeq(u, 1, Len(u)) = u
  BY SubSeqFull
<1> QED
  BY <1>1, <1>2, <1>4, <1>5, <1>6

LEMMA ToldMaps ==
    ASSUME IInv, SpeakerInv, pc \in {"deliver", "signal"}, job.k <= JobEnd,
           Hit(job.k), RoundTells
    PROVE  \E p \in Pid : P!Tell(p)
<1> DEFINE t == Target
           f == active_children[job.by].pid
<1>0. PICK n \in Nat \ {0} :
          toChild' = [toChild EXCEPT ![t] = toChild[t] \o Pieces(Answer, n)]
  BY DEF RoundTells
<1> DEFINE u == Pieces(Answer, n)
<1>1. /\ pc \in {"deliver", "signal"} /\ job.k <= JobEnd /\ Hit(job.k)
      /\ Speaks(job) /\ UNCHANGED <<active_children, room_info>>
  BY DEF RoundTells, SpeakerInv
<1>2. UNCHANGED <<Members, RoomNames>>
  BY <1>1, MembersAre DEF RoomNames
<1>3. /\ job \in Job /\ toChild \in [Pid -> Seq(Payload)]
      /\ job.by \in 1..Len(active_children)
      /\ Len(active_children) \in Nat /\ Len(room_info) \in Nat /\ job.k # 0
  BY <1>1, LenProperties DEF IInv, TypeOK, JobInv
<1>4. /\ DOMAIN Members = Listed
      /\ \A k \in 1..Len(active_children) :
             /\ active_children[k].pid \in Listed
             /\ Members[active_children[k].pid] =
                    [name |-> active_children[k].name,
                     room |-> active_children[k].room]
  BY <1>1, TableUnique
<1>5. f \in Pid /\ t \in Pid /\ t \in Listed
  BY <1>1, TargetFacts
<1>6. f \in Listed /\ Members[f] = [name |-> active_children[job.by].name,
                                    room |-> active_children[job.by].room]
  BY <1>3, <1>4
<1>7. /\ toChild[t] \in Seq(Payload)
      /\ \A k \in 1..n :
             /\ [Answer EXCEPT !.part = k] \in Payload
             /\ [Answer EXCEPT !.part = k] =
                    [kind |-> job.kind, no |-> job.no, part |-> k, from |-> f]
  BY <1>5, AnswerFacts
<1>11. \A k \in 1..n : [Answer EXCEPT !.part = k] \in Payload
  BY <1>7
<1>8. /\ u \in Seq(Payload) /\ Len(u) = n
      /\ \A k \in 1..n : u[k] = [kind |-> job.kind, no |-> job.no,
                                  part |-> k, from |-> f]
  <2>1. /\ Pieces(Answer, n) \in Seq(Payload) /\ Len(Pieces(Answer, n)) = n
        /\ \A k \in 1..n : Pieces(Answer, n)[k] = [Answer EXCEPT !.part = k]
    BY <1>11, PiecesFacts
  <2> QED
    BY <1>7, <2>1
<1>9. ASSUME NEW m \in Payload, m.kind = job.kind, m.from = f
      PROVE  P!MayHear(t, m)
  <2>1. m.kind \in {"list", "users"} => m.from = t
    BY <1>9 DEF Target
  <2>2. m.kind \in {"whisper", "broadcast"} => Members[f].name # NoName
    BY <1>1, <1>6, <1>9 DEF Speaks
  <2>3. ASSUME m.kind = "broadcast"
        PROVE  Members[t].room = Members[f].room /\ Members[t].room # Blank
    <3>1. job.kind = "broadcast"
      BY <1>9, <2>3
    <3>2. job.k \in 1..Len(active_children) /\ t = active_children[job.k].pid
      BY <1>1, <1>3, <3>1 DEF JobEnd, Target, Job
    <3>3. /\ active_children[job.k].room = active_children[job.by].room
          /\ active_children[job.by].room # Blank
      BY <1>1, <3>1 DEF Hit, Speaks
    <3>4. Members[t].room = active_children[job.k].room
      <4>1. Members[active_children[job.k].pid] =
                [name |-> active_children[job.k].name,
                 room |-> active_children[job.k].room]
        BY <1>4, <3>2
      <4> HIDE DEF t
      <4> QED
        BY <3>2, <4>1
    <3> QED
      BY <1>6, <3>3, <3>4
  <2> QED
    BY <1>4, <1>5, <1>6, <1>9, <2>1, <2>2, <2>3 DEF P!MayHear, P!Present
<1>12. \A k \in 1..n : P!MayHear(t, u[k])
  <2> TAKE k \in 1..n
  <2>1. u[k] \in Payload
    BY <1>8, ElementOfSeq
  <2>2. u[k] = [kind |-> job.kind, no |-> job.no, part |-> k, from |-> f]
    BY <1>8
  <2>3. u[k].kind = job.kind /\ u[k].from = f
    BY <2>2
  <2> HIDE DEF u, f, t
  <2> QED
    BY <1>9, <2>1, <2>3
<1>10. P!Tell(t)
  <2> DEFINE s == toChild[t]
  <2>1. s \in Seq(Payload) /\ t \in Pid /\ Len(u) > 0
    BY <1>5, <1>7, <1>8
  <2>2. toChild'[t] = s \o u /\ toChild' = [toChild EXCEPT ![t] = @ \o u]
    BY <1>0, <1>3, <1>5
  <2> HIDE DEF s, u, t
  <2>3. /\ Len(s) + 1 \in 1..Len(s \o u)
        /\ SubSeq(s \o u, Len(s) + 1, Len(s \o u)) = u
    BY <1>8, <2>1, NewText
  <2> QED
    BY <1>2, <1>8, <1>12, <2>2, <2>3 DEF P!Tell
<1> QED
  BY <1>5, <1>10

LEMMA TellMaps ==
    ASSUME IInv, SpeakerInv, DeliverWrite
    PROVE  (\E p \in Pid : P!Tell(p)) \/ UNCHANGED P!promiseVars
<1>1. CASE UNCHANGED toChild
  BY <1>1, MembersAre DEF DeliverWrite, RoomNames, P!promiseVars
<1>2. CASE toChild' # toChild
  <2>1. RoundTells
    BY <1>2, DeliverWriteFacts DEF DeliverWrite, RoundTells
  <2> QED
    BY <2>1, ToldMaps DEF DeliverWrite
<1> QED
  BY <1>1, <1>2

\* Reading a pipe, its process ending, and a new pipe in its place.
LEMMA HearMaps ==
    ASSUME IInv, NEW p \in Pid, UNCHANGED <<active_children, room_info>>,
           \/ toChild' = [toChild EXCEPT ![p] = AfterRead(@)]
           \/ toChild' = [toChild EXCEPT ![p] = <<>>]
    PROVE  P!Hear(p) \/ UNCHANGED P!promiseVars
<1> DEFINE s == toChild[p]
<1>1. toChild \in [Pid -> Seq(Payload)] /\ s \in Seq(Payload) /\ Len(s) \in Nat
  BY LenProperties DEF IInv, TypeOK
<1>2. UNCHANGED <<Members, RoomNames>>
  BY MembersAre DEF RoomNames
<1>3. SubSeq(s, Len(s) + 1, Len(s)) = <<>>
  BY <1>1, SubSeqEmpty
<1>4. CASE s = <<>>
  <2>1. AfterRead(s) = <<>>
    <3>1. AfterRead(s) \in Seq(Payload) /\ Len(AfterRead(s)) <= Len(s)
      BY <1>1, AfterReadFacts
    <3> QED
      BY <1>4, <3>1, LenProperties, EmptySeq
  <2>2. toChild' = toChild
    BY <1>1, <1>4, <2>1
  <2> QED
    BY <1>2, <2>2 DEF P!promiseVars
<1>5. CASE s # <<>>
  <2>1. Len(s) \in 1..Len(s)
    BY <1>1, <1>5, EmptySeq
  <2>2. Chunk(s) \in 1..Len(s) /\ AfterRead(s) = SubSeq(s, Chunk(s) + 1, Len(s))
    BY <1>1, <2>1, ServerAssumption DEF Chunk, Least, AfterRead
  <2>3. PICK k \in 1..Len(s) :
            toChild' = [toChild EXCEPT ![p] = SubSeq(s, k + 1, Len(s))]
    BY <1>3, <2>1, <2>2
  <2> QED
    BY <1>2, <2>3 DEF P!Hear
<1> QED
  BY <1>4, <1>5

LEMMA ChatStepMaps ==
    ASSUME IInv, IInv', SpeakerInv, [Next]_vars
    PROVE  P!PromiseStep \/ UNCHANGED P!promiseVars
<1>1. CASE UNCHANGED <<active_children, room_info, toChild>>
  BY <1>1, MembersAre DEF RoomNames, P!promiseVars
<1>2. ASSUME NEW p \in Pid, P!Hear(p) \/ UNCHANGED P!promiseVars
      PROVE  P!PromiseStep \/ UNCHANGED P!promiseVars
  BY <1>2 DEF P!PromiseStep
<1>3. ASSUME NEW p \in Pid, Child(p)
      PROVE  P!PromiseStep \/ UNCHANGED P!promiseVars
  <2>1. UNCHANGED <<active_children, room_info>>
    BY <1>3 DEF Child, ChildSetup, ChildClearFlag, ChildNoFlag,
       ChildRelay, ChildReadNothing, ChildIdle, ChildReadEof, ChildReadLine,
       ChildSignalParent, ChildWrite, ChildBrokenPipe, ChildExit,
       ChildTerminated, unchangedByChild, parentVars
  <2>2. \/ toChild' = [toChild EXCEPT ![p] = AfterRead(@)]
        \/ toChild' = [toChild EXCEPT ![p] = <<>>]
        \/ UNCHANGED toChild
    BY <1>3 DEF Child, ChildSetup, ChildClearFlag, ChildNoFlag,
       ChildRelay, ChildReadNothing, ChildIdle, ChildReadEof, ChildReadLine,
       ChildSignalParent, ChildWrite, ChildBrokenPipe, ChildExit,
       ChildTerminated, Die
  <2> QED
    BY <1>1, <1>2, <2>1, <2>2, HearMaps
<1>4. ASSUME NEW p \in Pid, AcceptFork(p)
      PROVE  P!PromiseStep \/ UNCHANGED P!promiseVars
  BY <1>2, <1>4, HearMaps DEF AcceptFork
<1>5. CASE AddChild
  BY <1>5, EnterMaps DEF P!PromiseStep
<1>6. ASSUME NEW p \in Pid, Reap(p)
      PROVE  P!PromiseStep \/ UNCHANGED P!promiseVars
  BY <1>6, LeaveMaps DEF P!PromiseStep, P!promiseVars
<1>7. CASE Handle
  BY <1>7, HandleMaps
<1>8. CASE DeliverWrite
  BY <1>8, TellMaps DEF P!PromiseStep
<1>9. CASE \/ TopOfLoop \/ ReapDone \/ ClearExited \/ AcceptIdle \/ AcceptScan
           \/ AcceptError \/ AcceptRefuse \/ ScanDone \/ ScanEmpty \/ SkipRound
           \/ DeliverBroken \/ DeliverSignal \/ DeliverDone \/ TermChild
           \/ TermDone \/ WaitDone \/ \E p \in Pid : WaitChild(p)
  BY <1>1, <1>9 DEF TopOfLoop, ReapDone, ClearExited, AcceptIdle, AcceptScan,
     AcceptError, AcceptRefuse, ScanDone, ScanEmpty, SkipRound, DeliverBroken,
     Dies, DeliverSignal, DeliverDone, TermChild, TermDone, WaitDone, WaitChild,
     noProcessStep, unchangedByParent
<1>10. CASE UNCHANGED vars
  BY <1>1, <1>10 DEF vars, parentVars, pipeVars
<1>11. CASE Misread
  BY <1>1, <1>11, MisreadForms
<1> QED
  BY <1>3, <1>4, <1>5, <1>6, <1>7, <1>8, <1>9, <1>10, <1>11
     DEF Next, Parent, Handle, Misread

LEMMA PromiseStarts == Init => SpeakerInv /\ P!PromiseInit
<1> SUFFICES ASSUME Init PROVE SpeakerInv /\ P!PromiseInit
  OBVIOUS
<1>1. SpeakerInv
  BY DEF Init, SpeakerInv
<1>2. active_children = <<>> /\ room_info = <<>> /\ Len(<<>>) = 0
  BY EmptySeq DEF Init
<1>3. Listed = {} /\ RoomNames = {}
  BY <1>2 DEF Listed, RoomNames
<1>4. Members = [p \in {} |-> P!Newcomer]
  BY <1>3 DEF Members
<1> QED
  BY <1>1, <1>3, <1>4 DEF Init, P!PromiseInit

\* The tables, loops and pipes of the server are to its clients what
\* ChatPromise says (server.c:137-358, sig.c:19-39): shifting an entry takes
\* one client away and leaves the others as they were, a command changes who
\* typed it, and text is written only within the room it was typed in.
THEOREM PromiseCorrect == Spec => PromiseKept
<1>1. Init => SpeakerInv /\ P!PromiseInit
  BY PromiseStarts
<1>2. IInv /\ SpeakerInv /\ [Next]_vars => SpeakerInv'
  BY SpeakerNext
<1>3. IInv /\ IInv' /\ SpeakerInv /\ [Next]_vars => [P!PromiseNext]_(P!promiseVars)
  BY ChatStepMaps DEF P!PromiseNext
<1> QED
  BY <1>1, <1>2, <1>3, Inductive, PTL DEF Spec, PromiseKept, P!Promise
=============================================================================
