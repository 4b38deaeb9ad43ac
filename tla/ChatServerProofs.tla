-------------------------- MODULE ChatServerProofs --------------------------
(***************************************************************************)
(* Invariance proofs for ChatServer, for any set of pids, any limits, any  *)
(* pipe capacity and any input.                                            *)
(***************************************************************************)
EXTENDS ChatServer, ChatRegistryProofs

\* A line in a child's pipe bears the pid of that child.
OwnLines == \A p \in Pid : \A k \in 1..Len(toParent[p]) : toParent[p][k].pid = p

\* A write loop works for the entry being scanned, which exists, and its
\* index is in range when a signal is due.
JobInv ==
    pc \in {"deliver", "signal"} =>
        /\ scan \in 1..Len(active_children) /\ job.by = scan /\ job.k # 0
        /\ pc = "signal" => job.k <= JobEnd

\* The inductive invariant: what the tables say is true of the processes.
IInv == TypeOK /\ RegistryExact /\ OwnLines /\ JobInv

-----------------------------------------------------------------------------
\* Reading a pipe leaves a suffix of it.
LEMMA AfterReadFacts ==
    ASSUME NEW S, NEW s \in Seq(S)
    PROVE  /\ AfterRead(s) \in Seq(S)
           /\ Len(AfterRead(s)) <= Len(s)
           /\ \A k \in 1..Len(AfterRead(s)) :
                  \E j \in 1..Len(s) : AfterRead(s)[k] = s[j]
<1> DEFINE m == Chunk(s) + 1
<1>1. /\ Len(s) \in Nat /\ m \in Nat /\ m >= 1 /\ m <= Len(s) + 1
  BY LenProperties, ServerAssumption DEF Chunk, Least
<1>2. \A i \in m..Len(s) : s[i] \in S
  BY <1>1, ElementOfSeq
<1> HIDE DEF m
<1>3. /\ SubSeq(s, m, Len(s)) \in Seq(S)
      /\ Len(SubSeq(s, m, Len(s))) = IF m <= Len(s) THEN Len(s) - m + 1 ELSE 0
      /\ \A i \in 1..(Len(s) - m + 1) : SubSeq(s, m, Len(s))[i] = s[m + i - 1]
  BY <1>1, <1>2, SubSeqProperties
<1>4. AfterRead(s) = SubSeq(s, m, Len(s))
  BY DEF AfterRead, m
<1>5. ASSUME NEW k \in 1..Len(AfterRead(s))
      PROVE  \E j \in 1..Len(s) : AfterRead(s)[k] = s[j]
  <2>1. k \in 1..(Len(s) - m + 1) /\ m + k - 1 \in 1..Len(s)
    BY <1>1, <1>3, <1>4
  <2> QED
    BY <2>1, <1>3, <1>4
<1> QED
  BY <1>1, <1>3, <1>4, <1>5

\* Writing to a pipe puts pieces 1, 2, .. n of a text behind what is in it.
LEMMA PiecesFacts ==
    ASSUME NEW S, NEW m, NEW n \in Nat,
           \A k \in 1..n : [m EXCEPT !.part = k] \in S
    PROVE  /\ Pieces(m, n) \in Seq(S) /\ Len(Pieces(m, n)) = n
           /\ \A k \in 1..n : Pieces(m, n)[k] = [m EXCEPT !.part = k]
<1> DEFINE e == [k \in 1..n |-> [m EXCEPT !.part = k]]
<1>1. e \in [1..n -> S] /\ \A k \in 1..n : e[k] = [m EXCEPT !.part = k]
  OBVIOUS
<1>2. Pieces(m, n) = e
  BY DEF Pieces
<1> HIDE DEF e
<1>3. e \in Seq(S)
  BY <1>1, IsASeq
<1>4. Len(e) = n
  BY <1>1, <1>3, LenProperties
<1> QED
  BY <1>1, <1>2, <1>3, <1>4

LEMMA WrittenFacts ==
    ASSUME NEW S, NEW s \in Seq(S), NEW m, NEW n \in Nat,
           \A k \in 1..n : [m EXCEPT !.part = k] \in S
    PROVE  /\ s \o Pieces(m, n) \in Seq(S)
           /\ Len(s) \in Nat /\ Len(s \o Pieces(m, n)) = Len(s) + n
           /\ \A k \in 1..Len(s) : (s \o Pieces(m, n))[k] = s[k]
           /\ \A k \in 1..n :
                  (s \o Pieces(m, n))[Len(s) + k] = [m EXCEPT !.part = k]
           /\ \A k \in 1..(Len(s) + n) :
                  \/ k \in 1..Len(s)
                  \/ k - Len(s) \in 1..n /\ k = Len(s) + (k - Len(s))
<1> DEFINE t == Pieces(m, n)
<1>1. t \in Seq(S) /\ Len(t) = n
      /\ \A k \in 1..n : t[k] = [m EXCEPT !.part = k]
  BY PiecesFacts
<1> HIDE DEF t
<1>2. /\ s \o t \in Seq(S)
      /\ Len(s \o t) = Len(s) + Len(t)
      /\ \A i \in 1 .. Len(s) + Len(t) : (s \o t)[i] =
              IF i <= Len(s) THEN s[i] ELSE t[i - Len(s)]
  <2>1. t \in Seq(S)
    BY <1>1
  <2> QED
    BY <2>1, ConcatProperties
<1>3. Len(s) \in Nat
  BY LenProperties
<1>4. \A k \in 1..Len(s) : (s \o t)[k] = s[k]
  BY <1>1, <1>2, <1>3
<1>5. \A k \in 1..n : (s \o t)[Len(s) + k] = [m EXCEPT !.part = k]
  BY <1>1, <1>2, <1>3
<1> QED
  BY <1>1, <1>2, <1>3, <1>4, <1>5 DEF t

\* The pieces of a line, and of an answer, are what their pipes carry.
LEMMA FormattedFacts ==
    ASSUME IInv, NEW p \in Pid
    PROVE  /\ toParent[p] \in Seq(Message)
           /\ \A n \in Written(toParent[p]) : n \in Nat
           /\ \A k \in Nat \ {0} :
                  /\ [Formatted(p) EXCEPT !.part = k] \in Message
                  /\ [Formatted(p) EXCEPT !.part = k] =
                         [pid |-> p, no |-> held[p].no,
                          content |-> held[p].content, part |-> k]
<1>1. held[p] \in Line /\ toParent[p] \in Seq(Message)
  BY DEF IInv, TypeOK
<1>2. held[p].no \in Nat /\ held[p].content \in Content
  BY <1>1 DEF Line
<1>3. ASSUME NEW k \in Nat \ {0}
      PROVE  [Formatted(p) EXCEPT !.part = k] =
                 [pid |-> p, no |-> held[p].no,
                  content |-> held[p].content, part |-> k]
  BY DEF Formatted
<1>4. \A k \in Nat \ {0} : [pid |-> p, no |-> held[p].no,
                            content |-> held[p].content, part |-> k] \in Message
  BY <1>2 DEF Message
<1> QED
  BY <1>1, <1>3, <1>4 DEF Written

LEMMA AnswerFacts ==
    ASSUME IInv, active_children[job.by].pid \in Pid, Target \in Pid
    PROVE  /\ toChild[Target] \in Seq(Payload)
           /\ \A n \in Written(toChild[Target]) : n \in Nat
           /\ \A k \in Nat \ {0} :
                  /\ [Answer EXCEPT !.part = k] \in Payload
                  /\ [Answer EXCEPT !.part = k] =
                         [kind |-> job.kind, no |-> job.no, part |-> k,
                          from |-> active_children[job.by].pid]
<1>1. job \in Job /\ toChild[Target] \in Seq(Payload)
  BY DEF IInv, TypeOK
<1>2. job.kind \in JobKind /\ job.no \in Nat
  BY <1>1 DEF Job
<1> DEFINE from == active_children[job.by].pid
<1>3. Answer = [kind |-> job.kind, no |-> job.no, part |-> 1, from |-> from]
  BY DEF Answer
<1>4. from \in Pid
  OBVIOUS
<1> HIDE DEF from
<1>5. ASSUME NEW k \in Nat \ {0}
      PROVE  [Answer EXCEPT !.part = k] =
                 [kind |-> job.kind, no |-> job.no, part |-> k, from |-> from]
  BY <1>3
<1>6. \A k \in Nat \ {0} :
          [kind |-> job.kind, no |-> job.no, part |-> k, from |-> from] \in Payload
  BY <1>2, <1>4 DEF Payload
<1> QED
  BY <1>1, <1>5, <1>6 DEF Written, from

\* The entry at index `scan`, while there is one, is that of a process.
LEMMA ScannedEntry ==
    ASSUME IInv, scan <= Len(active_children)
    PROVE  /\ scan \in 1..Len(active_children)
           /\ EntryPid \in Pid /\ EntryPid \in Listed
<1>1. active_children \in Seq(Entry) /\ scan \in Nat \ {0}
  BY DEF IInv, TypeOK
<1>2. scan \in 1..Len(active_children)
  BY <1>1, LenProperties
<1>3. active_children[scan] \in Entry
  BY <1>1, <1>2, ElementOfSeq
<1> QED
  BY <1>2, <1>3 DEF EntryPid, Entry, Listed

\* A read leaves the pipe of the scanned entry shorter.
LEMMA ReadPipeFacts ==
    ASSUME IInv, ReadPipe
    PROVE  /\ pc = "scan" /\ scan <= Len(active_children)
           /\ scan \in 1..Len(active_children)
           /\ EntryPid \in Pid /\ toParent[EntryPid] # <<>>
           /\ toParent' = [toParent EXCEPT ![EntryPid] =
                                AfterRead(toParent[EntryPid])]
           /\ toParent' \in [Pid -> Seq(Message)]
<1>1. EntryPid \in Pid /\ scan \in 1..Len(active_children)
  BY ScannedEntry DEF ReadPipe
<1>2. toParent \in [Pid -> Seq(Message)]
  BY DEF IInv, TypeOK
<1>3. AfterRead(toParent[EntryPid]) \in Seq(Message)
  BY <1>1, <1>2, AfterReadFacts
<1> QED
  BY <1>1, <1>2, <1>3 DEF ReadPipe

\* The next round of a write loop changes its index and nothing else.
LEMMA RoundFacts ==
    ASSUME NEW j \in Job, NEW n \in Nat
    PROVE  /\ [j EXCEPT !.k = n] \in Job
           /\ [j EXCEPT !.k = n].k = n /\ [j EXCEPT !.k = n].by = j.by
           /\ [j EXCEPT !.k = n].kind = j.kind
           /\ [j EXCEPT !.k = n].to = j.to
           /\ [j EXCEPT !.k = n].no = j.no
BY DEF Job

\* Under the invariant the search for the sender finds the scanned entry.
LEMMA SenderFound ==
    ASSUME IInv, pc = "scan", scan <= Len(active_children),
           toParent[EntryPid] # <<>>
    PROVE  /\ scan \in 1..Len(active_children) /\ Sender = scan
           /\ EntryPid \in Pid /\ FirstLine \in Message
           /\ Cmd \in Kind /\ Arg \in Word /\ FirstLine.no \in Nat
           /\ FirstLine.content \in Content
<1>1. scan \in 1..Len(active_children)
  BY ScannedEntry
<1>2. EntryPid \in Pid
  BY ScannedEntry
<1>3. toParent[EntryPid] \in Seq(Message)
  BY <1>2 DEF IInv, TypeOK
<1>4. FirstLine \in Message /\ 1 \in 1..Len(toParent[EntryPid])
      /\ FirstLine = toParent[EntryPid][1]
  BY <1>3, HeadTailProperties, EmptySeq DEF FirstLine
<1>5. FirstLine.pid = active_children[scan].pid
  BY <1>2, <1>4 DEF IInv, OwnLines, EntryPid
<1>6. \A j, k \in 1..Len(active_children) :
          active_children[j].pid = active_children[k].pid => j = k
  BY DEF IInv, RegistryExact
<1>7. Sender = scan
  BY <1>1, <1>5, <1>6, IndexOfFacts DEF Sender, IInv, TypeOK
<1> QED
  BY <1>1, <1>2, <1>4, <1>7 DEF Message, Content, Cmd, Arg

-----------------------------------------------------------------------------
\* What ChildWrite does to the pipe of the child.
LEMMA ChildWriteFacts ==
    ASSUME IInv, NEW p \in Pid, ChildWrite(p)
    PROVE  \E n \in Nat :
               /\ toParent' = [toParent EXCEPT ![p] =
                                   toParent[p] \o Pieces(Formatted(p), n)]
               /\ toParent' \in [Pid -> Seq(Message)]
               /\ Len(toParent[p]) \in Nat
               /\ Len(toParent'[p]) = Len(toParent[p]) + n
               /\ \A k \in 1..Len(toParent[p]) : toParent'[p][k] = toParent[p][k]
               /\ \A k \in 1..n :
                      toParent'[p][Len(toParent[p]) + k] =
                          [pid |-> p, no |-> held[p].no,
                           content |-> held[p].content, part |-> k]
<1>1. PICK n \in Written(toParent[p]) :
          toParent' = [toParent EXCEPT ![p] = @ \o Pieces(Formatted(p), n)]
  BY DEF ChildWrite
<1>2. /\ toParent[p] \in Seq(Message) /\ n \in Nat
      /\ \A k \in 1..n :
             /\ [Formatted(p) EXCEPT !.part = k] \in Message
             /\ [Formatted(p) EXCEPT !.part = k] =
                    [pid |-> p, no |-> held[p].no,
                     content |-> held[p].content, part |-> k]
  BY FormattedFacts
<1>3. toParent \in [Pid -> Seq(Message)]
  BY DEF IInv, TypeOK
<1> DEFINE s == toParent[p]
           m == Formatted(p)
<1>4. s \in Seq(Message) /\ \A k \in 1..n : [m EXCEPT !.part = k] \in Message
  BY <1>2
<1> HIDE DEF s, m
<1>5. /\ s \o Pieces(m, n) \in Seq(Message)
      /\ Len(s) \in Nat /\ Len(s \o Pieces(m, n)) = Len(s) + n
      /\ \A k \in 1..Len(s) : (s \o Pieces(m, n))[k] = s[k]
      /\ \A k \in 1..n :
             (s \o Pieces(m, n))[Len(s) + k] = [m EXCEPT !.part = k]
  BY <1>2, <1>4, WrittenFacts
<1>6. toParent'[p] = s \o Pieces(m, n)
  BY <1>1, <1>3 DEF s, m
<1>7. toParent' \in [Pid -> Seq(Message)]
  BY <1>1, <1>3, <1>5, <1>6
<1>8. \A k \in 1..n :
          toParent'[p][Len(s) + k] = [pid |-> p, no |-> held[p].no,
                                      content |-> held[p].content, part |-> k]
  BY <1>2, <1>5, <1>6 DEF m
<1> QED
  BY <1>1, <1>2, <1>5, <1>6, <1>7, <1>8 DEF s, m

\* The placeholders are of the types of what they stand for.
LEMMA NullTypes == NoName \in Content /\ NoLine \in Line /\ NoJob \in Job
<1>1. NoName \in Content
  BY DEF NoName, Content, Kind, Word
<1>2. NoLine \in Line
  BY <1>1 DEF NoLine, Line
<1>3. NoJob \in Job
  BY <1>1 DEF NoJob, Job, JobKind
<1> QED
  BY <1>1, <1>2, <1>3

LEMMA TypeInit == Init => TypeOK
<1> SUFFICES ASSUME Init PROVE TypeOK
  OBVIOUS
<1>1. /\ active_children \in Seq(Entry)
      /\ room_info \in Seq(Word) /\ Len(room_info) <= ChatRoom
      /\ toParent \in [Pid -> Seq(Message)]
      /\ toChild \in [Pid -> Seq(Payload)]
  BY EmptySeq, ServerAssumption DEF Init
<1>2. /\ pc \in ParentPc /\ scan \in Nat \ {0} /\ job \in Job
      /\ newPid \in Pid \cup {NoPid}
      /\ held \in [Pid -> Line] /\ cpc \in [Pid -> ChildPc]
  BY NullTypes DEF Init, ParentPc, ChildPc
<1> QED
  BY <1>1, <1>2 DEF Init, TypeOK

LEMMA TypeChild ==
    ASSUME IInv, NEW p \in Pid, Child(p)
    PROVE  TypeOK'
<1>0. ASSUME ChildWrite(p) PROVE toParent' \in [Pid -> Seq(Message)]
  BY <1>0, ChildWriteFacts
<1> USE DEF IInv, TypeOK, ParentPc, ChildPc, unchangedByChild, flagVars,
            parentVars
<1>1. CASE ChildSetup(p)
  BY <1>1 DEF ChildSetup
<1>2. CASE ChildClearFlag(p)
  BY <1>2 DEF ChildClearFlag
<1>3. CASE ChildNoFlag(p)
  BY <1>3 DEF ChildNoFlag
<1>4. CASE ChildRelay(p)
  <2>1. AfterRead(toChild[p]) \in Seq(Payload)
    BY AfterReadFacts
  <2> QED
    BY <1>4, <2>1 DEF ChildRelay
<1>5. CASE ChildReadNothing(p)
  BY <1>5 DEF ChildReadNothing
<1>6. CASE ChildIdle(p)
  BY <1>6 DEF ChildIdle
<1>7. CASE ChildReadEof(p)
  BY <1>7 DEF ChildReadEof
<1>8. CASE \E c \in Inputs : ChildReadLine(p, c)
  <2>1. PICK c \in Inputs : ChildReadLine(p, c)
    BY <1>8
  <2>2. c \in Content
    BY ServerAssumption
  <2>3. [no |-> lines + 1, content |-> c] \in Line
    BY <2>2 DEF Line
  <2> QED
    BY <2>1, <2>3 DEF ChildReadLine
<1>9. CASE ChildSignalParent(p)
  BY <1>9 DEF ChildSignalParent
<1>10. CASE ChildWrite(p)
  <2>4. toParent' \in [Pid -> Seq(Message)]
    BY <1>0, <1>10
  <2> QED
    BY <1>10, <2>4, NullTypes DEF ChildWrite
<1>11. CASE Die(p) /\ UNCHANGED <<unchangedByChild, parent_sigusr_arrived, toParent, lines>>
  <2>1. <<>> \in Seq(Payload)
    BY EmptySeq
  <2> QED
    BY <1>11, <2>1, NullTypes DEF Die
<1> QED
  BY <1>1, <1>2, <1>3, <1>4, <1>5, <1>6, <1>7, <1>8, <1>9, <1>10, <1>11
     DEF Child, ChildBrokenPipe, ChildExit, ChildTerminated

\* What every command handler that only updates the tables keeps.
LEMMA TypeUpdates ==
    ASSUME IInv, TakeLine, NEW list \in Seq(Entry), NEW rooms \in Seq(Word),
           Len(rooms) <= ChatRoom, Updates(list, rooms)
    PROVE  TypeOK'
<1>1. toParent' \in [Pid -> Seq(Message)]
  BY ReadPipeFacts DEF TakeLine
<1>3. /\ scan' \in Nat \ {0} /\ pc' \in ParentPc /\ job' \in Job
      /\ active_children' \in Seq(Entry)
      /\ room_info' \in Seq(Word) /\ Len(room_info') <= ChatRoom
  BY DEF IInv, TypeOK, Updates
<1> QED
  BY <1>1, <1>3 DEF IInv, TypeOK, TakeLine, flagVars, noProcessStep,
      unchangedByParent

\* What every command handler that starts a write loop keeps.
LEMMA TypeStarts ==
    ASSUME IInv, TakeLine, NEW j \in Job, Starts(j)
    PROVE  TypeOK'
<1>1. toParent' \in [Pid -> Seq(Message)]
  BY ReadPipeFacts DEF TakeLine
<1>3. pc' \in ParentPc /\ job' \in Job
  BY DEF Starts, ParentPc
<1> QED
  BY <1>1, <1>3 DEF IInv, TypeOK, TakeLine, Starts, flagVars, noProcessStep,
      unchangedByParent

\* The command handlers: each is one of the two above.
Handle ==
    \/ HandleAdd \/ HandleJoin \/ HandleLeave \/ HandleRm \/ HandleUnknown
    \/ HandleQuery \/ HandleName \/ HandleWhisper \/ HandleNothing
    \/ HandleBroadcast

\* What a command does to active_children: its processes stay where they are.
KeepsPids(list) ==
    /\ list \in Seq(Entry) /\ Len(list) = Len(active_children)
    /\ \A k \in 1..Len(list) : list[k].pid = active_children[k].pid

LEMMA HandleForms ==
    ASSUME IInv, Handle
    PROVE  /\ TakeLine
           /\ \/ \E list, rooms :
                     /\ KeepsPids(list)
                     /\ rooms \in Seq(Word) /\ Len(rooms) <= ChatRoom
                     /\ Updates(list, rooms)
              \/ \E j \in Job : j.by = scan /\ j.k = 1 /\ Starts(j)
<1>1. TakeLine
  BY DEF Handle, HandleAdd, HandleJoin, HandleLeave, HandleRm, HandleUnknown,
     HandleQuery, HandleName, HandleWhisper, HandleNothing, HandleBroadcast
<1>2. /\ scan \in 1..Len(active_children) /\ Sender = scan /\ Arg \in Word
      /\ FirstLine.content \in Content /\ FirstLine.no \in Nat /\ Cmd \in Kind
  BY <1>1, SenderFound DEF TakeLine, ReadPipe
<1>3. /\ active_children \in Seq(Entry) /\ room_info \in Seq(Word)
      /\ Len(room_info) <= ChatRoom /\ ChatRoom \in Nat
  BY ServerAssumption DEF IInv, TypeOK
<1>4. Blank \in Word /\ NoName \in Content /\ scan \in Nat /\ scan # 0
  BY NullTypes DEF Word, IInv, TypeOK
<1>5. KeepsPids(active_children)
  BY <1>3 DEF KeepsPids
<1>6. ASSUME NEW r \in Word
      PROVE  KeepsPids(MoveTo(active_children, scan, r))
  <2>1. /\ MoveTo(active_children, scan, r) \in Seq(Entry)
        /\ Len(MoveTo(active_children, scan, r)) = Len(active_children)
        /\ \A j \in 1..Len(active_children) :
               MoveTo(active_children, scan, r)[j].pid = active_children[j].pid
    BY <1>2, <1>3, MoveToFacts
  <2> QED
    BY <2>1 DEF KeepsPids
<1>7. CASE HandleAdd
  BY <1>2, <1>3, <1>5, <1>7, <1>1, RoomTableFacts DEF HandleAdd
<1>8. CASE HandleJoin
  BY <1>2, <1>3, <1>4, <1>6, <1>8, <1>1 DEF HandleJoin
<1>9. CASE HandleLeave
  BY <1>2, <1>3, <1>4, <1>6, <1>9, <1>1 DEF HandleLeave
<1>10. CASE HandleRm
  <2>1. KeepsPids(Evict(active_children, Arg))
    BY <1>2, <1>3, EvictFacts DEF KeepsPids
  <2> QED
    BY <1>1, <1>2, <1>3, <2>1, <1>10, RoomTableFacts DEF HandleRm
<1>11. CASE HandleUnknown \/ HandleNothing
  BY <1>1, <1>3, <1>5, <1>11 DEF HandleUnknown, HandleNothing
<1>12. CASE HandleName
  <2> DEFINE named == Rename(active_children, scan, FirstLine.content)
  <2>1. /\ named \in Seq(Entry) /\ Len(named) = Len(active_children)
        /\ \A j \in 1..Len(active_children) :
               named[j].pid = active_children[j].pid
    BY <1>2, <1>3, RenameFacts
  <2>2. KeepsPids(named)
    BY <2>1 DEF KeepsPids
  <2> QED
    BY <1>1, <1>3, <2>2, <1>12 DEF HandleName
<1>13. CASE HandleQuery
  <2> DEFINE j == [kind |-> Cmd, by |-> Sender, to |-> NoName,
                   no |-> FirstLine.no, k |-> 1]
  <2>1. Starts(j) /\ Cmd \in JobKind
    BY <1>2, <1>4, <1>13 DEF HandleQuery, JobKind
  <2>2. j \in Job /\ j.by = scan /\ j.k = 1
    BY <1>2, <1>4, <2>1 DEF Job
  <2> QED
    BY <1>1, <2>1, <2>2
<1>14. CASE HandleWhisper
  <2>1. PICK w \in Word :
            Starts([kind |-> "whisper", by |-> Sender, no |-> FirstLine.no,
                    to |-> [kind |-> "text", arg |-> w], k |-> 1])
    BY <1>2, <1>4, <1>14 DEF HandleWhisper
  <2>2. [kind |-> "text", arg |-> w] \in Content
    BY DEF Content, Kind
  <2>3. [kind |-> "whisper", by |-> Sender, no |-> FirstLine.no,
         to |-> [kind |-> "text", arg |-> w], k |-> 1] \in Job
    BY <1>2, <1>4, <2>2 DEF Job, JobKind
  <2> QED
    BY <1>1, <1>2, <2>1, <2>3
<1>15. CASE HandleBroadcast
  <2> DEFINE j == [kind |-> "broadcast", by |-> scan, to |-> NoName,
                   no |-> FirstLine.no, k |-> 1]
  <2>1. j \in Job /\ j.by = scan /\ j.k = 1
    BY <1>2, <1>4 DEF Job, JobKind
  <2> QED
    BY <1>1, <2>1, <1>15 DEF HandleBroadcast
<1> QED
  BY <1>7, <1>8, <1>9, <1>10, <1>11, <1>12, <1>13, <1>14, <1>15 DEF Handle

\* A read that brings no line: the rest of one, or an empty one.
Misread == HandleNull \/ HandleRest

LEMMA MisreadForms ==
    ASSUME IInv, Misread
    PROVE  /\ pc = "scan" /\ pc' \in {"killed", "astray"}
           /\ EntryPid \in Pid /\ toParent[EntryPid] # <<>>
           /\ toParent' = [toParent EXCEPT ![EntryPid] =
                                AfterRead(toParent[EntryPid])]
           /\ UNCHANGED <<active_children, room_info, toChild, held, heirs,
                          child_sigusr_arrived>>
           /\ \A p \in Pid : \/ cpc'[p] = cpc[p]
                             \/ cpc[p] = "zombie" /\ cpc'[p] = "none"
<1>1. ReadPipe
  BY DEF Misread, HandleNull, HandleRest
<1>2. /\ pc = "scan" /\ EntryPid \in Pid /\ toParent[EntryPid] # <<>>
      /\ toParent' = [toParent EXCEPT ![EntryPid] =
                           AfterRead(toParent[EntryPid])]
  BY <1>1, ReadPipeFacts
<1>3. CASE HandleNull
  <2>1. Dies
    BY <1>3 DEF HandleNull
  <2> QED
    BY <1>2, <2>1 DEF Dies, unchangedByParent
<1>4. CASE HandleRest
  BY <1>2, <1>4 DEF HandleRest, noProcessStep, unchangedByParent
<1> QED
  BY <1>3, <1>4 DEF Misread

\* The entry a write loop works for, and the one it writes to, exist.
LEMMA TargetFacts ==
    ASSUME IInv, pc \in {"deliver", "signal"}, job.k <= JobEnd
    PROVE  /\ active_children[job.by].pid \in Pid
           /\ Target \in Pid /\ Target \in Listed
<1>1. /\ active_children \in Seq(Entry) /\ job \in Job
      /\ scan \in 1..Len(active_children) /\ job.by = scan /\ job.k # 0
  BY DEF IInv, TypeOK, JobInv
<1>2. /\ active_children[job.by] \in Entry
      /\ active_children[job.by].pid \in Listed
  BY <1>1, ElementOfSeq DEF Listed
<1>3. ASSUME job.kind \notin {"list", "users"}
      PROVE  /\ active_children[job.k] \in Entry
             /\ active_children[job.k].pid \in Listed
  <2>1. job.k \in 1..Len(active_children)
    BY <1>1, <1>3, LenProperties DEF JobEnd, Job
  <2> QED
    BY <1>1, <2>1, ElementOfSeq DEF Listed
<1> QED
  BY <1>2, <1>3 DEF Target, Entry

\* What DeliverWrite does to the pipe of its target.
LEMMA DeliverWriteFacts ==
    ASSUME IInv, DeliverWrite
    PROVE  /\ Target \in Pid /\ active_children[job.by].pid \in Pid
           /\ \E n \in Nat :
                 /\ toChild' = [toChild EXCEPT ![Target] =
                                    toChild[Target] \o Pieces(Answer, n)]
                 /\ toChild' \in [Pid -> Seq(Payload)]
                 /\ Len(toChild[Target]) \in Nat
                 /\ Len(toChild'[Target]) = Len(toChild[Target]) + n
                 /\ \A k \in 1..Len(toChild[Target]) :
                        toChild'[Target][k] = toChild[Target][k]
                 /\ \A k \in 1..n :
                        toChild'[Target][Len(toChild[Target]) + k] =
                            [kind |-> job.kind, no |-> job.no, part |-> k,
                             from |-> active_children[job.by].pid]
                 /\ Len(toChild'[Target]) <= PipeCap
                 /\ n = 0 => UNCHANGED toChild
                 /\ n > 0 => pc' = "signal" /\ UNCHANGED job
                 /\ n = 0 => NextRound /\ UNCHANGED pc
<1>0. Target \in Pid /\ active_children[job.by].pid \in Pid
  BY TargetFacts DEF DeliverWrite
<1>1. PICK n \in Written(toChild[Target]) :
          /\ toChild' = [toChild EXCEPT ![Target] = @ \o Pieces(Answer, n)]
          /\ IF n > 0 THEN pc' = "signal" /\ UNCHANGED job
                      ELSE NextRound /\ UNCHANGED pc
  BY DEF DeliverWrite
<1> DEFINE t == Target
           from == active_children[job.by].pid
           s == toChild[t]
           m == Answer
<1>2. /\ s \in Seq(Payload) /\ n \in Nat
      /\ \A k \in 1..n :
             /\ [m EXCEPT !.part = k] \in Payload
             /\ [m EXCEPT !.part = k] =
                    [kind |-> job.kind, no |-> job.no, part |-> k, from |-> from]
  BY <1>0, AnswerFacts
<1>3. toChild \in [Pid -> Seq(Payload)] /\ t \in Pid
  BY <1>0 DEF IInv, TypeOK
<1>4. /\ toChild' = [toChild EXCEPT ![t] = toChild[t] \o Pieces(m, n)]
      /\ n > 0 => pc' = "signal" /\ UNCHANGED job
      /\ n = 0 => NextRound /\ UNCHANGED pc
  BY <1>1, <1>2
<1>10. \A k \in 1..n : [m EXCEPT !.part = k] \in Payload
  BY <1>2
<1> HIDE DEF s, m, t, from
<1>5. /\ s \o Pieces(m, n) \in Seq(Payload)
      /\ Len(s) \in Nat /\ Len(s \o Pieces(m, n)) = Len(s) + n
      /\ \A k \in 1..Len(s) : (s \o Pieces(m, n))[k] = s[k]
      /\ \A k \in 1..n :
             (s \o Pieces(m, n))[Len(s) + k] = [m EXCEPT !.part = k]
  BY <1>2, <1>10, WrittenFacts
<1>6. toChild'[t] = s \o Pieces(m, n)
  BY <1>3, <1>4 DEF s
<1>7. toChild' \in [Pid -> Seq(Payload)]
  BY <1>3, <1>4, <1>5, <1>6
<1>8. \A k \in 1..n :
          toChild'[t][Len(s) + k] = [kind |-> job.kind, no |-> job.no,
                                     part |-> k, from |-> from]
  BY <1>2, <1>5, <1>6
<1>9. /\ Len(toChild'[t]) = Len(s) + n
      /\ \A k \in 1..Len(s) : toChild'[t][k] = s[k]
  BY <1>5, <1>6
<1>11. ASSUME n = 0
       PROVE  UNCHANGED toChild
  <2>1. Pieces(m, n) = <<>>
    <3>1. Pieces(m, n) \in Seq(Payload) /\ Len(Pieces(m, n)) = 0
      BY <1>2, <1>10, <1>11, PiecesFacts
    <3> QED
      BY <3>1, EmptySeq
  <2>2. s \o <<>> = s
    BY <1>2, ConcatEmptySeq
  <2> QED
    BY <1>3, <1>4, <2>1, <2>2 DEF s
<1>12. Len(s) + n <= PipeCap
  BY <1>5, ServerAssumption DEF Written, Least, s, t
<1> QED
  BY <1>0, <1>2, <1>4, <1>5, <1>7, <1>8, <1>9, <1>11, <1>12 DEF s, m, t, from

LEMMA TypeHandle ==
    ASSUME IInv, Handle
    PROVE  TypeOK'
<1>1. CASE \E j \in Job : j.by = scan /\ j.k = 1 /\ Starts(j)
  BY <1>1, HandleForms, TypeStarts
<1>2. CASE \E list, rooms : /\ KeepsPids(list)
                            /\ rooms \in Seq(Word) /\ Len(rooms) <= ChatRoom
                            /\ Updates(list, rooms)
  <2>1. PICK list, rooms : /\ KeepsPids(list)
                           /\ rooms \in Seq(Word) /\ Len(rooms) <= ChatRoom
                           /\ Updates(list, rooms)
    BY <1>2
  <2>2. list \in Seq(Entry)
    BY <2>1 DEF KeepsPids
  <2> QED
    BY <2>1, <2>2, HandleForms, TypeUpdates
<1> QED
  BY <1>1, <1>2, HandleForms

\* The steps of the parent that are no command handler, one case each.
LEMMA TypeParent ==
    ASSUME IInv, Parent
    PROVE  TypeOK'
<1>0. ASSUME DeliverWrite PROVE toChild' \in [Pid -> Seq(Payload)]
  BY <1>0, DeliverWriteFacts
<1> USE DEF IInv, TypeOK, ParentPc, ChildPc, noProcessStep, unchangedByParent,
            flagVars
<1>1. CASE TopOfLoop
  <2>1. pc' \in ParentPc
    BY <1>1 DEF TopOfLoop
  <2>2. UNCHANGED <<scan, job, active_children, room_info, flagVars, toParent,
                    noProcessStep>>
    BY <1>1 DEF TopOfLoop
  <2> QED
    BY <2>1, <2>2
<1>2. CASE ReapDone \/ ClearExited
  BY <1>2 DEF ReapDone, ClearExited
<1>3. CASE AcceptIdle
  BY <1>3 DEF AcceptIdle
<1>4. CASE AcceptScan
  <2>1. /\ pc' \in ParentPc /\ scan' = 1
        /\ UNCHANGED <<job, active_children, room_info, child_exited_flag,
                       toParent, noProcessStep>>
    BY <1>4 DEF AcceptScan
  <2>2. parent_sigusr_arrived' \in BOOLEAN
    BY <1>4, Zenon DEF AcceptScan
  <2> QED
    BY <2>1, <2>2
<1>5. CASE AcceptError
  BY <1>5 DEF AcceptError
<1>6. CASE ScanDone
  BY <1>6 DEF ScanDone
<1>7. CASE ScanEmpty
  BY <1>7 DEF ScanEmpty
<1>8. CASE TermDone \/ WaitDone
  BY <1>8 DEF TermDone, WaitDone
<1>9. CASE AcceptRefuse
  BY <1>9 DEF AcceptRefuse
<1>10. CASE \E p \in Pid : Reap(p)
  <2>1. PICK p \in Pid : Reap(p)
    BY <1>10
  <2> DEFINE k == IndexOf(active_children, p)
  <2>2. active_children' \in Seq(Entry) /\ ends' \in SUBSET Pid
    <3>1. CASE k = 0
      BY <2>1, <3>1 DEF Reap
    <3>2. CASE k # 0
      <4>1. \A i, j \in 1..Len(active_children) :
                active_children[i].pid = active_children[j].pid => i = j
        BY <2>1 DEF Reap, RegistryExact
      <4>2. k \in 1..Len(active_children)
        BY <3>2, <4>1, IndexOfFacts
      <4>3. Len(active_children) > 0
        BY <4>2, LenProperties
      <4>4. RemoveEntry(active_children, k) \in Seq(Entry)
        BY <4>3, RemoveEntryFacts
      <4> QED
        BY <2>1, <3>2, <4>4 DEF Reap
    <3> QED
      BY <3>1, <3>2
  <2>3. toParent' \in [Pid -> Seq(Message)]
    BY <2>1, EmptySeq DEF Reap
  <2> QED
    BY <2>1, <2>2, <2>3 DEF Reap
<1>11. CASE \E p \in Pid : AcceptFork(p)
  <2>1. PICK p \in Pid : AcceptFork(p)
    BY <1>11
  <2>2. /\ toParent' \in [Pid -> Seq(Message)]
        /\ toChild' \in [Pid -> Seq(Payload)]
    BY <2>1, EmptySeq DEF AcceptFork
  <2>3. heirs' \in [Pid -> SUBSET Pid]
    BY <2>1 DEF AcceptFork
  <2> QED
    BY <2>1, <2>2, <2>3 DEF AcceptFork
<1>12. CASE \E p \in Pid : WaitChild(p)
  BY <1>12 DEF WaitChild
<1>13. CASE AddChild
  <2>1. newPid \in Pid
    BY <1>13 DEF AddChild, RegistryExact
  <2>2. NewEntry(newPid) \in Entry
    BY <2>1, NullTypes DEF NewEntry, Entry, Word
  <2>3. active_children' \in Seq(Entry)
    BY <1>13, <2>2, AppendProperties DEF AddChild
  <2> QED
    BY <1>13, <2>3 DEF AddChild
<1>14. CASE Handle
  BY <1>14, TypeHandle
<1>15. CASE SkipRound
  <2>1. job' \in Job
    <3>1. job.k + 1 \in Nat
      BY DEF Job
    <3>2. job' = [job EXCEPT !.k = job.k + 1]
      BY <1>15 DEF SkipRound
    <3> QED
      BY <3>1, <3>2, RoundFacts
  <2> QED
    BY <1>15, <2>1 DEF SkipRound
<1>16. ASSUME NextRound, pc \in {"deliver", "signal"}
      PROVE  job' \in Job
  <2>1. JobEnd \in Nat
    BY LenProperties DEF JobEnd
  <2>2. JobEnd + 1 \in Nat /\ job.k + 1 \in Nat
    BY <2>1 DEF Job
  <2>3. \E n \in Nat : job' = [job EXCEPT !.k = n]
    BY <1>16, <2>2 DEF NextRound
  <2> QED
    BY <2>3, RoundFacts
<1>17. CASE DeliverWrite
  <2>3. toChild' \in [Pid -> Seq(Payload)]
    BY <1>0, <1>17
  <2>4. job' \in Job /\ pc' \in ParentPc
    BY <1>16, <1>17 DEF DeliverWrite
  <2> QED
    BY <1>17, <2>3, <2>4 DEF DeliverWrite
<1>18. CASE DeliverBroken
  BY <1>18, NullTypes DEF DeliverBroken, Dies
<1>22. CASE HandleNull
  <2>1. toParent' \in [Pid -> Seq(Message)]
    BY <1>22, ReadPipeFacts DEF HandleNull
  <2> QED
    BY <1>22, <2>1, NullTypes DEF HandleNull, Dies
<1>23. CASE HandleRest
  <2>1. toParent' \in [Pid -> Seq(Message)]
    BY <1>23, ReadPipeFacts DEF HandleRest
  <2> QED
    BY <1>23, <2>1 DEF HandleRest
<1>19. CASE DeliverSignal
  <2>1. job' \in Job
    BY <1>16, <1>19 DEF DeliverSignal
  <2> QED
    BY <1>19, <2>1 DEF DeliverSignal
<1>20. CASE DeliverDone
  BY <1>20, NullTypes DEF DeliverDone
<1>21. CASE TermChild
  <2>1. EntryPid \in Pid
    BY <1>21, ScannedEntry DEF TermChild
  <2> QED
    BY <1>21, <2>1 DEF TermChild
<1> QED
  BY <1>1, <1>2, <1>3, <1>4, <1>5, <1>6, <1>7, <1>8,
     <1>9, <1>10, <1>11, <1>12, <1>13, <1>14, <1>15,
     <1>17, <1>18, <1>19, <1>20, <1>21, <1>22, <1>23
     DEF Parent, Handle

LEMMA TypeNext == IInv /\ [Next]_vars => TypeOK'
<1> SUFFICES ASSUME IInv, [Next]_vars PROVE TypeOK'
  OBVIOUS
<1>1. CASE UNCHANGED vars
  BY <1>1 DEF IInv, TypeOK, vars, parentVars, flagVars, childVars, pipeVars
<1> QED
  BY <1>1, TypeChild, TypeParent DEF Next

-----------------------------------------------------------------------------
\* Lines enter a pipe with the pid of its child and leave it in order.
LEMMA OwnLinesNext == IInv /\ [Next]_vars => OwnLines'
<1> SUFFICES ASSUME IInv, [Next]_vars PROVE OwnLines'
  OBVIOUS
<1> USE DEF OwnLines
<1>1. OwnLines /\ toParent \in [Pid -> Seq(Message)]
  BY DEF IInv, TypeOK
<1>2. CASE UNCHANGED toParent
  BY <1>1, <1>2
<1>3. ASSUME NEW p \in Pid, toParent' = [toParent EXCEPT ![p] = <<>>]
      PROVE  OwnLines'
  BY <1>1, <1>3
<1>4. ASSUME NEW p \in Pid,
             toParent' = [toParent EXCEPT ![p] = AfterRead(toParent[p])]
      PROVE  OwnLines'
  <2>1. \A k \in 1..Len(AfterRead(toParent[p])) :
            \E j \in 1..Len(toParent[p]) :
                AfterRead(toParent[p])[k] = toParent[p][j]
    BY <1>1, AfterReadFacts
  <2> QED
    BY <1>1, <1>4, <2>1
<1>5. ASSUME NEW p \in Pid, ChildWrite(p)
      PROVE  OwnLines'
  <2>1. PICK n \in Nat :
            /\ toParent' = [toParent EXCEPT ![p] =
                                toParent[p] \o Pieces(Formatted(p), n)]
            /\ Len(toParent[p]) \in Nat
            /\ Len(toParent'[p]) = Len(toParent[p]) + n
            /\ \A k \in 1..Len(toParent[p]) : toParent'[p][k] = toParent[p][k]
            /\ \A k \in 1..n :
                   toParent'[p][Len(toParent[p]) + k] =
                       [pid |-> p, no |-> held[p].no,
                        content |-> held[p].content, part |-> k]
    BY <1>5, ChildWriteFacts
  <2>3. ASSUME NEW i \in 1..n
        PROVE  toParent'[p][Len(toParent[p]) + i].pid = p
    <3>1. toParent'[p][Len(toParent[p]) + i] =
              [pid |-> p, no |-> held[p].no,
               content |-> held[p].content, part |-> i]
      BY <2>1
    <3> QED
      BY <3>1
  <2>2. ASSUME NEW k \in 1..Len(toParent'[p])
        PROVE  toParent'[p][k].pid = p
    <3>1. CASE k <= Len(toParent[p])
      BY <1>1, <2>1, <3>1
    <3>2. CASE k > Len(toParent[p])
      <4>1. k - Len(toParent[p]) \in 1..n
            /\ k = Len(toParent[p]) + (k - Len(toParent[p]))
        BY <2>1, <3>2
      <4> QED
        BY <2>3, <4>1
    <3> QED
      BY <2>1, <3>1, <3>2
  <2> QED
    BY <1>1, <2>1, <2>2
<1>6. ASSUME NEW p \in Pid, Child(p)
      PROVE  OwnLines'
  BY <1>2, <1>5, <1>6 DEF Child, ChildSetup, ChildClearFlag, ChildNoFlag,
     ChildRelay, ChildReadNothing, ChildIdle, ChildReadEof, ChildReadLine,
     ChildSignalParent, ChildBrokenPipe, ChildExit, ChildTerminated
<1>7. CASE Handle
  <2>1. TakeLine
    BY <1>7, HandleForms
  <2> QED
    BY <1>4, <2>1, ReadPipeFacts DEF TakeLine
<1>9. CASE HandleNull \/ HandleRest
  BY <1>4, <1>9, ReadPipeFacts DEF HandleNull, HandleRest
<1>8. CASE Parent /\ ~Handle /\ ~HandleNull /\ ~HandleRest
  BY <1>2, <1>3, <1>8 DEF Parent, Handle, TopOfLoop, Reap, ReapDone,
     ClearExited, AcceptIdle, AcceptScan, AcceptError, AcceptRefuse,
     AcceptFork, AddChild, WaitChild, ScanDone, ScanEmpty, SkipRound,
     DeliverWrite, DeliverBroken, DeliverSignal, DeliverDone, TermChild,
     TermDone, WaitDone
<1> QED
  BY <1>2, <1>6, <1>7, <1>8, <1>9 DEF Next, vars, pipeVars

-----------------------------------------------------------------------------
\* The tables do not change during a write loop, and only the loop itself
\* moves its index.
LEMMA JobNext == IInv /\ [Next]_vars => JobInv'
<1> SUFFICES ASSUME IInv, [Next]_vars PROVE JobInv'
  OBVIOUS
<1>1. JobInv /\ job \in Job /\ active_children \in Seq(Entry)
  BY DEF IInv, TypeOK
<1>2. CASE UNCHANGED <<pc, scan, job, active_children, room_info>>
  BY <1>1, <1>2 DEF JobInv, JobEnd
<1>3. CASE pc' \notin {"deliver", "signal"}
  BY <1>3 DEF JobInv
<1>4. ASSUME NEW p \in Pid, Child(p)
      PROVE  JobInv'
  BY <1>2, <1>3, <1>4 DEF Child, ChildSetup, ChildClearFlag, ChildNoFlag,
     ChildRelay, ChildReadNothing, ChildIdle, ChildReadEof, ChildReadLine,
     ChildSignalParent, ChildWrite, ChildBrokenPipe, ChildExit,
     ChildTerminated, unchangedByChild, parentVars
<1>5. CASE Handle
  <2>1. CASE \E list, rooms : Updates(list, rooms)
    BY <1>3, <1>5, <2>1, HandleForms DEF Updates, TakeLine, ReadPipe
  <2>2. CASE \E j \in Job : j.by = scan /\ j.k = 1 /\ Starts(j)
    <3>1. scan \in 1..Len(active_children)
      BY <1>5, HandleForms, ReadPipeFacts DEF TakeLine
    <3> QED
      BY <2>2, <3>1 DEF Starts, JobInv
  <2> QED
    BY <1>5, <2>1, <2>2, HandleForms
<1>6. CASE SkipRound
  <2>1. job' = [job EXCEPT !.k = job.k + 1] /\ job.k \in Nat
    BY <1>1, <1>6 DEF SkipRound, Job
  <2>2. job'.by = job.by /\ job'.k # 0
    BY <1>1, <2>1, RoundFacts
  <2> QED
    BY <1>1, <1>6, <2>2 DEF SkipRound, JobInv
<1>7. ASSUME NextRound
      PROVE  job'.by = job.by /\ job'.k # 0
  <2>1. JobEnd \in Nat
    BY <1>1, LenProperties DEF JobEnd, IInv, TypeOK
  <2>2. JobEnd + 1 \in Nat \ {0} /\ job.k + 1 \in Nat \ {0}
    BY <1>1, <2>1 DEF Job
  <2>3. \E n \in Nat \ {0} : job' = [job EXCEPT !.k = n]
    BY <1>7, <2>2 DEF NextRound
  <2> QED
    BY <1>1, <2>3, RoundFacts
<1>8. CASE DeliverWrite
  <2>1. CASE pc' = "signal" /\ UNCHANGED job
    BY <1>1, <1>8, <2>1 DEF DeliverWrite, JobInv, JobEnd
  <2>2. CASE NextRound /\ UNCHANGED pc
    BY <1>1, <1>7, <1>8, <2>2 DEF DeliverWrite, JobInv
  <2> QED
    BY <1>8, <2>1, <2>2 DEF DeliverWrite
<1>9. CASE DeliverSignal
  BY <1>1, <1>7, <1>9 DEF DeliverSignal, JobInv
<1>10. CASE Parent /\ ~Handle /\ ~SkipRound /\ ~DeliverWrite /\ ~DeliverSignal
  BY <1>2, <1>3, <1>10 DEF Parent, Handle, TopOfLoop, Reap, ReapDone,
     ClearExited, AcceptIdle, AcceptScan, AcceptError, AcceptRefuse,
     AcceptFork, AddChild, WaitChild, ScanDone, ScanEmpty, DeliverBroken,
     DeliverDone, TermChild, TermDone, WaitDone, Dies, HandleNull, HandleRest
<1> QED
  BY <1>2, <1>4, <1>5, <1>6, <1>8, <1>9, <1>10 DEF Next, vars, parentVars

-----------------------------------------------------------------------------
\* Processes come by fork, go by reaping, and the tables follow both.

\* The steps that change no table, no open pipe end, and neither make nor
\* reap a process.
KeepsRegistry ==
    /\ UNCHANGED <<active_children, newPid, ends>>
    /\ \A p \in Pid : cpc'[p] # "none" <=> cpc[p] # "none"

LEMMA RegistryKept ==
    ASSUME IInv, KeepsRegistry,
           \/ pc' = pc
           \/ pc \notin {"forked", "term", "wait", "down", "killed"} /\ pc' # "forked"
           \/ pc' \in {"wait", "down", "killed"}
    PROVE  RegistryExact'
BY DEF IInv, RegistryExact, KeepsRegistry, Listed

LEMMA RegistryChild ==
    ASSUME IInv, NEW p \in Pid, Child(p)
    PROVE  RegistryExact'
<1>1. cpc \in [Pid -> ChildPc]
  BY DEF IInv, TypeOK
<1>2. ASSUME Die(p), Live(p) \/ cpc[p] \in {"write", "exit"},
             UNCHANGED unchangedByChild
      PROVE  RegistryExact'
  <2>1. CASE ParentAlive
    BY <1>1, <1>2, <2>1, RegistryKept DEF Die, Live, LivePc, KeepsRegistry,
       unchangedByChild, parentVars
  <2>2. CASE ~ParentAlive
    BY <1>2, <2>2 DEF ParentAlive, RegistryExact, IInv, unchangedByChild,
       parentVars
  <2> QED
    BY <2>1, <2>2
<1>3. CASE ChildExit(p) \/ ChildBrokenPipe(p) \/ ChildTerminated(p)
  BY <1>2, <1>3 DEF ChildExit, ChildBrokenPipe, ChildTerminated
<1>4. CASE ChildSignalParent(p)
  BY <1>1, <1>4, RegistryKept DEF ChildSignalParent, KeepsRegistry
<1>5. CASE /\ UNCHANGED unchangedByChild
           /\ cpc[p] # "none"
           /\ \E s \in ChildPc \ {"none"} : cpc' = [cpc EXCEPT ![p] = s]
  BY <1>1, <1>5, RegistryKept DEF KeepsRegistry, unchangedByChild, parentVars
<1>6. CASE ChildSetup(p) \/ ChildClearFlag(p) \/ ChildNoFlag(p) \/ ChildIdle(p)
             \/ ChildReadEof(p) \/ ChildRelay(p) \/ ChildReadNothing(p)
             \/ ChildWrite(p) \/ (\E c \in Inputs : ChildReadLine(p, c))
  BY <1>5, <1>6 DEF ChildSetup, ChildClearFlag, ChildNoFlag, ChildIdle,
     ChildReadEof, ChildRelay, ChildReadNothing, ChildWrite, ChildReadLine,
     ChildPc
<1> QED
  BY <1>3, <1>4, <1>6 DEF Child

LEMMA RegistryHandle ==
    ASSUME IInv, Handle
    PROVE  RegistryExact'
<1>1. /\ pc = "scan" /\ UNCHANGED <<cpc, newPid, ends>>
  BY HandleForms DEF TakeLine, ReadPipe, noProcessStep
<1>2. CASE \E j \in Job : j.by = scan /\ j.k = 1 /\ Starts(j)
  BY <1>1, <1>2, RegistryKept DEF KeepsRegistry, Starts
<1>3. CASE \E list, rooms : KeepsPids(list) /\ Updates(list, rooms)
  <2>1. PICK list, rooms : KeepsPids(list) /\ Updates(list, rooms)
    BY <1>3
  <2>2. /\ Len(active_children') = Len(active_children)
        /\ \A k \in 1..Len(active_children) :
               active_children'[k].pid = active_children[k].pid
        /\ pc' = "scan"
    BY <1>1, <2>1 DEF KeepsPids, Updates
  <2>3. Listed' = Listed
    BY <2>2 DEF Listed
  <2> QED
    BY <1>1, <2>2, <2>3 DEF IInv, RegistryExact
<1> QED
  BY <1>2, <1>3, HandleForms

LEMMA RegistryReap ==
    ASSUME IInv, NEW p \in Pid, Reap(p)
    PROVE  RegistryExact'
<1> DEFINE k == IndexOf(active_children, p)
           n == Len(active_children)
<1>1. /\ active_children \in Seq(Entry) /\ n \in Nat
      /\ \A i, j \in 1..n :
             active_children[i].pid = active_children[j].pid => i = j
      /\ pc = "reap" /\ pc' = "reap" /\ cpc[p] = "zombie" /\ p \in Listed
      /\ cpc \in [Pid -> ChildPc]
  BY LenProperties DEF IInv, TypeOK, RegistryExact, Reap
<1>2. k \in 1..n /\ active_children[k].pid = p
  <2>1. PICK i \in 1..n : active_children[i].pid = p
    BY <1>1 DEF Listed
  <2> QED
    BY <1>1, <2>1, IndexOfFacts
<1> HIDE DEF k
<1>3. active_children' = RemoveEntry(active_children, k) /\ ends' = ends \ {p}
  BY <1>2 DEF Reap, k
<1>4. /\ Len(active_children') = n - 1
      /\ \A j \in 1..(n - 1) : active_children'[j] =
             IF j < k THEN active_children[j] ELSE active_children[j + 1]
  BY <1>1, <1>2, <1>3, RemoveEntryFacts
<1>5. \A i, j \in 1..Len(active_children') :
          active_children'[i].pid = active_children'[j].pid => i = j
  BY <1>1, <1>2, <1>4
<1>6. Listed' = Listed \ {p}
  <2>1. ASSUME NEW q \in Listed' PROVE q \in Listed /\ q # p
    <3>1. PICK j \in 1..(n - 1) : active_children'[j].pid = q
      BY <1>4, <2>1 DEF Listed
    <3>2. PICK i \in 1..n : i # k /\ active_children'[j] = active_children[i]
      BY <1>1, <1>2, <1>4, <3>1
    <3> QED
      BY <1>1, <1>2, <3>1, <3>2 DEF Listed
  <2>2. ASSUME NEW q \in Listed, q # p PROVE q \in Listed'
    <3>1. PICK i \in 1..n : active_children[i].pid = q
      BY <2>2 DEF Listed
    <3>2. i # k
      BY <1>2, <2>2, <3>1
    <3>3. PICK j \in 1..(n - 1) : active_children'[j] = active_children[i]
      <4>1. CASE i < k
        BY <1>1, <1>2, <1>4, <4>1
      <4>2. CASE i > k
        <5>1. i - 1 \in 1..(n - 1) /\ ~(i - 1 < k)
          BY <1>1, <1>2, <4>2
        <5> QED
          BY <1>1, <1>4, <5>1
      <4> QED
        BY <1>1, <1>2, <3>2, <4>1, <4>2
    <3> QED
      BY <1>4, <3>1, <3>3 DEF Listed
  <2> QED
    BY <2>1, <2>2
<1>7. \A q \in Pid : cpc'[q] # "none" <=> cpc[q] # "none" /\ q # p
  BY <1>1 DEF Reap
<1> QED
  BY <1>1, <1>3, <1>4, <1>5, <1>6, <1>7, ServerAssumption DEF IInv, RegistryExact

LEMMA RegistryFork ==
    ASSUME IInv, NEW p \in Pid, AcceptFork(p)
    PROVE  RegistryExact'
<1>1. /\ pc = "accept" /\ pc' = "forked" /\ cpc[p] = "none" /\ newPid' = p
      /\ UNCHANGED active_children /\ ends' = ends \cup {p}
      /\ Len(active_children) < MaxClient
      /\ \A q \in Pid : cpc'[q] = IF q = p THEN "start" ELSE cpc[q]
  BY DEF IInv, TypeOK, AcceptFork
<1>2. p \notin Listed /\ Listed' = Listed
  BY <1>1 DEF IInv, RegistryExact, Listed
<1> QED
  BY <1>1, <1>2 DEF IInv, RegistryExact

LEMMA RegistryAdd ==
    ASSUME IInv, AddChild
    PROVE  RegistryExact'
<1> DEFINE n == Len(active_children)
<1>1. /\ active_children \in Seq(Entry) /\ n \in Nat /\ pc = "forked"
      /\ pc' = "top" /\ newPid \in Pid \ Listed /\ n < MaxClient
      /\ UNCHANGED <<cpc, ends>>
  BY LenProperties DEF IInv, TypeOK, RegistryExact, AddChild, unchangedByParent
<1>2. NewEntry(newPid) \in Entry /\ NewEntry(newPid).pid = newPid
  BY <1>1, NullTypes DEF NewEntry, Entry, Word
<1>3. /\ Len(active_children') = n + 1
      /\ \A i \in 1..n : active_children'[i] = active_children[i]
      /\ active_children'[n + 1].pid = newPid
  BY <1>1, <1>2, AppendProperties DEF AddChild
<1>4. \A i \in 1..n : active_children[i].pid # newPid
  BY <1>1 DEF Listed
<1>5. \A i, j \in 1..Len(active_children') :
          active_children'[i].pid = active_children'[j].pid => i = j
  BY <1>1, <1>3, <1>4 DEF IInv, RegistryExact
<1>6. Listed' = Listed \cup {newPid}
  BY <1>1, <1>3 DEF Listed
<1> QED
  BY <1>1, <1>3, <1>5, <1>6, ServerAssumption DEF IInv, RegistryExact

LEMMA RegistryNext == IInv /\ [Next]_vars => RegistryExact'
<1> SUFFICES ASSUME IInv, [Next]_vars PROVE RegistryExact'
  OBVIOUS
<1>1. CASE UNCHANGED vars
  BY <1>1, RegistryKept DEF vars, parentVars, childVars, pipeVars, KeepsRegistry
<1>2. CASE \E p \in Pid : Child(p)
  BY <1>2, RegistryChild
<1>3. CASE Handle
  BY <1>3, RegistryHandle
<1>4. CASE \E p \in Pid : Reap(p) \/ AcceptFork(p)
  BY <1>4, RegistryReap, RegistryFork
<1>5. CASE AddChild
  BY <1>5, RegistryAdd
<1>6. CASE \E p \in Pid : WaitChild(p)
  BY <1>6 DEF WaitChild, IInv, RegistryExact, ParentAlive
<1>7. CASE TermChild
  BY <1>7 DEF TermChild, IInv, RegistryExact, Listed
<1>8. CASE DeliverBroken \/ HandleNull
  BY <1>8 DEF DeliverBroken, HandleNull, Dies, IInv, RegistryExact
<1>9. CASE \/ TopOfLoop \/ ReapDone \/ ClearExited \/ AcceptIdle \/ AcceptScan
           \/ AcceptError \/ AcceptRefuse \/ ScanDone \/ ScanEmpty \/ SkipRound
           \/ DeliverWrite \/ DeliverSignal \/ DeliverDone \/ TermDone \/ WaitDone
           \/ HandleRest
  <2>1. KeepsRegistry
    BY <1>9 DEF TopOfLoop, ReapDone, ClearExited, AcceptIdle, AcceptScan,
       AcceptError, AcceptRefuse, ScanDone, ScanEmpty, SkipRound, DeliverWrite,
       DeliverSignal, DeliverDone, TermDone, WaitDone, HandleRest,
       noProcessStep, KeepsRegistry
  <2>2. \/ pc' = pc
        \/ pc \notin {"forked", "term", "wait", "down", "killed"} /\ pc' # "forked"
        \/ pc' \in {"wait", "down", "killed"}
    BY <1>9 DEF TopOfLoop, ReapDone, ClearExited, AcceptIdle, AcceptScan,
       AcceptError, AcceptRefuse, ScanDone, ScanEmpty, SkipRound, DeliverWrite,
       DeliverSignal, DeliverDone, TermDone, WaitDone, HandleRest, ReadPipe
  <2> QED
    BY <2>1, <2>2, RegistryKept
<1> QED
  BY <1>1, <1>2, <1>3, <1>4, <1>5, <1>6, <1>7, <1>8, <1>9
     DEF Next, Parent, Handle

-----------------------------------------------------------------------------
\* The theorems.

\* An empty server satisfies the invariant.
LEMMA IInvInit == Init => IInv
<1> SUFFICES ASSUME Init PROVE IInv
  OBVIOUS
<1>1. Len(active_children) = 0 /\ Listed = {}
  BY EmptySeq DEF Init, Listed
<1>2. RegistryExact
  BY <1>1, ServerAssumption DEF Init, RegistryExact
<1>3. OwnLines
  BY EmptySeq DEF Init, OwnLines
<1>4. JobInv
  BY DEF Init, JobInv
<1> QED
  BY <1>2, <1>3, <1>4, TypeInit DEF IInv

\* The invariant holds of every reachable state: main, the handlers and every
\* child preserve the agreement of tables, pipes and processes.
THEOREM Inductive == Spec => []IInv
<1>1. IInv /\ [Next]_vars => IInv'
  BY TypeNext, RegistryNext, OwnLinesNext, JobNext DEF IInv
<1> QED
  BY <1>1, IInvInit, PTL DEF Spec

\* The variables of parent and children keep their types, and /add never
\* makes more than CHAT_ROOM rooms (server.c:118-127).
THEOREM TypeCorrect == Spec => []TypeOK
<1>1. IInv => TypeOK
  BY DEF IInv
<1> QED
  BY <1>1, Inductive, PTL

\* active_children has one entry for every process forked and not reaped, the
\* parent has the pipes of these and no others open, and there are at most
\* MAX_CLIENT (server.c:373-452, sig.c:19-37).
THEOREM RegistryCorrect == Spec => []RegistryExact
<1>1. IInv => RegistryExact
  BY DEF IInv
<1> QED
  BY <1>1, Inductive, PTL

\* The front of a pipe taken off, or pieces 1, 2, .. of a line put behind it:
\* no text begins in the middle of another.
LEMMA ConsecutiveRead ==
    ASSUME NEW s \in Seq(Message), Consecutive(s)
    PROVE  Consecutive(AfterRead(s))
<1> DEFINE m == Chunk(s) + 1
           n == Len(s)
<1>1. n \in Nat /\ m \in Nat /\ m >= 1 /\ m <= n + 1
  BY LenProperties, ServerAssumption DEF Chunk, Least
<1>2. \A i \in m..Len(s) : s[i] \in Message
  BY <1>1, ElementOfSeq
<1> HIDE DEF m
<1>3. /\ Len(SubSeq(s, m, Len(s))) = IF m <= Len(s) THEN Len(s) - m + 1 ELSE 0
      /\ \A i \in 1..(Len(s) - m + 1) : SubSeq(s, m, Len(s))[i] = s[m + i - 1]
  BY <1>1, <1>2, SubSeqProperties
<1> DEFINE t == AfterRead(s)
<1>4. t = SubSeq(s, m, n)
  BY DEF AfterRead, m
<1>5. Len(t) = n - m + 1 /\ \A i \in 1..Len(t) : t[i] = s[m + i - 1]
  BY <1>1, <1>3, <1>4
<1> HIDE DEF t
<1>6. ASSUME NEW k \in 2..Len(t), t[k].part # 1
      PROVE  t[k - 1].no = t[k].no /\ t[k - 1].part = t[k].part - 1
  <2> DEFINE i == k - 1
             j == m + k - 1
  <2>1. /\ j \in 2..n /\ i \in 1..Len(t) /\ k \in 1..Len(t)
        /\ m + i - 1 = j - 1
    BY <1>1, <1>5
  <2>2. t[k] = s[j] /\ t[i] = s[m + i - 1]
    BY <1>5, <2>1
  <2>3. s[j].part # 1
    BY <1>6, <2>2
  <2> HIDE DEF i, j
  <2>4. s[j - 1].no = s[j].no /\ s[j - 1].part = s[j].part - 1
    BY <2>1, <2>3 DEF Consecutive
  <2>5. t[i].no = t[k].no /\ t[i].part = t[k].part - 1
    BY <2>1, <2>2, <2>4
  <2> QED
    BY <2>5 DEF i
<1> QED
  BY <1>6 DEF Consecutive, t

LEMMA ConsecutiveWritten ==
    ASSUME NEW s, NEW t, NEW n \in Nat, NEW no, Len(s) \in Nat,
           Consecutive(s), Len(t) = Len(s) + n,
           \A k \in 1..Len(s) : t[k] = s[k],
           \A k \in 1..n : t[Len(s) + k].part = k /\ t[Len(s) + k].no = no
    PROVE  Consecutive(t)
<1> SUFFICES ASSUME NEW k \in 2..Len(t), t[k].part # 1
             PROVE  t[k - 1].no = t[k].no /\ t[k - 1].part = t[k].part - 1
  BY DEF Consecutive
<1>1. CASE k <= Len(s)
  <2>1. k \in 2..Len(s) /\ k \in 1..Len(s) /\ k - 1 \in 1..Len(s)
    BY <1>1
  <2> QED
    BY <2>1 DEF Consecutive
<1>2. CASE k > Len(s)
  <2> DEFINE i == k - Len(s)
  <2>1. i \in 1..n /\ k = Len(s) + i
    BY <1>2
  <2>2. i # 1 /\ t[k].part = i /\ t[k].no = no
    BY <2>1
  <2>3. i - 1 \in 1..n /\ k - 1 = Len(s) + (i - 1)
    BY <2>1, <2>2
  <2>4. t[k - 1].part = i - 1 /\ t[k - 1].no = no
    BY <2>3
  <2> QED
    BY <2>2, <2>4
<1> QED
  BY <1>1, <1>2

AllConsecutive == \A p \in Pid : Consecutive(toParent[p])

LEMMA ConsecutiveNext == IInv /\ AllConsecutive /\ [Next]_vars => AllConsecutive'
<1> SUFFICES ASSUME IInv, AllConsecutive, [Next]_vars PROVE AllConsecutive'
  OBVIOUS
<1>1. toParent \in [Pid -> Seq(Message)]
  BY DEF IInv, TypeOK
<1>2. CASE UNCHANGED toParent
  BY <1>2 DEF AllConsecutive, Consecutive
<1>3. ASSUME NEW p \in Pid, NEW s, Consecutive(s),
             toParent' = [toParent EXCEPT ![p] = s]
      PROVE  AllConsecutive'
  <2>1. \A q \in Pid : Consecutive(toParent'[q])
    BY <1>1, <1>3 DEF AllConsecutive
  <2> QED
    BY <2>1 DEF AllConsecutive, Consecutive
<1>4. Consecutive(<<>>)
  BY EmptySeq DEF Consecutive
<1>5. ASSUME ReadPipe
      PROVE  AllConsecutive'
  <2>1. /\ EntryPid \in Pid
        /\ toParent' = [toParent EXCEPT ![EntryPid] =
                             AfterRead(toParent[EntryPid])]
    BY <1>5, ReadPipeFacts
  <2>2. Consecutive(AfterRead(toParent[EntryPid]))
    BY <1>1, <2>1, ConsecutiveRead DEF AllConsecutive
  <2> QED
    BY <1>3, <2>1, <2>2
<1>6. ASSUME NEW p \in Pid, ChildWrite(p)
      PROVE  AllConsecutive'
  <2>1. PICK n \in Nat :
            /\ toParent' = [toParent EXCEPT ![p] =
                                toParent[p] \o Pieces(Formatted(p), n)]
            /\ Len(toParent[p]) \in Nat
            /\ Len(toParent'[p]) = Len(toParent[p]) + n
            /\ \A k \in 1..Len(toParent[p]) : toParent'[p][k] = toParent[p][k]
            /\ \A k \in 1..n :
                   toParent'[p][Len(toParent[p]) + k] =
                       [pid |-> p, no |-> held[p].no,
                        content |-> held[p].content, part |-> k]
    BY <1>6, ChildWriteFacts
  <2>2. Consecutive(toParent[p])
    BY DEF AllConsecutive
  <2> DEFINE s == toParent[p]
             t == toParent'[p]
  <2>3. ASSUME NEW k \in 1..n
        PROVE  t[Len(s) + k].part = k /\ t[Len(s) + k].no = held[p].no
    <3>1. t[Len(s) + k] = [pid |-> p, no |-> held[p].no,
                           content |-> held[p].content, part |-> k]
      BY <2>1
    <3> QED
      BY <3>1
  <2>6. /\ Len(s) \in Nat /\ Consecutive(s) /\ Len(t) = Len(s) + n
        /\ \A k \in 1..Len(s) : t[k] = s[k]
    BY <2>1, <2>2
  <2> HIDE DEF s, t
  <2>7. Consecutive(t)
    BY <2>3, <2>6, ConsecutiveWritten
  <2>4. Consecutive(toParent'[p])
    BY <2>7 DEF t
  <2>5. toParent' = [toParent EXCEPT ![p] = toParent'[p]]
    BY <1>1, <2>1
  <2> QED
    BY <1>3, <2>4, <2>5
<1>7. ASSUME NEW p \in Pid, Child(p)
      PROVE  AllConsecutive'
  BY <1>2, <1>6, <1>7 DEF Child, ChildSetup, ChildClearFlag, ChildNoFlag,
     ChildRelay, ChildReadNothing, ChildIdle, ChildReadEof, ChildReadLine,
     ChildSignalParent, ChildBrokenPipe, ChildExit, ChildTerminated
<1>8. CASE Handle \/ HandleNull \/ HandleRest
  BY <1>5, <1>8, HandleForms DEF TakeLine, HandleNull, HandleRest
<1>9. CASE Parent /\ ~Handle /\ ~HandleNull /\ ~HandleRest
  BY <1>2, <1>3, <1>4, <1>9 DEF Parent, Handle, TopOfLoop, Reap, ReapDone,
     ClearExited, AcceptIdle, AcceptScan, AcceptError, AcceptRefuse,
     AcceptFork, AddChild, WaitChild, ScanDone, ScanEmpty, SkipRound,
     DeliverWrite, DeliverBroken, DeliverSignal, DeliverDone, TermChild,
     TermDone, WaitDone
<1> QED
  BY <1>2, <1>7, <1>8, <1>9 DEF Next, vars, pipeVars

\* A line read from its beginning is carried out for the entry whose pipe it
\* comes from, and nothing but a read that ended inside a line puts anything
\* else at the front of a pipe (server.c:103, 131-136, 192-206, 226-231).
THEOREM SenderCorrect == Spec => []SenderIsScanned
<1>1. IInv /\ AllConsecutive => SenderIsScanned
  BY SenderFound DEF SenderIsScanned, AllConsecutive, IInv, JobInv
<1>2. Init => AllConsecutive
  BY EmptySeq DEF Init, AllConsecutive, Consecutive
<1> QED
  BY <1>1, <1>2, ConsecutiveNext, Inductive, PTL DEF Spec

\* A step of a child makes no process live, and takes a SIGTERM only from one
\* it ends.
LEMMA ShutdownChild ==
    ASSUME IInv, ShutdownMissesNobody, NEW p \in Pid, Child(p)
    PROVE  ShutdownMissesNobody'
<1>1. cpc \in [Pid -> ChildPc]
  BY DEF IInv, TypeOK
<1>2. UNCHANGED <<scan, active_children>> /\ (pc' = pc \/ (pc = "wait" /\ pc' = "down"))
  BY DEF Child, ChildSetup, ChildClearFlag, ChildNoFlag, ChildIdle, ChildReadEof,
     ChildRelay, ChildReadNothing, ChildWrite, ChildReadLine, ChildSignalParent,
     ChildBrokenPipe, ChildExit, ChildTerminated, unchangedByChild, parentVars
<1>3. ASSUME NEW q \in Pid, Live(q)'
      PROVE  Live(q) /\ (q \in term => q \in term')
  <2>1. CASE Die(p)
    <3>1. q # p
      BY <1>1, <1>3, <2>1 DEF Die, Live, LivePc
    <3>2. cpc'[q] = cpc[q] /\ term' = term \ {p}
      BY <1>1, <2>1, <3>1 DEF Die
    <3> QED
      BY <1>3, <3>1, <3>2 DEF Live
  <2>2. CASE ChildSetup(p) \/ ChildClearFlag(p) \/ ChildNoFlag(p) \/ ChildIdle(p)
               \/ ChildReadEof(p) \/ ChildRelay(p) \/ ChildReadNothing(p)
               \/ ChildWrite(p) \/ (\E c \in Inputs : ChildReadLine(p, c))
               \/ ChildSignalParent(p)
    <3>1. UNCHANGED term /\ Live(p) /\ \E s : cpc' = [cpc EXCEPT ![p] = s]
      BY <2>2 DEF ChildSetup, ChildClearFlag, ChildNoFlag, ChildIdle,
         ChildReadEof, ChildRelay, ChildReadNothing, ChildWrite, ChildReadLine,
         ChildSignalParent, Live, LivePc, ChildPc
    <3> QED
      BY <1>1, <1>3, <3>1 DEF Live
  <2> QED
    BY <2>1, <2>2 DEF Child, ChildBrokenPipe, ChildExit, ChildTerminated
<1> QED
  BY <1>2, <1>3 DEF ShutdownMissesNobody

LEMMA ShutdownParent ==
    ASSUME IInv, ShutdownMissesNobody, Parent
    PROVE  ShutdownMissesNobody'
<1>1. cpc \in [Pid -> ChildPc] /\ scan \in Nat \ {0} /\ Len(active_children) \in Nat
  BY LenProperties DEF IInv, TypeOK
<1>2. CASE AcceptError
  <2>1. pc = "accept" /\ pc' = "term" /\ scan' = 1
        /\ UNCHANGED <<cpc, term, active_children>>
    BY <1>2 DEF AcceptError, noProcessStep, unchangedByParent
  <2>2. \A p \in Pid : Live(p) => p \in Listed
    BY <2>1 DEF IInv, RegistryExact, Live, LivePc
  <2> QED
    BY <2>1, <2>2 DEF ShutdownMissesNobody, Live, Listed
<1>3. CASE TermChild
  <2>1. /\ pc = "term" /\ pc' = "term" /\ scan <= Len(active_children)
        /\ scan' = scan + 1 /\ UNCHANGED <<cpc, active_children>>
        /\ term' = IF Live(EntryPid) THEN term \cup {EntryPid} ELSE term
    BY <1>3 DEF TermChild
  <2>2. ASSUME NEW p \in Pid, Live(p)'
        PROVE  \/ p \in term'
               \/ \E k \in scan'..Len(active_children') : active_children'[k].pid = p
    <3>1. Live(p)
      BY <2>1, <2>2 DEF Live
    <3>2. CASE p \in term
      BY <2>1, <3>2
    <3>3. ASSUME NEW k \in scan..Len(active_children), active_children[k].pid = p
          PROVE  \/ p \in term'
                 \/ \E i \in scan'..Len(active_children') : active_children'[i].pid = p
      <4>1. CASE k = scan
        BY <2>1, <3>1, <3>3, <4>1 DEF EntryPid
      <4>2. CASE k # scan
        <5>1. k \in scan'..Len(active_children')
          BY <1>1, <2>1, <4>2
        <5> QED
          BY <2>1, <3>3, <5>1
      <4> QED
        BY <4>1, <4>2
    <3> QED
      BY <2>1, <3>1, <3>2, <3>3 DEF ShutdownMissesNobody
  <2> QED
    BY <2>1, <2>2 DEF ShutdownMissesNobody
<1>4. CASE TermDone
  <2>1. /\ pc = "term" /\ pc' = "wait" /\ scan > Len(active_children)
        /\ UNCHANGED <<cpc, term>>
    BY <1>4 DEF TermDone, noProcessStep, unchangedByParent
  <2>2. scan..Len(active_children) = {}
    BY <1>1, <2>1
  <2> QED
    BY <2>1, <2>2 DEF ShutdownMissesNobody, Live
<1>5. CASE WaitDone \/ \E p \in Pid : WaitChild(p)
  <2>1. /\ pc = "wait" /\ pc' \in {"wait", "down"} /\ UNCHANGED term
        /\ \A q \in Pid : Live(q)' => Live(q)
    BY <1>1, <1>5 DEF WaitDone, WaitChild, noProcessStep, unchangedByParent,
       Live, LivePc
  <2> QED
    BY <2>1 DEF ShutdownMissesNobody
<1>6. CASE pc' \notin {"term", "wait", "down"}
  BY <1>6 DEF ShutdownMissesNobody
<1>7. CASE Handle
  BY <1>6, <1>7, HandleForms DEF TakeLine, ReadPipe, Updates, Starts
<1>8. CASE \/ TopOfLoop \/ ReapDone \/ ClearExited
           \/ AcceptIdle \/ AcceptScan \/ AcceptRefuse \/ AddChild
           \/ (\E p \in Pid : Reap(p) \/ AcceptFork(p))
           \/ ScanDone \/ ScanEmpty
           \/ SkipRound \/ DeliverWrite \/ DeliverBroken \/ DeliverSignal
           \/ DeliverDone \/ HandleNull \/ HandleRest
  BY <1>6, <1>8 DEF TopOfLoop, ReapDone, ClearExited, AcceptIdle, AcceptScan,
     AcceptRefuse, AddChild, Reap, AcceptFork, ScanDone, ScanEmpty, SkipRound,
     DeliverWrite, DeliverBroken, DeliverSignal, DeliverDone, HandleNull,
     HandleRest, Dies
<1> QED
  BY <1>2, <1>3, <1>4, <1>5, <1>7, <1>8 DEF Parent, Handle

\* Every kill() of the parent has a process of its own that it has not reaped
\* for its target, and a shutdown leaves no child without its SIGTERM
\* (server.c:210, 250, 321, 355, 459-468).
THEOREM KillCorrect == Spec => []KillHitsOwnChild
<1>1. ASSUME IInv, pc = "signal" PROVE cpc[Target] # "none"
  <2>1. job.k <= JobEnd
    BY <1>1 DEF IInv, JobInv
  <2> QED
    BY <1>1, <2>1, TargetFacts DEF IInv, RegistryExact
<1>2. ASSUME IInv, pc = "term", scan <= Len(active_children)
      PROVE  cpc[EntryPid] # "none"
  BY <1>2, ScannedEntry DEF IInv, RegistryExact
<1>3. IInv /\ ShutdownMissesNobody => KillHitsOwnChild
  BY <1>1, <1>2 DEF KillHitsOwnChild
<1>4. Init => ShutdownMissesNobody
  BY DEF Init, ShutdownMissesNobody
<1>5. IInv /\ ShutdownMissesNobody /\ [Next]_vars => ShutdownMissesNobody'
  <2>1. CASE UNCHANGED vars
    BY <2>1 DEF vars, parentVars, childVars, ShutdownMissesNobody, Live
  <2> QED
    BY <2>1, ShutdownChild, ShutdownParent DEF Next
<1> QED
  BY <1>3, <1>4, <1>5, Inductive, PTL DEF Spec

-----------------------------------------------------------------------------
\* Names and rooms.

\* A step that keeps or gives the names of the processes listed before and
\* after it: NamesStay asks no more.
LEMMA SameEntry ==
    ASSUME IInv, IInv', pc \notin {"wait", "down", "killed"},
           pc' \notin {"wait", "down", "killed"},
           \A j \in 1..Len(active_children') :
               active_children'[j].pid \in Listed =>
                   \E i \in 1..Len(active_children) :
                       /\ active_children[i].pid = active_children'[j].pid
                       /\ \/ active_children'[j].name = active_children[i].name
                          \/ active_children[i].name = NoName,
           NEW p \in Listed, p \in Listed'
    PROVE  EntryOf(p)'.name = EntryOf(p).name \/ EntryOf(p).name = NoName
<1>1. /\ active_children \in Seq(Entry) /\ active_children' \in Seq(Entry)
      /\ \A i, j \in 1..Len(active_children) :
             active_children[i].pid = active_children[j].pid => i = j
      /\ \A i, j \in 1..Len(active_children') :
             active_children'[i].pid = active_children'[j].pid => i = j
  BY DEF IInv, TypeOK, RegistryExact
<1>2. PICK j \in 1..Len(active_children') : active_children'[j].pid = p
  BY DEF Listed
<1>3. PICK i \in 1..Len(active_children) :
          /\ active_children[i].pid = p
          /\ \/ active_children'[j].name = active_children[i].name
             \/ active_children[i].name = NoName
  BY <1>2
<1>4. IndexOf(active_children, p) = i
  BY <1>1, <1>3, IndexOfFacts
<1>5. IndexOf(active_children', p) = j
  BY <1>1, <1>2, IndexOfFacts
<1> QED
  BY <1>3, <1>4, <1>5 DEF EntryOf

\* The commands that update the tables name only who has no name.
LEMMA HandleNames ==
    ASSUME IInv, Handle
    PROVE  /\ pc = "scan" /\ pc' \in {"scan", "deliver"}
           /\ Len(active_children') = Len(active_children)
           /\ \A k \in 1..Len(active_children) :
                  /\ active_children'[k].pid = active_children[k].pid
                  /\ \/ active_children'[k].name = active_children[k].name
                     \/ active_children[k].name = NoName
<1>1. TakeLine /\ pc = "scan"
  BY HandleForms DEF TakeLine, ReadPipe
<1>2. /\ scan \in 1..Len(active_children) /\ Sender = scan /\ Arg \in Word
      /\ FirstLine.content \in Content /\ active_children \in Seq(Entry)
  BY <1>1, SenderFound DEF TakeLine, ReadPipe, IInv, TypeOK
<1>3. CASE UNCHANGED active_children /\ pc' \in {"scan", "deliver"}
  BY <1>1, <1>3
<1>4. CASE HandleAdd \/ HandleUnknown \/ HandleNothing
  BY <1>1, <1>3, <1>4 DEF HandleAdd, HandleUnknown, HandleNothing, Updates
<1>5. CASE HandleQuery \/ HandleBroadcast
  BY <1>1, <1>2, <1>3, <1>5 DEF HandleQuery, HandleBroadcast, Starts, Updates
<1>6. CASE HandleWhisper
  BY <1>1, <1>2, <1>3, <1>6 DEF HandleWhisper, Starts, Updates
<1>7. CASE HandleJoin \/ HandleLeave
  <2>1. PICK w \in Word : active_children' = MoveTo(active_children, scan, w)
    BY <1>2, <1>7 DEF HandleJoin, HandleLeave, Updates, Word
  <2>2. pc' = "scan"
    BY <1>1, <1>7 DEF HandleJoin, HandleLeave, Updates
  <2>3. /\ Len(active_children') = Len(active_children)
        /\ \A j \in 1..Len(active_children) :
               /\ active_children'[j].pid = active_children[j].pid
               /\ active_children'[j].name = active_children[j].name
    BY <1>2, <2>1, MoveToFacts
  <2> QED
    BY <1>1, <2>2, <2>3
<1>8. CASE HandleRm
  <2>1. active_children' = Evict(active_children, Arg) /\ pc' = "scan"
    BY <1>1, <1>8 DEF HandleRm, Updates
  <2> QED
    BY <1>1, <1>2, <2>1, EvictFacts
<1>9. CASE HandleName
  <2>1. /\ active_children' = Rename(active_children, scan, FirstLine.content)
        /\ active_children[scan].name = NoName /\ pc' = "scan"
    BY <1>1, <1>9 DEF HandleName, Updates
  <2>2. /\ Len(active_children') = Len(active_children)
        /\ \A j \in 1..Len(active_children) :
               /\ active_children'[j].pid = active_children[j].pid
               /\ active_children'[j].name = IF j = scan THEN FirstLine.content
                                             ELSE active_children[j].name
    BY <1>2, <2>1, RenameFacts
  <2> QED
    BY <1>1, <2>1, <2>2
<1> QED
  BY <1>4, <1>5, <1>6, <1>7, <1>8, <1>9 DEF Handle

\* Reaping and adding shift or append whole entries.
LEMMA EntriesMove ==
    ASSUME IInv, AddChild \/ \E q \in Pid : Reap(q),
           NEW j \in 1..Len(active_children'),
           active_children'[j].pid \in Listed
    PROVE  \E i \in 1..Len(active_children) :
               active_children'[j] = active_children[i]
<1> DEFINE n == Len(active_children)
<1>1. active_children \in Seq(Entry) /\ n \in Nat
  BY LenProperties DEF IInv, TypeOK
<1>2. CASE AddChild
  <2>1. newPid \in Pid \ Listed
    BY <1>2 DEF AddChild, IInv, RegistryExact
  <2>2. NewEntry(newPid) \in Entry /\ NewEntry(newPid).pid = newPid
    BY <2>1, NullTypes DEF NewEntry, Entry, Word
  <2>3. /\ Len(active_children') = n + 1
        /\ \A i \in 1..n : active_children'[i] = active_children[i]
        /\ active_children'[n + 1].pid = newPid
    BY <1>1, <1>2, <2>2, AppendProperties DEF AddChild
  <2>4. j \in 1..n
    BY <1>1, <2>1, <2>3
  <2> QED
    BY <2>3, <2>4
<1>3. ASSUME NEW q \in Pid, Reap(q)
      PROVE  \E i \in 1..n : active_children'[j] = active_children[i]
  <2> DEFINE k == IndexOf(active_children, q)
  <2>1. CASE k = 0
    BY <1>3, <2>1 DEF Reap
  <2>2. CASE k # 0
    <3>1. \A i, l \in 1..n :
              active_children[i].pid = active_children[l].pid => i = l
      BY <1>3 DEF Reap, IInv, RegistryExact
    <3>2. k \in 1..n
      BY <1>1, <2>2, <3>1, IndexOfFacts
    <3>3. active_children' = RemoveEntry(active_children, k)
      BY <1>3, <2>2 DEF Reap
    <3> HIDE DEF k
    <3>4. /\ Len(active_children') = n - 1
          /\ active_children'[j] =
                 IF j < k THEN active_children[j] ELSE active_children[j + 1]
      BY <1>1, <3>2, <3>3, RemoveEntryFacts
    <3> QED
      BY <1>1, <3>2, <3>4
  <2> QED
    BY <2>1, <2>2
<1> QED
  BY <1>2, <1>3

\* The other steps leave the table alone.
LEMMA TableStays ==
    ASSUME [Next]_vars, ~Handle, ~AddChild, ~\E q \in Pid : Reap(q)
    PROVE  UNCHANGED active_children
<1>1. ASSUME NEW p \in Pid, Child(p)
      PROVE  UNCHANGED active_children
  BY <1>1 DEF Child, ChildSetup, ChildClearFlag, ChildNoFlag,
     ChildRelay, ChildReadNothing, ChildIdle, ChildReadEof, ChildReadLine,
     ChildSignalParent, ChildWrite, ChildBrokenPipe, ChildExit,
     ChildTerminated, unchangedByChild, parentVars
<1>2. CASE Parent
  BY <1>2 DEF Parent, Handle, TopOfLoop, ReapDone, ClearExited, AcceptIdle,
     AcceptScan, AcceptError, AcceptRefuse, AcceptFork, WaitChild, ScanDone,
     ScanEmpty, SkipRound, DeliverWrite, DeliverBroken, DeliverSignal,
     DeliverDone, TermChild, TermDone, WaitDone, Dies, HandleNull, HandleRest
<1> QED
  BY <1>1, <1>2 DEF Next, vars, parentVars

\* No step takes a name from a client or gives it another.
LEMMA NamesKept ==
    ASSUME IInv, IInv', [Next]_vars, NEW p \in Listed, p \in Listed'
    PROVE  EntryOf(p)'.name = EntryOf(p).name \/ EntryOf(p).name = NoName
<1>1. CASE Handle
  <2>1. \A j \in 1..Len(active_children') :
            \E i \in 1..Len(active_children) :
                /\ active_children[i].pid = active_children'[j].pid
                /\ \/ active_children'[j].name = active_children[i].name
                   \/ active_children[i].name = NoName
    BY <1>1, HandleNames
  <2> QED
    BY <1>1, <2>1, HandleNames, SameEntry
<1>2. CASE AddChild \/ \E q \in Pid : Reap(q)
  <2>1. pc \in {"forked", "reap"} /\ pc' \in {"top", "reap"}
    BY <1>2 DEF AddChild, Reap
  <2>2. \A j \in 1..Len(active_children') :
            active_children'[j].pid \in Listed =>
                \E i \in 1..Len(active_children) :
                    /\ active_children[i].pid = active_children'[j].pid
                    /\ active_children'[j].name = active_children[i].name
    <3> SUFFICES ASSUME NEW j \in 1..Len(active_children'),
                        active_children'[j].pid \in Listed
                 PROVE  \E i \in 1..Len(active_children) :
                            active_children'[j] = active_children[i]
      OBVIOUS
    <3> QED
      BY <1>2, EntriesMove
  <2> QED
    BY <2>1, <2>2, SameEntry
<1>3. CASE UNCHANGED active_children
  BY <1>3 DEF EntryOf
<1> QED
  BY <1>1, <1>2, <1>3, TableStays

\* A client keeps the name it has (server.c:261-265), whatever reaping the
\* others does to the table (sig.c:30-33).
THEOREM NamesCorrect == Spec => NamesStay
<1>1. IInv /\ IInv' /\ [Next]_vars =>
          [\A p \in Listed : p \in Listed' =>
               \/ EntryOf(p)'.name = EntryOf(p).name
               \/ EntryOf(p).name = NoName]_vars
  BY NamesKept
<1> QED
  BY <1>1, Inductive, PTL DEF Spec, NamesStay

\* The rooms that a command leaves in room_info: all but, for /rm, the one
\* named.
LEMMA RoomsKept ==
    ASSUME IInv, NEW w \in Word
    PROVE  /\ \A j \in 1..Len(room_info) :
                  \E i \in 1..Len(AddRoom(room_info, w, ChatRoom)) :
                      AddRoom(room_info, w, ChatRoom)[i] = room_info[j]
           /\ \A j \in 1..Len(room_info) : room_info[j] # w =>
                  \E i \in 1..Len(RemoveRoom(room_info, w)) :
                      RemoveRoom(room_info, w)[i] = room_info[j]
<1> DEFINE n == Len(room_info)
<1>1. room_info \in Seq(Word) /\ n \in Nat
  BY LenProperties DEF IInv, TypeOK
<1>2. \A j \in 1..n :
          \E i \in 1..Len(AddRoom(room_info, w, ChatRoom)) :
              AddRoom(room_info, w, ChatRoom)[i] = room_info[j]
  <2>1. /\ Len(Append(room_info, w)) = n + 1
        /\ \A j \in 1..n : Append(room_info, w)[j] = room_info[j]
    BY <1>1, AppendProperties
  <2> QED
    BY <1>1, <2>1 DEF AddRoom
<1>3. ASSUME NEW j \in 1..n, room_info[j] # w
      PROVE  \E i \in 1..Len(RemoveRoom(room_info, w)) :
                 RemoveRoom(room_info, w)[i] = room_info[j]
  <2> DEFINE At == {k \in 1..n : room_info[k] = w}
             first == CHOOSE k \in At : \A l \in At : k <= l
  <2>1. CASE At = {}
    BY <2>1 DEF RemoveRoom
  <2>2. CASE At # {}
    <3>1. RemoveRoom(room_info, w) = RemoveEntry(room_info, first)
      BY <2>2 DEF RemoveRoom
    <3>2. first \in At
      <4>1. At \subseteq Nat
        OBVIOUS
      <4>2. \E k \in At : \A l \in At : k <= l
        BY <2>2, <4>1, LeastNat
      <4> QED
        BY <4>2
    <3>3. first \in 1..n /\ first # j
      BY <1>3, <3>2
    <3> HIDE DEF first
    <3>4. /\ Len(RemoveEntry(room_info, first)) = n - 1
          /\ \A i \in 1..(n - 1) : RemoveEntry(room_info, first)[i] =
                 IF i < first THEN room_info[i] ELSE room_info[i + 1]
      BY <1>1, <3>3, RemoveEntryFacts
    <3>5. CASE j < first
      BY <1>1, <3>1, <3>3, <3>4, <3>5
    <3>6. CASE j > first
      <4>1. j - 1 \in 1..(n - 1) /\ ~(j - 1 < first) /\ (j - 1) + 1 = j
        BY <1>1, <3>3, <3>6
      <4> QED
        BY <3>1, <3>4, <4>1
    <3> QED
      BY <1>1, <3>3, <3>5, <3>6
  <2> QED
    BY <2>1, <2>2
<1> QED
  BY <1>2, <1>3

\* /rm puts everybody out of the rooms of a name before it takes the first of
\* them out of room_info (server.c:166-189): a name that is gone is nobody's.
THEOREM RemovedCorrect == Spec => RemovedRoomIsEmpty
<1>1. ASSUME IInv, Next, NEW r \in (RoomNames \ RoomNames') \ {Blank},
             NEW k \in 1..Len(active_children')
      PROVE  active_children'[k].room # r
  <2>1. CASE HandleRm
    <3>1. /\ active_children' = Evict(active_children, Arg)
          /\ room_info' = RemoveRoom(room_info, Arg) /\ TakeLine
      BY <2>1 DEF HandleRm, Updates
    <3>2. Arg \in Word /\ active_children \in Seq(Entry)
      BY <1>1, <3>1, SenderFound DEF TakeLine, ReadPipe, IInv, TypeOK
    <3>3. r = Arg
      BY <1>1, <3>1, <3>2, RoomsKept DEF RoomNames
    <3>4. /\ Len(active_children') = Len(active_children)
          /\ \A i \in 1..Len(active_children) : active_children'[i].room # r
      BY <1>1, <3>1, <3>2, <3>3, EvictFacts
    <3> QED
      BY <3>4
  <2>2. CASE HandleAdd
    <3>1. room_info' = AddRoom(room_info, Arg, ChatRoom) /\ TakeLine
      BY <2>2 DEF HandleAdd, Updates
    <3>2. Arg \in Word
      BY <1>1, <3>1, SenderFound DEF TakeLine, ReadPipe
    <3> QED
      BY <1>1, <3>1, <3>2, RoomsKept DEF RoomNames
  <2>3. CASE UNCHANGED room_info
    BY <1>1, <2>3 DEF RoomNames
  <2>4. CASE Handle /\ ~HandleRm /\ ~HandleAdd
    BY <2>3, <2>4 DEF Handle, HandleJoin, HandleLeave, HandleUnknown,
       HandleQuery, HandleName, HandleWhisper, HandleNothing, HandleBroadcast,
       Updates, Starts
  <2>5. ASSUME NEW p \in Pid, Child(p)
        PROVE  UNCHANGED room_info
    BY <2>5 DEF Child, ChildSetup, ChildClearFlag, ChildNoFlag,
       ChildRelay, ChildReadNothing, ChildIdle, ChildReadEof, ChildReadLine,
       ChildSignalParent, ChildWrite, ChildBrokenPipe, ChildExit,
       ChildTerminated, unchangedByChild, parentVars
  <2>6. CASE Parent /\ ~Handle
    BY <2>3, <2>6 DEF Parent, Handle, TopOfLoop, Reap, ReapDone, ClearExited,
       AcceptIdle, AcceptScan, AcceptError, AcceptRefuse, AcceptFork, AddChild,
       WaitChild, ScanDone, ScanEmpty, SkipRound, DeliverWrite, DeliverBroken,
       DeliverSignal, DeliverDone, TermChild, TermDone, WaitDone, Dies, HandleNull,
       HandleRest
  <2> QED
    BY <1>1, <2>1, <2>2, <2>3, <2>4, <2>5, <2>6 DEF Next, Handle
<1>2. IInv /\ [Next]_vars =>
          [\A r \in (RoomNames \ RoomNames') \ {Blank} :
               \A k \in 1..Len(active_children') :
                   active_children'[k].room # r]_vars
  BY <1>1
<1> QED
  BY <1>2, Inductive, PTL DEF Spec, RemovedRoomIsEmpty
=============================================================================
