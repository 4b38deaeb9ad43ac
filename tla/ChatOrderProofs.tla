--------------------------- MODULE ChatOrderProofs ---------------------------
(***************************************************************************)
(* That ChatServer passes the lines of a client on in the order in which   *)
(* they were typed: from the socket to `held`, through the pipe and the    *)
(* scan to the write loop, and into the pipes of the others.               *)
(***************************************************************************)
EXTENDS ChatServerProofs

Looping == pc \in {"deliver", "signal"}
Worker == active_children[job.by].pid

\* What was written of client f comes before line n.
Said(f, n) ==
    \A q \in Pid : \A j \in 1..Len(toChild[q]) :
        toChild[q][j].from = f => toChild[q][j].no < n

\* Line n of client p, typed already, is behind all of p that was passed on
\* or is being passed on.
Later(p, n) ==
    n <= lines /\ Said(p, n) /\ (Looping /\ Worker = p => job.no < n)

\* The beginning of a line comes behind all of the lines before it; the rest
\* of one may be left in the pipe when the line is passed on already.
Behind(m, n) == m.no <= n.no /\ (n.part = 1 => m.no < n.no)
PipeOrdered ==
    \A p \in Pid : \A k \in 1..Len(toParent[p]) :
        /\ toParent[p][k].no <= lines
        /\ toParent[p][k].part = 1 => Later(p, toParent[p][k].no)
        /\ \A j \in 1..Len(toParent[p]) :
               j < k => Behind(toParent[p][j], toParent[p][k])

HeldIsLast ==
    \A p \in Pid : cpc[p] \in {"kill", "write"} =>
        /\ Later(p, held[p].no)
        /\ \A k \in 1..Len(toParent[p]) : toParent[p][k].no < held[p].no

PassedOn ==
    /\ \A q \in Pid : \A j \in 1..Len(toChild[q]) : toChild[q][j].no <= lines
    /\ Looping => job.no <= lines

\* The rounds of the write loop that are behind it wrote to other children.
RoundsBehind ==
    Looping => \A q \in Pid : \A j \in 1..Len(toChild[q]) :
        toChild[q][j].from = Worker =>
            \/ toChild[q][j].no < job.no
            \/ /\ toChild[q][j].no = job.no
               /\ \/ job.kind \in {"list", "users"}
                  \/ \E i \in 1..Len(active_children) :
                         /\ active_children[i].pid = q
                         /\ i < job.k \/ (i = job.k /\ pc = "signal")

OInv == PipeOrdered /\ HeldIsLast /\ PassedOn /\ RoundsBehind /\ InOrder

-----------------------------------------------------------------------------
\* t is what is left of pipe s, the oldest messages taken out of it.
Rest(s, t) ==
    \E d \in Nat : \A k \in 1..Len(t) : k + d \in 1..Len(s) /\ t[k] = s[k + d]

LEMMA RestFacts ==
    ASSUME NEW S, NEW s \in Seq(S)
    PROVE  /\ Rest(s, s) /\ Rest(s, <<>>) /\ Rest(s, AfterRead(s))
           /\ s # <<>> => \E d \in Nat \ {0} : \A k \in 1..Len(AfterRead(s)) :
                  k + d \in 1..Len(s) /\ AfterRead(s)[k] = s[k + d]
<1>1. Len(s) \in Nat /\ Len(<<>>) = 0
  BY LenProperties, EmptySeq
<1>2. Rest(s, s)
  <2>1. \A k \in 1..Len(s) : k + 0 \in 1..Len(s) /\ s[k] = s[k + 0]
    BY <1>1
  <2> QED
    BY <2>1 DEF Rest
<1>3. Rest(s, <<>>)
  BY <1>1 DEF Rest
<1> DEFINE d == Chunk(s)
<1>4. d \in Nat /\ d <= Len(s) /\ (s # <<>> => d # 0)
  <2>1. s # <<>> => Len(s) # 0
    BY EmptySeq
  <2> QED
    BY <1>1, <2>1, ServerAssumption DEF Chunk, Least
<1> HIDE DEF d
<1>5. \A i \in (d + 1)..Len(s) : s[i] \in S
  BY <1>1, <1>4, ElementOfSeq
<1>6. /\ Len(SubSeq(s, d + 1, Len(s))) =
             IF d + 1 <= Len(s) THEN Len(s) - (d + 1) + 1 ELSE 0
      /\ \A i \in 1..(Len(s) - (d + 1) + 1) :
             SubSeq(s, d + 1, Len(s))[i] = s[(d + 1) + i - 1]
  BY <1>1, <1>4, <1>5, SubSeqProperties
<1>7. \A k \in 1..Len(AfterRead(s)) :
          k + d \in 1..Len(s) /\ AfterRead(s)[k] = s[k + d]
  <2> DEFINE rest == SubSeq(s, d + 1, Len(s))
  <2>1. AfterRead(s) = rest
    BY DEF AfterRead, d
  <2>2. Len(rest) = Len(s) - d
    BY <1>1, <1>4, <1>6
  <2>3. \A i \in 1..(Len(s) - d) : rest[i] = s[i + d]
    BY <1>1, <1>4, <1>6
  <2> HIDE DEF rest
  <2> QED
    BY <1>1, <1>4, <2>1, <2>2, <2>3
<1> QED
  BY <1>2, <1>3, <1>4, <1>7 DEF Rest

\* Where nothing is typed, written to a pipe or begun, the order stays.
LEMMA OrderFrame ==
    ASSUME IInv, IInv', OInv, lines <= lines',
           \A p \in Pid : /\ Rest(toParent[p], toParent'[p])
                          /\ Rest(toChild[p], toChild'[p]),
           \A p \in Pid : cpc'[p] \in {"kill", "write"} =>
               cpc[p] \in {"kill", "write"} /\ held'[p] = held[p],
           Looping' =>
               /\ Looping /\ UNCHANGED active_children
               /\ job'.by = job.by /\ job'.no = job.no /\ job'.kind = job.kind
               /\ job.k <= job'.k
               /\ pc = "signal" /\ pc' # "signal" => job.k < job'.k
    PROVE  OInv'
<1>1. /\ lines \in Nat /\ lines' \in Nat /\ job \in Job /\ job' \in Job
      /\ held \in [Pid -> Line]
      /\ toParent \in [Pid -> Seq(Message)] /\ toParent' \in [Pid -> Seq(Message)]
      /\ toChild \in [Pid -> Seq(Payload)] /\ toChild' \in [Pid -> Seq(Payload)]
  BY DEF IInv, TypeOK
<1>2. \A q \in Pid : \A j \in 1..Len(toChild'[q]) :
          \E i \in 1..Len(toChild[q]) : toChild'[q][j] = toChild[q][i]
  BY DEF Rest
<1>3. \A q \in Pid : \A j \in 1..Len(toParent'[q]) :
          \E i \in 1..Len(toParent[q]) : toParent'[q][j] = toParent[q][i]
  BY DEF Rest
<1>4. Looping' => Worker' = Worker
  BY DEF Worker
<1>5. ASSUME NEW p \in Pid, NEW n \in Nat, Later(p, n)
      PROVE  Later(p, n)'
  <2>1. n <= lines'
    BY <1>1, <1>5 DEF Later
  <2>2. Said(p, n)'
    <3>1. Said(p, n)
      BY <1>5 DEF Later
    <3>2. ASSUME NEW q \in Pid, NEW j \in 1..Len(toChild'[q]),
                 toChild'[q][j].from = p
          PROVE  toChild'[q][j].no < n
      <4>1. PICK i \in 1..Len(toChild[q]) : toChild'[q][j] = toChild[q][i]
        BY <1>2
      <4> QED
        BY <3>1, <3>2, <4>1 DEF Said
    <3> QED
      BY <3>2 DEF Said
  <2>3. Looping' /\ Worker' = p => job'.no < n
    BY <1>4, <1>5 DEF Later
  <2> QED
    BY <2>1, <2>2, <2>3 DEF Later
<1>6. \A q \in Pid : /\ \A j \in 1..Len(toChild[q]) : toChild[q][j].no \in Nat
                     /\ \A j \in 1..Len(toParent[q]) : toParent[q][j].no \in Nat
  <2>1. ASSUME NEW q \in Pid
        PROVE  /\ \A j \in 1..Len(toChild[q]) : toChild[q][j] \in Payload
               /\ \A j \in 1..Len(toParent[q]) : toParent[q][j] \in Message
    BY <1>1, ElementOfSeq
  <2> QED
    BY <2>1 DEF Payload, Message
<1>7. PipeOrdered'
  <2> SUFFICES ASSUME NEW p \in Pid, NEW k \in 1..Len(toParent'[p])
               PROVE  /\ toParent'[p][k].no <= lines'
                      /\ toParent'[p][k].part = 1 => Later(p, toParent[p][k].no)'
                      /\ \A j \in 1..Len(toParent'[p]) :
                             j < k => Behind(toParent'[p][j], toParent'[p][k])
    BY DEF PipeOrdered, Behind
  <2>1. PICK d \in Nat : \A i \in 1..Len(toParent'[p]) :
            i + d \in 1..Len(toParent[p]) /\ toParent'[p][i] = toParent[p][i + d]
    BY DEF Rest
  <2>2. PICK n \in Nat : n = toParent[p][k + d].no
    BY <1>6, <2>1
  <2>3. n <= lines /\ (toParent[p][k + d].part = 1 => Later(p, n))
    BY <2>1, <2>2 DEF OInv, PipeOrdered
  <2>6. toParent[p][k + d].part = 1 => Later(p, n)'
    BY <1>5, <2>3
  <2>4. ASSUME NEW j \in 1..Len(toParent'[p]), j < k
        PROVE  Behind(toParent'[p][j], toParent'[p][k])
    <3>1. j + d < k + d
      BY <1>1, <2>4, LenProperties
    <3> QED
      BY <2>1, <3>1 DEF OInv, PipeOrdered
  <2>5. toParent'[p][k].part = 1 => Later(p, toParent[p][k].no)'
    BY <2>1, <2>2, <2>6
  <2> QED
    BY <1>1, <2>1, <2>2, <2>3, <2>4, <2>5
<1>8. HeldIsLast'
  <2> SUFFICES ASSUME NEW p \in Pid, cpc'[p] \in {"kill", "write"}
               PROVE  /\ Later(p, held[p].no)'
                      /\ \A k \in 1..Len(toParent'[p]) :
                             toParent'[p][k].no < held'[p].no
    BY DEF HeldIsLast
  <2>1. /\ held'[p] = held[p] /\ Later(p, held[p].no)
        /\ \A k \in 1..Len(toParent[p]) : toParent[p][k].no < held[p].no
    BY DEF OInv, HeldIsLast
  <2>2. PICK n \in Nat : n = held[p].no
    BY <1>1 DEF Line
  <2>3. Later(p, n)'
    BY <1>5, <2>1, <2>2
  <2>4. Later(p, held[p].no)'
    BY <2>1, <2>2, <2>3
  <2> QED
    BY <1>3, <2>1, <2>4
<1>9. PassedOn'
  <2>1. ASSUME NEW q \in Pid, NEW j \in 1..Len(toChild'[q])
        PROVE  toChild'[q][j].no <= lines'
    <3>1. PICK i \in 1..Len(toChild[q]) : toChild'[q][j] = toChild[q][i]
      BY <1>2
    <3>2. toChild[q][i].no \in Nat /\ toChild[q][i].no <= lines
      BY <1>6 DEF OInv, PassedOn
    <3> QED
      BY <1>1, <3>1, <3>2
  <2>2. Looping' => job'.no <= lines'
    BY <1>1 DEF OInv, PassedOn, Job
  <2> QED
    BY <2>1, <2>2 DEF PassedOn
<1>10. RoundsBehind'
  <2> SUFFICES ASSUME Looping', NEW q \in Pid, NEW j \in 1..Len(toChild'[q]),
                      toChild'[q][j].from = Worker'
               PROVE  \/ toChild'[q][j].no < job'.no
                      \/ /\ toChild'[q][j].no = job'.no
                         /\ \/ job'.kind \in {"list", "users"}
                            \/ \E i \in 1..Len(active_children') :
                                   /\ active_children'[i].pid = q
                                   /\ i < job'.k \/ (i = job'.k /\ pc' = "signal")
    BY DEF RoundsBehind
  <2>1. PICK l \in 1..Len(toChild[q]) : toChild'[q][j] = toChild[q][l]
    BY <1>2
  <2>2. \/ toChild[q][l].no < job.no
        \/ /\ toChild[q][l].no = job.no
           /\ \/ job.kind \in {"list", "users"}
              \/ \E i \in 1..Len(active_children) :
                     /\ active_children[i].pid = q
                     /\ i < job.k \/ (i = job.k /\ pc = "signal")
    BY <1>4, <2>1 DEF OInv, RoundsBehind
  <2>3. job.k \in Nat /\ job'.k \in Nat
    BY <1>1 DEF Job
  <2>4. ASSUME NEW i \in 1..Len(active_children),
               i < job.k \/ (i = job.k /\ pc = "signal")
        PROVE  i < job'.k \/ (i = job'.k /\ pc' = "signal")
    BY <2>3, <2>4
  <2> QED
    BY <2>1, <2>2, <2>4
<1>11. InOrder'
  <2> SUFFICES ASSUME NEW p \in Pid, NEW j \in 1..Len(toChild'[p]),
                      NEW k \in 1..Len(toChild'[p]), j < k,
                      toChild'[p][j].from = toChild'[p][k].from
               PROVE  \/ toChild'[p][j].no < toChild'[p][k].no
                      \/ /\ toChild'[p][j].no = toChild'[p][k].no
                         /\ \/ toChild'[p][k].kind \in {"list", "users"}
                            \/ toChild'[p][j].part < toChild'[p][k].part
    BY DEF InOrder
  <2>1. PICK d \in Nat : \A i \in 1..Len(toChild'[p]) :
            i + d \in 1..Len(toChild[p]) /\ toChild'[p][i] = toChild[p][i + d]
    BY DEF Rest
  <2>2. Len(toChild'[p]) \in Nat
    BY <1>1, LenProperties
  <2>3. j + d < k + d
    BY <2>2
  <2>4. /\ j + d \in 1..Len(toChild[p]) /\ k + d \in 1..Len(toChild[p])
        /\ toChild'[p][j] = toChild[p][j + d] /\ toChild'[p][k] = toChild[p][k + d]
    BY <2>1
  <2>5. InOrder
    BY DEF OInv
  <2> QED
    BY <2>3, <2>4, <2>5 DEF InOrder
<1> QED
  BY <1>7, <1>8, <1>9, <1>10, <1>11 DEF OInv

-----------------------------------------------------------------------------
\* A typed line is the last of all lines; a written one the last of its pipe.
LEMMA TypedOrdered ==
    ASSUME IInv, IInv', OInv, NEW p \in Pid, NEW c \in Inputs, ChildReadLine(p, c)
    PROVE  OInv'
<1>1. /\ lines \in Nat /\ lines' = lines + 1 /\ job \in Job
      /\ held \in [Pid -> Line] /\ cpc \in [Pid -> ChildPc]
      /\ toParent \in [Pid -> Seq(Message)] /\ toChild \in [Pid -> Seq(Payload)]
      /\ UNCHANGED <<pc, job, active_children, toParent, toChild>>
      /\ held'[p].no = lines + 1
      /\ \A q \in Pid \ {p} : held'[q] = held[q] /\ cpc'[q] = cpc[q]
  BY DEF IInv, TypeOK, ChildReadLine, unchangedByChild, parentVars
<1>2. \A q \in Pid : /\ \A j \in 1..Len(toChild[q]) : toChild[q][j].no \in Nat
                     /\ \A j \in 1..Len(toParent[q]) : toParent[q][j].no \in Nat
  <2>1. ASSUME NEW q \in Pid
        PROVE  /\ \A j \in 1..Len(toChild[q]) : toChild[q][j] \in Payload
               /\ \A j \in 1..Len(toParent[q]) : toParent[q][j] \in Message
    BY <1>1, ElementOfSeq
  <2> QED
    BY <2>1 DEF Payload, Message
<1>3. /\ \A q \in Pid : \A n : Said(q, n) => Said(q, n)'
      /\ Looping' = Looping /\ Worker' = Worker
  BY <1>1 DEF Said, Looping, Worker
<1>4. ASSUME NEW q \in Pid, NEW n \in Nat, Later(q, n)
      PROVE  Later(q, n)'
  BY <1>1, <1>3, <1>4 DEF Later
<1>5. PipeOrdered'
  <2> SUFFICES ASSUME NEW q \in Pid, NEW k \in 1..Len(toParent[q])
               PROVE  /\ toParent[q][k].no <= lines'
                      /\ toParent[q][k].part = 1 => Later(q, toParent[q][k].no)'
                      /\ \A j \in 1..Len(toParent[q]) :
                             j < k => Behind(toParent[q][j], toParent[q][k])
    BY <1>1 DEF PipeOrdered, Behind
  <2>1. PICK n \in Nat : n = toParent[q][k].no
    BY <1>2
  <2>2. n <= lines /\ (toParent[q][k].part = 1 => Later(q, n)')
    BY <1>4, <2>1 DEF OInv, PipeOrdered
  <2>3. toParent[q][k].part = 1 => Later(q, toParent[q][k].no)'
    BY <1>1, <2>1, <2>2
  <2> QED
    BY <1>1, <2>1, <2>2, <2>3 DEF OInv, PipeOrdered
<1>6. ASSUME NEW n, n = lines + 1
      PROVE  Later(p, n)'
  <2>1. n \in Nat /\ n = lines + 1
    BY <1>1, <1>6
  <2>2. Said(p, n)'
    <3>1. \A q \in Pid : \A j \in 1..Len(toChild[q]) : toChild[q][j].no < n
      BY <1>1, <1>2, <2>1 DEF OInv, PassedOn
    <3> QED
      BY <1>1, <3>1 DEF Said
  <2>3. Looping => job.no < n
    BY <1>1, <2>1 DEF OInv, PassedOn, Job
  <2> QED
    BY <1>1, <1>3, <2>1, <2>2, <2>3 DEF Later
<1>7. HeldIsLast'
  <2> SUFFICES ASSUME NEW q \in Pid, cpc'[q] \in {"kill", "write"}
               PROVE  /\ Later(q, held[q].no)'
                      /\ \A k \in 1..Len(toParent[q]) :
                             toParent[q][k].no < held'[q].no
    BY <1>1 DEF HeldIsLast
  <2>1. CASE q # p
    <3>1. /\ held'[q] = held[q] /\ Later(q, held[q].no)
          /\ \A k \in 1..Len(toParent[q]) : toParent[q][k].no < held[q].no
      BY <1>1, <2>1 DEF OInv, HeldIsLast
    <3>2. PICK n \in Nat : n = held[q].no
      BY <1>1 DEF Line
    <3>3. Later(q, n)'
      BY <1>4, <3>1, <3>2
    <3>4. Later(q, held[q].no)'
      BY <3>1, <3>2, <3>3
    <3> QED
      BY <3>1, <3>4
  <2>2. CASE q = p
    <3>1. \A k \in 1..Len(toParent[p]) :
              toParent[p][k].no \in Nat /\ toParent[p][k].no <= lines
      BY <1>2 DEF OInv, PipeOrdered
    <3>2. PICK n : n = held'[p].no
      OBVIOUS
    <3>3. Later(p, n)'
      BY <1>1, <1>6, <3>2
    <3>4. Later(p, held[p].no)'
      BY <3>2, <3>3
    <3> QED
      BY <1>1, <2>2, <3>1, <3>4
  <2> QED
    BY <2>1, <2>2
<1>8. PassedOn'
  BY <1>1, <1>2, <1>3 DEF OInv, PassedOn, Job
<1>9. RoundsBehind'
  <2>1. /\ pc' = pc /\ job' = job /\ active_children' = active_children
        /\ toChild' = toChild /\ RoundsBehind
    BY <1>1 DEF OInv
  <2> SUFFICES ASSUME Looping', NEW q \in Pid, NEW j \in 1..Len(toChild[q]),
                      toChild[q][j].from = Worker
               PROVE  \/ toChild[q][j].no < job.no
                      \/ /\ toChild[q][j].no = job.no
                         /\ \/ job.kind \in {"list", "users"}
                            \/ \E i \in 1..Len(active_children) :
                                   /\ active_children[i].pid = q
                                   /\ i < job.k \/ (i = job.k /\ pc = "signal")
    BY <1>3, <2>1 DEF RoundsBehind
  <2> QED
    BY <1>3, <2>1 DEF RoundsBehind
<1>10. InOrder'
  <2>1. toChild' = toChild /\ InOrder
    BY <1>1 DEF OInv
  <2> QED
    BY <2>1 DEF InOrder
<1> QED
  BY <1>5, <1>7, <1>8, <1>9, <1>10 DEF OInv

LEMMA WrittenOrdered ==
    ASSUME IInv, IInv', OInv, NEW p \in Pid, ChildWrite(p)
    PROVE  OInv'
<1> DEFINE L == Len(toParent[p])
<1>1. /\ UNCHANGED <<lines, pc, job, active_children, toChild>>
      /\ held \in [Pid -> Line] /\ cpc \in [Pid -> ChildPc]
      /\ toParent \in [Pid -> Seq(Message)] /\ cpc[p] = "write"
      /\ \A q \in Pid \ {p} : held'[q] = held[q] /\ cpc'[q] = cpc[q]
                                /\ toParent'[q] = toParent[q]
      /\ cpc'[p] = "top"
  BY DEF IInv, TypeOK, ChildWrite, unchangedByChild, parentVars
<1>2. PICK new \in Nat :
          /\ L \in Nat /\ Len(toParent'[p]) = L + new
          /\ \A k \in 1..L : toParent'[p][k] = toParent[p][k]
          /\ \A k \in 1..new : toParent'[p][L + k] =
                 [pid |-> p, no |-> held[p].no,
                  content |-> held[p].content, part |-> k]
  BY ChildWriteFacts
<1> HIDE DEF L
<1>3. \A k \in 1..Len(toParent'[p]) :
          \/ k \in 1..L /\ toParent'[p][k] = toParent[p][k]
          \/ /\ k - L \in 1..new /\ toParent'[p][k].no = held[p].no
             /\ toParent'[p][k].part = k - L
  <2> TAKE k \in 1..Len(toParent'[p])
  <2> DEFINE i == k - L
  <2>1. CASE k \in 1..L
    BY <1>2, <2>1
  <2>2. CASE k \notin 1..L
    <3>1. i \in 1..new /\ k = L + i
      BY <1>2, <2>2
    <3> HIDE DEF i
    <3>2. toParent'[p][k] = [pid |-> p, no |-> held[p].no,
                             content |-> held[p].content, part |-> i]
      BY <1>2, <3>1
    <3>3. toParent'[p][k].no = held[p].no /\ toParent'[p][k].part = i
      BY <3>2
    <3> QED
      BY <3>1, <3>3 DEF i
  <2> QED
    BY <2>1, <2>2
<1>4. \A q \in Pid : \A w : Later(q, w) => Later(q, w)'
  BY <1>1 DEF Later, Said, Looping, Worker
<1>5. /\ Later(p, held[p].no) /\ held[p].no \in Nat
      /\ \A k \in 1..L : toParent[p][k].no \in Nat /\ toParent[p][k].no < held[p].no
  <2>1. \A k \in 1..L : toParent[p][k] \in Message
    BY <1>1, ElementOfSeq DEF L
  <2> QED
    BY <1>1, <2>1 DEF OInv, HeldIsLast, Line, Message, L
<1>6. ASSUME NEW q \in Pid, NEW k \in 1..Len(toParent'[q])
      PROVE  /\ toParent'[q][k].no <= lines'
             /\ toParent'[q][k].part = 1 => Later(q, toParent[q][k].no)'
             /\ \A j \in 1..Len(toParent'[q]) :
                    j < k => Behind(toParent'[q][j], toParent'[q][k])
  <2>1. PICK w : w = toParent'[q][k].no
    OBVIOUS
  <2>2. CASE q # p
    <3>1. /\ toParent'[q] = toParent[q] /\ w <= lines
          /\ toParent[q][k].part = 1 => Later(q, w)
      BY <1>1, <2>1, <2>2 DEF OInv, PipeOrdered
    <3>2. toParent[q][k].part = 1 => Later(q, toParent[q][k].no)'
      BY <1>4, <2>1, <3>1
    <3> QED
      BY <1>1, <2>1, <3>1, <3>2 DEF OInv, PipeOrdered
  <2>3. CASE q = p /\ k \in 1..L
    <3>1. toParent'[p][k] = toParent[p][k] /\ k \in 1..Len(toParent[p])
      BY <1>2, <2>3 DEF L
    <3>5. toParent[p][k].no = w
      BY <2>1, <2>3, <3>1
    <3>6. /\ toParent[p][k].no <= lines
          /\ toParent[p][k].part = 1 => Later(p, toParent[p][k].no)
          /\ \A j \in 1..L : j < k => Behind(toParent[p][j], toParent[p][k])
      BY <3>1 DEF OInv, PipeOrdered, L
    <3>2. w <= lines /\ (toParent[p][k].part = 1 => Later(p, w))
      BY <3>5, <3>6
    <3>3. toParent'[p][k].part = 1 => Later(p, toParent[p][k].no)'
      BY <1>4, <2>1, <2>3, <3>1, <3>2
    <3>4. ASSUME NEW j \in 1..Len(toParent'[p]), j < k
          PROVE  Behind(toParent'[p][j], toParent'[p][k])
      <4>1. j \in 1..L
        BY <1>2, <2>3, <3>4
      <4>2. toParent'[p][j] = toParent[p][j]
        BY <1>2, <4>1
      <4> QED
        BY <3>1, <3>4, <3>6, <4>1, <4>2
    <3>7. toParent'[p][k].no <= lines'
      BY <1>1, <3>1, <3>6
    <3> QED
      BY <2>3, <3>3, <3>4, <3>7
  <2>4. CASE q = p /\ k \notin 1..L
    <3>1. k - L \in 1..new /\ w = held[p].no /\ toParent'[p][k].part = k - L
      BY <1>3, <2>1, <2>4
    <3>2. Later(p, w)'
      BY <1>4, <1>5, <3>1
    <3>3. Later(p, toParent[p][k].no)'
      BY <2>1, <2>4, <3>2
    <3>4. w <= lines'
      BY <3>2 DEF Later
    <3>5. ASSUME NEW j \in 1..Len(toParent'[p]), j < k
          PROVE  Behind(toParent'[p][j], toParent'[p][k])
      <4>1. CASE j \in 1..L
        <5>1. /\ toParent'[p][j].no \in Nat
              /\ toParent'[p][j].no < held[p].no
          BY <1>2, <1>5, <4>1
        <5>2. toParent'[p][k].no = held[p].no
          BY <2>1, <2>4, <3>1
        <5> QED
          BY <1>5, <5>1, <5>2 DEF Behind
      <4>2. CASE j \notin 1..L
        <5>1. toParent'[p][j].no = held[p].no /\ j - L \in 1..new
          BY <1>3, <4>2
        <5>2. k - L # 1
          BY <1>2, <3>1, <3>5, <5>1
        <5> QED
          BY <1>5, <2>1, <2>4, <3>1, <5>1, <5>2 DEF Behind
      <4> QED
        BY <4>1, <4>2
    <3> QED
      BY <2>1, <2>4, <3>3, <3>4, <3>5
  <2> QED
    BY <2>2, <2>3, <2>4
<1>7. HeldIsLast'
  <2> SUFFICES ASSUME NEW q \in Pid, cpc'[q] \in {"kill", "write"}
               PROVE  /\ Later(q, held[q].no)'
                      /\ \A k \in 1..Len(toParent'[q]) :
                             toParent'[q][k].no < held'[q].no
    BY DEF HeldIsLast
  <2>1. /\ q # p /\ held'[q] = held[q] /\ toParent'[q] = toParent[q]
        /\ cpc[q] \in {"kill", "write"}
    BY <1>1
  <2>2. PICK n : n = held[q].no
    OBVIOUS
  <2>3. Later(q, n)'
    BY <1>4, <2>1, <2>2 DEF OInv, HeldIsLast
  <2>4. Later(q, held[q].no)'
    BY <2>1, <2>2, <2>3
  <2> QED
    BY <2>1, <2>4 DEF OInv, HeldIsLast
<1>8. PassedOn' /\ RoundsBehind' /\ InOrder'
  <2>1. /\ UNCHANGED <<pc, job, active_children, toChild, lines>>
        /\ Looping' = Looping /\ Worker' = Worker
        /\ PassedOn /\ RoundsBehind /\ InOrder
    BY <1>1 DEF OInv, Looping, Worker
  <2>2. PassedOn'
    BY <2>1 DEF PassedOn
  <2>3. RoundsBehind'
    BY <2>1 DEF RoundsBehind
  <2>4. InOrder'
    BY <2>1 DEF InOrder
  <2> QED
    BY <2>2, <2>3, <2>4
<1>9. PipeOrdered'
  BY <1>6 DEF PipeOrdered, Behind
<1> QED
  BY <1>7, <1>8, <1>9 DEF OInv

-----------------------------------------------------------------------------
\* A write loop is begun for the line just read, for the child it is from.
LEMMA LoopForLine ==
    ASSUME IInv, Handle, pc' # "scan"
    PROVE  /\ job'.no = FirstLine.no /\ job'.by = scan
           /\ UNCHANGED active_children
<1>1. /\ TakeLine /\ Sender = scan /\ scan # 0 /\ pc = "scan"
  BY HandleForms, SenderFound DEF TakeLine, ReadPipe, IInv, TypeOK
<1>2. CASE HandleAdd \/ HandleUnknown \/ HandleNothing \/ HandleJoin
           \/ HandleLeave \/ HandleRm \/ HandleName
  BY <1>1, <1>2 DEF HandleAdd, HandleUnknown, HandleNothing, HandleJoin,
     HandleLeave, HandleRm, HandleName, Updates
<1>3. CASE HandleQuery
  <2>1. Starts([kind |-> Cmd, by |-> Sender, to |-> NoName,
                no |-> FirstLine.no, k |-> 1])
    BY <1>1, <1>3 DEF HandleQuery
  <2> QED
    BY <1>1, <2>1 DEF Starts
<1>4. CASE HandleWhisper
  <2>1. PICK w \in Word :
            Starts([kind |-> "whisper", by |-> Sender, no |-> FirstLine.no,
                    to |-> [kind |-> "text", arg |-> w], k |-> 1])
    <3>1. Arg \in Word
      BY <1>1, SenderFound DEF TakeLine, ReadPipe
    <3> QED
      BY <1>1, <1>4, <3>1 DEF HandleWhisper
  <2> QED
    BY <1>1, <2>1 DEF Starts
<1>5. CASE HandleBroadcast
  BY <1>5 DEF HandleBroadcast, Starts
<1> QED
  BY <1>2, <1>3, <1>4, <1>5 DEF Handle

\* Whatever is left behind the line in the pipe, or held, comes later.
LEMMA LineOrdered ==
    ASSUME IInv, IInv', OInv, TakeLine, pc' \in {"scan", "deliver"},
           pc' # "scan" => /\ job'.no = FirstLine.no /\ job'.by = scan
                           /\ UNCHANGED active_children
    PROVE  OInv'
<1>1. /\ TakeLine /\ EntryPid \in Pid /\ pc = "scan"
      /\ UNCHANGED <<cpc, held, lines, toChild>>
      /\ pc' \in {"scan", "deliver"} /\ lines \in Nat
      /\ toParent \in [Pid -> Seq(Message)] /\ toChild \in [Pid -> Seq(Payload)]
      /\ toParent[EntryPid] # <<>>
      /\ toParent' = [toParent EXCEPT ![EntryPid] = AfterRead(toParent[EntryPid])]
  BY SenderFound DEF TakeLine, ReadPipe, noProcessStep, unchangedByParent, IInv, TypeOK
<1>2. \A p \in Pid : /\ Rest(toParent[p], toParent'[p])
                     /\ Rest(toChild[p], toChild'[p])
  BY <1>1, RestFacts
<1>3. CASE pc' = "scan"
  BY <1>1, <1>2, <1>3, OrderFrame DEF Looping
<1>4. CASE pc' # "scan"
  <2> DEFINE f == EntryPid
  <2>1. /\ pc' = "deliver" /\ job'.no = FirstLine.no /\ job'.by = scan
        /\ UNCHANGED active_children
    BY <1>1, <1>4
  <2>2. Worker' = f /\ Looping'
    BY <2>1 DEF Worker, EntryPid, Looping
  <2>3. /\ 1 \in 1..Len(toParent[f]) /\ FirstLine = toParent[f][1]
        /\ Len(toParent[f]) \in Nat
    BY <1>1, HeadTailProperties, EmptySeq, LenProperties DEF FirstLine
  <2>4. Later(f, FirstLine.no)
    BY <1>1, <2>3 DEF OInv, PipeOrdered, TakeLine, Parsed
  <2>5. PICK d \in Nat \ {0} : \A k \in 1..Len(toParent'[f]) :
            k + d \in 1..Len(toParent[f]) /\ toParent'[f][k] = toParent[f][k + d]
    <3>1. toParent'[f] = AfterRead(toParent[f]) /\ toParent[f] \in Seq(Message)
      BY <1>1
    <3> HIDE DEF f
    <3> QED
      BY <1>1, <3>1, RestFacts DEF f
  <2>6. \A k \in 1..Len(toParent'[f]) :
            toParent'[f][k].part = 1 => FirstLine.no < toParent'[f][k].no
    <3> SUFFICES ASSUME NEW k \in 1..Len(toParent'[f]), toParent'[f][k].part = 1
                 PROVE  FirstLine.no < toParent'[f][k].no
      OBVIOUS
    <3>1. k + d \in 1..Len(toParent[f]) /\ 1 < k + d
      BY <2>3, <2>5
    <3>2. Behind(toParent[f][1], toParent[f][k + d])
      BY <1>1, <2>3, <3>1 DEF OInv, PipeOrdered
    <3> QED
      BY <2>3, <2>5, <3>2 DEF Behind
  <2>7. ASSUME NEW p \in Pid, NEW n, Later(p, n), p = f => FirstLine.no < n
        PROVE  Later(p, n)'
    BY <1>1, <2>1, <2>2, <2>7 DEF Later, Said
  <2>8. PipeOrdered'
    <3> SUFFICES ASSUME NEW p \in Pid, NEW k \in 1..Len(toParent'[p])
                 PROVE  /\ toParent'[p][k].no <= lines'
                        /\ toParent'[p][k].part = 1 => Later(p, toParent[p][k].no)'
                        /\ \A j \in 1..Len(toParent'[p]) :
                               j < k => Behind(toParent'[p][j], toParent'[p][k])
      BY DEF PipeOrdered, Behind
    <3>1. PICK e \in Nat : \A i \in 1..Len(toParent'[p]) :
              i + e \in 1..Len(toParent[p]) /\ toParent'[p][i] = toParent[p][i + e]
      BY <1>2 DEF Rest
    <3>2. PICK n : n = toParent'[p][k].no
      OBVIOUS
    <3>3. n <= lines /\ (toParent'[p][k].part = 1 => Later(p, n))
      BY <3>1, <3>2 DEF OInv, PipeOrdered
    <3>4. toParent'[p][k].part = 1 => Later(p, n)'
      BY <2>6, <2>7, <3>2, <3>3
    <3>5. toParent'[p][k].part = 1 => Later(p, toParent[p][k].no)'
      BY <3>2, <3>4
    <3>6. \A j \in 1..Len(toParent'[p]) : j < k => j + e < k + e
      OBVIOUS
    <3> QED
      BY <1>1, <3>1, <3>2, <3>3, <3>5, <3>6 DEF OInv, PipeOrdered
  <2>9. HeldIsLast'
    <3> SUFFICES ASSUME NEW p \in Pid, cpc'[p] \in {"kill", "write"}
                 PROVE  /\ Later(p, held[p].no)'
                        /\ \A k \in 1..Len(toParent'[p]) :
                               toParent'[p][k].no < held'[p].no
      BY DEF HeldIsLast
    <3>1. /\ Later(p, held[p].no) /\ held'[p] = held[p]
          /\ \A k \in 1..Len(toParent[p]) : toParent[p][k].no < held[p].no
      BY <1>1 DEF OInv, HeldIsLast
    <3>2. PICK n : n = held[p].no
      OBVIOUS
    <3>3. p = f => FirstLine.no < n
      BY <2>3, <3>1, <3>2
    <3>4. Later(p, n)'
      BY <2>7, <3>1, <3>2, <3>3
    <3>5. Later(p, held[p].no)'
      BY <3>1, <3>2, <3>4
    <3>6. \A k \in 1..Len(toParent'[p]) :
              \E i \in 1..Len(toParent[p]) : toParent'[p][k] = toParent[p][i]
      BY <1>2 DEF Rest
    <3> QED
      BY <3>1, <3>5, <3>6
  <2>10. PassedOn'
    BY <1>1, <2>1, <2>4 DEF OInv, PassedOn, Later
  <2>11. RoundsBehind'
    <3>1. Said(f, FirstLine.no)
      BY <2>4 DEF Later
    <3> QED
      BY <1>1, <2>1, <2>2, <3>1 DEF Said, RoundsBehind
  <2>12. InOrder'
    <3>1. InOrder /\ toChild' = toChild
      BY <1>1 DEF OInv
    <3> QED
      BY <3>1 DEF InOrder
  <2> QED
    BY <2>8, <2>9, <2>10, <2>11, <2>12 DEF OInv
<1> QED
  BY <1>3, <1>4

LEMMA TakenOrdered ==
    ASSUME IInv, IInv', OInv, Handle
    PROVE  OInv'
BY LineOrdered, LoopForLine, HandleForms, HandleNames

-----------------------------------------------------------------------------
\* The next round has a larger index.
LEMMA RoundsGoUp ==
    ASSUME IInv, Looping, job.k <= JobEnd, NextRound
    PROVE  /\ job.k < job'.k /\ job'.by = job.by /\ job'.no = job.no
           /\ job'.kind = job.kind
<1>1. job \in Job /\ job.k \in Nat /\ JobEnd \in Nat
  BY LenProperties DEF IInv, TypeOK, Job, JobEnd
<1>2. PICK n \in Nat : job' = [job EXCEPT !.k = n] /\ job.k < n
  BY <1>1 DEF NextRound
<1> QED
  BY <1>1, <1>2, RoundFacts

\* The rounds before this one, and not this one, may have written.
RoundUnwritten ==
    \A q \in Pid : \A j \in 1..Len(toChild[q]) :
        toChild[q][j].from = Worker =>
            \/ toChild[q][j].no < job.no
            \/ /\ toChild[q][j].no = job.no
               /\ \/ job.kind \in {"list", "users"}
                  \/ \E i \in 1..Len(active_children) :
                         active_children[i].pid = q /\ i < job.k

\* The write of this round, before its signal or after it.
RoundWrites ==
    /\ UNCHANGED <<lines, active_children, toParent, held, cpc>>
    /\ \E n \in Nat \ {0} :
           toChild' = [toChild EXCEPT ![Target] =
                           toChild[Target] \o Pieces(Answer, n)]
    /\ job'.no = job.no /\ job'.by = job.by /\ job'.kind = job.kind
    /\ job.k < job'.k \/ (job'.k = job.k /\ pc' = "signal")

\* A text goes behind all of the same client, by one round only for each
\* child.
LEMMA AppendOrdered ==
    ASSUME IInv, IInv', OInv, Looping, Looping', job.k <= JobEnd, RoundUnwritten,
           RoundWrites
    PROVE  OInv'
<1> DEFINE T == Target
           L == Len(toChild[Target])
<1>0. PICK new \in Nat \ {0} :
          toChild' = [toChild EXCEPT ![T] = toChild[T] \o Pieces(Answer, new)]
  BY DEF RoundWrites
<1>1. /\ UNCHANGED <<lines, active_children, toParent, held, cpc>>
      /\ job.k <= JobEnd
      /\ toChild \in [Pid -> Seq(Payload)] /\ job \in Job /\ lines \in Nat
      /\ job'.no = job.no /\ job'.by = job.by /\ job'.kind = job.kind
      /\ job'.k \in Nat /\ job.k \in Nat
      /\ job.k < job'.k \/ (job'.k = job.k /\ pc' = "signal")
  BY DEF IInv, TypeOK, Job, RoundWrites
<1>2. T \in Pid /\ active_children[job.by].pid \in Pid
  BY <1>1, TargetFacts DEF Looping
<1>3. /\ toChild[T] \in Seq(Payload)
      /\ \A k \in 1..new :
             /\ [Answer EXCEPT !.part = k] \in Payload
             /\ [Answer EXCEPT !.part = k] =
                    [kind |-> job.kind, no |-> job.no, part |-> k, from |-> Worker]
  BY <1>2, AnswerFacts DEF Worker
<1>15. \A k \in 1..new : [Answer EXCEPT !.part = k] \in Payload
  BY <1>3
<1> DEFINE s == toChild[T]
<1>16. toChild'[T] = s \o Pieces(Answer, new)
  BY <1>0, <1>1, <1>2
<1>17. s \in Seq(Payload) /\ L = Len(s) /\ new \in Nat
  BY <1>3
<1> HIDE DEF T, L, s
<1>18. /\ Len(s) \in Nat /\ Len(s \o Pieces(Answer, new)) = Len(s) + new
       /\ \A k \in 1..Len(s) : (s \o Pieces(Answer, new))[k] = s[k]
       /\ \A k \in 1..new :
              (s \o Pieces(Answer, new))[Len(s) + k] = [Answer EXCEPT !.part = k]
  BY <1>15, <1>17, WrittenFacts
<1>4. /\ L \in Nat /\ Len(toChild'[T]) = L + new
      /\ \A k \in 1..L : toChild'[T][k] = toChild[T][k]
      /\ \A k \in 1..new : toChild'[T][L + k] =
             [kind |-> job.kind, no |-> job.no, part |-> k, from |-> Worker]
      /\ \A q \in Pid : q # T => toChild'[q] = toChild[q]
  <2>1. \A q \in Pid : q # T => toChild'[q] = toChild[q]
    BY <1>0, <1>1
  <2> QED
    BY <1>3, <1>16, <1>17, <1>18, <2>1 DEF s
\* A piece of the new text.
<1> DEFINE fresh(q, j) ==
        /\ q = T /\ j - L \in 1..new
        /\ toChild'[q][j].kind = job.kind /\ toChild'[q][j].no = job.no
        /\ toChild'[q][j].from = Worker /\ toChild'[q][j].part = j - L
<1>5. \A q \in Pid : \A j \in 1..Len(toChild'[q]) :
          \/ j \in 1..Len(toChild[q]) /\ toChild'[q][j] = toChild[q][j]
          \/ fresh(q, j)
  <2> TAKE q \in Pid
  <2> TAKE j \in 1..Len(toChild'[q])
  <2>1. CASE q # T
    BY <1>4, <2>1
  <2>2. CASE q = T /\ j \in 1..L
    BY <1>4, <2>2 DEF L, T
  <2>3. CASE q = T /\ j \notin 1..L
    <3> DEFINE i == j - L
    <3>1. i \in 1..new /\ j = L + i
      BY <1>4, <2>3
    <3> HIDE DEF i
    <3>2. toChild'[T][j] = [kind |-> job.kind, no |-> job.no, part |-> i,
                            from |-> Worker]
      BY <1>4, <3>1
    <3>3. /\ toChild'[T][j].kind = job.kind /\ toChild'[T][j].no = job.no
          /\ toChild'[T][j].from = Worker /\ toChild'[T][j].part = i
      BY <3>2
    <3> QED
      BY <2>3, <3>1, <3>3 DEF i
  <2> QED
    BY <2>1, <2>2, <2>3
<1>6. Looping /\ Looping' /\ Worker' = Worker
  BY <1>1 DEF Worker
<1>7. ASSUME NEW p \in Pid, NEW w, Later(p, w)
      PROVE  Later(p, w)'
  <2>1. Said(p, w)'
    BY <1>5, <1>6, <1>7 DEF Later, Said
  <2> QED
    BY <1>1, <1>6, <1>7, <2>1 DEF Later
<1>8. PipeOrdered'
  <2> SUFFICES ASSUME NEW p \in Pid, NEW k \in 1..Len(toParent[p])
               PROVE  /\ toParent[p][k].no <= lines
                      /\ toParent[p][k].part = 1 => Later(p, toParent[p][k].no)'
                      /\ \A j \in 1..Len(toParent[p]) :
                             j < k => Behind(toParent[p][j], toParent[p][k])
    BY <1>1 DEF PipeOrdered, Behind
  <2>1. PICK w : w = toParent[p][k].no
    OBVIOUS
  <2>2. toParent[p][k].part = 1 => Later(p, w)'
    BY <1>7, <2>1 DEF OInv, PipeOrdered
  <2>3. toParent[p][k].part = 1 => Later(p, toParent[p][k].no)'
    BY <1>1, <2>1, <2>2
  <2> QED
    BY <2>3 DEF OInv, PipeOrdered
<1>9. HeldIsLast'
  <2> SUFFICES ASSUME NEW p \in Pid, cpc[p] \in {"kill", "write"}
               PROVE  /\ Later(p, held[p].no)'
                      /\ \A k \in 1..Len(toParent[p]) :
                             toParent[p][k].no < held[p].no
    BY <1>1 DEF HeldIsLast
  <2>1. PICK n : n = held[p].no
    OBVIOUS
  <2>2. Later(p, n)'
    BY <1>7, <2>1 DEF OInv, HeldIsLast
  <2> QED
    BY <1>1, <2>1, <2>2 DEF OInv, HeldIsLast
<1>10. PassedOn'
  BY <1>1, <1>5, <1>6 DEF OInv, PassedOn
<1>11. /\ job.kind \notin {"list", "users"} =>
              /\ job.k \in 1..Len(active_children)
              /\ active_children[job.k].pid = T
       /\ \A i, j \in 1..Len(active_children) :
              active_children[i].pid = active_children[j].pid => i = j
       /\ job.k \in Nat
  <2>1. job.k \in Nat /\ job.k # 0 /\ Len(active_children) \in Nat
    BY <1>1, LenProperties DEF IInv, JobInv, Job, TypeOK, Looping
  <2>2. job.kind # "list" => JobEnd = Len(active_children)
    BY DEF JobEnd
  <2>3. \A i, j \in 1..Len(active_children) :
            active_children[i].pid = active_children[j].pid => i = j
    BY <1>1 DEF IInv, RegistryExact, Looping
  <2>4. ASSUME job.kind \notin {"list", "users"}
        PROVE  /\ job.k \in 1..Len(active_children)
               /\ active_children[job.k].pid = T
    <3>1. job.k <= Len(active_children)
      BY <1>1, <2>2, <2>4
    <3>2. job.k \in 1..Len(active_children)
      BY <2>1, <3>1
    <3> QED
      BY <2>4, <3>2 DEF Target, T
  <2> QED
    BY <2>1, <2>3, <2>4
<1>12. ASSUME NEW q \in Pid, NEW j \in 1..Len(toChild[q]),
              toChild[q][j].from = Worker
       PROVE  \/ toChild[q][j].no < job.no
              \/ /\ toChild[q][j].no = job.no
                 /\ \/ job.kind \in {"list", "users"}
                    \/ \E i \in 1..Len(active_children) :
                           active_children[i].pid = q /\ i < job.k
  BY <1>12 DEF RoundUnwritten
<1>13. RoundsBehind'
  <2> SUFFICES ASSUME NEW q \in Pid, NEW j \in 1..Len(toChild'[q]),
                      toChild'[q][j].from = Worker
               PROVE  \/ toChild'[q][j].no < job.no
                      \/ /\ toChild'[q][j].no = job.no
                         /\ \/ job.kind \in {"list", "users"}
                            \/ \E i \in 1..Len(active_children) :
                                   /\ active_children[i].pid = q
                                   /\ i < job.k \/ i = job.k
    <3>1. ASSUME NEW i \in 1..Len(active_children), i < job.k \/ i = job.k
          PROVE  i < job'.k \/ (i = job'.k /\ pc' = "signal")
      BY <1>1, <3>1
    <3>2. /\ job'.no = job.no /\ job'.kind = job.kind /\ Worker' = Worker
          /\ active_children' = active_children
      BY <1>1, <1>6
    <3> QED
      BY <3>1, <3>2 DEF RoundsBehind
  <2>1. CASE j \in 1..Len(toChild[q]) /\ toChild'[q][j] = toChild[q][j]
    BY <1>12, <2>1
  <2>2. CASE fresh(q, j)
    BY <1>11, <2>2
  <2> QED
    BY <1>5, <2>1, <2>2
<1>14. InOrder'
  <2> SUFFICES ASSUME NEW q \in Pid, NEW j \in 1..Len(toChild'[q]),
                      NEW k \in 1..Len(toChild'[q]), j < k,
                      toChild'[q][j].from = toChild'[q][k].from
               PROVE  \/ toChild'[q][j].no < toChild'[q][k].no
                      \/ /\ toChild'[q][j].no = toChild'[q][k].no
                         /\ \/ toChild'[q][k].kind \in {"list", "users"}
                            \/ toChild'[q][j].part < toChild'[q][k].part
    BY DEF InOrder
  <2>1. CASE /\ j \in 1..Len(toChild[q]) /\ toChild'[q][j] = toChild[q][j]
             /\ k \in 1..Len(toChild[q]) /\ toChild'[q][k] = toChild[q][k]
    <3>1. InOrder
      BY DEF OInv
    <3> QED
      BY <2>1, <3>1 DEF InOrder
  <2>2. CASE /\ j \in 1..Len(toChild[q]) /\ toChild'[q][j] = toChild[q][j]
             /\ fresh(q, k)
    <3>1. toChild[q][j].from = Worker
      BY <2>2
    <3>2. ASSUME NEW i \in 1..Len(active_children),
                 active_children[i].pid = q, i < job.k
          PROVE  job.kind \in {"list", "users"}
      BY <1>11, <2>2, <3>2
    <3> QED
      BY <1>12, <2>2, <3>1, <3>2
  <2>3. CASE fresh(q, j) /\ fresh(q, k)
    <3>1. j - L < k - L
      BY <1>4, <2>3
    <3> QED
      BY <2>3, <3>1
  <2>4. CASE fresh(q, j) /\ k \in 1..Len(toChild[q])
    <3>1. q = T /\ j - L \in 1..new /\ k \in 1..L
      BY <2>4 DEF L, T
    <3> QED
      BY <1>4, <3>1
  <2> QED
    BY <1>5, <2>1, <2>2, <2>3, <2>4
<1> QED
  BY <1>8, <1>9, <1>10, <1>13, <1>14 DEF OInv

LEMMA DeliveredOrdered ==
    ASSUME IInv, IInv', OInv, DeliverWrite, toChild' # toChild
    PROVE  OInv'
<1>3. PICK n \in Nat :
          /\ toChild' = [toChild EXCEPT ![Target] =
                             toChild[Target] \o Pieces(Answer, n)]
          /\ n = 0 => UNCHANGED toChild
          /\ n > 0 => pc' = "signal" /\ UNCHANGED job
  BY DeliverWriteFacts
<1>1. /\ UNCHANGED <<lines, job, active_children, toParent, held, cpc>>
      /\ pc = "deliver" /\ pc' = "signal" /\ job.k <= JobEnd /\ n # 0
  BY <1>3 DEF DeliverWrite
<1>2. Looping /\ Looping' /\ RoundUnwritten
  BY <1>1 DEF Looping, OInv, RoundsBehind, RoundUnwritten
<1>4. job.k \in Nat
  BY DEF IInv, TypeOK, Job
<1>5. RoundWrites
  BY <1>1, <1>3, <1>4 DEF RoundWrites
<1> QED
  BY <1>1, <1>2, <1>5, AppendOrdered

-----------------------------------------------------------------------------
\* The other steps type nothing, write no line and begin no loop.
LEMMA OtherOrdered ==
    ASSUME IInv, IInv', OInv, [Next]_vars, ~Handle,
           toChild' = toChild \/ ~DeliverWrite,
           \A p \in Pid : ~ChildWrite(p) /\ \A c \in Inputs : ~ChildReadLine(p, c)
    PROVE  OInv'
<1>1. /\ lines \in Nat /\ cpc \in [Pid -> ChildPc] /\ held \in [Pid -> Line]
      /\ toParent \in [Pid -> Seq(Message)] /\ toChild \in [Pid -> Seq(Payload)]
      /\ job \in Job /\ job.k \in Nat
  BY DEF IInv, TypeOK, Job
<1>2. \A p \in Pid :
          /\ Rest(toParent[p], toParent[p]) /\ Rest(toParent[p], <<>>)
          /\ Rest(toChild[p], toChild[p]) /\ Rest(toChild[p], <<>>)
          /\ Rest(toChild[p], AfterRead(toChild[p]))
          /\ Rest(toParent[p], AfterRead(toParent[p]))
  BY <1>1, RestFacts
<1>3. ASSUME NEW p \in Pid, Child(p)
      PROVE  OInv'
  <2>1. UNCHANGED <<lines, toParent, job, active_children>>
    BY <1>3 DEF Child, ChildSetup, ChildClearFlag, ChildNoFlag,
       ChildRelay, ChildReadNothing, ChildIdle, ChildReadEof,
       ChildSignalParent, ChildBrokenPipe, ChildExit,
       ChildTerminated, unchangedByChild, parentVars
  <2>2. pc' = pc \/ pc' = "down"
    BY <1>3 DEF Child, ChildSetup, ChildClearFlag, ChildNoFlag,
       ChildRelay, ChildReadNothing, ChildIdle, ChildReadEof,
       ChildSignalParent, ChildBrokenPipe, ChildExit,
       ChildTerminated, unchangedByChild, parentVars
  <2>3. \A q \in Pid : toChild'[q] \in {toChild[q], <<>>, AfterRead(toChild[q])}
    BY <1>1, <1>3 DEF Child, ChildSetup, ChildClearFlag, ChildNoFlag,
       ChildRelay, ChildReadNothing, ChildIdle, ChildReadEof,
       ChildSignalParent, ChildBrokenPipe, ChildExit,
       ChildTerminated, Die
  <2>4. \A q \in Pid : cpc'[q] \in {"kill", "write"} =>
            cpc[q] \in {"kill", "write"} /\ held'[q] = held[q]
    BY <1>1, <1>3 DEF Child, ChildSetup, ChildClearFlag, ChildNoFlag,
       ChildRelay, ChildReadNothing, ChildIdle, ChildReadEof,
       ChildSignalParent, ChildBrokenPipe, ChildExit,
       ChildTerminated, Die
  <2>5. \A q \in Pid : Rest(toParent[q], toParent'[q]) /\ Rest(toChild[q], toChild'[q])
    BY <1>2, <2>1, <2>3
  <2>6. Looping' => Looping /\ pc' = pc
    BY <2>2 DEF Looping
  <2> QED
    BY <1>1, <2>1, <2>4, <2>5, <2>6, OrderFrame
<1>4. ASSUME UNCHANGED <<lines, toChild>>,
             \A q \in Pid : toParent'[q] \in {toParent[q], <<>>},
             \A q \in Pid : cpc'[q] \in {"kill", "write"} =>
                 cpc[q] \in {"kill", "write"} /\ held'[q] = held[q],
             Looping' =>
               /\ Looping /\ UNCHANGED active_children
               /\ job'.by = job.by /\ job'.no = job.no /\ job'.kind = job.kind
               /\ job.k <= job'.k
               /\ pc = "signal" /\ pc' # "signal" => job.k < job'.k
      PROVE  OInv'
  <2>1. \A q \in Pid : Rest(toParent[q], toParent'[q]) /\ Rest(toChild[q], toChild'[q])
    BY <1>2, <1>4
  <2> QED
    BY <1>1, <1>4, <2>1, OrderFrame
<1>5. CASE \/ TopOfLoop \/ ReapDone \/ ClearExited \/ AcceptIdle \/ AcceptScan
           \/ AcceptError \/ AcceptRefuse \/ ScanDone \/ ScanEmpty
           \/ DeliverDone \/ TermChild \/ TermDone \/ WaitDone \/ AddChild
  <2>1. UNCHANGED <<lines, toChild, toParent, cpc, held>>
    BY <1>5 DEF TopOfLoop, ReapDone, ClearExited, AcceptIdle, AcceptScan,
       AcceptError, AcceptRefuse, ScanDone, ScanEmpty, DeliverDone,
       TermChild, TermDone, WaitDone, AddChild, noProcessStep, unchangedByParent
  <2>2. ~Looping'
    BY <1>5 DEF TopOfLoop, ReapDone, ClearExited, AcceptIdle, AcceptScan,
       AcceptError, AcceptRefuse, ScanDone, ScanEmpty, DeliverDone,
       TermChild, TermDone, WaitDone, AddChild, Looping
  <2> QED
    BY <1>4, <2>1, <2>2
<1>6. CASE DeliverBroken \/ \E p \in Pid : Reap(p) \/ WaitChild(p)
  <2>1. /\ UNCHANGED <<lines, toChild, held>> /\ ~Looping'
    BY <1>6 DEF DeliverBroken, Dies, Reap, WaitChild, unchangedByParent, Looping
  <2>2. \A q \in Pid : toParent'[q] \in {toParent[q], <<>>}
    BY <1>1, <1>6 DEF DeliverBroken, Dies, Reap, WaitChild
  <2>3. \A q \in Pid : cpc'[q] \in {"kill", "write"} => cpc[q] \in {"kill", "write"}
    BY <1>1, <1>6 DEF DeliverBroken, Dies, Reap, WaitChild
  <2> QED
    BY <1>4, <2>1, <2>2, <2>3
<1>7. ASSUME NEW p \in Pid, AcceptFork(p)
      PROVE  OInv'
  <2>1. /\ UNCHANGED <<lines, held>> /\ ~Looping'
        /\ \A q \in Pid : toParent'[q] \in {toParent[q], <<>>}
        /\ \A q \in Pid : toChild'[q] \in {toChild[q], <<>>}
        /\ \A q \in Pid : cpc'[q] \in {"kill", "write"} => cpc'[q] = cpc[q]
    BY <1>1, <1>7 DEF AcceptFork, Looping
  <2>2. \A q \in Pid : Rest(toParent[q], toParent'[q]) /\ Rest(toChild[q], toChild'[q])
    BY <1>2, <2>1
  <2> QED
    BY <1>1, <2>1, <2>2, OrderFrame
<1>8. CASE SkipRound
  <2>1. job' = [job EXCEPT !.k = job.k + 1]
    BY <1>8 DEF SkipRound
  <2>2. /\ job'.k = job.k + 1 /\ job'.by = job.by /\ job'.no = job.no
        /\ job'.kind = job.kind
    BY <1>1, <2>1, RoundFacts
  <2>3. /\ UNCHANGED <<lines, toChild, toParent, cpc, held, active_children>>
        /\ pc = "deliver" /\ pc' = pc
    BY <1>8 DEF SkipRound, noProcessStep, unchangedByParent
  <2> QED
    BY <1>1, <1>4, <2>2, <2>3 DEF Looping
<1>9. CASE DeliverWrite \/ DeliverSignal
  <2>1. /\ UNCHANGED <<lines, toChild, toParent, cpc, held, active_children>>
        /\ Looping /\ (DeliverSignal => pc' = "deliver")
        /\ (DeliverWrite => pc = "deliver")
    BY <1>9 DEF DeliverWrite, DeliverSignal, Looping
  <2>2. NextRound \/ (DeliverWrite /\ UNCHANGED job)
    BY <1>9, DeliverWriteFacts DEF DeliverSignal
  <2>3. job.k <= JobEnd
    BY <1>9 DEF DeliverWrite, DeliverSignal, IInv, JobInv
  <2>4. CASE NextRound
    <3>1. /\ job.k < job'.k /\ job'.by = job.by /\ job'.no = job.no
          /\ job'.kind = job.kind /\ job'.k \in Nat
      BY <2>1, <2>3, <2>4, RoundsGoUp DEF IInv, TypeOK, Job
    <3> QED
      BY <1>1, <1>4, <2>1, <3>1
  <2>5. CASE DeliverWrite /\ UNCHANGED job
    BY <1>1, <1>4, <2>1, <2>5
  <2> QED
    BY <2>2, <2>4, <2>5
<1>10. CASE UNCHANGED vars
  BY <1>1, <1>4, <1>10
     DEF vars, parentVars, childVars, pipeVars, Looping
<1>11. CASE Misread
  <2>1. /\ EntryPid \in Pid /\ UNCHANGED <<toChild, held>>
        /\ toParent' = [toParent EXCEPT ![EntryPid] =
                             AfterRead(toParent[EntryPid])]
        /\ \A q \in Pid : \/ cpc'[q] = cpc[q]
                          \/ cpc[q] = "zombie" /\ cpc'[q] = "none"
        /\ ~Looping'
    BY <1>11, MisreadForms DEF Looping
  <2>2. UNCHANGED lines
    BY <1>11 DEF Misread, HandleNull, HandleRest, Dies, noProcessStep,
       unchangedByParent
  <2>3. \A q \in Pid : Rest(toParent[q], toParent'[q]) /\ Rest(toChild[q], toChild'[q])
    BY <1>1, <1>2, <2>1
  <2>4. \A q \in Pid : cpc'[q] \in {"kill", "write"} =>
            cpc[q] \in {"kill", "write"} /\ held'[q] = held[q]
    BY <2>1
  <2> QED
    BY <1>1, <2>1, <2>2, <2>3, <2>4, OrderFrame
<1> QED
  BY <1>3, <1>5, <1>6, <1>7, <1>8, <1>9, <1>10, <1>11
     DEF Next, Parent, Handle, Misread

LEMMA OrderedNext == IInv /\ IInv' /\ OInv /\ [Next]_vars => OInv'
<1> SUFFICES ASSUME IInv, IInv', OInv, [Next]_vars PROVE OInv'
  OBVIOUS
<1>1. CASE \E p \in Pid : ChildWrite(p) \/ \E c \in Inputs : ChildReadLine(p, c)
  BY <1>1, TypedOrdered, WrittenOrdered
<1>2. CASE Handle
  BY <1>2, TakenOrdered
<1>3. CASE DeliverWrite /\ toChild' # toChild
  BY <1>3, DeliveredOrdered
<1> QED
  BY <1>1, <1>2, <1>3, OtherOrdered

LEMMA OrderedInit == Init => OInv
<1> SUFFICES ASSUME Init PROVE OInv
  OBVIOUS
<1>1. Len(<<>>) = 0
  BY EmptySeq
<1> QED
  BY <1>1 DEF Init, OInv, PipeOrdered, HeldIsLast, PassedOn, RoundsBehind,
     InOrder, Looping

\* A client gets the lines of another in the order in which they were typed,
\* and one that is broadcast or whispered at most once (server.c:113-129,
\* 325-361), with pids reused, lines dropped and pipes of any capacity.
THEOREM OrderCorrect == Spec => []InOrder
<1>1. OInv => InOrder
  BY DEF OInv
<1> QED
  BY <1>1, OrderedInit, OrderedNext, Inductive, PTL DEF Spec
=============================================================================
