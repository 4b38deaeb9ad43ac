---------------------------- MODULE MediaProofs ----------------------------
(***************************************************************************)
(* Invariance and refinement proofs for Media, for any number of cameras,  *)
(* microphones, socket numbers, frames and segments.                       *)
(***************************************************************************)
EXTENDS Media, SequenceTheorems, WellFoundedInduction, TLAPS

\* The server is busy with a message of client c, and this many segments of
\* that message are in its hands.
Busy  == {"size", "body", "show", "ack", "cleanup"}
At(c) == pc \in Busy /\ Here = c
Taken(c) == IF ~At(c) THEN 0
            ELSE IF pc = "size" THEN 1
            ELSE IF pc = "body" THEN part + 2
            ELSE IF pc = "show" THEN MessageLength
            ELSE 0
\* The segments of c's message that are sent and not yet shown or refused.
Pending(c) == Taken(c) + Len(up[c])

\* While the server is busy it looks at an open socket that was reported.
BusyInv == pc \in Busy => i \in Fd /\ i \in read_fds /\ peer[i] # NoClient

\* A connection waits to be accepted once, of a client that has connected,
\* and is then not accepted yet.
BacklogInv ==
    /\ \A j, k \in 1..Len(backlog) : backlog[j] = backlog[k] => j = k
    /\ \A k \in 1..Len(backlog) : cpc[backlog[k]] # "off"
    /\ \A k \in 1..Len(backlog), f \in Fd : peer[f] # backlog[k]
    /\ \A f \in Fd : peer[f] # NoClient => cpc[peer[f]] # "off"

\* Where client c, its message, its answer and the counters stand.
ClientInv(c) ==
    /\ Pending(c) <= MessageLength
    /\ Pending(c) > 0 => sent[c] = shown[c] + 1
    /\ down[c] # <<>> => /\ Pending(c) = 0 /\ Len(down[c]) = 1
                         /\ cpc[c] \in {"wait", "recv"}
                         /\ Head(down[c]) = 1 => shown[c] = sent[c]
                         /\ ~(At(c) /\ pc = "ack")
    /\ At(c) /\ pc = "ack" => /\ Len(up[c]) = 0
                              /\ cpc[c] \in {"wait", "recv", "closed"}
                              /\ final_ack = 1 => shown[c] = sent[c]
    /\ cpc[c] = "off" => /\ sent[c] = 0 /\ shown[c] = 0 /\ confirmed[c] = 0
                         /\ Pending(c) = 0
    /\ cpc[c] = "capture" => /\ shown[c] = sent[c] /\ confirmed[c] = sent[c]
                             /\ Pending(c) = 0
    /\ cpc[c] = "send" =>
        /\ sent[c] = shown[c] + 1 /\ sent[c] = confirmed[c] + 1
        /\ left[c] # 0 /\ Pending(c) + left[c] <= MessageLength
        /\ c \in dropped \/ (At(c) /\ pc = "cleanup")
              \/ Pending(c) + left[c] = MessageLength
    /\ cpc[c] \in {"wait", "recv"} => sent[c] = confirmed[c] + 1
    /\ c \in reset => /\ cpc[c] = "closed" /\ Pending(c) = 0
                      /\ ~(At(c) /\ pc = "ack")

\* The segments on their way are those in front of the ones left to send.
SegmentInv(c) ==
    up[c] # <<>> =>
        \/ At(c) /\ pc = "cleanup"
        \/ /\ Pending(c) + left[c] = MessageLength
           /\ \A k \in 1..Len(up[c]) :
                  up[c][k] = Segment(left[c] + Len(up[c]) - k + 1)

\* The inductive invariant.
IInv ==
    /\ TypeOK /\ SocketsWatched /\ ReportedIsReady
    /\ BusyInv /\ BacklogInv
    /\ \A c \in Client : ClientInv(c) /\ SegmentInv(c)

-----------------------------------------------------------------------------
\* Every set of natural numbers that is not empty has a least element.
LEMMA LeastNat ==
    ASSUME NEW S \in SUBSET Nat, S # {}
    PROVE  \E m \in S : \A x \in S : m <= x
<1> DEFINE R == {ss \in Nat \X Nat : ss[1] < ss[2]}
<1>1. IsWellFoundedOn(R, Nat)
  BY NatLessThanWellFounded DEF OpToRel
<1>2. PICK m \in S : \A y \in S : ~(<<y, m>> \in R)
  <2> HIDE DEF R
  <2> QED
    BY <1>1, WFMin, Zenon
<1>3. \A y \in S : ~(y < m)
  BY <1>2
<1> QED
  BY <1>3

\* The least of some natural numbers, and the largest where there is a bound.
LEMMA MinFacts ==
    ASSUME NEW S \in SUBSET Nat, S # {}
    PROVE  Min(S) \in S /\ \A x \in S : Min(S) <= x
<1>1. \E m \in S : \A x \in S : m <= x
  BY LeastNat
<1> QED
  BY <1>1, Zenon DEF Min

LEMMA MaxFacts ==
    ASSUME NEW n \in Nat, NEW S \in SUBSET (0..n), S # {}
    PROVE  Max(S) \in S /\ \A x \in S : Max(S) >= x
<1> DEFINE B == {b \in Nat : \A x \in S : b >= x}
<1>1. B \in SUBSET Nat /\ n \in B
  OBVIOUS
<1>2. PICK b \in B : \A x \in B : b <= x
  <2> HIDE DEF B
  <2> QED
    BY <1>1, LeastNat
<1>3. b \in Nat /\ \A x \in S : b >= x
  BY <1>2
<1>4. b \in S
  <2> SUFFICES ASSUME b \notin S
               PROVE  FALSE
    OBVIOUS
  <2>1. \A x \in S : x \in Nat /\ b - 1 >= x
    BY <1>3
  <2>2. PICK y \in S : TRUE
    OBVIOUS
  <2>3. b - 1 \in Nat
    BY <1>3, <2>1, <2>2
  <2>4. b - 1 \in B
    BY <2>1, <2>3
  <2> QED
    BY <1>2, <1>3, <2>4
<1>5. \E m \in S : \A x \in S : m >= x
  BY <1>3, <1>4
<1> QED
  BY <1>5, Zenon DEF Max

-----------------------------------------------------------------------------
\* Sequences: what Append and Tail do to lengths and elements.
LEMMA SeqFacts ==
    ASSUME NEW S, NEW s \in Seq(S)
    PROVE  /\ Len(s) \in Nat /\ (s = <<>> <=> Len(s) = 0)
           /\ \A k \in 1..Len(s) : s[k] \in S
           /\ \A e \in S : /\ Append(s, e) \in Seq(S)
                            /\ Append(s, e) # <<>>
                            /\ Len(Append(s, e)) = Len(s) + 1
                            /\ \A k \in 1..Len(s) : Append(s, e)[k] = s[k]
                            /\ Append(s, e)[Len(s) + 1] = e
           /\ s # <<>> => /\ Tail(s) \in Seq(S) /\ Head(s) = s[1]
                          /\ Head(s) \in S
                          /\ Len(Tail(s)) = Len(s) - 1
                          /\ \A k \in 1..Len(Tail(s)) : Tail(s)[k] = s[k + 1]
<1>1. Len(s) \in Nat /\ (s = <<>> <=> Len(s) = 0)
  BY LenProperties, EmptySeq
<1>2. \A k \in 1..Len(s) : s[k] \in S
  BY ElementOfSeq
<1>3. \A e \in S : /\ Append(s, e) \in Seq(S)
                   /\ Append(s, e) # <<>>
                   /\ Len(Append(s, e)) = Len(s) + 1
                   /\ \A k \in 1..Len(s) : Append(s, e)[k] = s[k]
                   /\ Append(s, e)[Len(s) + 1] = e
  BY AppendProperties
<1>4. s # <<>> => /\ Tail(s) \in Seq(S) /\ Head(s) = s[1]
                  /\ Head(s) \in S
                  /\ Len(Tail(s)) = Len(s) - 1
                  /\ \A k \in 1..Len(Tail(s)) : Tail(s)[k] = s[k + 1]
  BY <1>1, <1>2, HeadTailProperties
<1> QED
  BY <1>1, <1>2, <1>3, <1>4

-----------------------------------------------------------------------------
\* What IInv says of the numbers it relates.
LEMMA Numbers ==
    ASSUME TypeOK, NEW c \in Client
    PROVE  /\ BodyParts \in Nat \ {0} /\ MessageLength \in Nat
           /\ MessageLength = BodyParts + 2
           /\ up[c] \in Seq({"type", "size", "body"}) /\ down[c] \in Seq({0, 1})
           /\ Len(up[c]) \in Nat /\ (up[c] = <<>> <=> Len(up[c]) = 0)
           /\ Len(down[c]) \in Nat /\ (down[c] = <<>> <=> Len(down[c]) = 0)
           /\ left[c] \in Nat /\ left[c] <= MessageLength
           /\ sent[c] \in Nat /\ confirmed[c] \in Nat /\ shown[c] \in Nat
           /\ part \in Nat /\ Taken(c) \in Nat /\ Pending(c) \in Nat
<1>1. /\ BodyParts \in Nat \ {0} /\ MessageLength \in Nat
      /\ MessageLength = BodyParts + 2
  BY MediaAssumption DEF MessageLength
<1>2. up[c] \in Seq({"type", "size", "body"}) /\ down[c] \in Seq({0, 1})
  BY DEF TypeOK
<1>3. /\ Len(up[c]) \in Nat /\ (up[c] = <<>> <=> Len(up[c]) = 0)
      /\ Len(down[c]) \in Nat /\ (down[c] = <<>> <=> Len(down[c]) = 0)
  BY <1>2, SeqFacts
<1>4. /\ left[c] \in Nat /\ left[c] <= MessageLength
      /\ sent[c] \in Nat /\ confirmed[c] \in Nat /\ shown[c] \in Nat
      /\ part \in Nat
  BY <1>1 DEF TypeOK
<1>5. Taken(c) \in Nat
  BY <1>1, <1>4 DEF Taken
<1>6. Pending(c) \in Nat
  BY <1>3, <1>5 DEF Pending
<1> QED
  BY <1>1, <1>2, <1>3, <1>4, <1>5, <1>6

\* A client none of whose own things a step touches stands where it stood.
LEMMA Unmoved ==
    ASSUME IInv, NEW c \in Client,
           up'[c] = up[c], down'[c] = down[c], cpc'[c] = cpc[c],
           left'[c] = left[c], sent'[c] = sent[c],
           confirmed'[c] = confirmed[c], shown'[c] = shown[c],
           Taken(c)' = Taken(c),
           (At(c) /\ pc = "ack")' => At(c) /\ pc = "ack" /\ final_ack' = final_ack,
           At(c) /\ pc = "cleanup" => (At(c) /\ pc = "cleanup")',
           c \in dropped => c \in dropped',
           c \in reset' => c \in reset
    PROVE  ClientInv(c)' /\ SegmentInv(c)'
<1>1. ClientInv(c) /\ SegmentInv(c)
  BY DEF IInv
<1>2. Pending(c)' = Pending(c)
  BY DEF Pending
<1>3. ClientInv(c)'
  BY <1>1, <1>2 DEF ClientInv
<1>4. SegmentInv(c)'
  BY <1>1, <1>2 DEF SegmentInv, Segment, MessageLength
<1> QED
  BY <1>3, <1>4

-----------------------------------------------------------------------------
\* The steps of a client.

\* They leave the server alone and make no socket less ready than it was.
LEMMA ClientStepFrame ==
    ASSUME IInv, UNCHANGED <<serverVars, peer>>,
           backlog # <<>> => backlog' # <<>>,
           \A d \in Client : /\ up[d] # <<>> => up'[d] # <<>>
                             /\ cpc[d] = "closed" => cpc'[d] = "closed"
    PROVE  SocketsWatched' /\ ReportedIsReady' /\ BusyInv'
<1>1. SocketsWatched' /\ BusyInv'
  BY DEF IInv, SocketsWatched, BusyInv, serverVars, Busy
<1>2. ReportedIsReady'
  <2> SUFFICES ASSUME pc' \notin {"select", "down"}, NEW f \in read_fds',
                      f > i' \/ (f = i' /\ pc' = "scan")
               PROVE  f \in master_set' /\ Ready(f)'
    BY DEF ReportedIsReady
  <2>1. f \in master_set /\ f \in master_set' /\ Ready(f)
    BY DEF IInv, ReportedIsReady, serverVars
  <2>2. CASE f = Listener
    BY <2>1, <2>2 DEF Ready
  <2>3. CASE f # Listener
    <3>1. f \in Fd /\ peer[f] \in Client /\ peer'[f] = peer[f]
      BY <2>1, <2>3 DEF IInv, ReportedIsReady, SocketsWatched, TypeOK, serverVars
    <3> QED
      BY <2>1, <2>3, <3>1 DEF Ready
  <2> QED
    BY <2>1, <2>2, <2>3
<1> QED
  BY <1>1, <1>2

\* The other clients do not notice.
LEMMA OtherClients ==
    ASSUME IInv, NEW c \in Client, UNCHANGED <<serverVars, peer, dropped, shown>>,
           \A d \in Client \ {c} :
               /\ up'[d] = up[d] /\ down'[d] = down[d] /\ cpc'[d] = cpc[d]
               /\ left'[d] = left[d] /\ sent'[d] = sent[d]
               /\ confirmed'[d] = confirmed[d]
               /\ d \in reset' => d \in reset
    PROVE  \A d \in Client \ {c} : ClientInv(d)' /\ SegmentInv(d)'
<1> SUFFICES ASSUME NEW d \in Client \ {c}
             PROVE  ClientInv(d)' /\ SegmentInv(d)'
  OBVIOUS
<1>1. At(d)' = At(d) /\ pc' = pc /\ final_ack' = final_ack
  BY DEF At, Here, serverVars
<1>2. Taken(d)' = Taken(d)
  BY <1>1 DEF Taken, serverVars, MessageLength
<1> QED
  BY <1>1, <1>2, Unmoved

LEMMA ConnectKeeps ==
    ASSUME IInv, NEW c \in Client, Connect(c)
    PROVE  IInv'
<1> USE DEF unchangedByClient
<1>0. backlog \in Seq(Client) /\ backlog' = Append(backlog, c)
  BY DEF IInv, TypeOK, Connect
<1>1. Len(backlog) \in Nat
      /\ backlog' \in Seq(Client) /\ Len(backlog') = Len(backlog) + 1
      /\ backlog' # <<>>
      /\ (\A k \in 1..Len(backlog) : backlog'[k] = backlog[k])
      /\ backlog'[Len(backlog) + 1] = c
  BY <1>0, SeqFacts
<1>2. TypeOK'
  BY <1>1 DEF IInv, TypeOK, Connect, serverVars
<1>3. SocketsWatched' /\ ReportedIsReady' /\ BusyInv'
  BY <1>1, ClientStepFrame DEF Connect, IInv, TypeOK
<1>4. BacklogInv'
  <2>1. cpc[c] = "off" /\ cpc'[c] = "capture"
        /\ (\A d \in Client : cpc'[d] # "off" <=> cpc[d] # "off" \/ d = c)
        /\ peer' = peer
    BY DEF IInv, TypeOK, Connect
  <2>2. \A k \in 1..Len(backlog) : backlog[k] # c /\ backlog[k] \in Client
    BY <1>1, <2>1, SeqFacts DEF IInv, BacklogInv
  <2>3. \A f \in Fd : peer[f] # c
    BY <2>1, MediaAssumption DEF IInv, BacklogInv
  <2>4. \A k \in 1..Len(backlog') :
            \/ k \in 1..Len(backlog) /\ backlog'[k] = backlog[k]
            \/ k = Len(backlog) + 1 /\ backlog'[k] = c
    BY <1>1
  <2>5. \A j, k \in 1..Len(backlog') : backlog'[j] = backlog'[k] => j = k
    BY <2>2, <2>4 DEF IInv, BacklogInv
  <2>6. \A k \in 1..Len(backlog') : cpc'[backlog'[k]] # "off"
    BY <2>1, <2>2, <2>4 DEF IInv, BacklogInv
  <2>7. \A k \in 1..Len(backlog'), f \in Fd : peer'[f] # backlog'[k]
    BY <2>1, <2>3, <2>4 DEF IInv, BacklogInv
  <2>8. \A f \in Fd : peer'[f] # NoClient => cpc'[peer'[f]] # "off"
    BY <2>1 DEF IInv, BacklogInv, TypeOK
  <2> QED
    BY <2>5, <2>6, <2>7, <2>8 DEF BacklogInv
<1>5. \A d \in Client \ {c} : ClientInv(d)' /\ SegmentInv(d)'
  BY OtherClients DEF Connect, IInv, TypeOK
<1>6. ClientInv(c)' /\ SegmentInv(c)'
  <2>1. Pending(c)' = Pending(c) /\ cpc'[c] = "capture" /\ cpc[c] = "off"
    BY DEF Connect, IInv, TypeOK, Pending, Taken, At, Here, serverVars,
           MessageLength
  <2>2. ~(At(c) /\ pc = "ack")' /\ ~(At(c) /\ pc = "ack")
    BY <2>1 DEF Connect, IInv, ClientInv, At, Here, serverVars
  <2>3. Pending(c) = 0 /\ up[c] = <<>> /\ down[c] = <<>>
    <3>1. Pending(c) = 0 /\ down[c] = <<>>
      BY <2>1 DEF IInv, ClientInv
    <3>2. TypeOK
      BY DEF IInv
    <3> QED
      BY <3>1, <3>2, Numbers DEF Pending
  <2> QED
    BY <2>1, <2>2, <2>3 DEF Connect, IInv, ClientInv, SegmentInv
<1> QED
  BY <1>2, <1>3, <1>4, <1>5, <1>6 DEF IInv

\* A step after connect() leaves the waiting connections alone.
LEMMA BacklogStays ==
    ASSUME IInv, UNCHANGED <<peer, backlog>>,
           \A d \in Client : cpc[d] # "off" => cpc'[d] # "off"
    PROVE  BacklogInv'
<1>1. \A k \in 1..Len(backlog) : backlog[k] \in Client
  BY SeqFacts DEF IInv, TypeOK
<1>2. \A f \in Fd : peer[f] \in Client \cup {NoClient}
  BY DEF IInv, TypeOK
<1> QED
  BY <1>1, <1>2 DEF IInv, BacklogInv

LEMMA CaptureKeeps ==
    ASSUME IInv, NEW c \in Client, Capture(c)
    PROVE  IInv'
<1> USE DEF unchangedByClient
<1>1. MessageLength \in Nat \ {0}
  BY Numbers DEF IInv
<1>2. TypeOK'
  <2>1. left' \in [Client -> 0..MessageLength] /\ sent' \in [Client -> Nat]
    BY <1>1 DEF IInv, TypeOK, Capture
  <2>2. cpc' \in [Client -> {"off", "capture", "send", "wait", "recv", "closed"}]
    BY DEF IInv, TypeOK, Capture
  <2> QED
    BY <2>1, <2>2 DEF IInv, TypeOK, Capture, serverVars
<1>3. SocketsWatched' /\ ReportedIsReady' /\ BusyInv'
  BY ClientStepFrame DEF Capture, IInv, TypeOK
<1>4. BacklogInv'
  BY BacklogStays DEF Capture, IInv, TypeOK
<1>5. \A d \in Client \ {c} : ClientInv(d)' /\ SegmentInv(d)'
  BY OtherClients DEF Capture, IInv, TypeOK
<1>6. ClientInv(c)' /\ SegmentInv(c)'
  <2>1. Pending(c)' = Pending(c) /\ cpc'[c] = "send" /\ cpc[c] = "capture"
        /\ left'[c] = MessageLength /\ MessageLength' = MessageLength
        /\ sent'[c] = sent[c] + 1
    BY DEF Capture, IInv, TypeOK, Pending, Taken, At, Here, serverVars,
           MessageLength
  <2>2. ~(At(c) /\ pc = "ack")' /\ ~(At(c) /\ pc = "ack")
    BY <2>1 DEF Capture, IInv, ClientInv, At, Here, serverVars
  <2>3. Pending(c) = 0 /\ up[c] = <<>> /\ down[c] = <<>>
    <3>1. Pending(c) = 0 /\ down[c] = <<>>
      BY <2>1 DEF IInv, ClientInv
    <3>2. TypeOK
      BY DEF IInv
    <3> QED
      BY <3>1, <3>2, Numbers DEF Pending
  <2> QED
    BY <1>1, <2>1, <2>2, <2>3, Numbers DEF Capture, IInv, ClientInv, SegmentInv
<1> QED
  BY <1>2, <1>3, <1>4, <1>5, <1>6 DEF IInv

LEMMA SendKeeps ==
    ASSUME IInv, NEW c \in Client, Send(c)
    PROVE  IInv'
<1> USE DEF unchangedByClient
<1>1. /\ left[c] \in Nat \ {0} /\ left[c] <= MessageLength
      /\ cpc[c] = "send" /\ c \notin dropped /\ cpc'[c] \in {"send", "wait"}
      /\ cpc'[c] = "send" <=> left'[c] # 0
      /\ left'[c] = left[c] - 1
  BY Numbers DEF IInv, ClientInv, Send, TypeOK
<1>2. /\ up[c] \in Seq({"type", "size", "body"})
      /\ Segment(left[c]) \in {"type", "size", "body"}
      /\ up'[c] = Append(up[c], Segment(left[c]))
  BY DEF IInv, TypeOK, Send, Segment
<1>3. /\ up'[c] \in Seq({"type", "size", "body"}) /\ up'[c] # <<>>
      /\ Len(up'[c]) = Len(up[c]) + 1
      /\ (\A k \in 1..Len(up[c]) : up'[c][k] = up[c][k])
      /\ up'[c][Len(up[c]) + 1] = Segment(left[c])
  BY <1>2, SeqFacts
<1>4. TypeOK'
  <2>1. left' \in [Client -> 0..MessageLength]
    <3>1. left[c] - 1 \in 0..MessageLength
      BY <1>1, Numbers DEF IInv
    <3> QED
      BY <3>1 DEF IInv, TypeOK, Send
  <2>2. cpc' \in [Client -> {"off", "capture", "send", "wait", "recv", "closed"}]
    BY DEF IInv, TypeOK, Send
  <2>3. up' \in [Client -> Seq({"type", "size", "body"})]
    BY <1>3 DEF IInv, TypeOK, Send
  <2> QED
    BY <2>1, <2>2, <2>3 DEF IInv, TypeOK, Send, serverVars
<1>5. SocketsWatched' /\ ReportedIsReady' /\ BusyInv'
  BY <1>3, ClientStepFrame DEF Send, IInv, TypeOK
<1>6. BacklogInv'
  BY BacklogStays DEF Send, IInv, TypeOK
<1>7. \A d \in Client \ {c} : ClientInv(d)' /\ SegmentInv(d)'
  BY OtherClients DEF Send, IInv, TypeOK
<1>8. ClientInv(c)' /\ SegmentInv(c)'
  <2>1. Taken(c)' = Taken(c) /\ At(c)' = At(c) /\ pc' = pc
    BY DEF Send, Taken, At, Here, serverVars, MessageLength
  <2>2. Pending(c)' = Pending(c) + 1
    BY <1>3, <2>1, Numbers DEF Pending, IInv
  <2>3. /\ ~(At(c) /\ pc = "ack") /\ down[c] = <<>> /\ c \notin reset
        /\ (At(c) /\ pc = "cleanup") \/ Pending(c) + left[c] = MessageLength
        /\ Pending(c) + left[c] <= MessageLength
        /\ sent[c] = shown[c] + 1 /\ sent[c] = confirmed[c] + 1
    BY <1>1, Numbers DEF IInv, ClientInv
  <2>4. /\ down'[c] = down[c] /\ reset' = reset /\ sent'[c] = sent[c]
        /\ shown'[c] = shown[c] /\ confirmed'[c] = confirmed[c]
        /\ dropped' = dropped
    BY DEF Send
  <2>6. Pending(c)' <= MessageLength
    BY <1>1, <2>2, <2>3, Numbers DEF IInv
  <2>7. ClientInv(c)'
    BY <1>1, <2>1, <2>2, <2>3, <2>4, <2>6, Numbers DEF ClientInv, IInv
  <2>8. CASE At(c) /\ pc = "cleanup"
    BY <2>1, <2>7, <2>8 DEF SegmentInv
  <2>9. CASE Pending(c) + left[c] = MessageLength /\ ~(At(c) /\ pc = "cleanup")
    <3>1. \A k \in 1..Len(up[c]) :
              up[c][k] = Segment(left[c] + Len(up[c]) - k + 1)
      BY <2>9, Numbers DEF IInv, SegmentInv
    <3>2. Pending(c)' + left'[c] = MessageLength
      BY <2>9, <1>1, <2>2, Numbers DEF IInv
    <3>3. ASSUME NEW k \in 1..Len(up'[c])
          PROVE  up'[c][k] = Segment(left'[c] + Len(up'[c]) - k + 1)
      <4>0. Len(up[c]) \in Nat /\ left[c] \in Nat
        BY Numbers DEF IInv
      <4>1. /\ k \in 1..Len(up[c]) \/ k = Len(up[c]) + 1
            /\ left'[c] + Len(up'[c]) - k + 1 = left[c] + Len(up[c]) - k + 1
        BY <1>1, <1>3, <4>0
      <4>2. CASE k \in 1..Len(up[c])
        BY <4>1, <4>2, <3>1, <1>3
      <4>3. CASE k = Len(up[c]) + 1
        <5>1. left[c] + Len(up[c]) - k + 1 = left[c]
          BY <4>3, <1>1, Numbers DEF IInv
        <5> QED
          BY <4>1, <4>3, <5>1, <1>3
      <4> QED
        BY <4>1, <4>2, <4>3
    <3> QED
      BY <2>7, <3>2, <3>3 DEF SegmentInv, Segment, MessageLength
  <2> QED
    BY <2>3, <2>7, <2>8, <2>9
<1> QED
  BY <1>4, <1>5, <1>6, <1>7, <1>8 DEF IInv

LEMMA WaitReadyKeeps ==
    ASSUME IInv, NEW c \in Client, WaitReady(c)
    PROVE  IInv'
<1> USE DEF unchangedByClient
<1>1. TypeOK'
  <2>1. cpc' \in [Client -> {"off", "capture", "send", "wait", "recv", "closed"}]
    BY DEF IInv, TypeOK, WaitReady
  <2> QED
    BY <2>1 DEF IInv, TypeOK, WaitReady, serverVars
<1>2. SocketsWatched' /\ ReportedIsReady' /\ BusyInv'
  BY ClientStepFrame DEF WaitReady, IInv, TypeOK
<1>3. BacklogInv'
  BY BacklogStays DEF WaitReady, IInv, TypeOK
<1>4. \A d \in Client \ {c} : ClientInv(d)' /\ SegmentInv(d)'
  BY OtherClients DEF WaitReady, IInv, TypeOK
<1>5. ClientInv(c)' /\ SegmentInv(c)'
  <2>1. /\ Taken(c)' = Taken(c) /\ At(c)' = At(c) /\ pc' = pc
        /\ Pending(c)' = Pending(c)
        /\ cpc[c] = "wait" /\ cpc'[c] = "recv"
    BY DEF WaitReady, IInv, TypeOK, Taken, Pending, At, Here, serverVars,
           MessageLength
  <2>2. ClientInv(c)'
    BY <2>1 DEF WaitReady, IInv, ClientInv, serverVars
  <2>3. SegmentInv(c)'
    BY <2>1 DEF WaitReady, IInv, SegmentInv, Segment, MessageLength
  <2> QED
    BY <2>2, <2>3
<1> QED
  BY <1>1, <1>2, <1>3, <1>4, <1>5 DEF IInv

LEMMA ReadConfirmedKeeps ==
    ASSUME IInv, NEW c \in Client, ReadConfirmed(c)
    PROVE  IInv'
<1> USE DEF unchangedByClient
<1>1. /\ down[c] \in Seq({0, 1}) /\ down[c] # <<>>
      /\ down'[c] = Tail(down[c])
  BY DEF IInv, TypeOK, ReadConfirmed
<1>2. /\ Len(down[c]) = 1 /\ Pending(c) = 0
      /\ shown[c] = sent[c] /\ sent[c] = confirmed[c] + 1
      /\ ~(At(c) /\ pc = "ack") /\ c \notin reset
  BY <1>1 DEF IInv, ClientInv, ReadConfirmed
<1>3. down'[c] \in Seq({0, 1}) /\ down'[c] = <<>>
  <2>1. Tail(down[c]) \in Seq({0, 1}) /\ Len(Tail(down[c])) = 0
    BY <1>1, <1>2, SeqFacts
  <2> QED
    BY <1>1, <2>1, SeqFacts
<1>4. TypeOK'
  <2>1. cpc' \in [Client -> {"off", "capture", "send", "wait", "recv", "closed"}]
    BY DEF IInv, TypeOK, ReadConfirmed
  <2>2. confirmed' \in [Client -> Nat] /\ down' \in [Client -> Seq({0, 1})]
    BY <1>3 DEF IInv, TypeOK, ReadConfirmed
  <2> QED
    BY <2>1, <2>2 DEF IInv, TypeOK, ReadConfirmed, serverVars
<1>5. SocketsWatched' /\ ReportedIsReady' /\ BusyInv'
  BY ClientStepFrame DEF ReadConfirmed, IInv, TypeOK
<1>6. BacklogInv'
  BY BacklogStays DEF ReadConfirmed, IInv, TypeOK
<1>7. \A d \in Client \ {c} : ClientInv(d)' /\ SegmentInv(d)'
  BY OtherClients DEF ReadConfirmed, IInv, TypeOK
<1>8. ClientInv(c)' /\ SegmentInv(c)'
  <2>1. /\ At(c)' = At(c) /\ pc' = pc /\ Pending(c)' = Pending(c)
        /\ cpc'[c] = "capture" /\ confirmed'[c] = confirmed[c] + 1
    BY DEF ReadConfirmed, IInv, TypeOK, Taken, Pending, At, Here, serverVars,
           MessageLength
  <2>2. up[c] = <<>>
    BY <1>2, Numbers DEF IInv, Pending
  <2>3. ClientInv(c)'
    BY <1>2, <1>3, <2>1, Numbers DEF ReadConfirmed, IInv, ClientInv
  <2>4. SegmentInv(c)'
    BY <2>2 DEF ReadConfirmed, SegmentInv
  <2> QED
    BY <2>3, <2>4
<1> QED
  BY <1>4, <1>5, <1>6, <1>7, <1>8 DEF IInv

\* A client may leave at any time, with an answer on its way or none.
LEMMA LeaveKeeps ==
    ASSUME IInv, NEW c \in Client, Leave(c)
    PROVE  IInv'
<1> USE DEF unchangedByClient
<1>1. <<>> \in Seq({0, 1}) /\ Len(<<>>) = 0
  BY EmptySeq
<1>2. /\ cpc'[c] = "closed" /\ cpc[c] \notin {"off", "closed"}
      /\ down'[c] = <<>>
      /\ c \in reset' => c \in reset \/ down[c] # <<>>
      /\ \A d \in Client \ {c} : d \in reset' => d \in reset
  BY DEF IInv, TypeOK, Leave, CloseClient
<1>3. TypeOK'
  <2>1. cpc' \in [Client -> {"off", "capture", "send", "wait", "recv", "closed"}]
    BY DEF IInv, TypeOK, Leave, CloseClient
  <2>2. down' \in [Client -> Seq({0, 1})] /\ reset' \in SUBSET Client
    BY <1>1 DEF IInv, TypeOK, Leave, CloseClient
  <2> QED
    BY <2>1, <2>2 DEF IInv, TypeOK, Leave, serverVars
<1>4. SocketsWatched' /\ ReportedIsReady' /\ BusyInv'
  BY ClientStepFrame DEF Leave, CloseClient, IInv, TypeOK
<1>5. BacklogInv'
  BY BacklogStays DEF Leave, CloseClient, IInv, TypeOK
<1>6. \A d \in Client \ {c} : ClientInv(d)' /\ SegmentInv(d)'
  <2>1. \A d \in Client \ {c} :
            /\ up'[d] = up[d] /\ down'[d] = down[d] /\ cpc'[d] = cpc[d]
            /\ left'[d] = left[d] /\ sent'[d] = sent[d]
            /\ confirmed'[d] = confirmed[d]
    BY DEF Leave, CloseClient, IInv, TypeOK
  <2> QED
    BY <1>2, <2>1, OtherClients DEF Leave
<1>7. ClientInv(c)' /\ SegmentInv(c)'
  <2>1. /\ At(c)' = At(c) /\ pc' = pc /\ Pending(c)' = Pending(c)
    BY DEF Leave, Taken, Pending, At, Here, serverVars, MessageLength
  <2>2. ClientInv(c)'
    BY <1>2, <2>1 DEF Leave, IInv, ClientInv, serverVars
  <2>3. SegmentInv(c)'
    BY <2>1 DEF Leave, IInv, SegmentInv, Segment, MessageLength
  <2> QED
    BY <2>2, <2>3
<1> QED
  BY <1>3, <1>4, <1>5, <1>6, <1>7 DEF IInv

LEMMA ClientKeeps ==
    ASSUME IInv, NEW c \in Client, MediaClientNext(c)
    PROVE  IInv'
<1>1. WaitTimeout(c) \/ Refused(c) => Leave(c)
  BY DEF WaitTimeout, Refused, Leave
<1> QED
  BY <1>1, ConnectKeeps, CaptureKeeps, SendKeeps, WaitReadyKeeps,
     ReadConfirmedKeeps, LeaveKeeps DEF MediaClientNext, ClientStep

-----------------------------------------------------------------------------
\* The steps of the server.

\* The sockets and the backlog as they were: nothing to show of them.
LEMMA SocketsStay ==
    ASSUME IInv, UNCHANGED <<master_set, fdmax, backlog, peer, cpc>>,
           pc # "down", pc' # "down"
    PROVE  SocketsWatched' /\ BacklogInv'
BY DEF IInv, SocketsWatched, BacklogInv

\* While the server is busy its message is that of a client, and no other
\* socket has the same one.
LEMMA BusyClient ==
    ASSUME IInv, pc \in Busy
    PROVE  /\ i \in Fd /\ i \in read_fds /\ Here \in Client /\ At(Here)
           /\ pc \notin {"select", "scan", "down"}
           /\ \A f \in Fd \ {i} : peer[f] # Here
           /\ \A c \in Client : At(c) => c = Here
           /\ ClientInv(Here) /\ SegmentInv(Here)
<1>1. i \in Fd /\ i \in read_fds /\ Here \in Client /\ Here # NoClient
  BY DEF IInv, BusyInv, TypeOK, Here
<1>2. pc \notin {"select", "scan", "down"}
  BY DEF Busy
<1>3. \A f \in Fd \ {i} : peer[f] # Here
  BY <1>1, <1>2 DEF IInv, SocketsWatched, Here
<1> QED
  BY <1>1, <1>2, <1>3 DEF IInv, At

\* The socket the scan comes to, if it was reported, is that of a client.
LEMMA ReportedClient ==
    ASSUME IInv, AtClient
    PROVE  /\ i \in Fd /\ i \in read_fds /\ Here \in Client /\ Ready(i)
           /\ pc = "scan" /\ pc \notin Busy
           /\ \A f \in Fd \ {i} : peer[f] # Here
           /\ \A c \in Client : ~At(c)
           /\ ClientInv(Here) /\ SegmentInv(Here)
<1>1. /\ pc = "scan" /\ pc \notin Busy /\ i \in read_fds
      /\ \A c \in Client : ~At(c)
  BY DEF AtClient, Busy, At
<1>2. i \in master_set /\ Ready(i)
  BY <1>1 DEF IInv, ReportedIsReady, TypeOK
<1>3. i \in Fd /\ Here \in Client /\ Here # NoClient
  BY <1>1, <1>2, MediaAssumption DEF IInv, SocketsWatched, TypeOK, Here, AtClient
<1>4. \A f \in Fd \ {i} : peer[f] # Here
  BY <1>1, <1>3 DEF IInv, SocketsWatched, Here
<1> QED
  BY <1>1, <1>2, <1>3, <1>4 DEF IInv

\* A step that takes nothing from the other clients, closes no other socket
\* and does not go back in the scan leaves what was reported ready.
LEMMA ReportedStays ==
    ASSUME IInv, pc \notin {"select", "down"}, read_fds' = read_fds,
           UNCHANGED cpc,
           i' = i + 1 \/ (i' = i /\ pc' # "scan"),
           \A f \in master_set : f > i => f \in master_set',
           \A f \in Fd : (f > i /\ peer[f] # NoClient) =>
               peer'[f] = peer[f] /\ up'[peer[f]] = up[peer[f]]
    PROVE  ReportedIsReady'
<1> SUFFICES ASSUME pc' \notin {"select", "down"}, NEW f \in read_fds',
                    f > i' \/ (f = i' /\ pc' = "scan")
             PROVE  f \in master_set' /\ Ready(f)'
  BY DEF ReportedIsReady
<1>1. f > i /\ f \in Fd /\ f # Listener
  BY DEF IInv, TypeOK, Fd, Listener
<1>2. f \in master_set /\ Ready(f)
  BY <1>1 DEF IInv, ReportedIsReady
<1>3. f \in master_set' /\ peer[f] # NoClient /\ peer'[f] = peer[f]
      /\ up'[peer[f]] = up[peer[f]]
  BY <1>1, <1>2 DEF IInv, SocketsWatched
<1> QED
  BY <1>1, <1>2, <1>3 DEF Ready

\* A client with which the server is busy neither before nor after a step
\* that leaves the client's own things alone.
LEMMA NotServed ==
    ASSUME IInv, NEW c \in Client, UNCHANGED clientVars,
           up'[c] = up[c], down'[c] = down[c], shown'[c] = shown[c],
           ~At(c), ~At(c)',
           c \in dropped => c \in dropped',
           c \in reset' => c \in reset
    PROVE  ClientInv(c)' /\ SegmentInv(c)'
<1>1. Taken(c)' = Taken(c)
  BY DEF Taken
<1> QED
  BY <1>1, Unmoved DEF clientVars

\* A step between two states in which the server is not busy.
LEMMA IdleStep ==
    ASSUME IInv, UNCHANGED <<clientVars, up, down, shown, dropped, reset>>,
           pc \notin Busy, pc' \notin Busy
    PROVE  BusyInv' /\ \A c \in Client : ClientInv(c)' /\ SegmentInv(c)'
<1>1. BusyInv'
  BY DEF BusyInv, Busy
<1>2. \A c \in Client : ~At(c) /\ ~At(c)'
  BY DEF At, Busy
<1> QED
  BY <1>1, <1>2, NotServed

LEMMA SelectReadyKeeps ==
    ASSUME IInv, SelectReady
    PROVE  IInv'
<1> USE DEF unchangedByServer, unchangedSockets
<1>1. TypeOK'
  BY MediaAssumption DEF IInv, TypeOK, SelectReady, clientVars
<1>2. SocketsWatched' /\ BacklogInv'
  BY SocketsStay DEF SelectReady, clientVars
<1>3. ReportedIsReady'
  BY DEF SelectReady, ReportedIsReady, Ready, clientVars
<1>4. pc \notin Busy /\ pc' \notin Busy
  BY DEF SelectReady, Busy
<1> QED
  BY <1>1, <1>2, <1>3, <1>4, IdleStep DEF SelectReady, IInv

LEMMA ScanEndKeeps ==
    ASSUME IInv, ScanEnd
    PROVE  IInv'
<1> USE DEF unchangedByServer, unchangedSockets
<1>1. TypeOK'
  BY DEF IInv, TypeOK, ScanEnd, clientVars
<1>2. SocketsWatched' /\ BacklogInv'
  BY SocketsStay DEF ScanEnd, clientVars
<1>3. ReportedIsReady'
  BY DEF ScanEnd, ReportedIsReady
<1>4. pc \notin Busy /\ pc' \notin Busy
  BY DEF ScanEnd, Busy
<1> QED
  BY <1>1, <1>2, <1>3, <1>4, IdleStep DEF ScanEnd, IInv

LEMMA ScanSkipKeeps ==
    ASSUME IInv, ScanSkip
    PROVE  IInv'
<1> USE DEF unchangedByServer, unchangedSockets
<1>1. TypeOK'
  <2>1. i + 1 \in 0..(MaxFd + 1)
    BY MediaAssumption DEF IInv, TypeOK, ScanSkip
  <2> QED
    BY <2>1 DEF IInv, TypeOK, ScanSkip, clientVars
<1>2. SocketsWatched' /\ BacklogInv'
  BY SocketsStay DEF ScanSkip, clientVars
<1>3. ReportedIsReady'
  BY ReportedStays DEF ScanSkip, clientVars
<1>4. pc \notin Busy /\ pc' \notin Busy
  BY DEF ScanSkip, Busy
<1> QED
  BY <1>1, <1>2, <1>3, <1>4, IdleStep DEF ScanSkip, IInv

LEMMA AcceptFailsKeeps ==
    ASSUME IInv, AcceptFails
    PROVE  IInv'
<1> USE DEF unchangedByServer, unchangedSockets
<1>1. pc = "scan" /\ pc' = "scan" /\ i = 0 /\ i' = i + 1
  BY DEF AcceptFails, AtListener, Listener
<1>2. TypeOK'
  <2>1. i + 1 \in 0..(MaxFd + 1)
    BY <1>1, MediaAssumption
  <2> QED
    BY <2>1 DEF IInv, TypeOK, AcceptFails, clientVars
<1>3. SocketsWatched' /\ BacklogInv'
  BY <1>1, SocketsStay DEF AcceptFails, clientVars
<1>4. ReportedIsReady'
  BY <1>1, ReportedStays DEF AcceptFails, clientVars
<1>5. pc \notin Busy /\ pc' \notin Busy
  BY <1>1 DEF Busy
<1> QED
  BY <1>2, <1>3, <1>4, <1>5, IdleStep DEF AcceptFails, IInv

LEMMA SelectFailsKeeps ==
    ASSUME IInv, SelectFails
    PROVE  IInv'
<1> USE DEF unchangedByServer, clientVars
<1>1. <<>> \in Seq({"type", "size", "body"}) /\ <<>> \in Seq(Client)
      /\ Len(<<>>) = 0
  BY EmptySeq
<1>2. pc = "select" /\ pc' = "down" /\ pc \notin Busy /\ pc' \notin Busy
      /\ \A c \in Client : ~At(c) /\ ~At(c)' /\ Taken(c) = 0 /\ Taken(c)' = 0
  BY DEF SelectFails, Busy, At, Taken
<1>3. TypeOK'
  <2>1. /\ backlog' \in Seq(Client)
        /\ up' \in [Client -> Seq({"type", "size", "body"})]
        /\ peer' \in [Fd -> Client \cup {NoClient}]
        /\ dropped' \in SUBSET Client
    BY <1>1 DEF SelectFails
  <2> QED
    BY <2>1, <1>2 DEF IInv, TypeOK, SelectFails
<1>4. SocketsWatched' /\ ReportedIsReady' /\ BusyInv'
  BY <1>2 DEF SocketsWatched, ReportedIsReady, BusyInv
<1>5. BacklogInv'
  <2>1. backlog' = <<>> /\ \A f \in Fd : peer'[f] = NoClient
    BY DEF SelectFails
  <2> QED
    BY <1>1, <2>1 DEF BacklogInv
<1>6. ASSUME NEW c \in Client
      PROVE  ClientInv(c)' /\ SegmentInv(c)'
  <2>1. Pending(c)' = 0 /\ up'[c] = <<>> /\ Len(up'[c]) = 0
    BY <1>1, <1>2 DEF SelectFails, Pending
  <2>2. Pending(c) >= 0 /\ left[c] <= MessageLength /\ MessageLength \in Nat
        /\ left[c] \in Nat /\ Pending(c) \in Nat
    BY Numbers DEF IInv
  <2>3. cpc[c] = "send" => c \in dropped'
    BY DEF SelectFails
  <2>4. /\ ClientInv(c)
        /\ UNCHANGED <<cpc, left, sent, confirmed, down, reset, shown>>
    BY DEF IInv, SelectFails
  <2>5. down[c] # <<>> => Pending(c) = 0
    BY <2>4 DEF ClientInv
  <2>6. ClientInv(c)'
    BY <1>2, <2>1, <2>2, <2>3, <2>4 DEF ClientInv
  <2> QED
    BY <2>1, <2>6 DEF SegmentInv
<1> QED
  BY <1>3, <1>4, <1>5, <1>6 DEF IInv

LEMMA AcceptKeeps ==
    ASSUME IInv, Accept
    PROVE  IInv'
<1> USE DEF unchangedByServer
<1> DEFINE newfd == Min(FreeFd)
           new   == Head(backlog)
<1>1. /\ pc = "scan" /\ pc' = "scan" /\ i = 0 /\ i' = i + 1
      /\ Listener \in master_set /\ read_fds' = read_fds
      /\ pc \notin Busy /\ pc' \notin Busy /\ backlog # <<>>
  <2>1. pc = "scan" /\ pc' = "scan" /\ i = Listener /\ i \in read_fds
        /\ i' = i + 1 /\ read_fds' = read_fds
    BY DEF Accept, AtListener
  <2>2. i \in master_set /\ Ready(i)
    BY <2>1 DEF IInv, ReportedIsReady, TypeOK
  <2> QED
    BY <2>1, <2>2 DEF Busy, Listener, Ready
<1>2. /\ newfd \in Fd /\ peer[newfd] = NoClient
      /\ newfd \in Nat /\ newfd <= MaxFd /\ newfd > 0
  <2>1. FreeFd # {} /\ FreeFd \in SUBSET Nat
    BY MediaAssumption DEF Accept, FreeFd, Fd
  <2>2. newfd \in FreeFd
    BY <2>1, MinFacts
  <2> QED
    BY <2>2, MediaAssumption DEF FreeFd, Fd
<1>3. /\ Tail(backlog) \in Seq(Client) /\ new = backlog[1] /\ new \in Client
      /\ Len(backlog) \in Nat /\ Len(backlog) # 0
      /\ Len(Tail(backlog)) = Len(backlog) - 1
      /\ \A k \in 1..Len(Tail(backlog)) : Tail(backlog)[k] = backlog[k + 1]
  <2>1. backlog \in Seq(Client)
    BY DEF IInv, TypeOK
  <2> QED
    BY <1>1, <2>1, SeqFacts
<1>4. /\ peer' = [peer EXCEPT ![newfd] = new]
      /\ master_set' = master_set \cup {newfd}
      /\ fdmax' = IF newfd > fdmax THEN newfd ELSE fdmax
      /\ backlog' = Tail(backlog)
      /\ UNCHANGED <<clientVars, read_fds, part, final_ack, up, down, dropped,
                     reset, shown>>
  BY DEF Accept
<1>5. /\ peer'[newfd] = new /\ new # NoClient
      /\ \A f \in Fd \ {newfd} : peer'[f] = peer[f]
      /\ \A f \in Fd : peer[f] # new
  <2>1. \A f \in Fd : peer[f] # new
    BY <1>3 DEF IInv, BacklogInv
  <2> HIDE DEF new, newfd
  <2>2. peer \in [Fd -> Client \cup {NoClient}]
    BY DEF IInv, TypeOK
  <2> QED
    BY <1>2, <1>3, <1>4, <2>1, <2>2, MediaAssumption
<1> HIDE DEF new, newfd
<1>6. TypeOK'
  <2>1. peer' \in [Fd -> Client \cup {NoClient}]
    BY <1>2, <1>3, <1>4 DEF IInv, TypeOK
  <2>2. fdmax' \in 0..MaxFd /\ i' \in 0..(MaxFd + 1)
    BY <1>1, <1>2, <1>4, MediaAssumption DEF IInv, TypeOK
  <2>3. master_set' \in SUBSET (Fd \cup {Listener})
    BY <1>2, <1>4 DEF IInv, TypeOK
  <2> QED
    BY <1>1, <1>3, <1>4, <2>1, <2>2, <2>3 DEF IInv, TypeOK, clientVars
<1>7. SocketsWatched'
  <2>1. /\ master_set = {Listener} \cup {f \in Fd : peer[f] # NoClient}
        /\ fdmax \in master_set
        /\ \A f \in master_set : f <= fdmax
        /\ \A f, g \in Fd : peer[f] = peer[g] /\ f # g => peer[f] = NoClient
    BY <1>1 DEF IInv, SocketsWatched
  <2>2. master_set' = {Listener} \cup {f \in Fd : peer'[f] # NoClient}
    BY <1>2, <1>4, <1>5, <2>1
  <2>3. fdmax' \in master_set'
    BY <1>4, <2>1
  <2>4. \A f \in master_set' : f <= fdmax'
    <3>1. master_set \in SUBSET Nat /\ fdmax \in Nat
      BY MediaAssumption DEF IInv, TypeOK, Fd, Listener
    <3> QED
      BY <1>2, <1>4, <2>1, <3>1
  <2>5. \A f, g \in Fd : peer'[f] = peer'[g] /\ f # g => peer'[f] = NoClient
    BY <1>5, <2>1
  <2> QED
    BY <2>2, <2>3, <2>4, <2>5 DEF SocketsWatched
<1>8. ReportedIsReady'
  <2>1. \A f \in Fd : (f > i /\ peer[f] # NoClient) =>
               peer'[f] = peer[f] /\ up'[peer[f]] = up[peer[f]]
    BY <1>2, <1>4, <1>5
  <2> QED
    BY <1>1, <1>4, <2>1, ReportedStays DEF clientVars
<1>9. BacklogInv'
  <2>1. /\ \A j, k \in 1..Len(backlog) : backlog[j] = backlog[k] => j = k
        /\ \A k \in 1..Len(backlog) : cpc[backlog[k]] # "off"
        /\ \A k \in 1..Len(backlog), f \in Fd : peer[f] # backlog[k]
        /\ \A f \in Fd : peer[f] # NoClient => cpc[peer[f]] # "off"
    BY DEF IInv, BacklogInv
  <2>2. cpc' = cpc
    BY <1>4 DEF clientVars
  <2>3. \A k \in 1..Len(backlog') : /\ k + 1 \in 1..Len(backlog)
                                    /\ backlog'[k] = backlog[k + 1]
                                    /\ backlog'[k] # new
    BY <1>3, <1>4, <2>1
  <2>4. \A j, k \in 1..Len(backlog') : backlog'[j] = backlog'[k] => j = k
    <3> SUFFICES ASSUME NEW j \in 1..Len(backlog'), NEW k \in 1..Len(backlog'),
                        backlog'[j] = backlog'[k]
                 PROVE  j = k
      OBVIOUS
    <3>1. j + 1 = k + 1
      BY <2>1, <2>3
    <3>2. j \in Int /\ k \in Int
      OBVIOUS
    <3> QED
      BY <3>1, <3>2
  <2>5. \A k \in 1..Len(backlog') : cpc'[backlog'[k]] # "off"
    BY <2>1, <2>2, <2>3
  <2>6. \A k \in 1..Len(backlog'), f \in Fd : peer'[f] # backlog'[k]
    BY <1>5, <2>1, <2>3
  <2>7. \A f \in Fd : peer'[f] # NoClient => cpc'[peer'[f]] # "off"
    BY <1>3, <1>5, <2>1, <2>2
  <2> QED
    BY <2>4, <2>5, <2>6, <2>7 DEF BacklogInv
<1> QED
  BY <1>1, <1>4, <1>6, <1>7, <1>8, <1>9, IdleStep DEF IInv

\* A segment is there to take: the client has it on its way, has no answer,
\* and is not reset.
LEMMA TakeFacts ==
    ASSUME IInv, TakeSegment, Here \in Client
    PROVE  /\ up'[Here] = Tail(up[Here])
           /\ up' \in [Client -> Seq({"type", "size", "body"})]
           /\ \A d \in Client \ {Here} : up'[d] = up[d]
           /\ Len(up[Here]) >= 1 /\ Len(up'[Here]) = Len(up[Here]) - 1
           /\ \A k \in 1..Len(up'[Here]) :
                  k + 1 \in 1..Len(up[Here]) /\ up'[Here][k] = up[Here][k + 1]
           /\ Pending(Here) >= 1 /\ Pending(Here) <= MessageLength
           /\ sent[Here] = shown[Here] + 1
           /\ down[Here] = <<>> /\ Here \notin reset
           /\ cpc[Here] \notin {"off", "capture"}
<1>1. up \in [Client -> Seq({"type", "size", "body"})] /\ up[Here] # <<>>
      /\ up' = [up EXCEPT ![Here] = Tail(@)]
  BY DEF IInv, TypeOK, TakeSegment
<1>2. /\ Tail(up[Here]) \in Seq({"type", "size", "body"})
      /\ Len(up[Here]) \in Nat /\ Len(up[Here]) # 0
      /\ Len(Tail(up[Here])) = Len(up[Here]) - 1
      /\ \A k \in 1..Len(Tail(up[Here])) : Tail(up[Here])[k] = up[Here][k + 1]
  BY <1>1, SeqFacts
<1>3. /\ up'[Here] = Tail(up[Here])
      /\ up' \in [Client -> Seq({"type", "size", "body"})]
      /\ \A d \in Client \ {Here} : up'[d] = up[d]
  BY <1>1, <1>2
<1>4. /\ Len(up[Here]) >= 1 /\ Len(up'[Here]) = Len(up[Here]) - 1
      /\ \A k \in 1..Len(up'[Here]) :
             k + 1 \in 1..Len(up[Here]) /\ up'[Here][k] = up[Here][k + 1]
  BY <1>2, <1>3
<1>5. Taken(Here) \in Nat
  BY Numbers DEF IInv
<1>6. Pending(Here) >= 1 /\ Pending(Here) # 0
  BY <1>4, <1>5, Numbers DEF IInv, Pending
<1>7. /\ Pending(Here) <= MessageLength /\ sent[Here] = shown[Here] + 1
      /\ down[Here] = <<>> /\ Here \notin reset
      /\ cpc[Here] \notin {"off", "capture"}
  <2>1. PICK c \in Client : c = Here
    OBVIOUS
  <2>2. ClientInv(c) /\ Pending(c) \in Nat /\ Pending(c) >= 1
    BY <1>6, <2>1, Numbers DEF IInv
  <2>3. /\ Pending(c) <= MessageLength /\ sent[c] = shown[c] + 1
        /\ down[c] = <<>> /\ c \notin reset /\ cpc[c] \notin {"off", "capture"}
    BY <2>2 DEF ClientInv
  <2> QED
    BY <2>1, <2>3
<1> QED
  BY <1>3, <1>4, <1>6, <1>7

\* Whoever takes a segment either counts it or gives the connection up.
LEMMA TakeKeeps ==
    ASSUME IInv, TakeSegment,
           i \in Fd, i \in read_fds, Here \in Client,
           \A f \in Fd \ {i} : peer[f] # Here,
           pc \in {"scan", "size", "body"},
           \A c \in Client \ {Here} : ~At(c),
           part' \in 0..BodyParts,
           \/ pc' = "cleanup"
           \/ pc' \in {"size", "body", "show"} /\ Taken(Here)' = Taken(Here) + 1
    PROVE  IInv'
<1> USE DEF unchangedByServer, unchangedSockets
<1>1. /\ UNCHANGED <<clientVars, master_set, fdmax, backlog, peer, dropped, i,
                     read_fds, final_ack, down, reset, shown>>
      /\ pc' \in Busy /\ pc' \notin {"scan", "select", "down", "ack"}
      /\ pc \notin {"select", "down", "cleanup", "ack"}
  BY DEF TakeSegment, Busy
<1>2. Here' = Here /\ Here # NoClient /\ At(Here)'
  BY <1>1, MediaAssumption DEF Here, At
<1>3. TypeOK'
  <2>1. pc' \in {"select", "scan", "size", "body", "show", "ack", "cleanup",
                 "down"}
    OBVIOUS
  <2> QED
    BY <1>1, <2>1, TakeFacts DEF IInv, TypeOK, clientVars
<1>4. SocketsWatched' /\ BacklogInv'
  BY <1>1, SocketsStay DEF clientVars
<1>5. BusyInv'
  BY <1>1, <1>2 DEF BusyInv, Here
<1>6. ReportedIsReady'
  <2>1. \A f \in Fd : (f > i /\ peer[f] # NoClient) =>
            peer'[f] = peer[f] /\ up'[peer[f]] = up[peer[f]]
    <3> SUFFICES ASSUME NEW f \in Fd, f > i, peer[f] # NoClient
                 PROVE  peer'[f] = peer[f] /\ up'[peer[f]] = up[peer[f]]
      OBVIOUS
    <3>1. f # i /\ peer[f] # Here /\ peer[f] \in Client
      BY MediaAssumption DEF IInv, TypeOK, Fd
    <3> QED
      BY <1>1, <3>1, TakeFacts
  <2> QED
    BY <1>1, <2>1, ReportedStays DEF clientVars
<1>7. \A c \in Client \ {Here} : ClientInv(c)' /\ SegmentInv(c)'
  <2> SUFFICES ASSUME NEW c \in Client \ {Here}
               PROVE  ClientInv(c)' /\ SegmentInv(c)'
    OBVIOUS
  <2>1. ~At(c) /\ ~At(c)'
    BY <1>2 DEF At
  <2> QED
    BY <1>1, <2>1, TakeFacts, NotServed DEF clientVars
<1>8. ClientInv(Here)' /\ SegmentInv(Here)'
  <2>1. PICK c \in Client : c = Here
    OBVIOUS
  <2>2. /\ ClientInv(c) /\ SegmentInv(c) /\ At(c)' /\ Here' = c
        /\ UNCHANGED <<cpc, left, sent, confirmed, down, shown, reset, dropped>>
    BY <1>1, <1>2, <2>1 DEF IInv, clientVars
  <2>3. /\ Len(up[c]) >= 1 /\ Len(up'[c]) = Len(up[c]) - 1
        /\ \A k \in 1..Len(up'[c]) :
               k + 1 \in 1..Len(up[c]) /\ up'[c][k] = up[c][k + 1]
        /\ Pending(c) >= 1 /\ Pending(c) <= MessageLength
        /\ sent[c] = shown[c] + 1
        /\ down[c] = <<>> /\ c \notin reset
        /\ cpc[c] \notin {"off", "capture"}
    BY <2>1, TakeFacts
  <2>4. /\ MessageLength \in Nat /\ MessageLength' = MessageLength
        /\ Len(up[c]) \in Nat /\ left[c] \in Nat /\ left[c] <= MessageLength
        /\ Taken(c) \in Nat /\ Pending(c) = Taken(c) + Len(up[c])
        /\ Pending(c)' = Taken(c)' + Len(up'[c]) /\ up[c] # <<>>
    BY <2>3, Numbers DEF IInv, Pending, MessageLength
  <2>5. CASE pc' = "cleanup"
    <3>1. Taken(c)' = 0 /\ Pending(c)' \in Nat /\ Pending(c)' <= Pending(c)
      BY <2>3, <2>4, <2>5 DEF Taken
    <3>2. cpc[c] = "send" =>
              /\ sent[c] = confirmed[c] + 1 /\ left[c] # 0
              /\ Pending(c) + left[c] <= MessageLength
      BY <2>2 DEF ClientInv
    <3>3. cpc[c] \in {"wait", "recv"} => sent[c] = confirmed[c] + 1
      BY <2>2 DEF ClientInv
    <3>4. ClientInv(c)'
      BY <2>2, <2>3, <2>4, <2>5, <3>1, <3>2, <3>3 DEF ClientInv
    <3>5. SegmentInv(c)'
      BY <2>2, <2>5 DEF SegmentInv
    <3> QED
      BY <2>1, <2>2, <3>4, <3>5, <1>2
  <2>6. CASE pc' # "cleanup"
    <3>1. Taken(c)' = Taken(c) + 1 /\ Pending(c)' = Pending(c)
      BY <1>2, <2>1, <2>3, <2>4, <2>6
    <3>2. cpc[c] = "send" =>
              /\ sent[c] = confirmed[c] + 1 /\ left[c] # 0
              /\ Pending(c) + left[c] <= MessageLength
              /\ c \in dropped \/ Pending(c) + left[c] = MessageLength
      BY <1>1, <2>2 DEF ClientInv
    <3>3. cpc[c] \in {"wait", "recv"} => sent[c] = confirmed[c] + 1
      BY <2>2 DEF ClientInv
    <3>4. ClientInv(c)'
      BY <1>1, <2>2, <2>3, <2>4, <3>1, <3>2, <3>3 DEF ClientInv
    <3>5. /\ Pending(c) + left[c] = MessageLength
          /\ \A k \in 1..Len(up[c]) :
                 up[c][k] = Segment(left[c] + Len(up[c]) - k + 1)
      BY <1>1, <2>2, <2>4 DEF SegmentInv
    <3>6. ASSUME NEW k \in 1..Len(up'[c])
          PROVE  up'[c][k] = Segment(left[c] + Len(up'[c]) - k + 1)
      <4>1. left[c] + Len(up[c]) - (k + 1) + 1
                = left[c] + Len(up'[c]) - k + 1
        BY <2>3, <2>4
      <4> QED
        BY <2>3, <3>5, <4>1
    <3>7. SegmentInv(c)'
      BY <2>2, <2>4, <3>1, <3>5, <3>6 DEF SegmentInv, Segment, MessageLength
    <3> QED
      BY <1>2, <2>1, <3>4, <3>7
  <2> QED
    BY <2>5, <2>6
<1>9. \A c \in Client : ClientInv(c)' /\ SegmentInv(c)'
  BY <1>7, <1>8, <1>2
<1> QED
  BY <1>3, <1>4, <1>5, <1>6, <1>9 DEF IInv

LEMMA RecvTypeKeeps ==
    ASSUME IInv, RecvType
    PROVE  IInv'
<1>1. TakeSegment /\ pc = "scan" /\ pc' = "size" /\ part' \in 0..BodyParts
  BY DEF RecvType, AtClient, IInv, TypeOK
<1>2. /\ i \in Fd /\ i \in read_fds /\ Here \in Client
      /\ \A f \in Fd \ {i} : peer[f] # Here
      /\ \A c \in Client : ~At(c)
  BY ReportedClient DEF RecvType
<1>3. Here' = Here
  BY <1>1 DEF TakeSegment, unchangedSockets, Here
<1>4. Taken(Here) = 0 /\ Taken(Here)' = 1
  BY <1>1, <1>2, <1>3 DEF Taken, At, Busy
<1> QED
  BY <1>1, <1>2, <1>4, TakeKeeps

LEMMA RecvSizeKeeps ==
    ASSUME IInv, RecvSize
    PROVE  IInv'
<1>1. TakeSegment /\ pc = "size" /\ pc' \in {"body", "cleanup"} /\ part' = 0
  BY DEF RecvSize
<1>2. /\ i \in Fd /\ i \in read_fds /\ Here \in Client /\ At(Here)
      /\ \A f \in Fd \ {i} : peer[f] # Here
      /\ \A c \in Client \ {Here} : ~At(c)
  BY <1>1, BusyClient DEF Busy
<1>3. Here' = Here
  BY <1>1 DEF TakeSegment, unchangedSockets, Here
<1>4. pc' = "body" => Taken(Here) = 1 /\ Taken(Here)' = 2
  BY <1>1, <1>2, <1>3 DEF Taken, At, Busy
<1>5. part' \in 0..BodyParts
  BY <1>1, MediaAssumption
<1> QED
  BY <1>1, <1>2, <1>4, <1>5, TakeKeeps

LEMMA RecvBodyKeeps ==
    ASSUME IInv, RecvBody
    PROVE  IInv'
<1>1. /\ TakeSegment /\ pc = "body" /\ part' = part + 1
      /\ pc' = IF part' = BodyParts THEN "show" ELSE "body"
  BY DEF RecvBody
<1>2. /\ i \in Fd /\ i \in read_fds /\ Here \in Client /\ At(Here)
      /\ \A f \in Fd \ {i} : peer[f] # Here
      /\ \A c \in Client \ {Here} : ~At(c)
  BY <1>1, BusyClient DEF Busy
<1>3. Here' = Here
  BY <1>1 DEF TakeSegment, unchangedSockets, Here
<1>4. /\ BodyParts \in Nat \ {0} /\ MessageLength = BodyParts + 2
      /\ part \in Nat /\ Len(up[Here]) \in Nat /\ MessageLength' = MessageLength
  BY <1>2, Numbers DEF IInv, MessageLength
<1>5. Taken(Here) = part + 2
  BY <1>1, <1>2 DEF Taken
<1>6. part + 1 <= BodyParts
  <2>1. Pending(Here) <= MessageLength /\ Len(up[Here]) >= 1
    BY <1>1, <1>2, TakeFacts
  <2>2. Pending(Here) = part + 2 + Len(up[Here])
    BY <1>5 DEF Pending
  <2>3. part + 2 + Len(up[Here]) <= BodyParts + 2
    BY <1>4, <2>1, <2>2
  <2>4. \A x, y, z \in Nat : x + 2 + y <= z + 2 /\ y >= 1 => x + 1 <= z
    OBVIOUS
  <2> QED
    BY <1>4, <2>1, <2>3, <2>4
<1>7. part' \in 0..BodyParts
  BY <1>1, <1>4, <1>6
<1>8. Taken(Here)' = Taken(Here) + 1
  BY <1>1, <1>2, <1>3, <1>4, <1>5 DEF Taken, At, Busy
<1> QED
  BY <1>1, <1>2, <1>7, <1>8, TakeKeeps

LEMMA RecvEndsKeeps ==
    ASSUME IInv, RecvEnds
    PROVE  IInv'
<1> USE DEF unchangedByServer, unchangedSockets
<1>1. /\ UNCHANGED <<clientVars, master_set, fdmax, backlog, peer, dropped, i,
                     read_fds, part, final_ack, up, down, reset, shown>>
      /\ pc' = "cleanup" /\ pc \in {"scan", "size", "body"}
      /\ (up[Here] = <<>> /\ cpc[Here] = "closed") \/ Here \in reset
  BY DEF RecvEnds, AtClient
<1>2. /\ i \in Fd /\ i \in read_fds /\ Here \in Client
      /\ \A c \in Client \ {Here} : ~At(c)
      /\ ClientInv(Here)
  BY <1>1, BusyClient, ReportedClient DEF RecvEnds, Busy
<1>3. Here' = Here /\ Here # NoClient
  BY <1>1, <1>2, MediaAssumption DEF Here
<1>4. TypeOK'
  BY <1>1 DEF IInv, TypeOK, clientVars
<1>5. SocketsWatched' /\ BacklogInv'
  BY <1>1, SocketsStay DEF clientVars
<1>6. BusyInv'
  BY <1>1, <1>2, <1>3 DEF BusyInv, Here
<1>7. ReportedIsReady'
  BY <1>1, ReportedStays DEF clientVars
<1>8. ASSUME NEW c \in Client \ {Here}
      PROVE  ClientInv(c)' /\ SegmentInv(c)'
  <2>1. ~At(c) /\ ~At(c)'
    BY <1>2, <1>3 DEF At
  <2> QED
    BY <1>1, <2>1, NotServed
<1>9. ASSUME NEW c \in Client, c = Here
      PROVE  ClientInv(c)' /\ SegmentInv(c)'
  <2>1. /\ ClientInv(c) /\ At(c)' /\ pc' = "cleanup"
        /\ UNCHANGED <<cpc, left, sent, confirmed, down, shown, reset, up>>
    BY <1>1, <1>2, <1>3, <1>9 DEF clientVars, At, Busy
  <2>2. cpc[c] = "closed"
    BY <1>1, <1>9, <2>1 DEF ClientInv
  <2>3. Taken(c)' = 0 /\ Pending(c)' \in Nat /\ Pending(c) \in Nat
        /\ Pending(c)' <= Pending(c)
    <3>1. Taken(c)' = 0
      BY <2>1 DEF Taken
    <3>2. Taken(c) \in Nat /\ Len(up[c]) \in Nat /\ Len(up'[c]) = Len(up[c])
      BY <2>1, Numbers DEF IInv
    <3> QED
      BY <3>1, <3>2 DEF Pending
  <2>4. MessageLength \in Nat /\ MessageLength' = MessageLength
    BY Numbers DEF IInv, MessageLength
  <2>5. ClientInv(c)'
    BY <2>1, <2>2, <2>3, <2>4 DEF ClientInv
  <2>6. SegmentInv(c)'
    BY <2>1 DEF SegmentInv
  <2> QED
    BY <2>5, <2>6
<1> QED
  BY <1>4, <1>5, <1>6, <1>7, <1>8, <1>9 DEF IInv

LEMMA ShowKeeps ==
    ASSUME IInv, Show
    PROVE  IInv'
<1> USE DEF unchangedByServer, unchangedSockets
<1>1. /\ UNCHANGED <<clientVars, master_set, fdmax, backlog, peer, dropped, i,
                     read_fds, part, up, down, reset>>
      /\ pc = "show" /\ pc' = "ack" /\ pc \in Busy
      /\ \/ shown' = [shown EXCEPT ![Here] = @ + 1] /\ final_ack' = 1
         \/ shown' = shown /\ final_ack' = 0
  BY DEF Show, Busy
<1>2. /\ i \in Fd /\ i \in read_fds /\ Here \in Client /\ At(Here)
      /\ \A c \in Client \ {Here} : ~At(c)
  BY <1>1, BusyClient
<1>3. Here' = Here /\ Here # NoClient
  BY <1>1, <1>2, MediaAssumption DEF Here
<1>4. TypeOK'
  <2>1. shown' \in [Client -> Nat] /\ final_ack' \in {0, 1}
    <3>1. shown \in [Client -> Nat] /\ shown[Here] + 1 \in Nat
      BY <1>2 DEF IInv, TypeOK
    <3> QED
      BY <1>1, <1>2, <3>1
  <2> QED
    BY <1>1, <2>1 DEF IInv, TypeOK, clientVars
<1>5. SocketsWatched' /\ BacklogInv'
  BY <1>1, SocketsStay DEF clientVars
<1>6. BusyInv'
  BY <1>1, <1>2, <1>3 DEF BusyInv, Here
<1>7. ReportedIsReady'
  BY <1>1, ReportedStays DEF clientVars
<1>8. ASSUME NEW c \in Client \ {Here}
      PROVE  ClientInv(c)' /\ SegmentInv(c)'
  <2>1. ~At(c) /\ ~At(c)'
    BY <1>2, <1>3 DEF At
  <2>2. shown'[c] = shown[c]
    BY <1>1 DEF IInv, TypeOK
  <2> QED
    BY <1>1, <2>1, <2>2, NotServed
<1>9. ASSUME NEW c \in Client, c = Here
      PROVE  ClientInv(c)' /\ SegmentInv(c)'
  <2>1. /\ ClientInv(c) /\ At(c) /\ At(c)' /\ pc' = "ack"
        /\ UNCHANGED <<cpc, left, sent, confirmed, down, reset, up>>
    BY <1>1, <1>2, <1>3, <1>9 DEF IInv, clientVars, At, Busy
  <2>2. /\ MessageLength \in Nat /\ MessageLength # 0 /\ left[c] \in Nat
        /\ MessageLength' = MessageLength
        /\ Len(up[c]) \in Nat /\ (up[c] = <<>> <=> Len(up[c]) = 0)
    BY Numbers DEF IInv, MessageLength
  <2>3. Pending(c) = MessageLength + Len(up[c])
    BY <1>1, <2>1 DEF Pending, Taken
  <2>4. Len(up[c]) = 0 /\ Pending(c) = MessageLength
    <3>1. Pending(c) <= MessageLength
      BY <2>1 DEF ClientInv
    <3> QED
      BY <2>2, <2>3, <3>1
  <2>5. Pending(c)' = 0 /\ up'[c] = <<>> /\ Len(up'[c]) = 0
    <3>1. Taken(c)' = 0
      BY <2>1 DEF Taken
    <3> QED
      BY <2>1, <2>2, <2>4, <3>1 DEF Pending
  <2>6. /\ sent[c] = shown[c] + 1 /\ down[c] = <<>> /\ c \notin reset
        /\ cpc[c] \notin {"off", "capture"}
    BY <2>1, <2>2, <2>4 DEF ClientInv
  <2>7. cpc[c] # "send"
    <3>1. cpc[c] = "send" => left[c] # 0 /\ Pending(c) + left[c] <= MessageLength
      BY <2>1 DEF ClientInv
    <3> QED
      BY <2>2, <2>4, <3>1
  <2>8. cpc[c] \in {"wait", "recv", "closed"}
    BY <2>6, <2>7 DEF IInv, TypeOK
  <2>9. final_ack' = 1 => shown'[c] = sent[c]
    BY <1>1, <1>9, <2>6 DEF IInv, TypeOK
  <2>10. cpc[c] \in {"wait", "recv"} => sent[c] = confirmed[c] + 1
    BY <2>1 DEF ClientInv
  <2>11. ClientInv(c)'
    BY <2>1, <2>2, <2>5, <2>6, <2>8, <2>9, <2>10 DEF ClientInv
  <2>12. SegmentInv(c)'
    BY <2>5 DEF SegmentInv
  <2> QED
    BY <2>11, <2>12
<1> QED
  BY <1>4, <1>5, <1>6, <1>7, <1>8, <1>9 DEF IInv

LEMMA AckKeeps ==
    ASSUME IInv, Ack
    PROVE  IInv'
<1> USE DEF unchangedByServer, unchangedSockets
<1>1. pc = "ack" /\ pc \in Busy
  BY DEF Ack, Busy
<1>2. /\ i \in Fd /\ i \in read_fds /\ Here \in Client /\ At(Here)
      /\ \A c \in Client \ {Here} : ~At(c)
      /\ ClientInv(Here)
  BY <1>1, BusyClient
<1>3. Here \notin reset /\ down[Here] = <<>>
  <2>1. PICK c \in Client : c = Here
    BY <1>2
  <2>2. c \notin reset /\ down[c] = <<>>
    BY <1>1, <1>2, <2>1 DEF ClientInv
  <2> QED
    BY <2>1, <2>2
<1>4. /\ UNCHANGED <<clientVars, master_set, fdmax, backlog, peer, dropped,
                     read_fds, part, final_ack, up, shown>>
      /\ pc' = "scan" /\ i' = i + 1 /\ pc' \notin Busy
      /\ IF cpc[Here] = "closed"
         THEN reset' = reset \cup {Here} /\ down' = down
         ELSE reset' = reset /\ down' = [down EXCEPT ![Here] = Append(@, final_ack)]
  BY <1>3 DEF Ack, Busy
<1>5. /\ Append(<<>>, final_ack) \in Seq({0, 1})
      /\ Len(Append(<<>>, final_ack)) = 1
      /\ Head(Append(<<>>, final_ack)) = final_ack
  <2>1. final_ack \in {0, 1} /\ <<>> \in Seq({0, 1}) /\ Len(<<>>) = 0
    BY EmptySeq DEF IInv, TypeOK
  <2>2. /\ Append(<<>>, final_ack) \in Seq({0, 1})
        /\ Append(<<>>, final_ack) # <<>>
        /\ Len(Append(<<>>, final_ack)) = 1
        /\ Append(<<>>, final_ack)[1] = final_ack
    BY <2>1, SeqFacts
  <2> QED
    BY <2>2, SeqFacts
<1>6. TypeOK'
  <2>1. down' \in [Client -> Seq({0, 1})] /\ reset' \in SUBSET Client
    <3>1. down \in [Client -> Seq({0, 1})] /\ reset \in SUBSET Client
      BY DEF IInv, TypeOK
    <3>2. CASE cpc[Here] = "closed"
      BY <1>2, <1>4, <3>1, <3>2
    <3>3. CASE cpc[Here] # "closed"
      <4>1. down' = [down EXCEPT ![Here] = Append(<<>>, final_ack)]
        BY <1>3, <1>4, <3>3
      <4>2. down' \in [Client -> Seq({0, 1})]
        BY <1>2, <1>5, <3>1, <4>1
      <4> QED
        BY <1>4, <3>1, <3>3, <4>2
    <3> QED
      BY <3>2, <3>3
  <2>2. i' \in 0..(MaxFd + 1)
    BY <1>2, <1>4, MediaAssumption DEF Fd
  <2> QED
    BY <1>4, <2>1, <2>2 DEF IInv, TypeOK, clientVars
<1>7. SocketsWatched' /\ BacklogInv'
  BY <1>1, <1>4, SocketsStay DEF clientVars
<1>8. BusyInv' /\ \A c \in Client : ~At(c)'
  BY <1>4 DEF BusyInv, At, Busy
<1>9. ReportedIsReady'
  BY <1>1, <1>4, ReportedStays DEF clientVars
<1>10. ASSUME NEW c \in Client \ {Here}
       PROVE  ClientInv(c)' /\ SegmentInv(c)'
  <2>1. down'[c] = down[c] /\ (c \in reset' => c \in reset)
    BY <1>4 DEF IInv, TypeOK
  <2>2. ~At(c) /\ ~At(c)'
    BY <1>2, <1>8
  <2> QED
    BY <1>4, <2>1, <2>2, NotServed
<1>11. ASSUME NEW c \in Client, c = Here
       PROVE  ClientInv(c)' /\ SegmentInv(c)'
  <2>1. /\ ClientInv(c) /\ At(c) /\ ~At(c)'
        /\ UNCHANGED <<cpc, left, sent, confirmed, shown, up, dropped>>
    BY <1>2, <1>4, <1>8, <1>11 DEF IInv, clientVars
  <2>2. /\ MessageLength \in Nat /\ MessageLength' = MessageLength
        /\ Len(up[c]) \in Nat /\ (up[c] = <<>> <=> Len(up[c]) = 0)
    BY Numbers DEF IInv, MessageLength
  <2>3. /\ Len(up[c]) = 0 /\ cpc[c] \in {"wait", "recv", "closed"}
        /\ final_ack = 1 => shown[c] = sent[c]
    BY <1>1, <2>1 DEF ClientInv
  <2>4. Pending(c)' = 0 /\ up'[c] = <<>> /\ Len(up'[c]) = 0
    <3>1. Taken(c)' = 0
      BY <2>1 DEF Taken
    <3> QED
      BY <2>1, <2>2, <2>3, <3>1 DEF Pending
  <2>5. cpc[c] \in {"wait", "recv"} => sent[c] = confirmed[c] + 1
    BY <2>1 DEF ClientInv
  <2>6. IF cpc[c] = "closed"
        THEN down'[c] = <<>>
        ELSE /\ c \notin reset'
             /\ Len(down'[c]) = 1 /\ Head(down'[c]) = final_ack
    BY <1>3, <1>4, <1>5, <1>11 DEF IInv, TypeOK
  <2>7. ClientInv(c)'
    BY <2>1, <2>2, <2>3, <2>4, <2>5, <2>6 DEF ClientInv
  <2>8. SegmentInv(c)'
    BY <2>4 DEF SegmentInv
  <2> QED
    BY <2>7, <2>8
<1> QED
  BY <1>6, <1>7, <1>8, <1>9, <1>10, <1>11 DEF IInv

LEMMA CleanupKeeps ==
    ASSUME IInv, Cleanup
    PROVE  IInv'
<1> USE DEF unchangedByServer
<1>1. /\ UNCHANGED <<clientVars, backlog, read_fds, part, final_ack, down, reset,
                     shown>>
      /\ pc = "cleanup" /\ pc' = "scan" /\ i' = i + 1
      /\ pc \in Busy /\ pc' \notin Busy
      /\ peer' = [peer EXCEPT ![i] = NoClient]
      /\ master_set' = master_set \ {i}
      /\ fdmax' = IF i = fdmax THEN Max(master_set') ELSE fdmax
      /\ dropped' = dropped \cup {Here}
      /\ up' = [up EXCEPT ![Here] = <<>>]
  BY DEF Cleanup, Busy
<1>2. /\ i \in Fd /\ i \in read_fds /\ Here \in Client /\ At(Here)
      /\ \A f \in Fd \ {i} : peer[f] # Here
      /\ \A c \in Client \ {Here} : ~At(c)
  BY <1>1, BusyClient
<1>3. /\ peer'[i] = NoClient /\ peer' \in [Fd -> Client \cup {NoClient}]
      /\ \A f \in Fd \ {i} : peer'[f] = peer[f]
  BY <1>1, <1>2 DEF IInv, TypeOK
<1>4. /\ <<>> \in Seq({"type", "size", "body"}) /\ Len(<<>>) = 0
  BY EmptySeq
<1>5. /\ up' \in [Client -> Seq({"type", "size", "body"})] /\ up'[Here] = <<>>
      /\ \A d \in Client \ {Here} : up'[d] = up[d]
  BY <1>1, <1>2, <1>4 DEF IInv, TypeOK
<1>6. /\ master_set = {Listener} \cup {f \in Fd : peer[f] # NoClient}
      /\ fdmax \in master_set
      /\ \A f \in master_set : f <= fdmax
      /\ \A f, g \in Fd : peer[f] = peer[g] /\ f # g => peer[f] = NoClient
  BY <1>1 DEF IInv, SocketsWatched
<1>7. /\ Listener \in master_set' /\ master_set' \in SUBSET (0..MaxFd)
      /\ Listener \notin Fd
  BY <1>1, <1>2, <1>6, MediaAssumption DEF IInv, TypeOK, Fd, Listener
<1>8. fdmax' \in master_set' /\ \A f \in master_set' : f <= fdmax'
  <2>1. CASE i = fdmax
    <3>1. fdmax' = Max(master_set')
      BY <1>1, <2>1
    <3>2. /\ Max(master_set') \in master_set'
          /\ \A x \in master_set' : Max(master_set') >= x
      BY <1>7, MaxFacts, MediaAssumption
    <3>3. \A x \in master_set' : x \in Nat
      BY <1>7
    <3> QED
      BY <3>1, <3>2, <3>3
  <2>2. CASE i # fdmax
    BY <1>1, <1>6, <2>2
  <2> QED
    BY <2>1, <2>2
<1>9. TypeOK'
  <2>1. fdmax' \in 0..MaxFd
    BY <1>7, <1>8
  <2>2. i' \in 0..(MaxFd + 1)
    BY <1>1, <1>2, MediaAssumption DEF Fd
  <2>3. dropped' \in SUBSET Client /\ master_set' \in SUBSET (Fd \cup {Listener})
    BY <1>1, <1>2 DEF IInv, TypeOK
  <2> QED
    BY <1>1, <1>3, <1>5, <2>1, <2>2, <2>3 DEF IInv, TypeOK, clientVars
<1>10. SocketsWatched'
  <2>1. master_set' = {Listener} \cup {f \in Fd : peer'[f] # NoClient}
    BY <1>1, <1>2, <1>3, <1>6, <1>7
  <2>2. \A f, g \in Fd : peer'[f] = peer'[g] /\ f # g => peer'[f] = NoClient
    BY <1>3, <1>6
  <2> QED
    BY <1>8, <2>1, <2>2 DEF SocketsWatched
<1>11. BusyInv' /\ \A c \in Client : ~At(c)'
  BY <1>1 DEF BusyInv, At, Busy
<1>12. ReportedIsReady'
  <2>1. i \in Nat /\ \A f \in master_set : f > i => f \in master_set'
    BY <1>1, <1>2, MediaAssumption DEF Fd
  <2>2. ASSUME NEW f \in Fd, f > i, peer[f] # NoClient
        PROVE  peer'[f] = peer[f] /\ up'[peer[f]] = up[peer[f]]
    <3>1. f # i /\ peer[f] \in Client
      BY <2>1, <2>2 DEF IInv, TypeOK
    <3> QED
      BY <1>2, <1>3, <1>5, <3>1
  <2> QED
    BY <1>1, <2>1, <2>2, ReportedStays DEF clientVars
<1>13. BacklogInv'
  <2>1. \A k \in 1..Len(backlog) : backlog[k] \in Client
    BY SeqFacts DEF IInv, TypeOK
  <2>2. cpc' = cpc /\ backlog' = backlog
    BY <1>1 DEF clientVars
  <2>3. \A k \in 1..Len(backlog), f \in Fd : peer'[f] # backlog[k]
    BY <1>3, <2>1, MediaAssumption DEF IInv, BacklogInv
  <2>4. \A f \in Fd : peer'[f] # NoClient => cpc[peer'[f]] # "off"
    BY <1>3 DEF IInv, BacklogInv
  <2> QED
    BY <2>2, <2>3, <2>4 DEF IInv, BacklogInv
<1>14. ASSUME NEW c \in Client \ {Here}
       PROVE  ClientInv(c)' /\ SegmentInv(c)'
  <2>1. ~At(c) /\ ~At(c)'
    BY <1>2, <1>11
  <2>2. (c \in dropped => c \in dropped') /\ (c \in reset' => c \in reset)
    BY <1>1
  <2> QED
    BY <1>1, <1>5, <2>1, <2>2, NotServed
<1>15. ASSUME NEW c \in Client, c = Here
       PROVE  ClientInv(c)' /\ SegmentInv(c)'
  <2>1. /\ ClientInv(c) /\ At(c) /\ ~At(c)' /\ c \in dropped'
        /\ UNCHANGED <<cpc, left, sent, confirmed, shown, down, reset>>
    BY <1>1, <1>2, <1>11, <1>15 DEF IInv, clientVars
  <2>2. /\ MessageLength \in Nat /\ MessageLength' = MessageLength
        /\ Pending(c) \in Nat /\ left[c] \in Nat /\ left[c] <= MessageLength
    BY Numbers DEF IInv, MessageLength
  <2>3. Pending(c)' = 0 /\ up'[c] = <<>> /\ Len(up'[c]) = 0
    <3>1. Taken(c)' = 0
      BY <2>1 DEF Taken
    <3> QED
      BY <1>4, <1>5, <1>15, <3>1 DEF Pending
  <2>4. ClientInv(c)'
    BY <2>1, <2>2, <2>3 DEF ClientInv
  <2> QED
    BY <2>3, <2>4 DEF SegmentInv
<1> QED
  BY <1>9, <1>10, <1>11, <1>12, <1>13, <1>14, <1>15 DEF IInv

LEMMA ServerKeeps ==
    ASSUME IInv, Server
    PROVE  IInv'
BY SelectReadyKeeps, SelectFailsKeeps, ScanEndKeeps, ScanSkipKeeps, AcceptKeeps,
   AcceptFailsKeeps, RecvTypeKeeps, RecvSizeKeeps, RecvBodyKeeps, RecvEndsKeeps,
   ShowKeeps, AckKeeps, CleanupKeeps DEF Server

LEMMA StutterKeeps ==
    ASSUME IInv, UNCHANGED vars
    PROVE  IInv'
<1> USE DEF vars, serverVars, clientVars
<1>1. TypeOK' /\ SocketsWatched' /\ BusyInv' /\ BacklogInv'
  BY DEF IInv, TypeOK, SocketsWatched, BusyInv, BacklogInv, Busy
<1>2. ReportedIsReady'
  BY DEF IInv, ReportedIsReady, Ready
<1>3. ASSUME NEW c \in Client
      PROVE  ClientInv(c)' /\ SegmentInv(c)'
  <2>1. At(c)' = At(c) /\ Taken(c)' = Taken(c)
    BY DEF At, Here, Taken, MessageLength
  <2> QED
    BY <2>1, Unmoved
<1> QED
  BY <1>1, <1>2, <1>3 DEF IInv

LEMMA InitInv == Init => IInv
<1> SUFFICES ASSUME Init
             PROVE  IInv
  OBVIOUS
<1>1. /\ <<>> \in Seq({"type", "size", "body"}) /\ <<>> \in Seq({0, 1})
      /\ <<>> \in Seq(Client) /\ Len(<<>>) = 0
  BY EmptySeq
<1>2. MaxFd \in Nat /\ BodyParts \in Nat /\ MessageLength \in Nat
  BY MediaAssumption DEF MessageLength
<1>3. TypeOK
  <2>1. /\ pc = "select" /\ i \in 0..(MaxFd + 1) /\ part \in 0..BodyParts
        /\ final_ack \in {0, 1} /\ fdmax \in 0..MaxFd
    BY <1>2 DEF Init, Listener
  <2>2. /\ master_set \in SUBSET (Fd \cup {Listener}) /\ read_fds = {}
        /\ dropped = {} /\ reset = {} /\ backlog \in Seq(Client)
        /\ peer \in [Fd -> Client \cup {NoClient}]
    BY <1>1 DEF Init
  <2>3. /\ left \in [Client -> 0..MessageLength]
        /\ sent \in [Client -> Nat] /\ confirmed \in [Client -> Nat]
        /\ shown \in [Client -> Nat]
        /\ cpc \in [Client -> {"off", "capture", "send", "wait", "recv", "closed"}]
    BY <1>2 DEF Init
  <2>4. /\ up \in [Client -> Seq({"type", "size", "body"})]
        /\ down \in [Client -> Seq({0, 1})]
    BY <1>1 DEF Init
  <2> QED
    BY <2>1, <2>2, <2>3, <2>4 DEF TypeOK
<1>4. SocketsWatched
  BY <1>2 DEF Init, SocketsWatched, Listener
<1>5. ReportedIsReady /\ BusyInv
  BY DEF Init, ReportedIsReady, BusyInv, Busy
<1>6. BacklogInv
  BY <1>1 DEF Init, BacklogInv
<1>7. ASSUME NEW c \in Client
      PROVE  ClientInv(c) /\ SegmentInv(c)
  <2>1. /\ ~At(c) /\ up[c] = <<>> /\ down[c] = <<>> /\ cpc[c] = "off"
        /\ sent[c] = 0 /\ shown[c] = 0 /\ confirmed[c] = 0 /\ c \notin reset
    BY DEF Init, At, Busy
  <2>2. Pending(c) = 0
    BY <1>1, <2>1 DEF Pending, Taken
  <2> QED
    BY <1>2, <2>1, <2>2 DEF ClientInv, SegmentInv
<1> QED
  BY <1>3, <1>4, <1>5, <1>6, <1>7 DEF IInv

\* IInv is an inductive invariant of the media programs.
THEOREM Inductive == Spec => []IInv
<1>1. IInv /\ [Next]_vars => IInv'
  BY ClientKeeps, ServerKeeps, StutterKeeps DEF Next
<1> QED
  BY <1>1, InitInv, PTL DEF Spec

-----------------------------------------------------------------------------
\* Who waits for whom.

\* The answer of client c is under way, or the message it is for.
Coming(c) ==
    \/ down[c] # <<>> \/ up[c] # <<>>
    \/ pc \in {"show", "ack", "cleanup"} /\ At(c)

\* A client waits only when all of its message is sent and the answer still
\* to come, and reads only what is there.
WaitInv(c) ==
    /\ cpc[c] = "wait" => left[c] = 0 /\ (c \in dropped \/ Coming(c))
    /\ cpc[c] = "recv" => down[c] # <<>> \/ c \in dropped

\* A client that has connected is held by the server until it is dropped.
HeldInv(c) ==
    IF cpc[c] = "off" THEN c \notin dropped ELSE Held(c) <=> c \notin dropped

WInv == \A c \in Client : WaitInv(c) /\ HeldInv(c)

\* A client none of whose own things a step touches waits as it did.
LEMMA WaitStays ==
    ASSUME NEW c \in Client, WaitInv(c), cpc'[c] = cpc[c], left'[c] = left[c],
           up[c] # <<>> => up'[c] # <<>>,
           down[c] # <<>> => down'[c] # <<>>,
           c \in dropped => c \in dropped',
           pc \in {"show", "ack", "cleanup"} /\ At(c) =>
               \/ (pc \in {"show", "ack", "cleanup"} /\ At(c))'
               \/ down'[c] # <<>> \/ c \in dropped' \/ cpc[c] = "closed"
    PROVE  WaitInv(c)'
BY DEF WaitInv, Coming

LEMMA HeldStays ==
    ASSUME NEW c \in Client, HeldInv(c), UNCHANGED <<backlog, peer>>,
           cpc[c] = "off" <=> cpc'[c] = "off",
           c \in dropped <=> c \in dropped'
    PROVE  HeldInv(c)'
BY DEF HeldInv, Held

LEMMA ClientWaits ==
    ASSUME IInv, WInv, NEW c \in Client, MediaClientNext(c)
    PROVE  WInv'
<1> USE DEF unchangedByClient, serverVars
<1>1. /\ UNCHANGED <<pc, i, peer, dropped>>
      /\ \A d \in Client \ {c} : /\ cpc'[d] = cpc[d] /\ left'[d] = left[d]
                                 /\ up'[d] = up[d] /\ down'[d] = down[d]
  BY DEF MediaClientNext, ClientStep, Connect, Capture, Send, WaitReady,
     ReadConfirmed, Refused, WaitTimeout, Leave, CloseClient, IInv, TypeOK
<1>2. \A d : At(d)' = At(d)
  BY <1>1 DEF At, Here
<1>3. \A d \in Client \ {c} : WaitInv(d)'
  BY <1>1, <1>2, WaitStays DEF WInv
<1>4. WaitInv(c)'
  <2>1. CASE Send(c)
    <3>1. /\ up'[c] = Append(up[c], Segment(left[c])) /\ left'[c] = left[c] - 1
          /\ cpc'[c] = IF left[c] = 1 THEN "wait" ELSE "send"
          /\ up[c] \in Seq({"type", "size", "body"})
          /\ left[c] \in Nat
      BY <2>1 DEF Send, IInv, TypeOK
    <3>2. up'[c] # <<>>
      <4>1. Segment(left[c]) \in {"type", "size", "body"}
        BY DEF Segment
      <4> QED
        BY <3>1, <4>1, SeqFacts
    <3> QED
      BY <3>1, <3>2 DEF WaitInv, Coming
  <2>2. CASE WaitReady(c)
    BY <1>1, <2>2 DEF WaitReady, WaitInv, IInv, TypeOK
  <2>3. CASE Connect(c) \/ Capture(c) \/ ReadConfirmed(c) \/ Refused(c)
               \/ WaitTimeout(c) \/ Leave(c)
    <3>1. cpc'[c] \in {"capture", "send", "closed"}
      BY <2>3 DEF Connect, Capture, ReadConfirmed, Refused, WaitTimeout, Leave,
         CloseClient, IInv, TypeOK
    <3> QED
      BY <3>1 DEF WaitInv
  <2> QED
    BY <2>1, <2>2, <2>3 DEF MediaClientNext, ClientStep
<1>5. CASE Connect(c)
  <2>1. /\ cpc[c] = "off" /\ cpc'[c] = "capture" /\ c \notin dropped
        /\ backlog \in Seq(Client) /\ backlog' = Append(backlog, c)
    BY <1>5 DEF Connect, IInv, TypeOK, WInv, HeldInv
  <2>2. /\ Len(backlog) \in Nat /\ Len(backlog') = Len(backlog) + 1
        /\ (\A k \in 1..Len(backlog) : backlog'[k] = backlog[k])
        /\ backlog'[Len(backlog) + 1] = c
    BY <2>1, SeqFacts
  <2>3. \A d : Held(d)' <=> (Held(d) \/ d = c)
    <3>1. /\ Len(backlog) + 1 \in 1..Len(backlog')
          /\ \A k \in 1..Len(backlog') :
                 k \in 1..Len(backlog) \/ k = Len(backlog) + 1
          /\ \A k \in 1..Len(backlog) : k \in 1..Len(backlog')
      BY <2>2
    <3> QED
      BY <1>1, <2>2, <3>1 DEF Held
  <2> QED
    BY <1>1, <1>3, <1>4, <2>1, <2>3 DEF WInv, HeldInv
<1>6. CASE ~Connect(c)
  <2>1. UNCHANGED backlog /\ cpc[c] # "off" /\ cpc'[c] # "off"
    BY <1>6 DEF MediaClientNext, ClientStep, Capture, Send, WaitReady,
       ReadConfirmed, Refused, WaitTimeout, Leave, CloseClient, IInv, TypeOK
  <2> QED
    BY <1>1, <1>3, <1>4, <2>1, HeldStays DEF WInv
<1> QED
  BY <1>5, <1>6

\* Whoever has its last segment taken is shown next.
LEMMA TakeWaits ==
    ASSUME IInv, WInv, RecvType \/ RecvSize \/ RecvBody
    PROVE  WInv'
<1> USE DEF unchangedByServer, unchangedSockets, clientVars
<1>1. /\ TakeSegment /\ pc \in {"scan", "size", "body"}
      /\ UNCHANGED <<cpc, left, sent, down, dropped, backlog, peer, i>>
  BY DEF RecvType, RecvSize, RecvBody, AtClient, TakeSegment
<1>2. Here \in Client /\ Here' = Here /\ \A d \in Client \ {Here} : ~At(d)
  BY BusyClient, ReportedClient DEF RecvType, RecvSize, RecvBody, Busy, TakeSegment,
     Here, At
<1>3. /\ \A d \in Client \ {Here} : up'[d] = up[d]
      /\ Len(up[Here]) >= 1 /\ Len(up'[Here]) = Len(up[Here]) - 1
      /\ up[Here] # <<>> /\ up'[Here] \in Seq({"type", "size", "body"})
  BY <1>1, <1>2, TakeFacts DEF TakeSegment
<1>4. \A d \in Client : HeldInv(d)'
  BY <1>1, HeldStays DEF WInv
<1>5. \A d \in Client \ {Here} : WaitInv(d)'
  BY <1>1, <1>2, <1>3, WaitStays DEF WInv
<1>6. ASSUME NEW c \in Client, c = Here, cpc[c] = "wait", up'[c] = <<>>
      PROVE  pc' = "show" /\ At(c)'
  <2>1. left[c] = 0 /\ Len(up[c]) = 1
    <3>1. Len(up[c]) \in Nat /\ Len(up'[c]) = 0
      BY <1>3, <1>6, Numbers, SeqFacts DEF IInv
    <3> QED
      BY <1>3, <1>6, <3>1 DEF WInv, WaitInv
  <2>2. Taken(c) + 1 = MessageLength
    <3>1. Pending(c) + left[c] = MessageLength
      BY <1>1, <1>3, <1>6 DEF IInv, SegmentInv
    <3> QED
      BY <2>1, <3>1, Numbers DEF IInv, Pending
  <2>3. /\ BodyParts \in Nat \ {0} /\ MessageLength = BodyParts + 2
        /\ part \in Nat
    BY Numbers DEF IInv
  <2>4. pc = "body" /\ part + 1 = BodyParts
    BY <1>1, <2>2, <2>3 DEF Taken, Busy
  <2>5. RecvBody
    BY <2>4 DEF RecvType, RecvSize, RecvBody, AtClient
  <2> QED
    BY <1>2, <1>6, <2>4, <2>5 DEF RecvBody, At, Busy
<1>7. ASSUME NEW c \in Client, c = Here
      PROVE  WaitInv(c)'
  BY <1>1, <1>6, <1>7 DEF WInv, WaitInv, Coming
<1> QED
  BY <1>4, <1>5, <1>7 DEF WInv

LEMMA AcceptWaits ==
    ASSUME IInv, WInv, Accept
    PROVE  WInv'
<1> USE DEF unchangedByServer, clientVars
<1> DEFINE newfd == Min(FreeFd)
<1>1. /\ pc = "scan" /\ pc' = "scan" /\ FreeFd # {}
      /\ peer' = [peer EXCEPT ![newfd] = Head(backlog)]
      /\ backlog' = Tail(backlog)
      /\ UNCHANGED <<cpc, left, up, down, dropped>>
  BY DEF Accept, AtListener
<1>2. backlog \in Seq(Client) /\ backlog # <<>>
  <2>1. Listener \in master_set /\ Ready(Listener)
    BY <1>1 DEF Accept, AtListener, IInv, ReportedIsReady, TypeOK
  <2> QED
    BY <2>1 DEF Ready, IInv, TypeOK
<1>3. newfd \in Fd /\ peer[newfd] = NoClient
  <2>1. FreeFd \in SUBSET Nat
    BY MediaAssumption DEF FreeFd, Fd
  <2>2. newfd \in FreeFd
    BY <1>1, <2>1, MinFacts
  <2> QED
    BY <2>2 DEF FreeFd
<1> HIDE DEF newfd
<1>4. /\ Head(backlog) = backlog[1] /\ Len(backlog) \in Nat /\ Len(backlog) # 0
      /\ Len(backlog') = Len(backlog) - 1
      /\ \A k \in 1..Len(backlog') : backlog'[k] = backlog[k + 1]
  BY <1>1, <1>2, SeqFacts
<1>5. /\ peer'[newfd] = backlog[1]
      /\ \A f \in Fd \ {newfd} : peer'[f] = peer[f]
  BY <1>1, <1>3, <1>4 DEF IInv, TypeOK
<1>6. ASSUME NEW c \in Client
      PROVE  Held(c)' <=> Held(c)
  <2>1. c # NoClient
    BY MediaAssumption
  <2>2. (\E k \in 1..Len(backlog) : backlog[k] = c)
          <=> c = backlog[1] \/ \E k \in 1..Len(backlog') : backlog'[k] = c
    <3>1. 1 \in 1..Len(backlog)
          /\ \A k \in 1..Len(backlog') : k + 1 \in 1..Len(backlog)
      BY <1>4
    <3>2. ASSUME NEW k \in 1..Len(backlog), k # 1
          PROVE  k - 1 \in 1..Len(backlog') /\ backlog'[k - 1] = backlog[k]
      <4>1. k - 1 \in 1..Len(backlog') /\ (k - 1) + 1 = k
        BY <1>4, <3>2
      <4> QED
        BY <1>4, <4>1
    <3> QED
      BY <1>4, <3>1, <3>2
  <2>3. (\E f \in Fd : peer'[f] = c) <=> c = backlog[1] \/ \E f \in Fd : peer[f] = c
    BY <1>3, <1>5, <2>1
  <2> QED
    BY <2>2, <2>3 DEF Held
<1>7. \A c \in Client : HeldInv(c)'
  BY <1>1, <1>6 DEF WInv, HeldInv
<1>8. \A c \in Client : WaitInv(c)'
  BY <1>1, WaitStays DEF WInv
<1> QED
  BY <1>7, <1>8 DEF WInv

LEMMA CleanupWaits ==
    ASSUME IInv, WInv, Cleanup
    PROVE  WInv'
<1> USE DEF unchangedByServer, clientVars
<1>1. /\ pc = "cleanup" /\ pc \in Busy
      /\ peer' = [peer EXCEPT ![i] = NoClient]
      /\ dropped' = dropped \cup {Here}
      /\ up' = [up EXCEPT ![Here] = <<>>]
      /\ UNCHANGED <<cpc, left, down, backlog>>
  BY DEF Cleanup, Busy
<1>2. /\ i \in Fd /\ Here \in Client /\ Here # NoClient
      /\ \A f \in Fd \ {i} : peer[f] # Here
      /\ \A d \in Client : At(d) => d = Here
      /\ \A d \in Client \ {Here} : up'[d] = up[d]
  BY <1>1, BusyClient, MediaAssumption DEF IInv, TypeOK
<1>3. cpc[Here] # "off" /\ \A k \in 1..Len(backlog) : backlog[k] # Here
  BY <1>2 DEF IInv, BacklogInv, Here
<1>4. /\ peer'[i] = NoClient /\ peer[i] = Here
      /\ \A f \in Fd \ {i} : peer'[f] = peer[f]
  BY <1>1, <1>2 DEF IInv, TypeOK, Here
<1>5. ASSUME NEW c \in Client, c # Here
      PROVE  WaitInv(c)' /\ HeldInv(c)'
  <2>1. Held(c)' <=> Held(c)
    BY <1>1, <1>4, <1>5, MediaAssumption DEF Held
  <2>2. HeldInv(c)'
    BY <1>1, <1>5, <2>1 DEF WInv, HeldInv
  <2>3. WaitInv(c)'
    BY <1>1, <1>2, <1>5, WaitStays DEF WInv
  <2> QED
    BY <2>2, <2>3
<1>6. ASSUME NEW c \in Client, c = Here
      PROVE  WaitInv(c)' /\ HeldInv(c)'
  <2>1. c \in dropped' /\ ~Held(c)'
    BY <1>1, <1>2, <1>3, <1>4, <1>6 DEF Held
  <2>2. WaitInv(c)'
    BY <1>1, <2>1 DEF WInv, WaitInv
  <2>3. HeldInv(c)'
    BY <1>1, <1>3, <1>6, <2>1 DEF HeldInv
  <2> QED
    BY <2>2, <2>3
<1> QED
  BY <1>5, <1>6 DEF WInv

LEMMA ServerWaits ==
    ASSUME IInv, WInv, Server
    PROVE  WInv'
<1> USE DEF unchangedByServer, unchangedSockets, clientVars
<1>1. CASE SelectReady \/ ScanEnd \/ ScanSkip \/ AcceptFails
  <2>1. /\ pc \in {"select", "scan"}
        /\ UNCHANGED <<cpc, left, up, down, dropped, backlog, peer>>
    BY <1>1 DEF SelectReady, ScanEnd, ScanSkip, AcceptFails, AtListener
  <2> QED
    BY <2>1, WaitStays, HeldStays DEF WInv
<1>2. CASE SelectFails
  <2>1. /\ UNCHANGED <<cpc, left>> /\ dropped' = {c \in Client : cpc[c] # "off"}
        /\ backlog' = <<>> /\ \A f \in Fd : peer'[f] = NoClient
    BY <1>2 DEF SelectFails
  <2>2. \A c \in Client : ~Held(c)'
    BY <2>1, MediaAssumption DEF Held
  <2> QED
    BY <2>1, <2>2 DEF WInv, WaitInv, HeldInv
<1>3. CASE RecvEnds
  <2>1. /\ pc' = "cleanup" /\ Here' = Here
        /\ UNCHANGED <<cpc, left, up, down, dropped, backlog, peer>>
    BY <1>3 DEF RecvEnds, Here
  <2>2. \A c \in Client : pc \in {"show", "ack", "cleanup"} /\ At(c) => At(c)'
    BY <2>1 DEF At, Busy
  <2> QED
    BY <2>1, <2>2, WaitStays, HeldStays DEF WInv
<1>4. CASE Show
  <2>1. /\ pc' = "ack" /\ Here' = Here
        /\ UNCHANGED <<cpc, left, up, down, dropped, backlog, peer>>
    BY <1>4 DEF Show, Here
  <2>2. \A c \in Client : pc \in {"show", "ack", "cleanup"} /\ At(c) => At(c)'
    BY <2>1 DEF At, Busy
  <2> QED
    BY <2>1, <2>2, WaitStays, HeldStays DEF WInv
<1>5. CASE Ack
  <2>1. /\ pc = "ack" /\ UNCHANGED <<cpc, left, up, dropped, backlog, peer>>
        /\ \/ cpc[Here] = "closed" /\ UNCHANGED down
           \/ down' = [down EXCEPT ![Here] = Append(@, final_ack)]
    BY <1>5 DEF Ack
  <2>2. Here \in Client /\ \A c \in Client : At(c) => c = Here
    BY <2>1, BusyClient DEF Busy
  <2>3. \A c \in Client : down[c] # <<>> => down'[c] # <<>>
    BY <2>1, <2>2 DEF IInv, TypeOK
  <2>4. cpc[Here] = "closed" \/ down'[Here] # <<>>
    BY <2>1, <2>2 DEF IInv, TypeOK
  <2> QED
    BY <2>1, <2>2, <2>3, <2>4, WaitStays, HeldStays DEF WInv
<1> QED
  BY <1>1, <1>2, <1>3, <1>4, <1>5, TakeWaits, AcceptWaits, CleanupWaits DEF Server

\* WInv holds together with IInv.
LEMMA WaitsInductive == Spec => [](IInv /\ WInv)
<1>1. Init => WInv
  BY DEF Init, WInv, WaitInv, HeldInv
<1>2. IInv /\ WInv /\ [Next]_vars => WInv'
  <2>1. CASE UNCHANGED vars
    <3>1. \A c : At(c)' = At(c)
      BY <2>1 DEF vars, serverVars, At, Here
    <3> QED
      BY <2>1, <3>1, WaitStays, HeldStays DEF vars, serverVars, clientVars, WInv
  <2> QED
    BY <2>1, ClientWaits, ServerWaits DEF Next
<1> QED
  BY <1>1, <1>2, Inductive, PTL DEF Spec

-----------------------------------------------------------------------------
\* Every variable keeps its type, for any number of clients and sockets.
THEOREM MediaTypeCorrect == Spec => []TypeOK
<1>1. IInv => TypeOK
  BY DEF IInv
<1> QED
  BY <1>1, Inductive, PTL

\* The server watches exactly the sockets it has open, up to the largest
\* (v4l2_tcp_server.c:182-190, 290-296).
THEOREM SocketsCorrect == Spec => []SocketsWatched
<1>1. IInv => SocketsWatched
  BY DEF IInv
<1> QED
  BY <1>1, Inductive, PTL

\* No accept() and no first recv() of a scan blocks the server
\* (v4l2_tcp_server.c:170-224).
THEOREM ReportedCorrect == Spec => []ReportedIsReady
<1>1. IInv => ReportedIsReady
  BY DEF IInv
<1> QED
  BY <1>1, Inductive, PTL

\* The server takes every segment for what it is (v4l2_tcp_server.c:224-245),
\* and neither a client nor the server waits for something the other is not
\* to send (v4l2_tcp_server.c:230-245, v4l2_client.c:185-204).
THEOREM FramingCorrect == Spec => []FramingKept
<1>1. IInv => \A c \in Client : SegmentExpected(c)
  <2> SUFFICES ASSUME IInv, NEW c \in Client, up[c] # <<>>,
                      ~(pc = "cleanup" /\ c = Here)
               PROVE  Head(up[c]) = Expected(c)
    BY DEF SegmentExpected
  <2>1. ~(At(c) /\ pc = "cleanup")
    BY DEF At
  <2>2. /\ Pending(c) + left[c] = MessageLength
        /\ \A k \in 1..Len(up[c]) : up[c][k] = Segment(left[c] + Len(up[c]) - k + 1)
    BY <2>1 DEF IInv, SegmentInv
  <2>3. /\ Len(up[c]) \in Nat /\ Len(up[c]) # 0 /\ Taken(c) \in Nat
        /\ left[c] \in Nat /\ part \in Nat /\ MessageLength = BodyParts + 2
        /\ BodyParts \in Nat \ {0}
    BY Numbers DEF IInv
  <2>4. Head(up[c]) = up[c][1]
    BY SeqFacts DEF IInv, TypeOK
  <2>5. Head(up[c]) = Segment(MessageLength - Taken(c))
    <3>1. left[c] + Len(up[c]) - 1 + 1 = MessageLength - Taken(c)
      BY <2>2, <2>3 DEF Pending
    <3> QED
      BY <2>2, <2>3, <2>4, <3>1
  <2>6. CASE At(c) /\ pc = "size"
    <3>1. MessageLength - Taken(c) = MessageLength - 1 /\ Expected(c) = "size"
      BY <2>6 DEF Taken, Expected, At
    <3> QED
      BY <2>3, <2>5, <3>1 DEF Segment
  <2>7. CASE At(c) /\ pc = "body"
    <3>1. MessageLength - Taken(c) = MessageLength - (part + 2)
          /\ Expected(c) = "body"
      BY <2>7 DEF Taken, Expected, At
    <3> QED
      BY <2>3, <2>5, <3>1 DEF Segment
  <2>8. CASE ~At(c) \/ pc \notin {"size", "body"}
    <3>1. Expected(c) = "type"
      BY <2>8 DEF Expected, At, Busy
    <3>2. Taken(c) = 0
      <4>1. ~(At(c) /\ pc = "show")
        <5>1. Pending(c) <= MessageLength
          BY DEF IInv, ClientInv
        <5>2. At(c) /\ pc = "show" => Taken(c) = MessageLength
          BY DEF Taken
        <5>3. Pending(c) = Taken(c) + Len(up[c]) /\ MessageLength \in Nat
          BY <2>3 DEF Pending
        <5>4. Taken(c) # MessageLength
          BY <2>3, <5>1, <5>3
        <5> QED
          BY <5>2, <5>4
      <4> QED
        BY <2>8, <4>1 DEF Taken
    <3> QED
      BY <2>3, <2>5, <3>1, <3>2 DEF Segment
  <2> QED
    BY <2>6, <2>7, <2>8
<1>2. IInv /\ WInv => SenderAwaited
  <2> SUFFICES ASSUME IInv, WInv, pc \in {"size", "body"}, up[Here] = <<>>
               PROVE  cpc[Here] \in {"send", "closed"} /\ Here \notin dropped
    BY DEF SenderAwaited
  <2>1. PICK c \in Client : c = Here /\ At(c)
    BY BusyClient DEF Busy
  <2>2. i \in Fd /\ peer[i] = c
    BY <2>1, BusyClient DEF Busy, Here
  <2>3. Pending(c) # 0
    BY <2>1, Numbers DEF IInv, Pending, Taken
  <2>4. /\ cpc[c] \notin {"off", "capture"} /\ down[c] = <<>>
        /\ cpc[c] \in {"off", "capture", "send", "wait", "recv", "closed"}
    BY <2>3 DEF IInv, TypeOK, ClientInv
  <2>5. c \notin dropped
    BY <2>2, <2>4 DEF WInv, HeldInv, Held
  <2>6. cpc[c] \notin {"wait", "recv"}
    BY <2>1, <2>4, <2>5 DEF WInv, WaitInv, Coming
  <2> QED
    BY <2>1, <2>4, <2>5, <2>6
<1>3. WInv => \A c \in Client : AnswerOwed(c)
  BY DEF WInv, WaitInv, HeldInv, AnswerOwed, Coming, At
<1>4. IInv /\ WInv => FramingKept
  BY <1>1, <1>2, <1>3 DEF FramingKept
<1> QED
  BY <1>4, WaitsInductive, PTL

\* The server never writes an answer to a connection that is reset
\* (v4l2_tcp_server.c:273): SIGPIPE does not end it.
THEOREM AckCorrect == Spec => []AckIsSafe
<1>1. IInv => AckIsSafe
  <2> SUFFICES ASSUME IInv, pc = "ack"
               PROVE  Here \notin reset
    BY DEF AckIsSafe
  <2>1. PICK c \in Client : c = Here /\ At(c)
    BY BusyClient DEF Busy
  <2> QED
    BY <2>1 DEF IInv, ClientInv
<1> QED
  BY <1>1, Inductive, PTL

-----------------------------------------------------------------------------
\* The steps that count frames are those of the promise.
LEMMA CaptureSends ==
    ASSUME IInv, NEW c \in Client, Capture(c)
    PROVE  P!SendFrame(c)
BY DEF Capture, unchangedByClient, P!SendFrame, IInv, ClientInv

LEMMA ReadConfirmedConfirms ==
    ASSUME IInv, NEW c \in Client, ReadConfirmed(c)
    PROVE  P!ConfirmFrame(c)
<1>1. /\ down[c] # <<>> /\ Head(down[c]) = 1 /\ cpc[c] = "recv"
      /\ confirmed' = [confirmed EXCEPT ![c] = @ + 1]
      /\ UNCHANGED <<sent, shown>>
  BY DEF ReadConfirmed, unchangedByClient
<1>2. shown[c] = sent[c] /\ sent[c] = confirmed[c] + 1
  BY <1>1 DEF IInv, ClientInv
<1>3. confirmed[c] \in Nat /\ confirmed \in [Client -> Nat]
  BY DEF IInv, TypeOK
<1> QED
  BY <1>1, <1>2, <1>3 DEF P!ConfirmFrame

LEMMA ShowShows ==
    ASSUME IInv, Show, shown' # shown
    PROVE  \E c \in Client : P!ShowFrame(c)
<1>1. PICK c \in Client : c = Here /\ At(c)
  BY BusyClient DEF Show, Busy
<1>2. /\ shown' = [shown EXCEPT ![c] = shown[c] + 1] /\ pc = "show"
      /\ UNCHANGED <<sent, confirmed>>
  BY <1>1 DEF Show, unchangedByServer, clientVars
<1>3. sent[c] = shown[c] + 1
  <2>1. Taken(c) = MessageLength
    BY <1>1, <1>2 DEF Taken
  <2>2. Pending(c) > 0
    BY <2>1, Numbers DEF IInv, Pending
  <2> QED
    BY <2>2 DEF IInv, ClientInv
<1>4. shown[c] \in Nat
  BY DEF IInv, TypeOK
<1>5. shown[c] < sent[c] /\ shown' = [shown EXCEPT ![c] = sent[c]]
  BY <1>2, <1>3, <1>4
<1>6. P!ShowFrame(c)
  BY <1>2, <1>5 DEF P!ShowFrame
<1> QED
  BY <1>6

LEMMA StepMaps ==
    ASSUME IInv, [Next]_vars
    PROVE  [P!PromiseNext]_(P!promiseVars)
<1> USE DEF P!promiseVars
<1>1. CASE UNCHANGED vars
  BY <1>1 DEF vars, clientVars
<1>2. ASSUME NEW c \in Client, MediaClientNext(c)
      PROVE  [P!PromiseNext]_(P!promiseVars)
  <2>1. CASE Capture(c)
    BY <2>1, CaptureSends DEF P!PromiseNext
  <2>2. CASE ReadConfirmed(c)
    BY <2>2, ReadConfirmedConfirms DEF P!PromiseNext
  <2>3. CASE Connect(c) \/ Send(c) \/ WaitReady(c)
    BY <2>3 DEF Connect, Send, WaitReady, unchangedByClient
  <2>4. CASE WaitTimeout(c) \/ Leave(c) \/ Refused(c)
    BY <2>4 DEF WaitTimeout, Leave, Refused, unchangedByClient
  <2> QED
    BY <1>2, <2>1, <2>2, <2>3, <2>4 DEF MediaClientNext, ClientStep
<1>3. CASE Server
  <2> USE DEF unchangedByServer, clientVars
  <2>1. CASE Show
    BY <2>1, ShowShows DEF Show, P!PromiseNext
  <2>2. CASE RecvType \/ RecvSize \/ RecvBody
    BY <2>2 DEF RecvType, RecvSize, RecvBody, TakeSegment
  <2>3. CASE \/ SelectReady \/ SelectFails \/ ScanEnd \/ ScanSkip
             \/ Accept \/ AcceptFails \/ RecvEnds \/ Ack \/ Cleanup
    BY <2>3 DEF SelectReady, SelectFails, ScanEnd, ScanSkip, Accept,
                AcceptFails, RecvEnds, Ack, Cleanup
  <2> QED
    BY <1>3, <2>1, <2>2, <2>3 DEF Server
<1> QED
  BY <1>1, <1>2, <1>3 DEF Next

\* The media programs implement MediaPromise: a frame is shown once at most,
\* in order, and confirmed only when it was shown (v4l2_tcp_server.c:247-283,
\* v4l2_client.c:193-221).
THEOREM PromiseCorrect == Spec => PromiseKept
<1>1. Init => P!PromiseInit
  BY DEF Init, P!PromiseInit
<1>2. IInv /\ [Next]_vars => [P!PromiseNext]_(P!promiseVars)
  BY StepMaps
<1> QED
  BY <1>1, <1>2, Inductive, PTL DEF Spec, PromiseKept, P!Promise
=============================================================================
