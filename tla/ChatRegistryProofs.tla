------------------------- MODULE ChatRegistryProofs -------------------------
(***************************************************************************)
(* What the table operators of ChatRegistry return, for every table.       *)
(***************************************************************************)
EXTENDS ChatRegistry, SequenceTheorems, WellFoundedInduction, TLAPS

\* A search that stops at its first hit stops: the natural numbers are
\* well-ordered.
LEMMA LeastNat ==
    ASSUME NEW S \in SUBSET Nat, S # {}
    PROVE  \E m \in S : \A x \in S : m <= x
<1> DEFINE Less == {ss \in Nat \X Nat : ss[1] < ss[2]}
<1>1. IsWellFoundedOn(Less, Nat)
  BY NatLessThanWellFounded DEF OpToRel
<1>2. PICK m \in S : \A y \in S : ~(<<y, m>> \in Less)
  <2> HIDE DEF Less
  <2> QED
    BY <1>1, WFMin, Zenon
<1>3. \A y \in S : ~(y < m)
  BY <1>2
<1> QED
  BY <1>3

\* Shifting one element out leaves a table that is one shorter, whose
\* elements are the others, in their order (sig.c:30-33, server.c:180-186).
LEMMA RemoveEntryFacts ==
    ASSUME NEW S, NEW table \in Seq(S), NEW k, Len(table) > 0
    PROVE  /\ RemoveEntry(table, k) \in Seq(S)
           /\ Len(RemoveEntry(table, k)) = Len(table) - 1
           /\ \A j \in 1..(Len(table) - 1) :
                  RemoveEntry(table, k)[j] = IF j < k THEN table[j]
                                             ELSE table[j + 1]
<1> DEFINE e(j) == IF j < k THEN table[j] ELSE table[j + 1]
           n == Len(table) - 1
<1>1. n \in Nat
  BY LenProperties
<1>2. \A j \in 1..n : e(j) \in S
  BY ElementOfSeq, LenProperties
<1>3. RemoveEntry(table, k) = [j \in 1..n |-> e(j)]
  BY DEF RemoveEntry
<1> HIDE DEF e, n
<1>4. [j \in 1..n |-> e(j)] \in Seq(S)
  BY <1>1, <1>2, IsASeq
<1>5. Len([j \in 1..n |-> e(j)]) = n
  BY <1>1, <1>4
<1> QED
  BY <1>3, <1>4, <1>5 DEF e, n

\* Evicting a room keeps every entry, its process and its name, and empties
\* the room (server.c:166-176).
LEMMA EvictFacts ==
    ASSUME NEW list \in Seq(Entry), NEW r \in Word
    PROVE  /\ Evict(list, r) \in Seq(Entry)
           /\ Len(Evict(list, r)) = Len(list)
           /\ \A k \in 1..Len(list) :
                  /\ Evict(list, r)[k].pid = list[k].pid
                  /\ Evict(list, r)[k].name = list[k].name
                  /\ Evict(list, r)[k].room \in {list[k].room, Blank}
                  /\ r # Blank => Evict(list, r)[k].room # r
<1> DEFINE e(k) == IF list[k].room = r THEN [list[k] EXCEPT !.room = Blank]
                   ELSE list[k]
<1>1. Len(list) \in Nat
  BY LenProperties
<1>2. \A k \in 1..Len(list) : list[k] \in Entry
  BY ElementOfSeq
<1>3. \A k \in 1..Len(list) :
          /\ e(k) \in Entry
          /\ e(k).pid = list[k].pid /\ e(k).name = list[k].name
          /\ e(k).room \in {list[k].room, Blank}
          /\ r # Blank => e(k).room # r
  BY <1>2 DEF Entry, Word
<1>4. Evict(list, r) = [k \in 1..Len(list) |-> e(k)]
  BY DEF Evict
<1> HIDE DEF e
<1>5. [k \in 1..Len(list) |-> e(k)] \in Seq(Entry)
  BY <1>1, <1>3, IsASeq
<1> QED
  BY <1>1, <1>3, <1>4, <1>5

\* /join and /leave change the room of one entry (server.c:149-151, 217-223).
LEMMA MoveToFacts ==
    ASSUME NEW list \in Seq(Entry), NEW k \in 1..Len(list), NEW r \in Word
    PROVE  /\ MoveTo(list, k, r) \in Seq(Entry)
           /\ Len(MoveTo(list, k, r)) = Len(list)
           /\ \A j \in 1..Len(list) :
                  /\ MoveTo(list, k, r)[j].pid = list[j].pid
                  /\ MoveTo(list, k, r)[j].name = list[j].name
                  /\ MoveTo(list, k, r)[j].room = IF j = k THEN r ELSE list[j].room
<1> DEFINE new == [list[k] EXCEPT !.room = r]
<1>1. list[k] \in Entry
  BY ElementOfSeq
<1>2. /\ new \in Entry /\ new.room = r
      /\ new.pid = list[k].pid /\ new.name = list[k].name
  BY <1>1 DEF Entry
<1>3. MoveTo(list, k, r) = [list EXCEPT ![k] = new]
  BY <1>1 DEF MoveTo
<1> HIDE DEF new
<1>4. /\ [list EXCEPT ![k] = new] \in Seq(Entry)
      /\ Len([list EXCEPT ![k] = new]) = Len(list)
      /\ \A j \in 1..Len(list) : [list EXCEPT ![k] = new][j] =
              IF j = k THEN new ELSE list[j]
  BY <1>2, ExceptSeq
<1> QED
  BY <1>2, <1>3, <1>4

\* A first line names one entry (server.c:261-265).
LEMMA RenameFacts ==
    ASSUME NEW list \in Seq(Entry), NEW k \in 1..Len(list), NEW c \in Content
    PROVE  /\ Rename(list, k, c) \in Seq(Entry)
           /\ Len(Rename(list, k, c)) = Len(list)
           /\ \A j \in 1..Len(list) :
                  /\ Rename(list, k, c)[j].pid = list[j].pid
                  /\ Rename(list, k, c)[j].room = list[j].room
                  /\ Rename(list, k, c)[j].name = IF j = k THEN c ELSE list[j].name
<1> DEFINE new == [list[k] EXCEPT !.name = c]
<1>1. list[k] \in Entry
  BY ElementOfSeq
<1>2. /\ new \in Entry /\ new.name = c
      /\ new.pid = list[k].pid /\ new.room = list[k].room
  BY <1>1 DEF Entry
<1>3. Rename(list, k, c) = [list EXCEPT ![k] = new]
  BY <1>1 DEF Rename
<1> HIDE DEF new
<1>4. /\ [list EXCEPT ![k] = new] \in Seq(Entry)
      /\ Len([list EXCEPT ![k] = new]) = Len(list)
      /\ \A j \in 1..Len(list) : [list EXCEPT ![k] = new][j] =
              IF j = k THEN new ELSE list[j]
  BY <1>2, ExceptSeq
<1> QED
  BY <1>2, <1>3, <1>4

\* The search by pid: where no two entries have the same pid, it finds the
\* entry there is, and 0 if there is none (server.c:142-147).
LEMMA IndexOfFacts ==
    ASSUME NEW list \in Seq(Entry), NEW p,
           \A j, k \in 1..Len(list) : list[j].pid = list[k].pid => j = k
    PROVE  /\ \A k \in 1..Len(list) : list[k].pid = p => IndexOf(list, p) = k
           /\ (\A k \in 1..Len(list) : list[k].pid # p) => IndexOf(list, p) = 0
           /\ IndexOf(list, p) # 0 =>
                  /\ IndexOf(list, p) \in 1..Len(list)
                  /\ list[IndexOf(list, p)].pid = p
<1>1. Len(list) \in Nat
  BY LenProperties
<1>2. ASSUME NEW k \in 1..Len(list), list[k].pid = p
      PROVE  IndexOf(list, p) = k
  <2>1. {j \in 1..Len(list) : list[j].pid = p} = {k}
    BY <1>2
  <2>2. (CHOOSE i \in {k} : \A j \in {k} : i <= j) = k
    BY <1>1
  <2> QED
    BY <2>1, <2>2 DEF IndexOf
<1>3. ASSUME \A k \in 1..Len(list) : list[k].pid # p
      PROVE  IndexOf(list, p) = 0
  BY <1>3 DEF IndexOf
<1> QED
  BY <1>2, <1>3

\* The room table keeps its type and its bound (server.c:130-137, 178-189).
LEMMA RoomTableFacts ==
    ASSUME NEW rooms \in Seq(Word), NEW r \in Word, NEW limit \in Nat,
           Len(rooms) <= limit
    PROVE  /\ AddRoom(rooms, r, limit) \in Seq(Word)
           /\ Len(AddRoom(rooms, r, limit)) <= limit
           /\ RemoveRoom(rooms, r) \in Seq(Word)
           /\ Len(RemoveRoom(rooms, r)) <= limit
<1>1. Len(rooms) \in Nat
  BY LenProperties
<1>2. /\ AddRoom(rooms, r, limit) \in Seq(Word)
      /\ Len(AddRoom(rooms, r, limit)) <= limit
  BY <1>1, AppendProperties DEF AddRoom
<1> DEFINE At == {k \in 1..Len(rooms) : rooms[k] = r}
<1>3. CASE At = {}
  BY <1>2, <1>3 DEF RemoveRoom
<1>4. CASE At # {}
  <2> DEFINE first == CHOOSE k \in At : \A j \in At : k <= j
  <2>1. Len(rooms) > 0
    BY <1>1, <1>4
  <2>2. RemoveRoom(rooms, r) = RemoveEntry(rooms, first)
    BY <1>4 DEF RemoveRoom
  <2> HIDE DEF first
  <2>3. /\ RemoveEntry(rooms, first) \in Seq(Word)
        /\ Len(RemoveEntry(rooms, first)) = Len(rooms) - 1
    BY <2>1, RemoveEntryFacts
  <2> QED
    BY <1>1, <1>2, <2>2, <2>3
<1> QED
  BY <1>3, <1>4
=============================================================================
