---------------------------- MODULE ChatRegistry ----------------------------
(***************************************************************************)
(* The parent's two tables of `chat server/server.c`: active_children (one *)
(* entry per client-serving child process) and room_info (the chat rooms), *)
(* and what the command handlers do to them.  A table is a sequence: its   *)
(* length is num_active_children or room_num, and entry k of the sequence  *)
(* is the C entry k-1.  Slots above the counters are never read, so they   *)
(* have no counterpart here, and isActive is TRUE of every entry kept.     *)
(***************************************************************************)
EXTENDS Integers, Sequences

CONSTANTS Pid,        \* process ids the kernel gives to children
          Token,      \* the words clients type as room and user names
          Blank       \* the empty string, "" (no argument, no room)

ASSUME BlankAssumption == Blank \notin Token

Word == Token \cup {Blank}

\* What a line of input is to the parent: the command check_command finds
\* behind '/' or '!', or plain text, and the word that follows it.  "slash"
\* and "bang" are lines that begin with '/' or '!' and match no command;
\* "empty" is no text at all, what a line that begins with '\0' comes to.
Slashed == {"add", "join", "rm", "list", "users", "leave", "slash"}
Banged  == {"whisper", "bang"}
Kind    == Slashed \cup Banged \cup {"text", "empty"}
Content == [kind : Kind, arg : Word]

\* A user name is the whole first line that is not a '/' command; the empty
\* line is the empty name that memset leaves in a new entry.
NoName == [kind |-> "text", arg |-> Blank]
Entry  == [pid : Pid, name : Content, room : Word]

-----------------------------------------------------------------------------
\* Seeded faults.  An operator named M_... is a definition with a plausible
\* bug in it; nothing uses it here, a property is checked to notice it.
\* A search that stops before the last entry.
M_IndexOf(list, p) ==
    LET At == {k \in 1..(Len(list) - 1) : list[k].pid = p}
    IN  IF At = {} THEN 0 ELSE CHOOSE k \in At : \A j \in At : k <= j

\* The loops `for k ...: if (active_children[k].pid == from_who) break`: the
\* first entry of process p, or 0 where the code leaves client_idx at -1.
IndexOf(list, p) ==
    LET At == {k \in 1..Len(list) : list[k].pid = p}
    IN  IF At = {} THEN 0 ELSE CHOOSE k \in At : \A j \in At : k <= j

\* The entry a successful accept() and fork() append.
NewEntry(p) == [pid |-> p, name |-> NoName, room |-> Blank]

\* An entry that stays, n-- without the shift, and a shift that starts one
\* entry late.
M_RemoveNothing(table, k) == table
M_RemoveLast(table, k) == SubSeq(table, 1, Len(table) - 1)
M_RemoveNext(table, k) ==
    [j \in 1..(Len(table) - 1) |-> IF j <= k THEN table[j] ELSE table[j + 1]]

\* table[j] = table[j+1] for j = k .. n-2, then n--.
RemoveEntry(table, k) ==
    [j \in 1..(Len(table) - 1) |-> IF j < k THEN table[j] ELSE table[j + 1]]

\* strncpy into room_name of entry k: /join r, and /leave with r = "".
MoveTo(list, k, r) == [list EXCEPT ![k].room = r]

\* strncpy into name of entry k.
Rename(list, k, c) == [list EXCEPT ![k].name = c]

\* A loop that stops before the last entry.
M_Evict(list, r) ==
    [k \in 1..Len(list) |-> IF list[k].room = r /\ k < Len(list)
                            THEN [list[k] EXCEPT !.room = Blank]
                            ELSE list[k]]

\* /rm r, first loop: everybody whose room is r is put out of it.
Evict(list, r) ==
    [k \in 1..Len(list) |-> IF list[k].room = r
                            THEN [list[k] EXCEPT !.room = Blank]
                            ELSE list[k]]

\* /rm r, second loop: the first room called r is shifted out.
RemoveRoom(rooms, r) ==
    LET At == {k \in 1..Len(rooms) : rooms[k] = r}
    IN  IF At = {} THEN rooms
        ELSE RemoveEntry(rooms, CHOOSE k \in At : \A j \in At : k <= j)

\* A limit that is off by one.
M_AddRoom(rooms, r, limit) ==
    IF Len(rooms) <= limit THEN Append(rooms, r) ELSE rooms

\* /add r: no check for a room of that name; a full table drops the request.
AddRoom(rooms, r, limit) ==
    IF Len(rooms) < limit THEN Append(rooms, r) ELSE rooms
=============================================================================
