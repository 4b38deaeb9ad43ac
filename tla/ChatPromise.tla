---------------------------- MODULE ChatPromise ----------------------------
(***************************************************************************)
(* What the chat server of `chat server/` promises to its clients, with no *)
(* word about tables, pipes and processes: who is there, under which name, *)
(* in which room, and whose lines reach whom.                              *)
(***************************************************************************)
EXTENDS Naturals, Sequences

CONSTANTS Pid, Word, Content, NoName, Blank

VARIABLES members,      \* the clients there are, each with name and room
          rooms,        \* the names of the rooms there are
          inbox         \* what was said to a client and not yet read for it

promiseVars == <<members, rooms, inbox>>

Present  == DOMAIN members
Newcomer == [name |-> NoName, room |-> Blank]

PromiseInit ==
    /\ members = [p \in {} |-> Newcomer]
    /\ rooms = {}
    /\ inbox = [p \in Pid |-> <<>>]

Enter(p) ==
    /\ p \notin Present
    /\ members' = [q \in Present \cup {p} |->
                       IF q = p THEN Newcomer ELSE members[q]]
    /\ UNCHANGED <<rooms, inbox>>

Leave(p) ==
    /\ p \in Present
    /\ members' = [q \in Present \ {p} |-> members[q]]
    /\ UNCHANGED <<rooms, inbox>>

\* A client is named once.
TakeName(p, c) ==
    /\ p \in Present
    /\ members[p].name = NoName
    /\ members' = [members EXCEPT ![p].name = c]
    /\ UNCHANGED <<rooms, inbox>>

\* A client goes to room r, which need not be open, or to none.
GoTo(p, r) ==
    /\ p \in Present
    /\ members' = [members EXCEPT ![p].room = r]
    /\ UNCHANGED <<rooms, inbox>>

OpenRoom(r) ==
    /\ rooms' = rooms \cup {r}
    /\ UNCHANGED <<members, inbox>>

\* Everybody leaves the rooms called r; one may stay open if there were two.
CloseRoom(r) ==
    /\ members' = [p \in Present |-> IF members[p].room = r
                                     THEN [members[p] EXCEPT !.room = Blank]
                                     ELSE members[p]]
    /\ rooms' \in {rooms, rooms \ {r}}
    /\ UNCHANGED inbox

\* Answers go to the client who asked, a whisper comes from one with a name,
\* text from one with a name and in the same room.
MayHear(p, m) ==
    /\ {p, m.from} \subseteq Present
    /\ m.kind \in {"list", "users"} => m.from = p
    /\ m.kind \in {"whisper", "broadcast"} => members[m.from].name # NoName
    /\ m.kind = "broadcast" =>
           members[p].room = members[m.from].room /\ members[p].room # Blank

\* A text is told all at once, or as much of it as there is room for.
Tell(p) ==
    /\ \E k \in 1..Len(inbox'[p]) :
           LET text == SubSeq(inbox'[p], k, Len(inbox'[p]))
           IN  /\ \A j \in 1..Len(text) : MayHear(p, text[j])
               /\ inbox' = [inbox EXCEPT ![p] = @ \o text]
    /\ UNCHANGED <<members, rooms>>

\* The oldest messages are read, or all of them lost with the process.
Hear(p) ==
    /\ \E k \in 1..Len(inbox[p]) :
           inbox' = [inbox EXCEPT ![p] = SubSeq(@, k + 1, Len(@))]
    /\ UNCHANGED <<members, rooms>>

PromiseStep ==
    \/ \E p \in Pid : Enter(p) \/ Leave(p) \/ Tell(p) \/ Hear(p)
    \/ \E p \in Pid, c \in Content : TakeName(p, c)
    \/ \E p \in Pid, r \in Word : GoTo(p, r)
    \/ \E r \in Word : OpenRoom(r) \/ CloseRoom(r)

\* A step that changes nothing is a stutter anyhow; to say so first spares TLC
\* the search for one of these that it could be.
PromiseNext == UNCHANGED promiseVars \/ PromiseStep

Promise == PromiseInit /\ [][PromiseNext]_promiseVars
=============================================================================
