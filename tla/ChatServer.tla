----------------------------- MODULE ChatServer -----------------------------
(***************************************************************************)
(* The chat server of `chat server/`: one parent (ChatParent), one child   *)
(* process per client (ChatChild), pipes and signals between them          *)
(* (ChatPipes), the parent's tables (ChatRegistry).                        *)
(***************************************************************************)
EXTENDS ChatChild, ChatParent

Init ==
    /\ pc = "top" /\ scan = 1 /\ job = NoJob /\ newPid = NoPid
    /\ active_children = <<>> /\ room_info = <<>>
    /\ parent_sigusr_arrived = FALSE /\ child_exited_flag = FALSE
    /\ cpc = [p \in Pid |-> "none"]
    /\ child_sigusr_arrived = [p \in Pid |-> FALSE]
    /\ held = [p \in Pid |-> NoLine]
    /\ heirs = [p \in Pid |-> {}]
    /\ toParent = [p \in Pid |-> <<>>] /\ toChild = [p \in Pid |-> <<>>]
    /\ ends = {} /\ term = {}
    /\ lines = 0 /\ conns = 0

Next == Parent \/ \E p \in Pid : Child(p)

Spec == Init /\ [][Next]_vars

\* Every process runs: the kernel schedules the parent and each child again
\* and again, and delivers a SIGTERM.  Nothing makes a client type, connect
\* or disconnect.
Fairness ==
    /\ WF_vars(Parent)
    /\ \A p \in Pid : WF_vars(Child(p)) /\ WF_vars(ChildTerminated(p))

FairSpec == Spec /\ Fairness

-----------------------------------------------------------------------------
TypeOK ==
    /\ pc \in ParentPc /\ scan \in Nat \ {0} /\ job \in Job
    /\ newPid \in Pid \cup {NoPid}
    /\ active_children \in Seq(Entry)
    /\ room_info \in Seq(Word) /\ Len(room_info) <= ChatRoom
    /\ parent_sigusr_arrived \in BOOLEAN /\ child_exited_flag \in BOOLEAN
    /\ cpc \in [Pid -> ChildPc]
    /\ child_sigusr_arrived \in [Pid -> BOOLEAN]
    /\ held \in [Pid -> Line]
    /\ heirs \in [Pid -> SUBSET Pid]
    /\ toParent \in [Pid -> Seq(Message)] /\ toChild \in [Pid -> Seq(Payload)]
    /\ ends \in SUBSET Pid /\ term \in SUBSET Pid
    /\ lines \in Nat /\ conns \in Nat

\* The processes that have an entry.
Listed == {active_children[k].pid : k \in 1..Len(active_children)}

\* Until wait() begins, active_children has exactly one entry for every child
\* process that is not reaped, but for the one just forked; the main loop
\* has the pipe ends of these and of no other process open; and the table
\* never overflows, so the second MAX_CLIENT test (server.c:440) is true.
RegistryExact ==
    /\ pc \notin {"wait", "down", "killed"} =>
        /\ \A j, k \in 1..Len(active_children) :
               active_children[j].pid = active_children[k].pid => j = k
        /\ \A p \in Pid : cpc[p] # "none" <=>
               p \in Listed \/ (pc = "forked" /\ p = newPid)
        /\ pc = "forked" => newPid \in Pid \ Listed
    /\ pc \notin {"term", "wait", "down", "killed"} =>
        \A p \in Pid : p \in ends <=> cpc[p] # "none"
    /\ Len(active_children) <= MaxClient
    /\ pc = "forked" => Len(active_children) < MaxClient

\* No text begins in a pipe but behind the end of another: what has no pid in
\* front is the rest of a line whose beginning lies, or lay, right before it.
Consecutive(pipe) ==
    \A k \in 2..Len(pipe) :
        pipe[k].part # 1 => /\ pipe[k - 1].no = pipe[k].no
                            /\ pipe[k - 1].part = pipe[k].part - 1

\* A line read from its beginning bears the pid of the child whose pipe it is
\* in: the search for client_idx finds the entry being scanned, and the write
\* loop works for that one.  Another sender, or the -1 that /list would use
\* as an index (server.c:204), comes only of a read that does not begin with
\* a line, and such a read is one behind a read that ended inside a line
\* (server.c:103): nothing else puts a rest at the front of a pipe.
SenderIsScanned ==
    /\ (pc = "scan" /\ scan <= Len(active_children)
            /\ toParent[EntryPid] # <<>> /\ Parsed) => Sender = scan
    /\ pc \in {"deliver", "signal"} => job.by = scan
    /\ \A p \in Pid : Consecutive(toParent[p])

\* A shutdown leaves no child out: who runs is terminated or will be, even
\* when a signal of a child ends wait() early (server.c:459-468).
ShutdownMissesNobody ==
    \A p \in Pid : Live(p) =>
        /\ pc = "term" => \/ p \in term
                          \/ \E k \in scan..Len(active_children) :
                                 active_children[k].pid = p
        /\ pc \in {"wait", "down"} => p \in term

\* kill() goes to a child that is not reaped: its pid cannot have passed to
\* another process (server.c:210, 250, 321, 355, 462); and when the server
\* shuts down it goes to every child.
KillHitsOwnChild ==
    /\ ShutdownMissesNobody
    /\ pc = "signal" => cpc[Target] # "none"
    /\ pc = "term" /\ scan <= Len(active_children) => cpc[EntryPid] # "none"

\* A client may type !whisper without a word, and user_name is then what its
\* stack slot holds, the empty string included (server.c:271-283).
BareWhisper == \E c \in Inputs : c.kind = "whisper" /\ c.arg = Blank

\* The SIGUSR1 behind a write runs the handler that sets the child's flag:
\* the child has installed it by then (clientprocess.c:8, 34), but for one
\* picked by a bare !whisper that looks for the empty name.
SignalFindsHandler ==
    pc = "signal" =>
        \/ cpc[Target] # "start"
        \/ BareWhisper /\ job.kind = "whisper" /\ job.to = NoName

\* What the parent has written to a live child is never left in the pipe
\* unannounced: the flag is up, or the signal or the read is still to come
\* (server.c:349-357 writes before it signals, clientprocess.c:36-41 clears
\* the flag before it reads).  Left lying is only what one read of a full
\* buffer left behind, and what a bare !whisper wrote to a silent child.
Announced(p) ==
    \/ child_sigusr_arrived[p]
    \/ cpc[p] \in {"read", "exit"}
    \/ pc = "signal" /\ Target = p
Leftover(pipe) == Len(pipe) + ReadMax <= PipeCap
OnlyWhispers(pipe) == \A k \in 1..Len(pipe) : pipe[k].kind = "whisper"
NoLostWakeupToChild ==
    \A p \in Pid : toChild[p] # <<>> =>
        \/ Announced(p)
        \/ Leftover(toChild[p])
        \/ BareWhisper /\ OnlyWhispers(toChild[p])

\* A client gets the lines of another in the order in which that one sent
\* them, each in the order of its pieces, and a broadcast or whispered line
\* at most once.
InOrder ==
    \A p \in Pid : \A j, k \in 1..Len(toChild[p]) :
        (j < k /\ toChild[p][j].from = toChild[p][k].from)
            => \/ toChild[p][j].no < toChild[p][k].no
               \/ /\ toChild[p][j].no = toChild[p][k].no
                  /\ \/ toChild[p][k].kind \in {"list", "users"}
                     \/ toChild[p][j].part < toChild[p][k].part

-----------------------------------------------------------------------------
\* A name, once given, stays with its client as long as it is listed,
\* whatever the reaping of others does to the table (sig.c:30-33).
EntryOf(p) == active_children[IndexOf(active_children, p)]
NamesStay ==
    [][\A p \in Listed : p \in Listed' =>
           \/ EntryOf(p)'.name = EntryOf(p).name
           \/ EntryOf(p).name = NoName]_vars

\* When /rm takes the last room of a name out of room_info, nobody is left
\* in a room of that name (server.c:166-189).
RoomNames == {room_info[k] : k \in 1..Len(room_info)}
RemovedRoomIsEmpty ==
    [][\A r \in (RoomNames \ RoomNames') \ {Blank} :
           \A k \in 1..Len(active_children') : active_children'[k].room # r]_vars

\* The tables and the pipes amount to what ChatPromise says: a member is
\* whoever has an entry (RegistryExact: one each), and shifting, evicting and
\* writing round by round look like single steps (server.c:137-358,
\* sig.c:20-40).
Members ==
    [p \in Listed |->
        LET k == CHOOSE k \in 1..Len(active_children) : active_children[k].pid = p
        IN  [name |-> active_children[k].name, room |-> active_children[k].room]]
P == INSTANCE ChatPromise WITH
         members <- Members, rooms <- RoomNames, inbox <- toChild
PromiseKept == P!Promise

-----------------------------------------------------------------------------
\* What the parent has written to a child and announced is read, or the child
\* ends, however many signals merge into one (clientprocess.c:36-41).  One
\* read takes one buffer of it: what a full buffer leaves is not announced
\* again, and lies there until the parent's next message.
MessagesReachChild ==
    \A p \in Pid : (toChild[p] # <<>> /\ Announced(p))
                       ~> (toChild[p] = <<>> \/ cpc[p] = "read")

\* The main loop comes round: no scan and no write loop keeps the parent.
LoopComesRound == pc \notin {"top", "term", "wait", "down", "killed", "astray"}
                      ~> pc \in {"top", "term", "killed", "astray"}

\* Once the loop is left, every child is terminated, and the server with it.
ShutdownCompletes == pc = "term" ~> pc = "down"

\* The signal a child sends before it writes a line makes the parent take
\* that line out of the pipe (clientprocess.c:88-89).
MessagesReachParent ==
    \A p \in Pid : (toParent[p] # <<>> /\ ParentAlive)
                       ~> \/ toParent[p] = <<>>
                          \/ pc \in {"wait", "down", "killed", "astray"}

\* A child that has ended is reaped and its entry removed (server.c:71-74).
ChildrenAreReaped ==
    \A p \in Pid : cpc[p] = "zombie" ~> cpc[p] = "none"

\* A write error while delivering is survived (server.c:350-353).
WriteErrorSurvived == pc # "killed"
=============================================================================
