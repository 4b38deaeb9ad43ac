---------------------------- MODULE MCChatServer ----------------------------
(* ChatServer for TLC: the lines clients may type in each run. *)
EXTENDS ChatServer, TLC

CONSTANTS p1, p2, r, u

In(kind, arg) == [kind |-> kind, arg |-> arg]

\* Naming, joining and talking.
TalkInputs == {In("text", u), In("join", r)}
\* A name or text, the commands that change a table, /list, lines that are none.
RoomInputs == {In("text", u), In("add", r), In("join", r), In("rm", r),
               In("list", Blank), In("leave", Blank), In("slash", Blank),
               In("bang", Blank)}
\* Lines that can be a name; the commands that write to a client.
AskInputs == {In("text", u), In("users", Blank), In("whisper", u)}

Processes == Permutations(Pid)
=============================================================================
