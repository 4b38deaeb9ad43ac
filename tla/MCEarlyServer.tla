--------------------------- MODULE MCEarlyServer ---------------------------
(* EarlyServer for TLC: the lines clients may type. *)
EXTENDS EarlyServer, TLC

CONSTANTS p1, p2, r, u

Typed(kind, arg) == [kind |-> kind, arg |-> arg]

\* A name and text, a room to join, one to add, a command without a branch,
\* a line with nothing in it.
EarlyInputs == {Typed("text", u), Typed("join", r), Typed("add", r), Typed("rm", r),
                Typed("empty", Blank)}

\* Naming, joining and talking.
ChatInputs == {Typed("text", u), Typed("join", r)}

Processes == Permutations(Pid)
=============================================================================
