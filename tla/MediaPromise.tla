---------------------------- MODULE MediaPromise ----------------------------
(***************************************************************************)
(* What the media server of `0711/` promises to a camera or a microphone,  *)
(* with no word about sockets: a frame is shown at most once, the frames   *)
(* of a client are shown in order, and a client that reads a confirmation  *)
(* reads it for a frame that was shown and that it sent last.              *)
(***************************************************************************)
EXTENDS Naturals

CONSTANT Client

VARIABLES sent,         \* the number of frames a client has begun to send
          shown,        \* the number of frames of it that were shown
          confirmed     \* the number of confirmations it has read

promiseVars == <<sent, shown, confirmed>>

PromiseInit ==
    /\ sent = [c \in Client |-> 0]
    /\ shown = [c \in Client |-> 0]
    /\ confirmed = [c \in Client |-> 0]

\* A client sends the next frame when the last one is confirmed.
SendFrame(c) ==
    /\ confirmed[c] = sent[c]
    /\ sent' = [sent EXCEPT ![c] = @ + 1]
    /\ UNCHANGED <<shown, confirmed>>

ShowFrame(c) ==
    /\ shown[c] < sent[c]
    /\ shown' = [shown EXCEPT ![c] = sent[c]]
    /\ UNCHANGED <<sent, confirmed>>

ConfirmFrame(c) ==
    /\ confirmed[c] < shown[c]
    /\ confirmed' = [confirmed EXCEPT ![c] = sent[c]]
    /\ UNCHANGED <<sent, shown>>

PromiseNext == \E c \in Client : SendFrame(c) \/ ShowFrame(c) \/ ConfirmFrame(c)

Promise == PromiseInit /\ [][PromiseNext]_promiseVars
=============================================================================
