-------------------------------- MODULE Gpio --------------------------------
(***************************************************************************)
(* The LED drivers of `0714/` as a whole: loading and unloading, programs  *)
(* that write and read, the timer and the switch, all at any moment.  A    *)
(* bad pointer followed in the kernel stops everything.                    *)
(***************************************************************************)
EXTENDS GpioSwitch

Init ==
    /\ driver \in Driver
    /\ module = "out"
    /\ refs = 0
    /\ led = 0
    /\ msg = Nothing
    /\ upc = [p \in Proc |-> "ready"]
    /\ held = [p \in Proc |-> Nothing]
    /\ sig = {}
    /\ task = NoProc
    /\ timer = "idle"
    /\ ledflag = 1
    /\ owner = "free"
    /\ tpc = "idle"
    /\ ipc = "idle"
    /\ ticking = FALSE
    /\ oops = FALSE

Next ==
    /\ ~oops
    /\ Loading \/ (\E p \in Proc : User(p)) \/ Timer \/ Isr

Spec == Init /\ [][Next]_vars

\* The kernel runs expired timers.
FairSpec == Spec /\ WF_vars(~oops /\ Timer)

TypeOK ==
    /\ driver \in Driver
    /\ module \in {"out", "coming", "live", "freed"}
    /\ refs \in Nat
    /\ led \in Level
    /\ msg \in Message
    /\ upc \in [Proc -> {"ready", "opened", "copy", "look", "act", "dark",
                         "task", "wrote", "read"}]
    /\ held \in [Proc -> Message]
    /\ sig \subseteq Proc
    /\ task \in Proc \cup {NoProc, Gone}
    /\ timer \in {"idle", "pending"}
    /\ ledflag \in Level
    /\ owner \in {"free", "timer", "isr"}
    /\ tpc \in {"idle", "try", "set", "unlock", "rearm"}
    /\ ipc \in {"idle", "test", "on", "again", "signal", "off", "leave"}
    /\ ticking \in BOOLEAN
    /\ oops \in BOOLEAN

\* The LED's owner is one at a time: a press that has the lock
\* (gpiotimer_module.c:74) reads the LED and sets it with no tick of the timer
\* in between.  ledflag turns over with each tick.
NoTickInPress ==
    [][driver # "irq" /\ ipc # "idle" => ledflag' = ledflag]_vars

\* After a write of "0" (gpiotimer_module.c:177) the timer stays deleted until
\* another write adds it, although its callback adds it again each time; and
\* until that write it does add it, lock or no lock.
DeletedStaysDeleted == ticking <=> timer = "pending" \/ tpc # "idle"

\* No part of the driver runs, and nothing is set to run, when it is unloaded.
\* Only the reference init_module keeps (gpiotimer_module.c:93) sees to that:
\* cleanup_module does not delete the timer.
UnloadedIsQuiet ==
    module = "out" => timer = "idle" /\ tpc = "idle" /\ ipc = "idle" /\ Open = {}

\* Every read appends to msg (gpiotimer_module.c:160), and only a write empties
\* it; as the programs write before they read, it holds one tail per process.
MsgFits == msg.tail <= Cardinality(Proc)

\* A timer once added goes on firing until a write deletes it, even when the
\* switch has the lock whenever it fires (gpiotimer_module.c:70).
BlinkGoesOn == ticking ~> (tpc = "try" \/ ~ticking \/ oops)

=============================================================================
