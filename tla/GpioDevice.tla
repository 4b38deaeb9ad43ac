----------------------------- MODULE GpioDevice -----------------------------
(***************************************************************************)
(* The character device of the five LED drivers of `0714/` and the two     *)
(* programs that use it.  A behaviour has one driver:                      *)
(*   "plain"     gpio_module.c, writes to mapped registers                 *)
(*   "function"  gpiofunction_module.c, the same through the gpio calls    *)
(*   "irq"       gpioirq_module.c, and a switch                            *)
(*   "timer"     gpiotimer_module.c, and a timer and a lock                *)
(*   "signal"    gpiosignal_module.c, and a signal to the last writer      *)
(* A write is memset, copy, a look at `msg`, and what it commands: other   *)
(* writers and readers of the same `msg` come in between.                  *)
(***************************************************************************)
EXTENDS Naturals, FiniteSets

CONSTANTS Proc,         \* processes that run gpio.c or catch_signal
          NoProc,       \* no process: a message without a pid, a NULL task
          Gone          \* a process that has ended: its pid, its task

ASSUME ProcAssumption ==
    IsFiniteSet(Proc) /\ NoProc \notin Proc /\ Gone \notin Proc

VARIABLES driver,       \* which of the five is loaded
          module,       \* "out", "coming", "live", or "freed" with its device left
          refs,         \* try_module_get less module_put
          led,          \* the LED's level
          msg,          \* the buffer all writers and readers share
          upc,          \* a program's place
          held,         \* the message it is to write, and then the one it read
          sig,          \* processes with a SIGIO pending
          task,         \* the process the interrupt signals
          timer,        \* "idle" or "pending"
          ledflag, owner,       \* of timer_func; the holder of led_mutex
          tpc, ipc,     \* the places in timer_func and isr_func
          ticking,      \* the last thing a write did to the timer: add it
          oops          \* the kernel followed a bad pointer

deviceVars == <<driver, module, refs>>
userVars == <<upc, held, msg, sig>>
timerVars == <<timer, ledflag, tpc, ticking>>
switchVars == <<owner, ipc>>
vars == <<deviceVars, userVars, led, timerVars, switchVars, task, oops>>

Driver == {"plain", "function", "irq", "timer", "signal"}
Switched == {"irq", "timer", "signal"}
Level == {0, 1}

\* A message: the command's first character, the pid behind the colon, and how
\* often a reader has appended " from Kernel".
Message == [cmd : {"", "0", "1"}, pid : Proc \cup {NoProc, Gone}, tail : Nat]
Nothing == [cmd |-> "", pid |-> NoProc, tail |-> 0]

\* Where a program may end: outside a call of the driver.
UserMode == {"opened", "wrote", "read"}
Open == {p \in Proc : upc[p] # "ready"}

-----------------------------------------------------------------------------
(* Loading.  The device can be opened from cdev_add on, which is before    *)
(* the registers are mapped and the switch is requested.  Where cdev_add   *)
(* fails the module goes, and its reference with it: nothing has changed.  *)

Insert(d, taken) ==
    /\ driver = d
    /\ module = "out"
    /\ module' = "coming"
    /\ refs' = refs + taken
    /\ UNCHANGED <<driver, userVars, led, timerVars, switchVars, task, oops>>

InsertPlain == Insert("plain", 1)
InsertFunction == Insert("function", 0)
InsertIrq == Insert("irq", 1)
M_InsertTimer == Insert("timer", 0)
InsertTimer == Insert("timer", 1)
InsertSignal == Insert("signal", 1)

\* gpio_direction_output(GPIO_LED, 0), and request_irq for some.
Ready(d) ==
    /\ driver = d
    /\ module = "coming"
    /\ module' = "live"
    /\ led' = 0
    /\ UNCHANGED <<driver, refs, userVars, timerVars, switchVars, task, oops>>

\* The register version leaves the LED as it is.
ReadyPlain ==
    /\ driver = "plain"
    /\ module = "coming"
    /\ module' = "live"
    /\ UNCHANGED <<driver, refs, userVars, led, timerVars, switchVars, task, oops>>
ReadyFunction == Ready("function")
ReadyIrq == Ready("irq")
ReadyTimer == Ready("timer")
ReadySignal == Ready("signal")

\* ioremap fails: init_module returns, the module is freed, its device stays,
\* and whoever has it open already runs into freed memory.
MapFails ==
    /\ driver = "plain"
    /\ module = "coming"
    /\ module' = "freed"
    /\ oops' = (Open # {})
    /\ UNCHANGED <<driver, refs, userVars, led, timerVars, switchVars, task>>

\* rmmod is refused while there are references or open files.
Remove ==
    /\ module = "live"
    /\ refs = 0
    /\ Open = {}
    /\ module' = "out"
    /\ led' = 0
    /\ UNCHANGED <<driver, refs, userVars, timerVars, switchVars, task, oops>>

-----------------------------------------------------------------------------
(* The programs: open, write, read, and for gpio.c close.                 *)

At(p, from, to) == upc[p] = from /\ upc' = [upc EXCEPT ![p] = to]

\* gpio.c writes its argument; catch_signal, which is for the signal driver,
\* its argument and its pid.
Pid(p) == IF driver = "signal" THEN p ELSE NoProc
Start(p, cmd) ==
    /\ module # "out"
    /\ At(p, "ready", "opened")
    /\ held' = [held EXCEPT ![p] = [cmd |-> cmd, pid |-> Pid(p), tail |-> 0]]
    /\ refs' = IF driver = "function" THEN refs + 1 ELSE refs
    /\ oops' = (module = "freed")
    /\ UNCHANGED <<driver, module, msg, sig, led, timerVars, switchVars, task>>

\* By its last line, by SIGIO (catch_signal's handler exits, gpio.c has none)
\* or from outside.  The file is closed.  A process started later has another
\* pid: what was said of this one is then said of nobody.
PidGone(p, m) == IF m.pid = p THEN [m EXCEPT !.pid = Gone] ELSE m
Exit(p) ==
    /\ upc[p] \in UserMode
    /\ upc' = [upc EXCEPT ![p] = "ready"]
    /\ held' = [q \in Proc |-> IF q = p THEN Nothing ELSE PidGone(p, held[q])]
    /\ msg' = PidGone(p, msg)
    /\ sig' = sig \ {p}
    /\ task' = IF task = p THEN Gone ELSE task
    /\ UNCHANGED <<driver, module, led, timerVars, switchVars, oops>>

M_End(p) == Exit(p) /\ refs' = refs - 1
End(p) == Exit(p) /\ refs' = IF driver = "function" THEN refs - 1 ELSE refs

M_WriteClear(p) ==
    /\ At(p, "opened", "copy")
    /\ UNCHANGED <<deviceVars, held, msg, sig, led, timerVars, switchVars, task, oops>>

WriteClear(p) ==
    /\ At(p, "opened", "copy")
    /\ msg' = Nothing
    /\ UNCHANGED <<deviceVars, held, sig, led, timerVars, switchVars, task, oops>>

WriteCopy(p) ==
    /\ At(p, "copy", "look")
    /\ msg' = [msg EXCEPT !.cmd = held[p].cmd, !.pid = held[p].pid]
    /\ held' = [held EXCEPT ![p] = Nothing]
    /\ UNCHANGED <<deviceVars, sig, led, timerVars, switchVars, task, oops>>

\* strcmp or kstrdup: whatever is in msg by now.
WriteLook(p) ==
    /\ At(p, "look", "act")
    /\ held' = [held EXCEPT ![p] = msg]
    /\ UNCHANGED <<deviceVars, msg, sig, led, timerVars, switchVars, task, oops>>

\* strcat, and copy_to_user of the result.
Read(p) ==
    /\ At(p, "wrote", "read")
    /\ msg' = [msg EXCEPT !.tail = @ + 1]
    /\ UNCHANGED <<deviceVars, held, sig, led, timerVars, switchVars, task, oops>>

-----------------------------------------------------------------------------
(* What a write commands, driver by driver.                                *)

\* strcmp(msg, "0") is 0 only for a lone "0"; the signal driver cuts at the colon.
SaysOff(m) == m = [cmd |-> "0", pid |-> NoProc, tail |-> 0]
CommandOff(m) == m.cmd = "0"

\* Only the signal driver still needs the message afterwards, for the pid.
Spent(p) == held' = [held EXCEPT ![p] = Nothing]
Keep(p) == IF driver = "signal" THEN UNCHANGED held ELSE Spent(p)

\* The registers are written through gpio, NULL until they are mapped.
WritePlain(p) ==
    /\ driver = "plain"
    /\ At(p, "act", "wrote")
    /\ oops' = (module = "coming")
    /\ IF module = "coming" THEN UNCHANGED led
                            ELSE led' = (IF SaysOff(held[p]) THEN 0 ELSE 1)
    /\ Spent(p)
    /\ UNCHANGED <<deviceVars, msg, sig, timerVars, switchVars, task>>

WriteFunction(p) ==
    /\ driver = "function"
    /\ At(p, "act", "wrote")
    /\ led' = (IF SaysOff(held[p]) THEN 0 ELSE 1)
    /\ Spent(p)
    /\ UNCHANGED <<deviceVars, msg, sig, timerVars, switchVars, task, oops>>

WriteIrq(p) ==
    /\ driver = "irq"
    /\ At(p, "act", "wrote")
    /\ led' = (IF SaysOff(held[p]) THEN 0 ELSE 1)
    /\ Spent(p)
    /\ UNCHANGED <<deviceVars, msg, sig, timerVars, switchVars, task, oops>>

M_DeleteTimer(p, to) ==
    /\ At(p, "act", to)
    /\ timer' = "idle"
    /\ ticking' = FALSE
    /\ Keep(p)
    /\ UNCHANGED <<deviceVars, msg, sig, led, ledflag, tpc, switchVars, task, oops>>

\* del_timer_sync waits until the callback has run, and deletes what it added.
DeleteTimer(p, to) ==
    /\ At(p, "act", to)
    /\ tpc = "idle"
    /\ timer' = "idle"
    /\ ticking' = FALSE
    /\ Keep(p)
    /\ UNCHANGED <<deviceVars, msg, sig, led, ledflag, tpc, switchVars, task, oops>>

\* timer_setup and add_timer: of a timer that is pending, they break its list.
\* On which CPU a timer runs, which timer_setup forgets, is left out.
AddTimer(p, to) ==
    /\ At(p, "act", to)
    /\ oops' = (timer = "pending")
    /\ timer' = "pending"
    /\ ticking' = TRUE
    /\ Keep(p)
    /\ UNCHANGED <<deviceVars, msg, sig, led, ledflag, tpc, switchVars, task>>

Darken(p, to) ==
    /\ At(p, "dark", to)
    /\ led' = 0
    /\ UNCHANGED <<deviceVars, held, msg, sig, timerVars, switchVars, task, oops>>

WriteTimer(p) ==
    /\ driver = "timer"
    /\ \/ SaysOff(held[p]) /\ DeleteTimer(p, "dark")
       \/ ~SaysOff(held[p]) /\ AddTimer(p, "wrote")
       \/ Darken(p, "wrote")

WriteSignal(p) ==
    /\ driver = "signal"
    /\ \/ CommandOff(held[p]) /\ DeleteTimer(p, "dark")
       \/ ~CommandOff(held[p]) /\ AddTimer(p, "task")
       \/ Darken(p, "task")

\* simple_strtol of the pid, of NULL when there was no colon; pid_task finds
\* nobody when the process has ended.
WriteTask(p) ==
    /\ At(p, "task", "wrote")
    /\ LET pid == held[p].pid
       IN  /\ oops' = (pid = NoProc)
           /\ task' = IF pid \in Open THEN pid ELSE NoProc
    /\ Spent(p)
    /\ UNCHANGED <<deviceVars, msg, sig, led, timerVars, switchVars>>

User(p) ==
    \/ \E cmd \in {"0", "1"} : Start(p, cmd)
    \/ WriteClear(p) \/ WriteCopy(p) \/ WriteLook(p)
    \/ WritePlain(p) \/ WriteFunction(p) \/ WriteIrq(p)
    \/ WriteTimer(p) \/ WriteSignal(p) \/ WriteTask(p)
    \/ Read(p) \/ End(p)

Loading ==
    \/ InsertPlain \/ InsertFunction \/ InsertIrq \/ InsertTimer \/ InsertSignal
    \/ ReadyPlain \/ ReadyFunction \/ ReadyIrq \/ ReadyTimer \/ ReadySignal
    \/ MapFails \/ Remove
=============================================================================
