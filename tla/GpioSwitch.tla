----------------------------- MODULE GpioSwitch -----------------------------
(***************************************************************************)
(* timer_func and isr_func of the drivers in `0714/`.  Both try led_mutex  *)
(* and give up when it is held; neither of the writes of GpioDevice tries. *)
(***************************************************************************)
EXTENDS GpioDevice

frame == <<deviceVars, userVars>>

-----------------------------------------------------------------------------
(* timer_func: set the LED to ledflag if the lock is free, and come again. *)

TimerFire ==
    /\ timer = "pending"
    /\ tpc = "idle"
    /\ timer' = "idle"
    /\ tpc' = "try"
    /\ UNCHANGED <<frame, led, ledflag, ticking, switchVars, task, oops>>

M_TimerTry ==
    /\ tpc = "try"
    /\ owner' = "timer"
    /\ tpc' = "set"
    /\ UNCHANGED <<frame, led, timer, ledflag, ticking, ipc, task, oops>>

M_TimerTryOnce ==
    /\ tpc = "try"
    /\ IF owner = "free" THEN owner' = "timer" /\ tpc' = "set"
                         ELSE tpc' = "idle" /\ UNCHANGED owner
    /\ UNCHANGED <<frame, led, timer, ledflag, ticking, ipc, task, oops>>

TimerTry ==
    /\ tpc = "try"
    /\ IF owner = "free" THEN owner' = "timer" /\ tpc' = "set"
                         ELSE tpc' = "rearm" /\ UNCHANGED owner
    /\ UNCHANGED <<frame, led, timer, ledflag, ticking, ipc, task, oops>>

TimerSet ==
    /\ tpc = "set"
    /\ led' = ledflag
    /\ ledflag' = 1 - ledflag
    /\ tpc' = "unlock"
    /\ UNCHANGED <<frame, timer, ticking, switchVars, task, oops>>

TimerUnlock ==
    /\ tpc = "unlock"
    /\ owner' = "free"
    /\ tpc' = "rearm"
    /\ UNCHANGED <<frame, led, timer, ledflag, ticking, ipc, task, oops>>

\* mod_timer works on a timer a write has added meanwhile, too.
TimerRearm ==
    /\ tpc = "rearm"
    /\ timer' = "pending"
    /\ tpc' = "idle"
    /\ UNCHANGED <<frame, led, ledflag, ticking, switchVars, task, oops>>

Timer == TimerFire \/ TimerTry \/ TimerSet \/ TimerUnlock \/ TimerRearm

-----------------------------------------------------------------------------
(* isr_func: a press of the switch, requested when the driver is ready.    *)
(* It reads the LED twice, once for each branch.                           *)

IsrAt(from, to) == ipc = from /\ ipc' = to

Pressed ==
    /\ IsrAt("idle", "test")
    /\ module = "live"
    /\ UNCHANGED <<frame, led, timerVars, task, oops>>

\* The first switch driver has no lock.
PressUnlocked ==
    /\ driver = "irq"
    /\ Pressed
    /\ UNCHANGED owner

\* A press that finds the lock taken is lost.
PressLocked ==
    /\ driver \in {"timer", "signal"}
    /\ owner = "free"
    /\ owner' = "isr"
    /\ Pressed

IsrTestOff ==
    /\ IsrAt("test", IF led = 0 THEN "on" ELSE "again")
    /\ UNCHANGED <<frame, led, timerVars, owner, task, oops>>

IsrOn ==
    /\ IsrAt("on", "leave")
    /\ led' = 1
    /\ UNCHANGED <<frame, timerVars, owner, task, oops>>

IsrTestOn ==
    /\ IsrAt("again", CASE led = 0 -> "leave"
                        [] led = 1 /\ driver = "signal" -> "signal"
                        [] led = 1 /\ driver # "signal" -> "off")
    /\ UNCHANGED <<frame, led, timerVars, owner, task, oops>>

\* send_sig_info through a pointer that may be NULL or to a task that is gone.
IsrSignal ==
    /\ IsrAt("signal", "off")
    /\ oops' = (task \notin Open)
    /\ sig' = sig \cup ({task} \cap Open)
    /\ UNCHANGED <<deviceVars, upc, held, msg, led, timerVars, owner, task>>

IsrOff ==
    /\ IsrAt("off", "leave")
    /\ led' = 0
    /\ UNCHANGED <<frame, timerVars, owner, task, oops>>

IsrLeave ==
    /\ IsrAt("leave", "idle")
    /\ owner' = IF driver = "irq" THEN owner ELSE "free"
    /\ UNCHANGED <<frame, led, timerVars, task, oops>>

Isr == \/ PressUnlocked \/ PressLocked \/ IsrTestOff \/ IsrOn
       \/ IsrTestOn \/ IsrSignal \/ IsrOff \/ IsrLeave
=============================================================================
