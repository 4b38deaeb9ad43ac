----------------------------- MODULE GpioProofs -----------------------------
(***************************************************************************)
(* Theorems about the LED drivers: for any number of processes, whichever  *)
(* driver is loaded.                                                       *)
(***************************************************************************)
EXTENDS Gpio, FiniteSetTheorems, TLAPS

\* Whoever is between trylock and unlock is the lock's owner.
LockInv ==
    /\ tpc \in {"set", "unlock"} => owner = "timer"
    /\ driver # "irq" /\ ipc # "idle" => owner = "isr"

\* init_module's reference for four drivers, one for each open file for the other.
RefsInv ==
    /\ driver = "function" => refs = Cardinality(Open)
    /\ driver # "function" => refs = IF module = "out" THEN 0 ELSE 1

\* Only two drivers have a timer, only three a switch.
PartsInv ==
    /\ timer = "pending" \/ tpc # "idle" => driver \in {"timer", "signal"}
    /\ ipc # "idle" => driver \in Switched

IInv == TypeOK /\ LockInv /\ RefsInv /\ PartsInv
          /\ DeletedStaysDeleted /\ UnloadedIsQuiet

-----------------------------------------------------------------------------
(* Open files.                                                             *)

LEMMA OpenFinite == IsFiniteSet(Open) /\ Cardinality(Open) \in Nat
  BY ProcAssumption, FS_Subset, FS_CardinalityType DEF Open

\* A program that stays open, or starts, or ends, as far as Open goes.
LEMMA OpenSame ==
  ASSUME TypeOK, NEW p \in Proc, NEW from, NEW to,
         At(p, from, to), from # "ready", to # "ready"
  PROVE  Open' = Open /\ p \in Open
<1>1. \A q \in Proc : upc'[q] # "ready" <=> upc[q] # "ready"
  BY DEF TypeOK, At
<1>2. QED
  BY <1>1 DEF Open, At

LEMMA OpenStart ==
  ASSUME TypeOK, NEW p \in Proc, At(p, "ready", "opened")
  PROVE  Open' = Open \cup {p} /\ Cardinality(Open') = Cardinality(Open) + 1
<1>1. p \notin Open
  BY DEF Open, At
<1>2. Open' = Open \cup {p}
  BY DEF Open, At, TypeOK
<1>3. QED
  BY <1>1, <1>2, OpenFinite, FS_AddElement

LEMMA OpenEnd ==
  ASSUME TypeOK, NEW p \in Proc, upc[p] \in UserMode,
         upc' = [upc EXCEPT ![p] = "ready"]
  PROVE  Open' = Open \ {p} /\ Cardinality(Open') = Cardinality(Open) - 1
         /\ Cardinality(Open) > 0 /\ p \in Open
<1>1. p \in Open
  BY DEF Open, UserMode
<1>2. Open' = Open \ {p}
  BY DEF Open, TypeOK
<1>3. Cardinality(Open') = Cardinality(Open) - 1
  BY <1>1, <1>2, OpenFinite, FS_RemoveElement
<1>4. Cardinality(Open) > 0
  BY <1>1, OpenFinite, FS_EmptySet
<1>5. QED
  BY <1>1, <1>2, <1>3, <1>4

-----------------------------------------------------------------------------
(* Loading and unloading.                                                  *)

LEMMA InsertStep ==
  ASSUME IInv, NEW d \in Driver, NEW taken \in {0, 1},
         taken = IF d = "function" THEN 0 ELSE 1, Insert(d, taken)
  PROVE  IInv'
<1> USE DEF Insert, userVars, timerVars, switchVars
<1>1. TypeOK'
  BY DEF IInv, TypeOK
<1>2. Open' = Open
  BY DEF Open
<1>3. LockInv' /\ PartsInv' /\ DeletedStaysDeleted' /\ UnloadedIsQuiet'
  BY DEF IInv, LockInv, PartsInv, DeletedStaysDeleted, UnloadedIsQuiet
<1>4. RefsInv'
  BY <1>2, OpenFinite DEF IInv, RefsInv
<1>5. QED
  BY <1>1, <1>3, <1>4 DEF IInv

LEMMA LoadedStep ==
  ASSUME IInv, module' \in {"live", "freed"}, module = "coming", led' \in Level,
         oops' \in BOOLEAN,
         UNCHANGED <<driver, refs, userVars, timerVars, switchVars, task>>
  PROVE  IInv'
<1> USE DEF userVars, timerVars, switchVars
<1>1. TypeOK'
  BY DEF IInv, TypeOK
<1>2. Open' = Open
  BY DEF Open
<1>3. LockInv' /\ PartsInv' /\ DeletedStaysDeleted' /\ UnloadedIsQuiet'
  BY DEF IInv, LockInv, PartsInv, DeletedStaysDeleted, UnloadedIsQuiet
<1>4. RefsInv'
  BY <1>2 DEF IInv, RefsInv
<1>5. QED
  BY <1>1, <1>3, <1>4 DEF IInv

\* Only a driver without a reference of its own can be removed: it has no timer.
LEMMA RemoveStep ==
  ASSUME IInv, Remove
  PROVE  IInv'
<1> USE DEF Remove, userVars, timerVars, switchVars
<1>1. TypeOK'
  BY DEF IInv, TypeOK, Level
<1>2. Open' = Open
  BY DEF Open
<1>3. driver = "function"
  BY DEF IInv, RefsInv
<1>4. LockInv' /\ PartsInv' /\ DeletedStaysDeleted'
  BY DEF IInv, LockInv, PartsInv, DeletedStaysDeleted
<1>5. UnloadedIsQuiet'
  BY <1>2, <1>3 DEF IInv, TypeOK, PartsInv, Switched, UnloadedIsQuiet
<1>6. RefsInv'
  BY <1>2, <1>3 DEF IInv, RefsInv
<1>7. QED
  BY <1>1, <1>4, <1>5, <1>6 DEF IInv

LEMMA LoadingStep ==
  ASSUME IInv, Loading
  PROVE  IInv'
<1>1. CASE InsertPlain \/ InsertFunction \/ InsertIrq \/ InsertTimer \/ InsertSignal
  <2>1. PICK d \in Driver, taken \in {0, 1} :
          taken = (IF d = "function" THEN 0 ELSE 1) /\ Insert(d, taken)
    BY <1>1 DEF InsertPlain, InsertFunction, InsertIrq, InsertTimer, InsertSignal, Driver
  <2>2. QED
    BY <2>1, InsertStep
<1>2. CASE ReadyPlain
  <2>1. led' \in Level /\ oops' \in BOOLEAN
    BY <1>2 DEF ReadyPlain, IInv, TypeOK
  <2>2. QED
    BY <1>2, <2>1, LoadedStep DEF ReadyPlain
<1>3. CASE ReadyFunction \/ ReadyIrq \/ ReadyTimer \/ ReadySignal
  <2>1. PICK d \in Driver : Ready(d)
    BY <1>3 DEF ReadyFunction, ReadyIrq, ReadyTimer, ReadySignal, Driver
  <2>2. led' \in Level /\ oops' \in BOOLEAN
    BY <2>1 DEF Ready, IInv, TypeOK, Level
  <2>3. QED
    BY <2>1, <2>2, LoadedStep DEF Ready
<1>4. CASE MapFails
  <2>1. led' \in Level /\ oops' \in BOOLEAN
    BY <1>4 DEF MapFails, IInv, TypeOK
  <2>2. QED
    BY <1>4, <2>1, LoadedStep DEF MapFails
<1>5. CASE Remove
  BY <1>5, RemoveStep
<1>6. QED
  BY <1>1, <1>2, <1>3, <1>4, <1>5 DEF Loading

-----------------------------------------------------------------------------
(* The programs.                                                           *)

LEMMA StartStep ==
  ASSUME IInv, NEW p \in Proc, NEW cmd \in {"0", "1"}, Start(p, cmd)
  PROVE  IInv'
<1> USE DEF Start, timerVars, switchVars
<1>1. TypeOK'
  <2>1. oops' \in BOOLEAN
    OBVIOUS
  <2>2. [cmd |-> cmd, pid |-> Pid(p), tail |-> 0] \in Message
    BY DEF Message, Pid
  <2>3. held' \in [Proc -> Message] /\ upc'[p] = "opened"
    BY <2>2 DEF IInv, TypeOK, At
  <2>4. refs' \in Nat
    BY DEF IInv, TypeOK
  <2>5. QED
    BY <2>1, <2>3, <2>4 DEF IInv, TypeOK, At
<1>2. LockInv' /\ PartsInv' /\ DeletedStaysDeleted' /\ UnloadedIsQuiet'
  BY DEF IInv, LockInv, PartsInv, DeletedStaysDeleted, UnloadedIsQuiet
<1>3. RefsInv'
  BY OpenStart, OpenFinite DEF IInv, RefsInv
<1>4. QED
  BY <1>1, <1>2, <1>3 DEF IInv

LEMMA PidGoneType ==
  ASSUME NEW p \in Proc, NEW m \in Message
  PROVE  PidGone(p, m) \in Message
  BY DEF PidGone, Message

LEMMA EndStep ==
  ASSUME IInv, NEW p \in Proc, End(p)
  PROVE  IInv'
<1> USE DEF End, Exit, timerVars, switchVars
<1>1. /\ Open' = Open \ {p}
      /\ Cardinality(Open') = Cardinality(Open) - 1
      /\ Cardinality(Open) > 0
      /\ p \in Open
  BY OpenEnd DEF IInv
<1>2. refs' \in Nat
  BY <1>1, OpenFinite DEF IInv, TypeOK, RefsInv
<1>3. TypeOK'
  <2>1. Nothing \in Message
    BY DEF Nothing, Message
  <2>2. held' \in [Proc -> Message] /\ msg' \in Message
    BY <2>1, PidGoneType DEF IInv, TypeOK
  <2>3. QED
    BY <1>2, <2>2 DEF IInv, TypeOK
<1>4. LockInv' /\ PartsInv' /\ DeletedStaysDeleted' /\ UnloadedIsQuiet'
  BY <1>1 DEF IInv, LockInv, PartsInv, DeletedStaysDeleted, UnloadedIsQuiet
<1>5. RefsInv'
  BY <1>1 DEF IInv, RefsInv
<1>6. QED
  BY <1>3, <1>4, <1>5 DEF IInv

\* A step of a call: the program stays in the driver or comes back from it, and
\* touches neither the lock nor, unless it adds or deletes it, the timer.
Called(p) ==
    \E from \in {"opened", "copy", "look", "act", "dark", "task", "wrote"},
       to \in {"copy", "look", "act", "dark", "task", "wrote", "read"} : At(p, from, to)
CallTypes ==
    /\ held' \in [Proc -> Message]
    /\ msg' \in Message
    /\ led' \in Level
    /\ task' \in Proc \cup {NoProc, Gone}
    /\ oops' \in BOOLEAN
CallFrame == UNCHANGED <<deviceVars, sig, ledflag, tpc, switchVars>>
TimerMove ==
    \/ UNCHANGED <<timer, ticking>>
    \/ /\ driver \in {"timer", "signal"}
       /\ \/ timer' = "pending" /\ ticking' = TRUE
          \/ timer' = "idle" /\ tpc = "idle" /\ ticking' = FALSE

LEMMA CallStep ==
  ASSUME IInv, NEW p \in Proc, Called(p), CallTypes, CallFrame, TimerMove
  PROVE  IInv'
<1> USE DEF CallFrame, deviceVars, switchVars
<1>1. timer' \in {"idle", "pending"} /\ ticking' \in BOOLEAN
  BY DEF IInv, TypeOK, TimerMove
<1>2. PICK from \in {"opened", "copy", "look", "act", "dark", "task", "wrote"},
           to \in {"copy", "look", "act", "dark", "task", "wrote", "read"} : At(p, from, to)
  BY DEF Called
<1>3. TypeOK'
  BY <1>1, <1>2 DEF IInv, TypeOK, At, CallTypes
<1>4. Open' = Open /\ p \in Open
  BY <1>2, OpenSame DEF IInv
<1>5. LockInv' /\ PartsInv' /\ DeletedStaysDeleted'
  BY DEF IInv, LockInv, PartsInv, DeletedStaysDeleted, TimerMove
<1>6. UnloadedIsQuiet'
  BY <1>4 DEF IInv, UnloadedIsQuiet
<1>7. RefsInv'
  BY <1>4 DEF IInv, RefsInv
<1>8. QED
  BY <1>3, <1>5, <1>6, <1>7 DEF IInv

LEMMA MessageType ==
  ASSUME NEW m \in Message, NEW n \in Message
  PROVE  /\ [m EXCEPT !.cmd = n.cmd, !.pid = n.pid] \in Message
         /\ [m EXCEPT !.tail = @ + 1] \in Message
<1>1. [m EXCEPT !.cmd = n.cmd, !.pid = n.pid] \in Message
  BY DEF Message
<1>2. [m EXCEPT !.tail = @ + 1] \in Message
  <2>1. \A k \in Nat : [m EXCEPT !.tail = k] \in Message
    BY DEF Message
  <2>2. m.tail \in Nat
    BY DEF Message
  <2>3. QED
    BY <2>1, <2>2
<1>3. QED
  BY <1>1, <1>2

LEMMA MessageStep ==
  ASSUME IInv, NEW p \in Proc,
         WriteClear(p) \/ WriteCopy(p) \/ WriteLook(p) \/ Read(p)
  PROVE  IInv'
<1>1. Nothing \in Message /\ msg \in Message /\ held \in [Proc -> Message]
  BY DEF Nothing, Message, IInv, TypeOK
<1>2. [msg EXCEPT !.cmd = held[p].cmd, !.pid = held[p].pid] \in Message
  BY <1>1, MessageType
<1>3. [msg EXCEPT !.tail = @ + 1] \in Message
  BY <1>1, MessageType
<1>4. held' \in [Proc -> Message] /\ msg' \in Message
  BY <1>1, <1>2, <1>3 DEF WriteClear, WriteCopy, WriteLook, Read
<1>5. Called(p) /\ CallFrame /\ TimerMove
  BY DEF WriteClear, WriteCopy, WriteLook, Read, Called, CallFrame, TimerMove, timerVars
<1>6. CallTypes
  BY <1>4 DEF CallTypes, IInv, TypeOK, WriteClear, WriteCopy, WriteLook, Read
<1>7. QED
  BY <1>5, <1>6, CallStep

LEMMA HeldType ==
  ASSUME TypeOK, NEW p \in Proc, Spent(p) \/ Keep(p)
  PROVE  held' \in [Proc -> Message]
<1>1. Nothing \in Message
  BY DEF Nothing, Message
<1>2. QED
  BY <1>1 DEF TypeOK, Spent, Keep

LEMMA LedStep ==
  ASSUME IInv, NEW p \in Proc, WritePlain(p) \/ WriteFunction(p) \/ WriteIrq(p)
  PROVE  IInv'
<1>1. Spent(p)
  BY DEF WritePlain, WriteFunction, WriteIrq
<1>2. held' \in [Proc -> Message]
  BY <1>1, HeldType DEF IInv
<1>3. oops' \in BOOLEAN /\ led' \in Level
  BY DEF WritePlain, WriteFunction, WriteIrq, IInv, TypeOK, Level
<1>4. CallTypes
  BY <1>2, <1>3 DEF CallTypes, WritePlain, WriteFunction, WriteIrq, IInv, TypeOK
<1>5. Called(p) /\ CallFrame /\ TimerMove
  BY DEF WritePlain, WriteFunction, WriteIrq, Called, CallFrame, TimerMove, timerVars
<1>6. QED
  BY <1>4, <1>5, CallStep

LEMMA DeleteStep ==
  ASSUME IInv, NEW p \in Proc, DeleteTimer(p, "dark"), driver \in {"timer", "signal"}
  PROVE  IInv'
<1>1. held' \in [Proc -> Message]
  BY HeldType DEF IInv, DeleteTimer
<1>2. CallTypes
  BY <1>1 DEF CallTypes, DeleteTimer, IInv, TypeOK
<1>3. Called(p) /\ CallFrame /\ TimerMove
  BY DEF DeleteTimer, Called, CallFrame, TimerMove
<1>4. QED
  BY <1>2, <1>3, CallStep

LEMMA AddStep ==
  ASSUME IInv, NEW p \in Proc, NEW to \in {"wrote", "task"}, AddTimer(p, to),
         driver \in {"timer", "signal"}
  PROVE  IInv'
<1>1. held' \in [Proc -> Message]
  BY HeldType DEF IInv, AddTimer
<1>2. oops' \in BOOLEAN
  BY DEF AddTimer
<1>3. CallTypes
  BY <1>1, <1>2 DEF CallTypes, AddTimer, IInv, TypeOK
<1>4. Called(p) /\ CallFrame /\ TimerMove
  BY DEF AddTimer, Called, CallFrame, TimerMove
<1>5. QED
  BY <1>3, <1>4, CallStep

LEMMA DarkStep ==
  ASSUME IInv, NEW p \in Proc, NEW to \in {"wrote", "task"}, Darken(p, to)
  PROVE  IInv'
<1>1. CallTypes
  BY DEF CallTypes, Darken, IInv, TypeOK, Level
<1>2. Called(p) /\ CallFrame /\ TimerMove
  BY DEF Darken, Called, CallFrame, TimerMove, timerVars
<1>3. QED
  BY <1>1, <1>2, CallStep

LEMMA TaskStep ==
  ASSUME IInv, NEW p \in Proc, WriteTask(p)
  PROVE  IInv'
<1>1. held' \in [Proc -> Message]
  BY HeldType DEF IInv, WriteTask
<1>2. oops' \in BOOLEAN
  BY DEF WriteTask
<1>3. task' \in Proc \cup {NoProc, Gone}
  BY DEF WriteTask, Open
<1>4. CallTypes
  BY <1>1, <1>2, <1>3 DEF CallTypes, WriteTask, IInv, TypeOK
<1>5. Called(p) /\ CallFrame /\ TimerMove
  BY DEF WriteTask, Called, CallFrame, TimerMove, timerVars
<1>6. QED
  BY <1>4, <1>5, CallStep

LEMMA UserStep ==
  ASSUME IInv, NEW p \in Proc, User(p)
  PROVE  IInv'
<1>1. CASE \E cmd \in {"0", "1"} : Start(p, cmd)
  BY <1>1, StartStep
<1>2. CASE WriteClear(p) \/ WriteCopy(p) \/ WriteLook(p) \/ Read(p)
  BY <1>2, MessageStep
<1>3. CASE WritePlain(p) \/ WriteFunction(p) \/ WriteIrq(p)
  BY <1>3, LedStep
<1>4. CASE WriteTimer(p)
  BY <1>4, DeleteStep, AddStep, DarkStep DEF WriteTimer
<1>5. CASE WriteSignal(p)
  BY <1>5, DeleteStep, AddStep, DarkStep DEF WriteSignal
<1>6. CASE WriteTask(p)
  BY <1>6, TaskStep
<1>7. CASE End(p)
  BY <1>7, EndStep
<1>8. QED
  BY <1>1, <1>2, <1>3, <1>4, <1>5, <1>6, <1>7 DEF User

-----------------------------------------------------------------------------
(* The timer and the switch.                                               *)

LEMMA TimerStep ==
  ASSUME IInv, Timer
  PROVE  IInv'
<1> USE DEF frame, deviceVars, userVars, switchVars
<1>1. TypeOK'
  BY DEF IInv, TypeOK, Timer, TimerFire, TimerTry, TimerSet, TimerUnlock, TimerRearm, Level
<1>2. Open' = Open
  BY DEF Open, Timer, TimerFire, TimerTry, TimerSet, TimerUnlock, TimerRearm
<1>3. timer # "idle" \/ tpc # "idle"
  BY DEF Timer, TimerFire, TimerTry, TimerSet, TimerUnlock, TimerRearm
<1>4. driver \in {"timer", "signal"} /\ ticking /\ module # "out"
  BY <1>3 DEF IInv, TypeOK, PartsInv, DeletedStaysDeleted, UnloadedIsQuiet
<1>5. UNCHANGED <<driver, module, refs, ticking, ipc>>
  BY DEF Timer, TimerFire, TimerTry, TimerSet, TimerUnlock, TimerRearm
<1>6. LockInv'
  BY <1>4 DEF IInv, TypeOK, LockInv, Timer, TimerFire, TimerTry, TimerSet, TimerUnlock, TimerRearm
<1>7. PartsInv' /\ UnloadedIsQuiet'
  BY <1>4, <1>5 DEF IInv, PartsInv, UnloadedIsQuiet
<1>8. DeletedStaysDeleted'
  <2>1. timer' = "pending" \/ tpc' # "idle"
    BY <1>3 DEF Timer, TimerFire, TimerTry, TimerSet, TimerUnlock, TimerRearm
  <2>2. QED
    BY <1>4, <1>5, <2>1 DEF DeletedStaysDeleted
<1>9. RefsInv'
  BY <1>2, <1>5 DEF IInv, RefsInv
<1>10. QED
  BY <1>1, <1>6, <1>7, <1>8, <1>9 DEF IInv

LEMMA IsrStep ==
  ASSUME IInv, Isr
  PROVE  IInv'
<1> DEFINE Rest == IsrTestOff \/ IsrOn \/ IsrTestOn \/ IsrSignal \/ IsrOff \/ IsrLeave
<1> USE DEF frame, deviceVars, userVars, timerVars
<1>1. /\ UNCHANGED <<driver, module, refs, upc, timer, tpc, ticking>>
      /\ UNCHANGED <<msg, held, task, ledflag>>
  BY DEF Isr, PressUnlocked, PressLocked, Pressed, IsrTestOff, IsrOn, IsrTestOn,
         IsrSignal, IsrOff, IsrLeave
<1>2. /\ driver \in Switched /\ module # "out"
      /\ ipc' \in {"idle", "test", "on", "again", "signal", "off", "leave"}
      /\ led' \in Level /\ sig' \subseteq Proc
  BY DEF Isr, PressUnlocked, PressLocked, Pressed, IsrTestOff, IsrOn, IsrTestOn,
         IsrSignal, IsrOff, IsrLeave, IsrAt, IInv, TypeOK, PartsInv, UnloadedIsQuiet,
         Switched, Level, Open
<1>3. oops' \in BOOLEAN
  BY DEF Isr, PressUnlocked, PressLocked, Pressed, IsrTestOff, IsrOn, IsrTestOn,
         IsrSignal, IsrOff, IsrLeave, IInv, TypeOK
<1>4. owner' \in {"free", "timer", "isr"} /\ LockInv'
  <2>1. CASE PressUnlocked \/ PressLocked
    BY <1>1, <2>1 DEF PressUnlocked, PressLocked, Pressed, IsrAt, IInv, TypeOK, LockInv
  <2>2. CASE Rest
    BY <1>1, <2>2 DEF IsrTestOff, IsrOn, IsrTestOn, IsrSignal, IsrOff, IsrLeave,
         IsrAt, IInv, TypeOK, LockInv
  <2>3. QED
    BY <2>1, <2>2 DEF Isr
<1>5. TypeOK'
  BY <1>1, <1>2, <1>3, <1>4 DEF IInv, TypeOK
<1>6. Open' = Open
  BY <1>1 DEF Open
<1>7. PartsInv' /\ DeletedStaysDeleted' /\ UnloadedIsQuiet' /\ RefsInv'
  BY <1>1, <1>2, <1>6 DEF IInv, PartsInv, DeletedStaysDeleted, UnloadedIsQuiet, RefsInv
<1>8. QED
  BY <1>4, <1>5, <1>7 DEF IInv

-----------------------------------------------------------------------------
(* The theorems.                                                           *)

LEMMA Initially == Init => IInv
<1> SUFFICES ASSUME Init PROVE IInv
  OBVIOUS
<1>1. Open = {}
  BY DEF Open, Init
<1>2. TypeOK
  BY DEF Init, TypeOK, Message, Nothing, Level
<1>3. RefsInv
  BY <1>1, FS_EmptySet DEF Init, RefsInv
<1>4. LockInv /\ PartsInv /\ DeletedStaysDeleted /\ UnloadedIsQuiet
  BY <1>1 DEF Init, LockInv, PartsInv, DeletedStaysDeleted, UnloadedIsQuiet
<1>5. QED
  BY <1>2, <1>3, <1>4 DEF IInv

LEMMA Stuttering == IInv /\ UNCHANGED vars => IInv'
  BY DEF IInv, TypeOK, LockInv, RefsInv, PartsInv, DeletedStaysDeleted, UnloadedIsQuiet,
         Open, vars, deviceVars, userVars, timerVars, switchVars

\* The inductive invariant: who is inside timer_func and isr_func holds what it
\* tried for, each driver has the references it took, and the timer is alive only
\* while a write has added it.
THEOREM GpioInductive == Spec => []IInv
<1>1. IInv /\ [Next]_vars => IInv'
  BY LoadingStep, UserStep, TimerStep, IsrStep, Stuttering DEF Next
<1>2. QED
  BY Initially, <1>1, PTL DEF Spec

\* Every variable keeps its type; in particular references never go below 0.
THEOREM GpioTypeCorrect == Spec => []TypeOK
  BY GpioInductive, PTL DEF IInv

\* After a write of "0" the timer stays deleted (gpiotimer_module.c:177).
THEOREM DeletedCorrect == Spec => []DeletedStaysDeleted
  BY GpioInductive, PTL DEF IInv

\* Nothing of an unloaded driver runs or is set to run (gpiotimer_module.c:93).
THEOREM UnloadCorrect == Spec => []UnloadedIsQuiet
  BY GpioInductive, PTL DEF IInv

\* A tick of the timer never falls into a press (gpiotimer_module.c:64, 74).
THEOREM TickCorrect == Spec => NoTickInPress
<1>1. IInv /\ [Next]_vars => [driver # "irq" /\ ipc # "idle" => ledflag' = ledflag]_vars
  <2> SUFFICES ASSUME IInv, Next, driver # "irq", ipc # "idle"
               PROVE  ledflag' = ledflag
    OBVIOUS
  <2>1. CASE Loading
    BY <2>1 DEF Loading, InsertPlain, InsertFunction, InsertIrq, InsertTimer, InsertSignal,
         Insert, Ready, ReadyPlain, ReadyFunction, ReadyIrq, ReadyTimer, ReadySignal,
         MapFails, Remove, timerVars
  <2>2. ASSUME NEW p \in Proc, User(p)
        PROVE  ledflag' = ledflag
    BY <2>2 DEF User, Start, End, Exit, WriteClear, WriteCopy, WriteLook, Read,
         WritePlain, WriteFunction, WriteIrq, WriteTimer, WriteSignal, WriteTask,
         DeleteTimer, AddTimer, Darken, timerVars
  <2>3. CASE Timer
    <3>1. tpc # "set"
      BY DEF IInv, LockInv
    <3>2. QED
      BY <2>3, <3>1 DEF Timer, TimerFire, TimerTry, TimerSet, TimerUnlock, TimerRearm
  <2>4. CASE Isr
    BY <2>4 DEF Isr, PressUnlocked, PressLocked, Pressed, IsrTestOff, IsrOn, IsrTestOn,
         IsrSignal, IsrOff, IsrLeave, frame, timerVars
  <2>5. QED
    BY <2>1, <2>2, <2>3, <2>4 DEF Next
<1>2. QED
  BY <1>1, GpioInductive, PTL DEF Spec, NoTickInPress

-----------------------------------------------------------------------------
(* The message buffer.                                                     *)

\* Who may have read since the buffer was last emptied: everybody but the
\* programs on their way from the memset of their write to their read.
Readers == {p \in Proc : upc[p] \in {"ready", "opened", "read"}}
TailInv == msg.tail <= Cardinality(Readers)

LEMMA ReadersFinite == IsFiniteSet(Readers) /\ Cardinality(Readers) \in Nat
                         /\ Cardinality(Readers) <= Cardinality(Proc)
  BY ProcAssumption, FS_Subset, FS_CardinalityType DEF Readers

LEMMA TailFrame ==
  ASSUME TypeOK, TypeOK', TailInv, msg'.tail = msg.tail, Readers \subseteq Readers'
  PROVE  TailInv'
<1>1. IsFiniteSet(Readers') /\ Cardinality(Readers') \in Nat
  BY ProcAssumption, FS_Subset, FS_CardinalityType DEF Readers
<1>2. Cardinality(Readers) <= Cardinality(Readers')
  BY <1>1, FS_Subset
<1>3. msg.tail \in Nat
  BY DEF TypeOK, Message
<1>4. QED
  BY <1>1, <1>2, <1>3, ReadersFinite DEF TailInv

LEMMA TailRead ==
  ASSUME TypeOK, TailInv, NEW p \in Proc, Read(p)
  PROVE  TailInv'
<1>1. p \notin Readers /\ Readers' = Readers \cup {p}
  BY DEF Read, At, TypeOK, Readers
<1>2. Cardinality(Readers') = Cardinality(Readers) + 1
  BY <1>1, ReadersFinite, FS_AddElement
<1>3. msg.tail \in Nat /\ msg'.tail = msg.tail + 1
  BY DEF Read, TypeOK, Message
<1>4. QED
  BY <1>2, <1>3, ReadersFinite DEF TailInv

LEMMA TailClear ==
  ASSUME NEW p \in Proc, WriteClear(p)
  PROVE  TailInv'
<1>1. Cardinality(Readers') \in Nat
  BY ProcAssumption, FS_Subset, FS_CardinalityType DEF Readers
<1>2. msg'.tail = 0
  BY DEF WriteClear, Nothing
<1>3. QED
  BY <1>1, <1>2 DEF TailInv

LEMMA TailUser ==
  ASSUME TypeOK, TypeOK', TailInv, NEW p \in Proc, User(p)
  PROVE  TailInv'
<1>1. CASE Read(p)
  BY <1>1, TailRead
<1>2. CASE WriteClear(p)
  BY <1>2, TailClear
<1>3. CASE End(p)
  <2>1. Readers \subseteq Readers'
    BY <1>3 DEF End, Exit, Readers, TypeOK
  <2>2. msg'.tail = msg.tail
    BY <1>3 DEF End, Exit, PidGone, TypeOK, Message
  <2>3. QED
    BY <2>1, <2>2, TailFrame
<1>4. CASE \E cmd \in {"0", "1"} : Start(p, cmd)
  <2>1. Readers \subseteq Readers' /\ msg' = msg
    BY <1>4 DEF Start, At, Readers, TypeOK
  <2>2. QED
    BY <2>1, TailFrame
<1>5. CASE WriteCopy(p)
  <2>1. Readers \subseteq Readers'
    BY <1>5 DEF WriteCopy, At, Readers, TypeOK
  <2>2. msg'.tail = msg.tail
    BY <1>5 DEF WriteCopy, TypeOK, Message
  <2>3. QED
    BY <2>1, <2>2, TailFrame
<1>6. CASE WriteLook(p) \/ WritePlain(p) \/ WriteFunction(p) \/ WriteIrq(p)
             \/ WriteTimer(p) \/ WriteSignal(p) \/ WriteTask(p)
  <2>1. PICK from \in {"look", "act", "dark", "task"},
              to \in {"act", "dark", "task", "wrote"} : At(p, from, to)
    BY <1>6 DEF WriteLook, WritePlain, WriteFunction, WriteIrq, WriteTimer, WriteSignal,
         WriteTask, DeleteTimer, AddTimer, Darken
  <2>2. Readers \subseteq Readers'
    BY <2>1 DEF At, Readers, TypeOK
  <2>3. msg' = msg
    BY <1>6 DEF WriteLook, WritePlain, WriteFunction, WriteIrq, WriteTimer, WriteSignal,
         WriteTask, DeleteTimer, AddTimer, Darken
  <2>4. QED
    BY <2>2, <2>3, TailFrame
<1>7. QED
  BY <1>1, <1>2, <1>3, <1>4, <1>5, <1>6 DEF User

\* However many programs write and read at once, msg never holds more than one
\* " from Kernel" for each (gpiotimer_module.c:160).
THEOREM MsgCorrect == Spec => []MsgFits
<1>1. Init => TailInv
  <2>1. Init => msg.tail = 0
    <3>1. Init => msg = Nothing
      BY DEF Init
    <3>2. Nothing.tail = 0
      BY DEF Nothing
    <3>3. QED
      BY <3>1, <3>2
  <2>2. QED
    BY <2>1, ReadersFinite DEF TailInv
<1>2. TypeOK /\ TypeOK' /\ TailInv /\ [Next]_vars => TailInv'
  <2> SUFFICES ASSUME TypeOK, TypeOK', TailInv, [Next]_vars
               PROVE  TailInv'
    OBVIOUS
  <2>1. CASE UNCHANGED <<upc, msg>>
    <3>1. Readers' = Readers
      BY <2>1 DEF Readers
    <3>2. QED
      BY <2>1, <3>1 DEF TailInv
  <2>2. CASE Loading \/ Timer \/ Isr \/ UNCHANGED vars
    <3>1. UNCHANGED <<upc, msg>>
      BY <2>2 DEF Loading, InsertPlain, InsertFunction, InsertIrq, InsertTimer, InsertSignal,
           Insert, Ready, ReadyPlain, ReadyFunction, ReadyIrq, ReadyTimer, ReadySignal,
           MapFails, Remove, Timer, TimerFire, TimerTry, TimerSet, TimerUnlock, TimerRearm,
           Isr, PressUnlocked, PressLocked, Pressed, IsrTestOff, IsrOn, IsrTestOn,
           IsrSignal, IsrOff, IsrLeave, frame, userVars, vars
    <3>2. QED
      BY <2>1, <3>1
  <2>3. ASSUME NEW p \in Proc, User(p)
        PROVE  TailInv'
    BY <2>3, TailUser
  <2>4. QED
    BY <2>2, <2>3 DEF Next
<1>3. TypeOK /\ TailInv => MsgFits
  <2>1. TypeOK => msg.tail \in Nat
    BY DEF TypeOK, Message
  <2>2. Cardinality(Proc) \in Nat
    BY ProcAssumption, FS_CardinalityType
  <2>3. QED
    BY <2>1, <2>2, ReadersFinite DEF TailInv, MsgFits
<1>4. QED
  BY <1>1, <1>2, <1>3, GpioTypeCorrect, PTL DEF Spec
=============================================================================
