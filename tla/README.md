# Models of the programs of this repository

This directory holds TLA+ modules that model the programs of this repository,
the TLC configurations that model-check them, and theorems about them that the
TLAPS proof system checks. Paths below are relative to the repository's root.

The repository is a course's worth of C programs for a Raspberry Pi, one
directory per day, and one larger program, `chat server/`. Most are samples of
one system call. Those with logic of their own are the chat server with its
client and its earlier version, the media streaming programs of `0711/`, the GPIO
kernel modules of `0714/`, and a few samples in which two parties share something.
These are modelled. The chat server is the core.

## 1. The system's parts

### Chat server (`chat server/server.c`, `clientprocess.c`, `sig.c`, `comm.c`, `deamon.c`)

A parent process accepts connections and forks one child per client. The child
talks to its client over the socket, and to the parent over two pipes:

    client --socket--> child --child_pfd--> parent --parent_pfd--> child --socket--> client
                         \----SIGUSR1-------^  \------SIGUSR1-------^

| part | state | operations |
|---|---|---|
| parent (`main`, `clean_active_process`, the handlers) | `active_children` (pid, name, room, pipe ends), `room_info`, `parent_sigusr_arrived`, `child_exited_flag` | reap ended children; accept and fork; when no connection is there and SIGUSR1 has come, read once from every child's pipe and carry out the line: `/add /join /rm /list /users /leave !whisper`, a name, or text to the room; on an `accept` error, terminate all |
| child (`client_work`) | `child_sigusr_arrived`, the line it holds | on SIGUSR1 read the parent's pipe and write to the client; read a line from the client, send SIGUSR1 to the parent, write the line to the pipe |
| kernel | pipes, pending signals, process table | pipes are bounded and non-blocking; both ends of the parent's side are inherited by children forked later |

Nothing in it blocks except `wait` at shutdown: sockets and pipes are
`O_NONBLOCK`, both sides poll, and the signals say only *when* to look. What is
hard is that each side has two steps where it should have one: set a flag and
act on it, write and signal, test and clear. The flags are written by handlers
between any two statements. Processes end at any time, their pids are kept in a
table that is shifted, and the pipes outlive the table's entries.

What makes it correct: the table lists the processes there are; a command is
carried out for the client who typed it; `kill` never reaches a stranger; no
message stays in a pipe with nobody told; messages of one client arrive in order;
ended children are reaped; a shutdown ends. A pipe carries bytes, not messages: a read
of one buffer may end inside a line, and the next one then begins with the rest of it.

Two earlier versions lie beside it. `ex.c` has the same processes and tables in one
file, knows `/add` and `/join` only, and signals a child before it writes to it.
`fork_server.c` with `clientmanager.c`, `signals.c`, `command.c` and `common.c` is
unfinished.

### Chat client (`chat server/client_server.c`)

Two processes: the original one shows what the server sends, the one it forks reads
the keyboard. A line goes through a pipe, a SIGUSR1 goes after it, and the handler in
the original process sends on what one read takes. State: `g_cont` of each, the pipe, a
pending signal. Hard: the handler comes between any two statements, blocks when the pipe
is empty, takes a buffer at most, and signals merge. Correct if every byte typed is sent,
once, in order, and without waiting for the next line unless a read left it behind.

### Media streaming (`0711/`)

`v4l2_tcp_server.c` serves cameras and microphones from one `select` loop. A
message is a type byte, a size and a body; the server reads it whole with
`recv_all`, draws or plays it and answers with one `int`. State: `master_set`,
`read_fds`, `fdmax`, and the position in the loop. `v4l2_client.c` and
`audio_client.c` send one message, wait up to five seconds for the answer and
stop on anything but 1. Hard: one slow client stops all the others, a timeout
races a late answer, sockets are closed and their numbers reused inside a scan
whose `read_fds` was taken before. Correct if: every confirmed message was shown
exactly once; `fdmax` bounds the set; no socket is read that was not reported.

`bmpViewer.c` with `readBmp()` of `bmpHeader.c` shows a bitmap: it opens, maps and
allocates, each of which may fail, and converts pixel by pixel between two buffers of
different sizes, by offsets that are `int`s. Correct if no index leaves its buffer, each
pixel arrives at its place, and no buffer is freed twice. `display_frame`, `v4l2_capture.c`,
`bmpCapture.c` and `0710/fbdraw.c` are pixel arithmetic without control.

### GPIO kernel modules (`0714/`)

Five versions of a character device that drives an LED: plain writes
(`gpio_module.c`, `gpiofunction_module.c`), a switch interrupt (`gpioirq_module.c`),
a timer (`gpiotimer_module.c`) and a signal to the process that wrote last
(`gpiosignal_module.c`). State: the LED, the timer, `led_mutex`, `ledflag`, `msg`,
`task`. Hard: interrupt, timer callback and several writers run at once; only two
of the three take the lock; a second write of 1 adds a pending timer; `msg` is
shared by all writers and readers; `task` may have ended; the module holds a
reference on itself, so it cannot be unloaded.

Its users are `gpio.c` (write, read, end) and `catch_signal.c` (the same with its pid,
and a SIGIO handler that exits). `turnled.c` maps the registers itself.

### Servers of `0617/` and `0618/`

`webserver.c` starts a thread per connection, gives it the address of a variable of
`main`, and joins it before the next `accept`. Correct if a client gets its own answer,
and if no client but one that sends nothing holds up the others. `select_server.c`
keeps an array of sockets whose count goes down without the array being shifted;
`epoll_server.c` and `new_epoll_server.c` echo and broadcast over epoll.

### Semaphores, threads (`0616/`)

`thread_mutex.c` and `thread_no_mutex.c`: two threads and a counter. `posix_sem.c` and
`thread.c`: two programs that open the same named semaphore, which outlives them.
`shm_sem.c`: parent and child with a shared integer, paced by a semaphore both of them
remove. `sem.c`, `shm.c`, `sem2.c`, `posix_sem2.c`: one process, or signal handlers that
change a counter without protection.

### Everything else

Samples of one call each (`0612/`, `0613/`, the socket samples of `0617/`), sound
playback (`0709/`, `wavPlayer/`), sensors (`accelerometer.c`, `pressure.c`,
`temperature.c`), `list.c`. Straight-line I/O, or pure functions.

`PROJECT.json` lists every component with its status, and under "hazards" every
place known to be hard to test, with the properties that cover it.

## 2. The modules

| module | models |
|---|---|
| `ChatRegistry` | the two tables and what commands and reaping do to them, as operators |
| `ChatPipes` | all variables of the chat server, the pipes, the end of a process |
| `ChatChild` | `client_work`, one action per system call or flag access |
| `ChatParent` | `main`, `clean_active_process`, the handlers' effect |
| `ChatServer` | their composition: `Init`, `Next`, fairness, the properties |
| `ChatPromise` | the abstract specification: who is there, under which name, in which room, and whose lines reach whom |
| `MCChatServer` | the inputs of each run |
| `ChatRegistryProofs`, `ChatServerProofs` | lemmas about the tables; theorems about tables, names and rooms |
| `ChatDeliveryProofs`, `ChatOrderProofs` | theorems about signals, wakeups and the refinement of `ChatPromise`; about the order of lines |
| `EarlyServer`, `MCEarlyServer` | `ex.c`: its own commands and write loop over the steps of `ChatParent` and `ChatChild` |
| `EarlyServerProofs` | theorems about it, with the lemmas of `ChatDeliveryProofs` and `ChatOrderProofs` |
| `MediaSockets` | the variables of the media programs, the connections |
| `MediaServer` | the main loop of `v4l2_tcp_server.c`, one action per system call |
| `MediaClient` | `v4l2_client.c` and `audio_client.c` |
| `Media` | their composition: `Init`, `Next`, fairness, the properties |
| `MediaPromise` | the abstract specification: frames sent, shown, confirmed |
| `MCMedia`, `MediaProofs` | the media model for TLC; theorems |
| `GpioDevice` | loading, the character device of the five drivers, `gpio.c` and `catch_signal.c` |
| `GpioSwitch` | `timer_func` and `isr_func` |
| `Gpio`, `MCGpio`, `GpioProofs` | the composition and its properties; for TLC; theorems |
| `ChatClient` | `client_server.c` |
| `Threads` | `thread_mutex.c`, `thread_no_mutex.c` |
| `NamedSemaphore` | `posix_sem.c`, `thread.c` and the name they share |
| `SharedMemory` | `shm_sem.c` |
| `WebServer` | `webserver.c` |
| `BmpViewer` | `bmpViewer.c`, `readBmp()` |
| `Programs`, `MCPrograms`, `ProgramsProofs` | the last six modules side by side, one of them started; for TLC; theorems |

`ChatChild` and `ChatParent` both extend `ChatPipes`; `ChatServer` extends both and
`EarlyServer` extends `ChatServer`. `Programs` composes six programs that share nothing:
a behaviour starts one of them (`program`) and leaves the variables of the others alone,
so that one run and one specification serve all six.
Operators named `M_...` are definitions with a plausible fault in them; nothing in
the model uses them. They are there to show that each property notices one.

### State and code

| variable | code |
|---|---|
| `pc`, `scan`, `job` | the parent's place in `main`, loop index `i`, the inner write loop |
| `active_children`, `room_info` | the arrays up to `num_active_children`, `room_num` |
| `newPid` | `pid` between `fork` and the new entry (`server.c:432-446`) |
| `parent_sigusr_arrived`, `child_exited_flag`, `child_sigusr_arrived[p]` | the `sig_atomic_t` flags |
| `cpc[p]`, `held[p]` | the child's place in `client_work` and its `child_mesg_buffer` |
| `toParent[p]`, `toChild[p]` | `child_pfd`, `parent_pfd` of child `p`, as pieces of texts (below) |
| `ends`, `heirs[p]` | who has the parent's pipe ends open: the parent, and children forked later, which inherit them |
| `term` | children with a SIGTERM pending |
| `lines`, `conns` | bounds: lines typed, connections arrived |

An action is one system call with the assignments that follow it, or one access to
a flag. A whole command (`/rm` with its two loops, for instance) is one action when
it only changes the parent's own tables, since nobody else sees them; a command
that writes is a `job` whose loop runs `SkipRound`, `DeliverWrite` (or
`DeliverBroken`), `DeliverSignal` round by round, because children run between a
write and its signal. `AcceptScan` tests and clears `parent_sigusr_arrived` in one
step: a signal between the two is one that came before the clear, and the scan that
follows sees at least as much.

`HandleNull` is a rest without a `:`, or a line with nothing in it: `content` is NULL, and
`strchr` at `server.c:115` looks at it before the test at `server.c:118` can send it to the
"malformed" branch, which is therefore never taken. `ex.c` tests first and logs it
(`EarlyMalformed`). `HandleRest` is a rest with a `:` in it, which is carried out as a
message of whoever it names: `pc = "astray"`, and the model follows the server no further.

Media streaming:

| variable | code |
|---|---|
| `pc`, `i` | the server's place in its main loop, the loop index |
| `master_set`, `read_fds`, `fdmax`, `final_ack` | the variables of that name |
| `part` | segments of the body `recv_all` has received (`total`) |
| `cpc[c]`, `left[c]` | the client's place in its loop, what `send_all` has still to send |
| `backlog`, `peer`, `up`, `down`, `dropped`, `reset` | the kernel's: connections not accepted, the client behind each socket number, segments and answers on their way, connections closed by the server, connections reset |
| `sent`, `confirmed`, `shown` | frames begun, confirmations read, frames displayed or played; counters of the model |

GPIO:

| variable | code |
|---|---|
| `driver`, `module`, `refs` | which of the five is loaded, how far, `try_module_get` less `module_put` |
| `led`, `msg`, `task`, `ledflag`, `timer` | the LED, and the variables of that name |
| `owner` | `led_mutex`, taken with `mutex_trylock` by `"timer"` or `"isr"` |
| `upc[p]`, `held[p]` | a program's place in its calls; the message in its hands |
| `tpc`, `ipc` | the places in `timer_func` and `isr_func` |
| `sig` | programs with a SIGIO pending |
| `ticking`, `oops` | history: the last write added the timer; the kernel followed a bad pointer |

The smaller programs:

| variables | code |
|---|---|
| `mainAt`, `typistAt`, `resume` | places in the two processes of the client; where its handler returns to |
| `pipe`, `usr1`, `shows`, `types` | `g_pfd` as the bytes in it, the pending SIGUSR1, `g_cont` of either process |
| `line`, `written`, `taken`, `sent` | bytes of the keyboard's buffer still to be written, bytes written, `buf` of the handler, what went to the server |
| `rest` | history: the handler's last read filled its buffer and left something |
| `gvar`, `mid`, `loaded` | `g_var`, the mutex, the register of `g_var++` |
| `named`, `waits`, `posts`, `stale` | the named semaphore, loop counters, history: a killed program left the name |
| `semVal`, `segment`, `cVal`, `raised`, `lowered` | semaphore and segment of `shm_sem.c`, `*cVal`, the loop counters |
| `csock`, `conn[n]`, `method[n]` | `csock` of `main` and of each thread, the request it read |
| `gone`, `deaf` | clients that have hung up, or read no more of a file longer than a socket buffers |
| `held`, `pData`, `drawn` | resources of the viewer; `pData`; pairs of indices written and read |

### What is abstracted

In the chat server:

* A pipe is a sequence of pieces, runs of bytes that no `read` and no `write` divides. A
  text has up to `MaxParts` of them, numbered by `part`; the first has `PID:` and the
  command in it. `PipeCap` pieces fill a pipe, `ReadMax` fit one `read` buffer. A `write`
  puts all of a text into the pipe, or nothing, or, where it is longer than the room left,
  a part (`Written`); a `read` takes what fits (`Chunk`) and may end anywhere. What the
  parent makes of a buffer is decided by the piece it begins with (`Parsed`); what else is
  in it is dropped by `strtok` or is the tail of that line. A write of zero bytes (an empty
  room name in `/list`) writes nothing.
* A line is a command and its word. `check_command` tests with `strncmp` in a fixed
  order and the words do not overlap, so the command is a function of the line. A
  missing argument and the empty string are the same word, `Blank`. What a child reads
  from its socket at once is one line; one that begins with a NUL is `"empty"`.
* `isActive` is `TRUE` of every entry there is, so it is left out. `usleep`,
  `syslog` and formatting are left out.
* Failures of `pipe`, `fcntl` and `fork` have one outcome, `AcceptRefuse`:
  everything opened is closed and the loop goes on. Any `accept` error but EAGAIN
  and EINTR is `AcceptError`.
* The client is the environment: it types, takes or does not take its text, and
  goes, at any moment.
* The sessions, the umask and the descriptors of `daemonize` are left out. Of
  `daemonize` the process that never ends is kept (`Daemonized`).

In the media programs:

* A message is a type, a size and `BodyParts` segments of body; a connection holds
  `SockCap` segments, so `send_all` and `recv_all` both make progress in pieces and
  wait for each other. Pixels and samples are left out: a frame is shown or not.
* The server's sockets block and the clients' need not; in both a call that can do
  nothing is a step that is not enabled.
* `accept` returns the lowest free number. A number is free again as soon as the
  server closes it.
* A client leaves at any moment: it gives up, fails, or is ended from outside. The
  connection is then closed or, with an answer unread, reset. A host that vanishes
  without a word is not modelled.
* `select` fails at any moment, which ends the server. `malloc` fails at any moment.
* Opening the devices before the loop is left out.

In the early server: what `ex.c` has in common with `server.c` is taken from the
modules of the latter; map entries name its own lines.

In the GPIO drivers:

* `strcat`, `strcpy` and the copies are one step each; other programs come between a
  write's memset, copy, comparison and command.
* A message is its first character, the pid behind the colon, and how often the tail
  " from Kernel" was appended. A pid is not used again: that of an ended program is `Gone`.
* `catch_signal` runs with the signal driver and `gpio.c` with the others.
* Four of the drivers take a reference on themselves that only their `cleanup_module`
  returns, so it is unreachable and `Remove` is enabled for the fifth only. A `cdev_add`
  that fails ends `init_module`, and the module is gone with its reference: no step.
* `del_timer_sync` waits for the callback. That `timer_setup` of a timer at work
  (`gpiotimer_module.c:181`) forgets its CPU, so that a later wait could miss it, is left out.
* A bad pointer followed in the kernel (`oops`) stops everything.

In the smaller programs:

* Client: bytes are numbered as they are written, a line is 1 to `BufSize` of them, the
  pipe holds `PipeBytes`; the handler takes `BufSize` at most. The SIGCHLD handler, which
  only clears `g_cont`, is part of the step that sends the signal.
* `Threads`: `pthread_create` succeeds. `NamedSemaphore`: one program runs at a time, though
  nothing in the code keeps two from sharing the name at once, and
  `cnt` of `thread.c`, which is only printed, is left out. `SharedMemory`: SEM_UNDO has
  nothing to undo, since a process that used the semaphore removes it before it exits.
* `WebServer`: `accept`, `pthread_create` and `fdopen` succeed, a file's content is one
  value, longer than a socket buffers; a client opens one connection and may stop reading.
* `BmpViewer`: a pixel is known by its offset in the file's data, colours are left out.
  An `int` is `-IntHalf..IntHalf - 1` and wraps (`Wrapped`), as it does in the builds; a
  `size_t` wraps at `2 * SizeHalf`; a negative size is a huge `size_t`, which `malloc`
  refuses. A screen's three bytes per pixel fit an `int`, which is true of real screens and
  not tested by the code. A pixel read outside the data may end the program or not.

## 3. What is checked

All chat runs have two pids, one room word and one user word, as model values. Two
children are enough for every pairwise race (parent against one child, sender
against receiver, one child reaped while another talks); the second of two connections
may be given the pid of the first. `SYMMETRY` permutes pids in safety runs only.

| run | bounds | shows |
|---|---|---|
| `talk` | names, `/join`, text; 4 lines, 2 connections; texts of up to 2 pieces, pipes of 2, reads of 1 | `NoLostWakeupToChild`, `InOrder`, `SenderIsScanned`, `RegistryExact`, `KillHitsOwnChild`, `SignalFindsHandler` |
| `commands` | every command that changes a table, `/list`, a command that is none, names; 3 lines, 2 connections, room table of 2, daemon; pipes and reads of 1 | `TypeOK`; `PromiseKept`: `ChatServer` implements `ChatPromise` |
| `progress` | text, `/users`, `!whisper`, each of them a name; 2 lines, 2 connections; texts of 1 piece, pipes of 2, reads of 1; fair | `NamesStay`; `MessagesReachChild`, `LoopComesRound`, `ShutdownCompletes` |
| `media` | 2 cameras, 1 microphone, 2 frames each, 2 socket numbers, bodies of 2 segments, 1 segment on its way | `SocketsWatched`, `ReportedIsReady`, `FramingKept`, `AckIsSafe`, `TypeOK`; `PromiseKept`: `Media` implements `MediaPromise` |
| `media_progress` | 1 camera, 1 microphone, 2 frames each, fair | `AnswerComes` |
| `early` | names, `/join`, `/add`, a line without effect, one with nothing in it, text; 3 lines, 2 connections; pieces as in `talk` | `KillFindsChild`, `RoomsApart` |
| `gpio` | 5 drivers, 2 programs | `TypeOK`, `DeletedStaysDeleted`, `UnloadedIsQuiet`, `MsgFits`, `NoTickInPress`, `BlinkGoesOn` |
| `programs` | 3 lines of 1 or 2 bytes, a buffer of 2 and a pipe of 3, 1 message heard; 3 runs of the semaphore programs; 2 browsers; ints of 7 bits, sides of -3, 0, 1, 3, 4 and 43, screens up to 4 x 4 | `LinesKept`, `LineLeavesPipe`; `CountKept`; `WaitsOnlyAfterKill`, `ThreadEnds`; `SetOutlivesUse`, `ChildKeepsBehind`, `SampleEnds`; `AnswersOwnClient`, `PatientClientsServed`; `StaysInBuffers`, `PictureIsUpright`, `NoDoubleFree` |

Four lines let both clients name themselves and talk, or one name itself, join,
talk and talk again. Pipes of two pieces and reads of one have every way a text can be cut:
written in part, read in part, a rest alone in the pipe, a rest with the next line behind it,
a pipe full with the text before the last.
In `progress` one signal may announce two messages of which one read takes the first. The
rest is not announced again: `MessagesReachChild` speaks of what is announced, and
`NoLostWakeupToChild` says that a rest is all that is not. How long it lies is up to the
next signal, which nothing promises.
`commands` has a room table of two so that the same room can be there twice.
Its three lines let one client, or both, be in a room when it is removed, and one speak in a
room while the other is outside; that text reaches another in the room takes more lines, and
that it is cut longer pipes; both are left to the proof of `PromiseKept`.
`early` has a line less than it takes to hear two lines of text; that is left to `InOrder`,
which is proved of it.

In `ChatPromise` a member is a pid with a name and a room, there is one step for each thing
that can become of one, and the inboxes are sequences of messages. The mapping (`Members` of
`ChatServer`, `RoomNames`, `toChild`) forgets the order of the table, the loops, the signals and
the pipes to the parent.

Three media clients and two numbers are what it takes to run out of numbers, to close
the lower or the higher of two sockets (`fdmax` goes down only then) and to use either
again in the same scan. Two frames let a late answer meet a next frame. `PromiseKept` is
a refinement: under the mapping by name of `sent`, `shown` and `confirmed`, every step of
the server and of a client is a step of `MediaPromise` or changes none of the three.

Two programs are every pair of writers, readers and a task that has ended; the tails of
`msg` are bounded by the programs that are between write and end, so that `Gpio` needs no
bound. Three lines are two signals merged and a third behind them; a pipe of three bytes and
a buffer of two make the handler leave a rest, and the keyboard's write go in by parts. Three runs of the
semaphore programs are one that is killed, one that finds the name and one after it.
Two browsers are the one that is served and the one that waits. The sides are pictures larger
and smaller than the screen in either direction, rows with and without padding, none, a
negative one, and 43, whose rows of 129 bytes wrap a seven-bit `int` to 4 bytes as 0x55555556
wraps the real one: the picture is then read outside its data.

`CHECK_DEADLOCK FALSE` is set since the programs really stop. The chat server does after
`AcceptError` and the last `wait` (`pc = "down"`), or when a signal kills it
(`pc = "killed"`), or the model follows it no further (`pc = "astray"`); the media server when `select` fails, its clients after `MaxFrames`
frames; the drivers at `oops`; the smaller programs when they have ended.

**Fairness.** `WF(Parent)`, `WF(Child(p))` and `WF(ChildTerminated(p))`: the kernel
runs every runnable process again and again, and delivers a pending SIGTERM. Neither
process ever blocks except the parent in `wait`, where `WaitChild` is enabled only
with a zombie. Fairness is on a process, not on its actions, so nothing forces a
client to type, connect or leave. In `Media` the server and each client's loop are
fair (`WF(Server)`, `WF(ClientStep(c))`); a timeout, a death and a connection are not,
so `AnswerComes` says that the server answers without the help of a timeout. It rests
on the clients being fair: the server waits in `recv` for the rest of a message
(`v4l2_tcp_server.c:36`), and a client stopped in the middle of one stops it for all.
`Gpio` has `WF(~oops /\ Timer)`: the kernel runs expired timers; nothing makes anybody write
or press. `Programs` has one weak fairness for the process or thread that can go on
(`Scheduled`) and, since the client's two processes must both go on for `LineLeavesPipe`,
one for the process at the keyboard. Typing, the server's messages, connecting, sending,
hanging up and the killing of a program are not in either. In `Threads` and `BmpViewer` nothing
is promised to happen, so no step of theirs is fair.

### Runs that show a disagreement

Each violates one property, quoted from a comment or from an error branch of the
code; `PROJECT.json` "findings" has the quotations.

| run | what happens |
|---|---|
| `lost_wakeup` | the child signals before it writes (`clientprocess.c:90, 95`). The parent scans in between, finds nothing, and the line stays |
| `lost_exit` | `child_exited_flag = 0` comes after the `waitpid` loop (`server.c:74`). An exit in between is not reaped until another child ends |
| `broken_pipe` | the parent broadcasts to a room with a child in it that has ended and is not reaped. SIGPIPE has its default action, and the branch at `server.c:350` is never reached. Names, `/join` and text are all that is typed, so the write is the broadcast's |
| `early_wakeup` | `ex.c` signals before it writes (`ex.c:448, 451`). The child reads the empty pipe in between, and the line stays until it is signalled again |

Other behaviour met while modelling, which no document of the repository denies and which
therefore has no run: `daemonize` leaves a child in `while(1){}`, for which `wait` at
`server.c:466` waits for ever (`ShutdownCompletes` is about a server that is not a daemon);
a child looks at the parent's pipe only after a signal and does not notice that the parent
was killed; `!whisper` without a word compares an uninitialised `user_name`, so that a child
whose name is still empty and whose handler is not installed may be signalled (the properties
about signals name this case, see section 4; no run has such a line); a read that does not
take all a pipe holds leaves the rest to the next signal; in the parent it may end inside a
line (a child writes up to 8191 bytes with `PID:` before and a NUL behind them,
`server.c:103` reads 8191), and the rest of it, read as a line of its own, ends the server at
`server.c:115` if there is no `:` in it, or is carried out for whoever it names, with -1 for an
index at `server.c:204` if that is nobody and the text is `/list` (`SenderIsScanned` says that
this is the only way to it); a line that begins with a NUL ends `server.c` in the same place and
is logged by `ex.c`; a picture whose row an `int` cannot count is read outside its data; a
browser that stops reading a long file holds up the others, as does one that sends slowly; a second write of 1 adds a pending timer,
and a press signals a task that has ended (both `oops`); a second, early SIGUSR1 makes the
client's handler block on an empty pipe until the next line, and one that fills its buffer leaves
the rest to the next line.

## 4. What is proved

### Chat server

For every set of pids, every `MAX_CLIENT`, `CHAT_ROOM` and pipe size, every input and any
number of lines, pieces and connections, under `BlankAssumption` (the empty string is not a
word) and `ServerAssumption` (limits are positive, 0 is no pid):

* `TypeCorrect`: `Spec => []TypeOK`, in which `Len(room_info) <= ChatRoom`.
* `RegistryCorrect`: `Spec => []RegistryExact`.
* `SenderCorrect`: `Spec => []SenderIsScanned`.
* `KillCorrect`: `Spec => []KillHitsOwnChild`.
* `NamesCorrect`, `RemovedCorrect`: `Spec => NamesStay`, `Spec => RemovedRoomIsEmpty`,
  action properties.
* `SignalCorrect`: `Spec => []SignalFindsHandler`.
* `WakeupCorrect`: `Spec => []NoLostWakeupToChild`.
* `OrderCorrect`: `Spec => []InOrder`.
* `PromiseCorrect`: `Spec => PromiseKept`, the refinement of `ChatPromise`.

All but the last four follow from one inductive invariant (`SenderCorrect` with `AllConsecutive`),

    IInv == TypeOK /\ RegistryExact /\ OwnLines /\ JobInv

`RegistryExact` is nearly inductive: reaping takes a process and its entry away in one
step, and `forked` is the one place where they differ. `SenderIsScanned` is not, since
`TakeLine` needs to know whose lines a pipe holds: `OwnLines` says that every piece
in `toParent[p]` is of a line of `p`, which `ChildWrite` makes and `AcceptFork` restores for
a pid used again. An invariant of its own, `AllConsecutive`, says that a piece without a pid
in front lies behind the one before it of the same line, which writing whole beginnings of a
text and reading from the front keep, but for the piece a read has put at the front. So where
a read ended inside a line the next one need not find its sender, and this is the only case. `JobInv` says that the entry a write loop works for is the one being
scanned and that its index stays within the table. `KillHitsOwnChild` follows from
it and `RegistryExact`: the target has an entry, and whoever has an entry is not reaped. Its
part about the shutdown, `ShutdownMissesNobody`, is kept by every step on its own: up to the
shutdown nobody has anything to fear (`ShutdownParent`), from `AcceptError` on the entries ahead
of `scan` are those not terminated, and a child that signals the parent out of `wait`
(`ShutdownChild`) does so after all of them are.
`ChatServerProofs` has one lemma per action and conjunct group; `ChatRegistryProofs` has
what they need of the tables: the length and the entries of a shifted table, the index
a search returns, that moving, renaming and evicting keep pids.

For `NamesStay`: reaping and adding shift or append whole entries (`EntriesMove`), a command
names only who has no name (`HandleNames`), and the entry of a pid is unique before and after,
so it is the same one (`SameEntry`). For `RemovedRoomIsEmpty`: only `/rm` takes a room away
(`RoomsKept`), and it evicts everybody who is in it; no run has this property of its own, since
it follows from `PromiseKept`.

`SignalCorrect` adds `AInv` to `IInv`: a child without a handler has said nothing, so it has
no name and is in no room; and a write loop is for the asker, for a name that is not empty
or for a room, or else comes from a bare `!whisper` whose slot held the empty name. But for
the last, such a child is never the target. `WakeupCorrect` adds to both that what lies in a
pipe unannounced is a rest, no longer than `PipeCap - ReadMax` (`Leftover`), or whispers to a
child that has no handler yet (`OnlyWhispers`): a signalled child clears its flag before its one
read, which takes `ReadMax` pieces. Neither theorem restricts inputs or pipes. In `talk` the
rest does occur and the bare `!whisper` does not.

`OrderCorrect` needs an invariant that follows a line all the way, `OInv`:
of one client, the line its child holds is later than those in its pipe, these are later than
the one the write loop passes on, and that one is later than those in the pipes of others, but
for the copies the loop itself wrote. Pieces of one line follow each other and only what begins a
line is later than all before it (`Behind`), so that a line is not taken for a new one twice. The rounds it has done wrote to other children than the
rounds to come, since no pid is listed twice.

`PromiseCorrect` rests on `IInv` and on `SpeakerInv`: a write loop that passes words on works for
a client with a name, and one that passes them to a room for a client who is in one. Since no pid
is listed twice (`Unique`), the table is a function of the pids whatever its order (`MembersAre`,
`NextMembers`). One lemma per kind of step shows it to be a step of `ChatPromise`: `EnterMaps`,
`LeaveMaps` (the shift), `OpenMaps`, `CloseMaps` (both loops of `/rm`), `EditMaps`, `TellMaps`,
`HearMaps`; every other step leaves tables and pipes to the children alone.

### Early server

Under the same assumptions, from `EInv == IInv /\ BroadcastInv`:

* `KillFindsCorrect`: `EarlySpec => []KillFindsChild`.
* `RoomsCorrect`: `EarlySpec => RoomsApart`, an action property.
* `EarlyTablesCorrect`: `EarlySpec => [](TypeOK /\ RegistryExact /\ SenderIsScanned)`, from
  `EInv` and `AllConsecutive` (`OwnConsecutive` for the steps `ex.c` has of its own).
* `EarlyNamesCorrect`: `EarlySpec => NamesStay`.
* `EarlySignalCorrect`: `EarlySpec => []SignalFindsHandler`.
* `EarlyOrderCorrect`: `EarlySpec => []InOrder`.
* `EarlyPromiseCorrect`: `EarlySpec => PromiseKept`. Both servers implement one `ChatPromise`.

A step that `ex.c` shares with `server.c` is a step of `Next` (`SharedIsNext`), and the lemmas of
the chat server are stated of a step rather than of `Spec`, so that they serve both; what is left
are the steps of its own (`EarlyOwn`): the lines it ignores, malformed ones among them, and its
write loop, of which `EarlyWriteFacts` says what it puts into a pipe. `BroadcastInv` says
of the loop that it is a broadcast to a room, and that the child signalled in a round is still
there when the round writes. For `InOrder`, between `kill` and `write` the round has written
nothing (`NotYetWritten`), since the loop of `ex.c` has them the other way round. The one promise of
`server.c` that `ex.c` does not share, `NoLostWakeupToChild`, is what `early_wakeup` shows violated.

### Media streaming

For any sets of cameras and microphones, any `MaxFd`, `BodyParts`, `SockCap` and
`MaxFrames`, under `MediaAssumption` (no client is both, messages have a body, a
connection holds something, `NoClient` is no client):

* `MediaTypeCorrect`: `Spec => []TypeOK`.
* `SocketsCorrect`: `Spec => []SocketsWatched`.
* `ReportedCorrect`: `Spec => []ReportedIsReady`.
* `FramingCorrect`: `Spec => []FramingKept`.
* `AckCorrect`: `Spec => []AckIsSafe`.
* `PromiseCorrect`: `Spec => PromiseKept`, the refinement of `MediaPromise`.

They follow from the inductive invariant

    IInv == TypeOK /\ SocketsWatched /\ ReportedIsReady /\ BusyInv /\ BacklogInv
            /\ \A c \in Client : ClientInv(c) /\ SegmentInv(c)

`BusyInv` says that the server, while it has a message in hand, looks at an open socket
that was reported, and `BacklogInv` that a connection waits once and is not accepted yet;
`SocketsWatched` (each socket of another client) needs the latter at `Accept`.
`ReportedIsReady` needs no more than that a server step leaves alone what is ahead of `i`
(`ReportedStays`) and a client step makes nothing less ready (`ClientStepFrame`).

The rest counts segments. `Pending(c)` is what of c's message is in the server's hands
or on its way. While it is above 0, `c` has one frame that was not shown; with `left(c)` it
makes up a whole message unless the connection is being given up; and while an answer is
on its way, or is about to be, it is 0. From this come `FramingKept` (the next segment is
the one with `MessageLength - Taken(c)` to go), `AckIsSafe` (a connection can be reset only
when its answer was sent) and the three steps of the refinement: `Capture` begins a frame when
the last one is confirmed, `Show` shows the one that was not, `ReadConfirmed` reads 1 only
when the last was shown.

`FramingKept` also says that the two ends of a connection never wait for each other: a server
in the middle of a message waits for a client that has more of it (`SenderAwaited`, from the
count), and a client that waits for its answer has the last of its message, or the answer, under
way on a connection the server holds (`AnswerOwed`). The latter needs an invariant of its own over
`IInv`, `WInv`: who waits has nothing left to send and something is coming (`WaitInv`), and a
client is in the backlog or behind a socket from `connect` to `close` (`HeldInv`). The one step
that could lose an answer is the last segment taken (`TakeWaits`), and there the count says that
`show` is next. This is `AnswerComes` without its fairness: no state is a standstill.

`fdmax` after a close is `Max` of the sockets left, `accept` takes the `Min` of the free
ones. Both are `CHOOSE`; that the choice exists is `MaxFacts` and `MinFacts`, from
`LeastNat` (the natural numbers are well-ordered), from `WFMin` of the library.

### GPIO drivers

For any finite set of programs and whichever driver is loaded, from the inductive invariant
(`GpioInductive`)

    IInv == TypeOK /\ LockInv /\ RefsInv /\ PartsInv
              /\ DeletedStaysDeleted /\ UnloadedIsQuiet

* `GpioTypeCorrect`: `Spec => []TypeOK`. That `refs` does not go below 0 needs `RefsInv`:
  one for each open file, or the one of `init_module`.
* `DeletedCorrect`, `UnloadCorrect`: the two last conjuncts. `DeletedStaysDeleted` says that the
  timer is pending, or its callback at work, exactly when the last write was a 1: deleted it stays
  deleted, else it goes on, whoever has the lock. `UnloadedIsQuiet` needs `RefsInv` and
  `PartsInv`: a driver that can be removed has no timer and no switch.
* `TickCorrect`: `Spec => NoTickInPress`, an action property, from `LockInv`: a callback that
  sets the LED holds the lock.
* `MsgCorrect`: `Spec => []MsgFits`, from an invariant of its own: the tail is at most the
  number of programs that are not between the memset of their write and their read
  (`Readers`), since each of those has read at most once since the buffer was emptied.

### The smaller programs

`ProgramsProofs` shows first that a step of `Programs` is, for each program, a step of its own
or leaves its variables alone (`OneProgramRuns`). Each program then has its invariant, for any
values of the constants:

* `CountCorrect`: `[]CountKept`. Between lock and unlock a thread holds the mutex and what it
  loaded is still the counter (`HolderAlone`), which is 1 plus and minus what is done
  (`CountIsDone`).
* `WaitsCorrect`: `[]WaitsOnlyAfterKill`. Unless the name is left over, what is in the
  semaphore is eight less the waits done; in `thread.c` it is at least the posts less the waits.
* `SetCorrect`, `BehindCorrect`: `[]SetOutlivesUse`, `[]ChildKeepsBehind`. The semaphore is
  there until the child goes (`SetLasts`) and holds what the parent is ahead (`Ahead`), so a
  child that has gone lets no round of the parent remain. That the child never waits for a parent
  that waits for it follows from `Ahead` too: a parent in `wait` has raised all there is to lower.
* `LinesCorrect`: `[]LinesKept`, for any number of lines and any sizes of lines, buffer and
  pipe. What is sent, in the handler's hands and in the pipe, put together, are the numbers of
  the bytes written; each step is an equation of sequences. A byte in the pipe has a signal
  pending or to come, or the handler at work, or was left by a read that filled its buffer
  (`LineIsAnnounced`); here the write does come before the signal (`PipeKeeps`).
* `AnswersCorrect`: `[]AnswersOwnClient`, for any number of clients. One thread is active at a
  time and serves `csock` (`OneAtATime`, `Served`); the backlog has each client once and not
  yet answered (`BacklogFresh`). Until it is answered a client is in the backlog, in `csock` or
  with its thread (`NobodyLost`). That there is a thread's number for each rests on a count: the
  clients accepted and those in the backlog together are the clients that have come
  (`VisitsCounted`), a set that is finite by `BrowsersAssumption`.
* `FreeCorrect`: `[]NoDoubleFree`. Where `main` may free `pData` it is allocated or NULL.
* `BuffersCorrect`, `UprightCorrect`: `[]StaysInBuffers`, `[]PictureIsUpright`, for any width of
  `int` and `size_t` and any sides an `int` can have. What is drawn is nothing or what `Convert`
  draws (`DrawInv`). That nothing is written outside the screen's buffer needs nothing of the
  header, since the code asks where a pixel falls. What is read lies in the data if the real size
  of the rows is less than `IntHalf` (`Countable`): then no product on the way wraps
  (`CountableFacts`, `WrappedKeeps`), and what is left are two lemmas about products, an index into rows of one length (`IndexInRows`), and a
  padded row is no shorter than the pixels in it (`PaddingFacts`). The code does not ask for it,
  and past it the claim is false of the code and not made.

### What is only model-checked

Every safety property of a passing run is proved. What is left to TLC is all liveness
(`MessagesReachChild`,
`LoopComesRound`, `ShutdownCompletes`, `AnswerComes`, `BlinkGoesOn`, `LineLeavesPipe`,
`ThreadEnds`, `SampleEnds`, `PatientClientsServed`), which, with fairness and `ENABLED`, is out
of the prover's reach. What makes each of the more delicate ones true in a single state is part
of a property that is proved: a message is announced (`NoLostWakeupToChild`), a shutdown misses
nobody (`KillHitsOwnChild`), a line has a signal to come (`LinesKept`), nobody waits for who waits
for it (`FramingKept`, `ChildKeepsBehind`, `WaitsOnlyAfterKill`), a client is in somebody's hands
(`AnswersOwnClient`), a timer not deleted is pending (`DeletedStaysDeleted`). TLC adds that, under
fairness, such a state is left. No definition of the project is `RECURSIVE`, and nothing is claimed of
data by induction.

## 5. Not modelled

`PROJECT.json` "components" has every part with its reason. In short:

* `fork_server.c` and its files: `main` never counts the client it enters
  (`fork_server.c:238-249`), so the loop over clients runs over none.
* `select_server.c`: after the first client that leaves, or the fifth, it reads and writes
  outside `client_fd` (`select_server.c:59-79`). `new_epoll_server.c` takes the number of clients
  for the number of events (line 69). Little of either is defined behaviour.
* `epoll_server.c`, the socket samples and `server_client.c`: nothing is kept between two
  calls, or it is the exercise a modelled program grew from.
* `sem2.c`, `posix_sem2.c`: signal handlers change a counter without protection; nothing is
  promised of it. `sem.c`, `shm.c`: one process each.
* `turnled.c`, `fbdraw.c`, `v4l2_capture.c`, `bmpCapture.c`, sound, joystick and sensors:
  straight-line device I/O.
* `list.c` and the samples of one system call: no state.
* Of modelled programs: sessions, umask and descriptors of `daemonize`; the text of messages;
  colours; register arithmetic; `printk`, `syslog` and formatting.

## 6. Plan

Done: the chat server with its abstract specification, the early server, the media programs
with theirs, the GPIO drivers, the smaller programs, and proofs of their safety. What could
follow:

1. A fairness of the clients under which a scan comes although connections arrive
   (`server.c:79`).
2. What a server does that has carried out the rest of a cut line for somebody else
   (`HandleRest`): every command with a foreign `from_who`, and `/list` at index -1.

The runs are few on purpose: one per question.
