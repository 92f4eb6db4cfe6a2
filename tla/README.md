# A verification development for rp4-demo

rp4-demo is a music player that runs on a small microkernel on a Raspberry Pi 4.
The kernel itself (`lib/qnx-micro`) is a git submodule and is not part of the
repository; what is here is everything around it: the memory of the C library,
the process manager, the resource managers, the boot code, the hardware layer,
a host-side configuration server, a DSP compiler and the image builder.

This directory models the parts whose correctness depends on state and order,
checks them with TLC on small instances, and proves the main invariants with
TLAPS for every value of the constants.

* [Inventory](#inventory)
* [Modules](#modules)
* [Runs: what is checked and with which bounds](#runs)
* [Where the code and its documentation disagree](#disagreements)
* [Fairness](#fairness)
* [Proofs](#proofs)
* [What is not modelled](#not-modelled)
* [Plan](#plan)

## Inventory

### How the parts interact

`start.S` sets the stack and jumps to `kernel_main` (`boot.cpp`), which brings
up the hardware, initialises the kernel, calls the entry function of seven
resource managers one after the other, and then `shell_main`, which returns
only for a reboot. There is one thread. A manager's entry publishes its status
and *subscribes* callbacks on the PPS bus (publish/subscribe objects such as
`/pps/audio/status`). From then on everything happens inside `publish`: the
shell publishes `/pps/cmd/<name>`, the bus calls every subscriber before
`publish` returns, and callbacks publish in turn ("callbacks fire synchronously
inside publish()", `audiomgr.cpp:126`). So the interleavings of this system are
not those of threads: they are callbacks that run in the middle of another
callback. Memory comes from one arena (`allocator.cpp`) behind a libc shim. The
process manager keeps the table of processes with the threads, channels and
capabilities they own, for `top.cpp`. The configuration server is a separate
host program with worker threads and SQLite.

### Components

| Component | State | Operations | Hard behaviour | What makes it correct |
|---|---|---|---|---|
| Arena allocator (`boot/allocator.cpp`) | block headers inside the arena, `initialized` | `arena_init`, `arena_alloc`, `arena_free` | first-fit search, splitting, one coalescing pass after each free, `size_t` wrap, failure is a trap on the target and a null pointer on the host | the blocks tile the arena; allocated blocks are exactly those held; no two free neighbours; grants are long enough; every call ends |
| libc shim (`shim/`) | none of its own | `malloc`, `calloc`, `realloc`, `aligned_alloc`, `free` | realloc holds two blocks and copies between two allocator calls; products wrap; write loops trust the size that was asked for | callers' pointers stay backed; nothing becomes unreachable; copies stay in bounds; the list survives every size that does not wrap |
| Process manager (`proc/proc.cppm`) | the table of rows, next pid | spawn, kill, exit, wait, thread_add, tracking of resources | calls on rows in any state; ids are reused; a spawn can fail after it took a pid; a kill revokes capabilities derived from the row's own, wherever they are tracked | every thread has one owner; ended processes have no thread; the documented life cycle |
| PPS bus (kernel, external) | attributes, subscribers | publish, subscribe, read | nesting of callbacks, order of subscription | every chain of callbacks ends |
| Audio manager (`apps/audiomgr.cpp`) | DAC registers, I2S clock | mute, unmute, volume, tone, PCM | display callbacks nested between "playing" and the samples; capabilities revoked before use; rate read from an attribute anyone writes | samples only from valid capabilities, at the source's rate; the status tells the truth |
| Memory file system (`apps/memfsmgr.cpp`) | table of 64 entries | store, load, memls, memrm | full table, truncated and duplicate names | a map from names to buffers; status equals table |
| Display manager (`apps/displaymgr.cpp`) | framebuffer pointer, bar | display, reaction to the audio status | firmware that does not answer, or answers without a buffer | the bar shows playing exactly while playing |
| Bluetooth manager (`apps/btmgr.cpp`) | `dongle_present` | USB events, pair, disconnect | removal of other devices | knows whether its dongle is plugged in |
| Storage manager (`apps/storagemgr.cpp`) | the open file, buffers | play, ls, stop | ten formats, each with its error and out-of-memory paths | no path leaks; attributes of one track belong together |
| Probing managers (`emmcmgr`, `genetmgr`, `usbaudmgr`, `httpmgr`) | none | start-up probe | command published to itself at start | subscribed before the command is given |
| DRM manager (`apps/drmmgr.cpp`) | 256 buffer slots, next handle, pool pointer | create, free, mmap, submit | 32-bit rounding, pool exhaustion, slot reuse, polling a GPU that runs concurrently | unique handles, disjoint buffers, synchronous submission |
| Shell (`apps/shell.cpp`) | history ring, line editor | keys, dispatch | ring at 32 entries, lines at 127 characters, recalled over what is already typed | the line that is shown is the line that runs; recalled lines are the entered ones |
| Boot and exceptions (`boot/`) | registers, stack, interrupt mask, timer and its routing | boot sequence, sync and IRQ entries, reset by the watchdog | a timer left armed by the reset, timer unmasked before the kernel is ready, registers an entry does not save, the result register of a call | no exception before vectors and stack exist; interrupted code finds again what the entries save; the shell is reached unless one of these leads astray |
| Config server (`apps/configsrv.cpp`, `http/http.cppm`) | SQLite table and its locks | GET of all or one, PUT, static files, shutdown by signal, restart | concurrent requests, a busy database, signals taken by worker threads | requests are atomic on one table; each is answered; a signal waited for stops the server |
| DSP engine (`dsp/dsp.cppm`) | delay lines, memories by id | parse, evaluate, process | state ids of nodes in a state that outlives the graph, wrapping delay lines, names | the graph computes what the program means |
| HAL (`hal/hal.cppm`) | device registers | clock, I2C, DAC, mailbox, reboot | NAK in the middle of a sequence, before or with the end of a transfer; polls without timeout; a fraction that rounds up to a whole, a 32-bit product and a 12-bit field | a DAC reported configured is configured; the divisor is the nearest for the rates that fit |
| Image builder (`scripts/mkifs.fsx`, `dumpifs.fsx`) | output offsets | measure, place, write, verify | two passes that must agree, a size field that counts less than is written, by which the verifier reads the directory, files of any length | data lies where its entry says; the stored sum is found valid by a verifier that gets to it |
| libos wrappers, LV2 amplifier, generated configuration, firmware, build scripts | none worth a model | | | |

The file `PROJECT.json` lists every component with its status and every hazard
at its line.

## Modules

### Arena allocator: `Allocator`, `Heap`

`Allocator` is the code of `allocator.cpp` one loop turn at a time. `next`,
`size` and `allocated` are the fields of the headers, as functions on the
addresses at which a header stands (`Blocks`); `pc`, `curr` and the arguments
are the locals of the running call. `Alloc` is the entry of `arena_alloc` with
`arena_init` on the first call; `Skip`, `Take` and `OutOfMemory` are its
loop; `Free` is the entry of `arena_free`; `Merge`, `Advance` and `FreeDone` its
coalescing pass. Sizes wrap at `WordMod`, which stands for 2^64. `live` is the
callers' view: the payloads granted and not freed.

`Heap` is what a user of malloc relies on: payloads that are inside the arena,
disjoint, and neither move nor change their length while held. `HeapSpec` is
`Heap` under the refinement mapping from `live`.

### libc shim: `LibcHeap`

`LibcHeap` extends `Allocator` with the functions of `libc_shim.c`. A libc call
spans several allocator steps, and `realloc` spans two allocator calls with the
copy between them, so `fn`, `want`, `old` and `result` hold its locals, and
`held` the pointers callers may use.

`calloc` and `realloc` write as many bytes as they asked the allocator for
(`Written`). That stays inside the block unless rounding the size up wrapped and
the block is shorter (`Overruns`). Then the loop writes over every header behind
the block (`RunsOver`): `calloc` zeros, `realloc` what lies behind its old block,
of which the model takes two samples. Such a size is within 15 of 2^64, so the
loop goes on past the arena until an access faults, and the exception entry
returns to that same access: `fn` is `"lost"` from there and nothing more
happens. `ListTiles`, `ListOwned`, `ListCoalesced` and `HeapUntilLost` are the
allocator's properties under these calls. They excuse the lost list only where
`OverrunByWrap` says that the size had wrapped; the excuse covers no other size.

### Process manager: `ProcessManager`, `Lifecycle`

The table is a function from pids to rows. `sched` and `from` are the kernel's
live threads and capabilities: external, modelled from the calls `proc.cppm`
makes and from what `test_audiomgr.cpp` shows of the kernel. `from` says what
each live capability was derived from. The kernel makes, derives and takes them
at any time (`Mmap`, `Grant`, `Munmap`), whatever the table says, and
`TrackCapability` appends whatever id it is given, as the code does. `Kill`
revokes what its row names and, with the kernel's cascade, what was derived from
that (`Revoked`); the ids of derived capabilities stay in the rows that track
them. No ownership of capabilities holds of this table, so none is claimed.
`legal` is chosen once, in `Init`: when it holds, the callers
do what `top.cpp` does and name running processes; otherwise they name any.
`Lifecycle` is the documented state diagram (running to
zombie or dead, zombie to dead, dead for ever).

### Services on the bus: `Pps`, one module per manager, `Services`, `NamedStore`

`Pps` models the bus as a stack of statements: `work` is what the one thread
still has to run, innermost callback first. A statement is a record; `Publish`
replaces itself by a callback for each subscription, in their order, a callback
by the statements of its handler, or by nothing when the path is another's. At
first the work is the entries `kernel_main` calls (`CallMain`). So nesting
happens in the order the code gives it, and every statement of a handler is a
step between which others can be nested.
`objects` are the retained attributes.

`AudioManager`, `MemFs`, `DisplayManager`, `Bluetooth`, `StorageManager` and
`Probes` each give an entry (`...Main`), the subscribed paths (`...Paths`), the
handler of a notification as a sequence of statements (`...Handles`), and the
actions of the statements that change the service's own state. `Services`
composes them. A setup names the services in the order of their entries
(`started`), the commands the shell may publish whenever it has the thread
(`Quiet`), whether it stores a name only when it is new (`fresh`), the USB
devices that may be plugged and unplugged, and the buffers that may be granted
and revoked for playing. `Init` chooses one of `Setups`, which then stays, so
one run explores several systems side by side. What a setup may hold is
`SetupAssumption`: services that exist; commands, buffers and sample rates, but
no state that only `audiomgr` publishes; devices whose object is not a service's
status. `StorageManager` also has a
`build` (what a failing `malloc` does depends on it) and the state `mounted`.

`kernel_main` does not start `storagemgr` (`boot.cpp:106`, it waits for FatFs
on the SD driver), `usbaudmgr` and `drmmgr`. The setup `booted` starts what
`kernel_main` starts; the other setups start the services they are about.

The DAC may leave any write unacknowledged (`Acks`), and `audiomgr` does not look
at the result; `dac.missed` remembers that the last mute or unmute was such a
write. `ListRoot` publishes the listing only if the root directory can be opened.

`NamedStore` is the map a client of the memory file system expects.

### DRM manager: `BufferObjects`, `GemHandles`

`table` holds the slots in use, with handle, size and address, and beside them
the size that was asked for, which the code forgets. The submit handlers are
split at their polls, because the GPU works at the same time: `gpu` is the set
of engines that run, `EngineStops` is the GPU's own step. `GemHandles` is what
Mesa sees of it: handles that keep one buffer of their own until they are
closed.

### Shell: `History`, `RecentLines`, `Shell`

`History` is the ring, `RecentLines` what a user expects of it: the last lines,
the newest first, no line twice in a row. `Shell` adds the line editor and
`dispatch`. A key is an action. An arrow is three keys, so `at` says where the
reader stands: in the line, after an escape, after its bracket. `Enter` is both
ends of the loop of `read`: a line end, and a line that fills the buffer, which
runs without one (also when it was recalled). `screen` is the terminal at the
other end of the UART: text behind the prompt and a cursor, driven by the
characters the editor sends. It is external and as simple as the code assumes:
a backspace moves left, anything else overwrites. Keys insert printable
characters; the code inserts control characters as well, which a terminal would
not show, and a NUL, at which a recalled line would be cut.

### DSP engine: `DspSyntax`, `Dsp`

`DspSyntax` has the expressions and the recursive descent parser over tokens.
`Dsp` has constant folding (`Constants`), `eval` (`Eval`, which hands out the
ids of the nodes with a memory), the state, `tick` (`Tick`) and, as actions,
`parse` of a program (`Load`), one sample of `process_buffer` (`Sample`) and
`param_set`. The order in which C++ evaluates the operands of a combinator is
not specified; `leftFirst` is chosen once, as a build chooses it. Nothing in the
repository calls the engine, so the host that loads one program after the other
on one `State` is an assumption, taken from its comment ("Allocated once").
Samples are integers, and the delay line has `MaxDelay` samples for 192000.

The reference is independent of graph, ids and state: `Resolved` replaces names
by what they stand for where they are written, and `Denoted` maps streams to
streams, a recursion being a fixed point.

### Boot: `Vectors`, `Hal`, `Boot`

`Vectors` is `vectors.S` with one action per instruction: `Store` and `Load` are
`stp` and `ldp`, `Called` is the C++ function from `bl` to its return, which may
change every register the procedure call standard gives it and the stack below
`sp`, `Return` is `eret`. `Handlers` holds the two instruction sequences. `x8`
stands for `x4` to `x18` and the vector registers, `x19` for the registers a
callee keeps. `left` is what the program had when it was interrupted, or has
computed since; it is history, except for the mask, which is `SPSR_EL1`. `Lost`
are the registers that do not hold what the program left in them.

`Hal` has the sample clock and the I2C writes of `dac::init`. `Fraction` wraps at
`Word`, as the `uint32_t` product does. A whole part beyond the 12 bits of DIVI is
shifted into the password of the write: the register then refuses the write, or
takes it with the low 12 bits (`Accepted`, `Written`). `set_sample_rate` has two
halves. `StopClock` writes KILL; the clock generator stops some time later
(`ClockStops`), and only when BUSY is clear does `SetSampleRate` set the divisor.
A write of `dac::init` starts
(`StartWrite`), is answered by the DAC at any time (`Acknowledge`,
`NotAcknowledged`, which sets the error flag before the done flag or with it),
and is polled as the code polls it: `done` first, then `err`, then `err` once
more (`PollDone`, `PollError`, `CheckError`).

`Boot` composes them along `start.S` and `kernel_main`. `Handover` is what the
firmware leaves, `Reset` what the watchdog leaves: a timer that may be off,
counting or already expired, routed or not. `ProgramMay` says that a pending
interrupt that is not masked comes before the next instruction of the program.

The program needs its registers. Wherever interrupts are open, `kernel_main` and
the shell may compute something new (`Work`), go on without using a register that
an interrupt has lost, or use it, and then the program may do anything
(`Astray`). So may it after a tick that reached a kernel which is not initialised
(`TimerTickHandler` before `InitKernel`). What a program does once it is astray
is not modelled: `pc` is `"astray"` for good.

### Config server: `ConfigServer`, `ConfigMap`

A worker's `step` is where it stands in a request: routing, opening the
database, the first `sqlite3_step`, the rows, or the UPDATE with its commit.
SQLite is external, modelled by its locks in rollback mode: `shared` holders,
one `writer` (RESERVED), `writing` (EXCLUSIVE). A statement that meets a lock is
refused at once, since the code sets no busy timeout, and the code answers as if
there were no row (`NoRow`). `phase` is the main thread; `Blocked` the signals
the HTTP server's own threads block. One signal is pending at a time. While the
main thread waits, `Shutdown` takes it in `sigwait`; one that a thread of the pool
does not block may instead end the process (`Killed`). `ConfigMap` is what a client expects: each
request reads or writes one table in one step, or is refused and changes nothing.

### Image builder: `ImageLayout`

`mkifs.fsx` measures the directory (`Measure`), places the files (`Place`), and
writes header, entries, data and trailer (`WriteHeader` to `WriteTrailer`); each
turn of a loop is a step. Contents are their lengths.

`dumpifs.fsx` reads the directory first, one entry per `ReadEntry`, and goes on by
the size field, which counts four bytes less than an entry has. So it reads the
first entry as it is, takes the end of the first path for the size of the second
(`Slipped`), and from there on reads anything (`Words`). A size of zero ends the
directory; one that leads out of the image, or leaves a path a negative length,
throws (`Throws`), and dumpifs ends without a verdict on the sum (`"aborted"`).
Only behind the directory does `Verify` add up the image. It adds whole words
only, so `solid` keeps where the last byte that may differ from zero ends.

### MC modules

`MCLibcHeap`, `MCProcessManager`, `MCServices`, `MCBufferObjects`, `MCShell`,
`MCDsp`, `MCBoot`, `MCConfigServer` and `MCImageLayout` give the constants their
small values; `MCDsp` holds the programs, `MCConfigServer` the requests,
`MCServices` the setups (`booted`, `dac`,
`files`, `fresh`, `usb`, `player`).

<a name="runs"></a>
## Runs: what is checked and with which bounds

| Run | What it shows | Bounds |
|---|---|---|
| `libc_heap` | the allocator under its shim and its write loops: tiling, no leak, coalescing and refinement of `Heap` up to the step in which a wrapped size is written over the headers, and no other size gets there; first fit, every call ends; pointers backed, nothing unreachable, copies between two owned blocks | 160-byte arena (five minimal blocks), size_t of 512 values; sizes 16, 40 and 511 (the last wraps in `align_up`), `calloc` of 13 items (the product wraps, of 40 bytes to 8, of 511 to 499, which `align_up` wraps in turn); target build, which stops at the trap |
| `proc` | one owner for every thread and a thread for every running process, whatever is called; with callers as in `top.cpp`, ended processes have no thread and the table implements the life cycle | two spawns, two thread ids and two of capabilities (symmetric), one of each other kind; one capability can be derived from the other, both rows can track the same one, ids are reused; memory counted to one |
| `services` | `booted`: bar, mute status, start-up; `fresh`: refinement of `NamedStore`; `dac`: mute status with any volume and any write unacknowledged; `player`: no leaked file or work buffer, title, rate and channels of one track; all: return to the shell | all seven started services, one buffer, rates 48 and 44.1 kHz, every answer of the firmware; a DAC that acknowledges a write or not; `audiomgr` alone with both volume extremes; three entries and four names two of which are the same after truncation, sizes 0 to 2; one dongle and no other device; a file of each format, with and without tags and cover, sound and damaged, with and without a card; target build, and host build whose malloc may fail |
| `buffer_objects` | disjoint buffers, synchronous submission that returns, refinement of `GemHandles` | five pages, three slots, five creations: slots run out before the pool and the pool before the handles; sizes 0, 1, a page, a page and a byte, the largest |
| `shell` | screen equals line, a line that runs is the newest, refinement of `RecentLines` | lines of up to three characters over two letters and the space, history of two, three commands of which two share a beginning |
| `dsp` | the samples are those the program means; the parser reads what was written | eleven programs, two loads, four samples of 0 or 1, delay lines of three samples, so that they wrap; one control, set outside its range or not; both evaluation orders |
| `boot` | no exception before there is a stack, a zeroed BSS and a table; interrupted code resumes with what the entries save; a DAC reported configured holds what was written last; the divisor is the nearest for the rates that fit, whatever was asked for before; core 0 reaches its shell after every reset or is led astray in one of two named ways | both cores and exception levels; stack of eight words, so that a frame fits at two depths; a word of 30 bits; rates 1400 (runs into the password and is taken with 12 bits), 2000 (runs into it and is refused), 28793 (whose fraction rounds up to a whole), 44100, and 510000 (whose fraction wraps); the first, the fourth or the last write of `dac::init` refused |
| `config` | refinement of `ConfigMap`; every request is answered; a SIGTERM that is waited for stops the server | signals of both kinds, one pending at a time; two workers, two keys, two values of which one is no port, eleven requests, among them malformed, unknown and static ones; the HTTP server's threads block SIGTERM and not SIGINT |
| `image` | data lies where its entry says; the sum is found valid if `dumpifs` gets to it | up to three files and a script; paths of 2, 3, 5 and 8 bytes and files of 0, 1, 2 and 7, so that every padding occurs; the field widths of the code; four characters of names, and five misread sizes: none, too short for a directory, too short for a file, one that fits, one that leads out of the image |

Why the bounds suffice. The hazards of the allocator need a freed block between
two others and a list that is exhausted: three live blocks and one request that
fits no hole. Those of `realloc` need two blocks of one call beside a third. Those of the
process manager need a thread id that moves from a row to a later one, with
another live beside it, and a capability with one that is derived from it. On
the bus every callback chain starts from the quiet state, so one
command at a time reaches all of them; what carries over is the state of the
services, for which two values each (rates, names, volumes) produce every
change. The systems of one run share no state, so exploring them together is
the same as exploring them apart. A table of three entries has a first, a middle and a last one and can
be full. Three slots and five creations reuse a slot while the pool is full.

A history of two wraps, repeats its newest line and drops its oldest. The
programs use every combinator, every node with a memory alone and in a
recursion, values, functions and nested calls. A boot meets at most one
interrupt inside each step, and an entry cannot be interrupted, so one frame at
a time is all there is. Two workers meet in every pair of SQLite's locks, and
two keys let a list mix two moments. One rate of each kind, each after
each other, is what a divisor can meet. In the image only the length modulo four of
what comes before matters to the next file, and the lengths give all four.

Named bounds that are not in the code: `MaxSpawns`, `MaxMem`, `MaxCreates`,
`MaxLoads`, `MaxTime`, and `MaxFiles` of `ImageLayout`. The
constants `ArenaSize`, `WordMod`, `MaxFiles` (of `MemFs`), `Slots`, `Page`, `Word`,
`PoolSize`, `MaxLine`, `MaxEntries`, `MaxDelay`, `StackWords` scale down
constants of the code.

Every run explores its whole state space. The runs of the libc heap allow a
deadlock, because the target build stops at the trap and a write loop that runs
over the headers never returns, and so do those of the
process manager, where the bound on spawns and the end of all processes stop
everything. The shell stops at `reboot`, the DSP run when its samples are used
up, the boot run on a parked core or astray, the config run when a start fails,
the image run when `dumpifs` has ended.

<a name="disagreements"></a>
## Where the code and its documentation disagree

Each of these is a run with one property that states what a comment, a doc or a
specification script of the repository says, and that TLC finds violated.
`PROJECT.json` quotes the line.

| Run | The code | The text |
|---|---|---|
| `libc_realloc_bounds` | growing copies past the old block | "Safe" (`libc_shim.c:48`) |
| `services_rate` | a 48 kHz buffer after a 44.1 kHz one plays at 44.1 kHz | "Switch I2S clock to match source sample rate" (`audiomgr.cpp:105`) |
| `dsp_feedback` | a recursion with two feedback signals shares a memory with the next node | "B's out feeds back into A" (`dsp.cppm:23`) |

Others were met while modelling; the models do what the code does, and no run is
spent on them:

* `exit` and `wait` leave a dead process its channels, connections and
  capabilities (`proc.cppm:165`, 191), against A7 of `verify_proc.fsx:14`; and
  `kill`, whose revocation takes derived capabilities too
  (`test_audiomgr.cpp:77`), leaves their ids in the rows that track them, as
  `track_capability` takes any id (`proc.cppm:231`). What a later kill of such a
  row revokes is then whoever has that id;
* `publish_pcm` publishes the file name as the title after `publish_meta` has
  published the tag (`storagemgr.cpp:273`), against "title falls back to
  filename if no tag" (`storagemgr.cpp:371`);
* the buffer pool (`drmmgr.cpp:132`) covers the peripheral registers and the V3D
  itself, against "top 256 MB of 4 GB RAM" (line 131);
* names of a DSP program are looked up in the scope of the caller
  (`dsp.cppm:760`, 780), against "lexical scope" (line 584): a parameter of the
  caller hides a value of the same name, and `f(x) = g(x)` where the parameter
  of `g` is also `x` never ends evaluating; hence no such names in `MCDsp`;
* the argument of a call takes the commas (`dsp.cppm:925`), against "does NOT
  consume comma as par" (line 924), so `f(a, b)` has one argument;
* the delay of the example programs, `@(dt) * fb`, is an error of the parser
  (`p_atom` gives `@` alone), against "Paste a .dsp in the browser, it runs."
  (`dsp.cppm:1243`);
* payloads lie 8 bytes past a multiple of 16, where `verify_allocator.fsx:14`
  says "always 16-byte";
* a size near 2^64 is rounded to 0 and granted, where `allocator.cpp:14` says
  that failure aborts (hence the guard in `GrantCoversRequest`). `calloc` and
  `realloc` then write all of that size over the headers behind the block
  (`libc_shim.c:38`, 51): hence `OverrunByWrap` in the properties of the list;
* `thread_add` gives a zombie a thread, against F10 (`verify_proc.fsx:110`);
  hence `legal` in `EndedHasNoThread`;
* a name stored twice survives `memrm` (`memfsmgr.cpp:127`, "remove by name");
  hence the setup `fresh` for `NamedStore`;
* nothing publishes `/pps/audio/pcm`, which the header of `storagemgr.cpp`
  (line 12) announces;
* DSDIFF files are in the list of formats (`storagemgr.cpp:104`) and refused
  (`storagemgr.cpp:418`);
* the removal of any USB device counts as the dongle's (`btmgr.cpp:64`); hence
  one device in the setup `usb`;
* a size in the last page becomes a buffer of 0 bytes (`drmmgr.cpp:138` and 141);
  hence the guard in `CoversUnlessWrapped`;
* the exception exit restores `x0` from the frame (`vectors.S:75`), so a system
  call has no result, against "Returns result in x0 (negative = -errno)."
  (`qnxmicro_syscall.h:8`);
* the entries save `x0` to `x3` and the link register, and the IRQ entry two
  registers less, against "Save caller-saved registers" (`vectors.S:63`):
  `x4` to `x18` change under interrupted code. `ResumedAsLeft` therefore speaks
  of the registers the entries save, and a tick may lead `kernel_main` astray on
  its way to the shell (`ShellReached`);
* `kernel_main` unmasks the timer before `k.init()` (`boot.cpp:65`); a tick may
  reach a kernel that is not initialised, and `start.S` runs no constructors:
  the other way to go astray;
* any announced rate above zero is set (`audiomgr.cpp:104`), but only from 2862
  to 1048320 Hz does the register hold the nearest divisor: below, the whole part
  runs into the password (`hal.cppm:206`), above, the 32-bit product may wrap
  (line 202). Hence `Held` in `ClockIsNearest`;
* `dac::init` leaves the bytes of a refused write in the controller's FIFO, so
  that a later write would send them first (`hal.cppm:335`);
* the PLL is set for 32 bit clocks a frame (`hal.cppm:500`), the divisor for 64
  (`hal.cppm:193`);
* a PUT that meets a busy database is answered 404 and a list `[]` with 200
  (`configsrv.cpp:124`, 155): both are refusals in `ConfigMap`. A failed open
  does not close its handle (line 83). A port that is no number, which a PUT
  stores, makes the next start throw (line 59);
* the HTTP server's threads start before the main thread blocks signals
  (`http.cppm:178`, 193), so SIGINT may be taken by a thread that does not block
  it, and the process ends without its destructor, against "Block until
  SIGINT/SIGTERM." (line 104). The model has both, `sigwait` that takes it and a
  thread that does; `TermStops` speaks of SIGTERM;
* the entry of a file says it is 28 bytes and its path long, and is 32, and that
  of a directory 20, and is 24 (`mkifs.fsx:74`, 94, against "Total: 28 + path length, padded to 4", line 67):
  `dumpifs.fsx:80` looks for the next one four bytes early, misreads it, and may
  end with an exception before it has looked at the sum; hence `ChecksumValidates`
  speaks of the images it gets through. The data of the
  first file is not aligned (line 10 says "4-byte aligned"), because the
  directory ends with two bytes.

## Fairness

* libc heap: weak fairness of the steps inside a call (`HeapStep`). The processor
  goes on executing a loop; no call need ever be made.
* Services: weak fairness of `Step`, the statements of the one thread. Commands,
  plugging and granting have none: the shell need not be given another line.
* DRM manager: weak fairness of the handler's polls, which is the processor
  again, and of `EngineStops`: the GPU finishes what it was given. This second
  one is an assumption on the hardware, and the code depends on it, since its
  polls have no timeout.
* Boot: weak fairness of the entries (`Exception`, `Interrupt`), of the timer, of
  the watchdog's reset, and of `Answer`: the DAC ends a transfer one way or the
  other, and the clock generator clears BUSY after KILL. These are assumptions on
  the hardware of the same kind: both are polled without a timeout. A program that
  is astray has no fairness. `KernelMain` has strong fairness: ticks disable the program's
  step again and again, but a handler that returns within a tick, which the
  model assumes of the C++ code (`TimerExpires`), leaves it time between them.
* Config server: weak fairness of each worker's steps, which is the scheduler of
  the host, and of the main thread and of the delivery of a pending signal. No
  client need ask, and nobody need raise a signal.

## Proofs

The theorems are in `LibcHeapProofs` (the allocator and its shim),
`ProcessManagerProofs`, `ServicesProofs`, `BufferObjectsProofs`, `ShellProofs`,
`BootProofs`, `ConfigServerProofs` and `ImageLayoutProofs`. The assumptions are those named in the modules
(`ArenaAssumption`, `BufferAssumption` and so on): the constants are numbers of
the expected kind, the arena holds at least one block, the stack one frame. The
runs check what the theorems state; types, handle uniqueness and the other
conjuncts that an inductive invariant adds to it are proved only.

**Allocator.** The invariant the runs check is not inductive. `Tiled` says that
every block ends where the next one starts, but a merge is safe only because the
cursor of the pass is on the list (in `TypeOK`), coalescing is complete at the
end only because everything behind the cursor is already merged
(`MergedBehind`), and the search is first fit only because what was passed did
not fit (`SearchedDoNotFit`); a split needs the sizes to be multiples of eight
(`SizesAligned`). `IInv` is the conjunction; `InitIInv` and one lemma per action
prove it inductive (`NextIInv`). From it follow type correctness, tiling, no
leak, coalescing, sufficient and aligned grants, the first-fit action property
and the refinement of `Heap`: `Take` is the abstract grant, `Free` the release,
and every other step leaves the payloads alone. Wrapping is part of the
statement: `IInv` holds with it. `EveryCallEnds` is the liveness of the calls: the
search and the pass move the cursor up or take a block off the list, so that each
turn lowers one number, and the arena bounds it.

**libc shim.** The theorems assume the target build (`HostBuild = FALSE`), in
which a call that finds no memory never returns. In the host build it returns a
null pointer, and the code goes on: `realloc` copies to it. `LInv` says which
blocks the running call holds at each of its steps, and that they are live and
different from each other and from those of the callers. With it every step of
the shim is a step of the allocator, leaves the allocator alone, or is a write
loop that runs over the headers. `OverrunWraps` shows that the last comes from a
wrapped size only: a grant is as long as asked otherwise (`GrantCoversRequest`).
Behind it the machine stays as it is (`LostInv`), so the invariant of the shim is
`LInv \/ LostInv`, and from it follow `ShimListTiles`, `ShimListOwned`,
`ShimListCoalesced` and `ShimImplementsHeap`, for every set of requests. Where no
request is within 15 bytes of the word's end, which `ShimObeysAllocator` assumes,
nothing is ever lost and all theorems about the allocator hold under the shim.
That callers' pointers are backed, that no block is forgotten and that `realloc`
copies between two blocks of its own are conjuncts of `LInv`. That the allocator's calls end when
the libc functions make them (`ShimCallsEnd`) follows from `EveryCallEnds` in the
same way.

**Process manager.** The invariant is about ownership: the threads of the rows
are disjoint and together are the scheduler's threads. Nothing of the kind holds
of capabilities, which the invariant only types. All operations reduce to one
row that changes (`RowIInv`), so each
lemma shows what its row gains and loses. With callers that name running
processes it follows that ended processes have no thread, and that the table
implements `Lifecycle`.

**Services.** Every step of the thread changes the work the same way: the first
statement goes and the statements it calls come in its place. No induction over
the work is needed, because each invariant says of the work only that there *is*
a statement somewhere, in front of another or behind it, and `Places` says where
each statement that was left or was called is afterwards. What a handler calls
is a tuple or a concatenation of tuples, and each is looked at once: `Harmless`
and `Steady` are the statements that change nothing the invariants are about,
`HandlersInDetail` names the few handlers that call others. `Shape` (only
services run, only subscribers are called) is a part of every argument.

* `PlayAlwaysCleansUp`: `CleanUp` says that while a file is open the decoder or
  the statement that closes it is in the work, and while a work buffer is held
  the statement that frees it. Every path of every format has to put them there,
  those on which a `malloc` fails included.
* `StatusTellsMuteOrUnheard` assumes nothing of the DAC. The code ignores the
  result of the write, so a status that says muted is true unless the last mute or
  unmute was not acknowledged (`Hushed`): an older write, a volume or a tone
  excuses nothing. `MuteTold` says that the mute
  and the publication of its state stand side by side at the front of the work,
  so that no callback can come between them.
* `BarFollowsAudio`: `BarTold` says that what plays a sound stays together at the
  front of the work up to the "idle" that ends it, that a stream has the bar on
  the screen or something in front of it that draws the bar, and that a bar on
  the screen has something behind the playing that clears it. It uses that the
  states of `audiomgr` make nobody but `displaymgr` do anything (`StateCalls`).
* `ServicesStartThemselves`: `StartTold` says that a service that has not
  announced itself has something in the work that leads there: its entry, its own
  command with the subscription made or still in front of it, the callback, the
  driver's answer, or the announcement. The same has to be said of what takes an
  announcement back: `genetmgr` and `httpmgr` publish other states before, with
  the announcement behind them. Nothing is assumed of the order of the entries.
* `TracksStayWhole` assumes that where `storagemgr` runs nobody else announces a
  sample rate: `SetupAssumption` allows the owner of a buffer to, and a rate
  announced behind a track's would stand under that track's title. It holds in
  the target build, where an allocation that fails never returns. `TrackTold`
  says that what is still to be said of a track is said before anything in the
  work can play another one, all of one track, the title with its rate and
  channels behind it, and that a title on the bus has its rate and channels shown
  or in the work. A playing command, its callback and the decoder therefore find
  nothing left to say of an older track. Where `storagemgr` is not started,
  `StorageAway` says that nothing leads to a title at all.
* `FilesAreAMap` is the refinement of `NamedStore`, for any size of the table and
  any names, in the setups that store new names only. It assumes that `storagemgr`
  is not started there, since it stores every track it decodes, new or not, and
  that `memfsmgr` is started once (`kernel_main` calls each entry once), or both
  callbacks would store the same name. `StoreTold` says that no name is in the
  table twice, that one statement at most is left that leads to the storing of a
  name (command, callback or append), whose name is not in the table yet, and that
  an entry is removed right behind the search that found it, so that its index is
  still its own; `EnterTold` that `memfsmgr` subscribes once, whatever else
  subscribes. Then where a name is found is where it is (`Found`), and the
  arithmetic of the shift in `memrm` (`Removed`) leaves every other entry with its
  name.
* `TableNeverOverruns` needs none of these assumptions: whatever is stored how
  often, with `memfsmgr` started twice or `storagemgr` storing too, the table has
  room for the entry that is appended, and the entry that is removed has the name
  that was asked for. `store` and `memrm` look, and then change the table; in the
  work the change is the first statement (`TableTold`), so no callback comes
  between. `AppendFile` and `RemoveFile` themselves check nothing, in the
  model as in the code.

**DRM manager.** `IInv` adds that handles stay below the next one and that all
objects lie below the pool pointer, which only grows; a new object therefore
overlaps none, in whatever order slots were freed and reused, and also when its
size wrapped to zero. The theorems are type correctness, unique handles,
disjoint buffers, synchronous submission and the refinement of `GemHandles`, and
`CallsReturn`: each poll of a submit ends once its engine has stopped, and no
other operation starts an engine while the one call runs.

**Shell.** `IInv` adds to the types that browsing stays inside the history
(`BrowsesInside`), without which `Down` could recall a line that is not there.
What matters is the arithmetic of the ring: after a push the line that was idx
calls ago is idx + 1 calls ago, because the head moved by one modulo the number
of entries, and the slot that was overwritten is the one that drops out. From it
follow that a line that runs is the newest one and the refinement of
`RecentLines`. Every line fits the buffer because typing stops one short of its
end and because recalled lines and command names are lines themselves.
That the screen shows the line (`ScreenFaithful`) is an argument about the
terminal: `Shown` says that it holds the line up to the cursor and blanks behind
it. Writing keeps this for the longer line (`EchoShown`), and erasing, which goes
back, writes blanks and goes back again, for the shorter one (`WipedShown`),
whatever longer lines the terminal has shown before.

**Boot.** The entries' invariant is the frame: at each instruction of an entry,
the registers stored so far lie in the stack between `sp` and where the program
left it, in the order in which they will be loaded. The C++ function writes only
below `sp`. That exceptions find their vectors needs that `masked` holds until
start.S is through, in which the drop to EL1 and the reset take part. The
divisor is arithmetic: quotient, remainder, and a fraction that may round up to
a whole. `ClockRounds` is about the rates in `Held`, for which the product does
not wrap, the whole part stays in its 12 bits (`TwelveBits`) and the password
therefore stays as it is (`WrittenAsIs`), whatever rates came before.
`DacIsConfigured` needs to know which writes hold in the registers
(`Programmed`) at every point between and inside two writes, that a transfer has
its two bytes alone in the FIFO, and that every write behind the resets goes to a
register of its own (`WritesDistinct`), so that a later one undoes none.
`BootReachesShell` says that core 0 reaches the shell or is astray, which it
becomes only in the two ways the model names. It counts the program's steps to
the shell (`ToShell`), which no exception, tick or answer makes more. What has to be shown is that the program
may go on again and again (`KernelMay`): a tick that comes at once after the
return takes it away, so its fairness is strong; the entry runs to its end because
`TimerTickHandler` sets the next tick before it returns, the wait of the I2C
ends because the DAC answers one way or the other, and the wait for BUSY because
the clock stops once it is told to (`WaitInv`: where the program waits, the
generator is stopped or about to be).

**Config server.** `LockProtocol` is the protocol of the locks: a writer holds a
shared lock as well, and while it commits nobody else reads. Therefore the rows
a worker has read are still those of the table when it reads the next one, and
the answer it sends is that of the table at the moment it lets go of its lock:
this is the refinement of `ConfigMap`, for any number of workers. The same protocol
shows that a request is never blocked (`NeverBlocked`): no busy timeout is set, so a
lock that is taken is an answer and not a wait. Each step of a request lowers the
number of steps it has left and none of another request raises it
(`EveryStepShortens`); hence `AllAnswered`. `SigtermStops` needs only that the
signal stays pending until `sigwait` takes it.

**Image builder.** Positions are sums over the files before, which would need
induction over sequences. `LayoutInvariant` instead says that *there is* a series
that starts at zero and grows by the length of each entry, and that both passes
follow it; each turn of a loop moves along the series, and no sum is
ever evaluated. `ChecksumAccepted` is about any way that `dumpifs` may take through
the directory, since nothing it reads there goes into the sum; it does not say
that `dumpifs` gets to the sum, because it need not.

**Liveness.** Five of the six liveness properties are proved as well. ENABLED is
out of the prover's reach, so a theorem assumes the fairness with the guards written
out: where the specification says `WF_vars(A)`, which is
`[]<>~ENABLED <<A>>_vars \/ []<><<A>>_vars`, the theorem has
`[]<>~May \/ []<><<A>>_vars`, in which `May` is the conjunction of the guards of
`A` (`CallsRun`, `ShimRuns`, `EnginesStop`, `HandlerPolls`, `MachineRuns`,
`ThreadsRun`, `MainRuns`). Where `May` holds the action can be taken, so this follows
from the fairness the runs use; it can be read off the guards, and on the
instances of the runs TLC confirms it. The temporal prover knows no induction
over numbers either. A number of steps left is therefore given to it in binary:
once the digits above a digit no longer change, that digit can only fall, and so
comes to rest too; when all are at rest no step of the loop is left. This needs as
many steps of proof as the number has digits, so it is proved for a bound that is
written down: arenas up to the 1 MB of `allocator.cpp:28`, and tables of
up to 57 settings, of which `seed_config.fsx:135` writes 37. Further hypotheses are
that a C++ handler can return at all (`CalleeFiles # {}`, `Stacks # {}`), that the
threads of the pool block SIGTERM (`"TERM" \in Blocked`), and the target build for
the shim.

Proved and not run: type correctness of the modules, `HandlesAreUnique`,
`CoversUnlessWrapped` (an object covers the size asked for unless rounding
wraps), the lengths of grants, `TableSafe`, `HasAStep` and `ShorterEachStep`.

Model-checked only:

* `ReturnsToShell`: each command ends, but the work it leaves is a list of any
  length, whose measure is a sum over its statements with no bound to write
  digits for, and the induction over it is one the provers do not have;
* `OutputIsDenoted` and `ParsesBack` of the DSP engine, whose parser and evaluator
  are RECURSIVE operators.

<a name="not-modelled"></a>
## What is not modelled

* The kernel, an empty submodule. Bus, scheduler and memory manager appear as
  the code uses them and are marked external in the map.
* Vendored code (FatFs, lwIP, the audio decoders, SQLite), binaries, generated
  files. What a decoder may answer for a file is a constant of `StorageManager`.
* Data no property tells apart: sample values, pixels, text on the console, the
  formatting of numbers. The volume keeps its 8 bits.
* What a program does once it is astray, and what other code finds in an arena
  whose list is lost. The models stop there.
* The clock-stretch timeout flag of the I2C controller, which the code never
  looks at. Two signals that are pending at once.
* `httpmgr`'s request handlers, which nothing can call until the Ethernet driver
  exists; `drmmgr`'s `get_param`, which reads constants.
* The parser of build files, inode numbers and the bytes of an image, what
  `dumpifs` prints of an entry, and the weights of the bytes in its sum. What it
  reads where it has lost its place is any of `Words`.
* The names in the listing of `ls`.
* `libos`, whose wrappers are one instruction each; `lv2_amp.c`, a loop without
  state; the console and `helloworld`.
* The DSP engine's tokenizer, functions of several parameters, tables, groups and
  the other controls, and its native instruments, whose arithmetic is floating
  point.
* UART, GPIO, the I2S FIFO and the words of the mailbox: single register accesses
  without a state that a property could relate to another.
* What the kernel does in `tick` and in a system call: `syscall_dispatch` is a
  placeholder.
* Growth without end: rows of the process table and decoded samples are never
  freed by the code. The model bounds the number of spawns and keeps one mark
  for the samples, which `PlayCleansUp` exempts by name.

## Plan

Modelled, checked and, where named above, proved: arena, libc heap, process
manager, the bus with its services, storage manager, DRM manager, shell, DSP
engine, boot and exceptions, config server, DAC and clock, image layout. Worth
doing next:

1. `Dsp`: functions of several parameters, tables, groups and the other
   controls; programs in which names clash.
2. The mailbox with a firmware that answers late, when more than the display
   uses it.
3. The handlers of `httpmgr`, once the Ethernet driver calls them.
