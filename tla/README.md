# A TLA+ model of MyOS

MyOS is a 32-bit x86 operating system written from scratch: a kernel with a
round-robin scheduler, paging, a kernel heap, a FAT16 file system on a polled
IDE disk, a keyboard and a text terminal, an RTL8139 network card with ARP, IP
and ICMP, an ELF loader, eighteen system calls, and a small C library and shell
in user mode. This directory models the parts of it whose correctness depends
on the order of events, checks them on small instances, and proves for any sizes
what matters most about the scheduler and its queues, the keyboard and the
screen, the file system, the kernel heap, physical memory, the network stack and
the network card.

## 1. The system

### How control moves

There is one CPU. Every interrupt and system call enters through an interrupt
gate, so kernel code runs with interrupts off (`IF = 0`) until it returns to
user mode. Three things break that atomicity, and all concurrency in the system
comes from them:

* a handler calls `schedule()` and the CPU goes on in another task's context;
* the idle loop (`hlt` in `kernel_main`) and user mode run with `IF = 1`;
* `arp_resolve` and `ping` execute `sti` and poll with `IF = 1` inside a system
  call, and `arp_resolve` even inside the network card's interrupt handler.

| component | state | operations | talks to |
|---|---|---|---|
| scheduler (`task.c`) | `current_task`, `ready_queue`, `wait_queue`, each task's state, parent, time slice | timer tick, `schedule`, add to queue, wake up | everything that blocks or ends a task |
| system calls (`syscall.c`) | the brk of a task | `exit`, `exec`, `read`, `sbrk`, file and network calls | scheduler, keyboard, FAT, memory, network |
| keyboard (`keyboard.c`) | ring buffer, line buffer, shift and ctrl | interrupt handler, `kbd_get_char` | terminal (echo), scheduler (wakes readers) |
| terminal (`terminal.c`) | 80 x 25 screen, cursor | put character, scroll, erase | every part that prints |
| physical memory (`pmm.c`) | frame bitmap | allocate, free | paging, ELF loader, `sbrk` |
| paging (`vmm.c`) | page directories and tables | map, page fault, new directory | physical memory, scheduler (kills) |
| kernel heap (`kheap.c`) | block list in memory | `kmalloc`, `kfree` | PCBs, stacks, file and frame buffers |
| ELF loader (`elf.c`) | none | load | FAT, heap, memory, scheduler |
| FAT16 (`fat.c`), IDE (`ide.c`) | the disk | create, write at offset, append, delete, mkdir, list, read | heap |
| network stack (`net.c`) | ARP cache, ping reply, sequence number | resolve, send, receive, `ping` | network card, timer ticks, scheduler by interrupts |
| network card driver (`rlt8139.c`) | receive ring, CAPR, transmit descriptors | `rtl8139_init`, interrupt handler, `rtl8139_send` | the card, by shared memory; `net_receive` |
| C library (`mylibc.c`) | pool of 16 `FILE` slots | `fopen`, `fwrite`, `fseek`, `fclose`, `remove`, `printf`, ... | file system calls |
| shell, programs, TinyCC | none in the kernel | commands, a compiler | C library |


### The components in turn

What each component must get right, and why that is hard to test:

**Scheduler.** Four states besides RUNNING: READY (in the ready queue), WAIT
(in the wait queue, for a key), WAITING (in no queue, for a child) and ZOMBIE
(in no queue, for ever). A state and a queue are changed in different places:
the caller of `schedule()` sets the state, `schedule()` moves the task. Every
pair of them must agree at every point where a task can lose the CPU. No task
may be lost, be queued twice (both queues share the `next` pointer), or run
again after it ended; a reader must not miss its key; a ready task must run.

**System calls that block.** `sys_exec` creates the child READY before it
becomes its parent and blocks; `sys_exit` wakes the parent before it dies;
`sys_read` tests the ring, blocks, and tests it again when it has the CPU back.
Since `sys_exec` blocks its caller, at most one user program is ever runnable.
Much of the kernel rests on this without saying so: `sys_exec`'s static argument
buffers, the static sector buffers of `fat.c`, and all drivers are unlocked.

**Keyboard.** The interrupt collects a line, Enter moves it to a ring buffer of
256 bytes, `sys_read` takes bytes out. Producer and consumer meet at `kbd_head`
and `kbd_tail`; a full ring drops bytes; byte 0 is both a character and "empty".

**Terminal.** Echo comes from the interrupt, output from programs, between any
two characters of each other, on one cursor. Wrapping and scrolling meet at the
bottom right corner.

**Physical memory, paging, `sbrk`, loader.** Frames come from a bitmap, first
free first; page tables take frames in the middle of another mapping; nothing is
given back. Both `map_page` and the loader ignore that no frame is left, `sbrk`
and the page fault handler do not. The kernel heap lives at addresses that are
mapped one to one to frames the bitmap calls free.

**Kernel heap.** A first-fit list of headers in the memory it manages. Splitting
and merging change up to four links; a wrong one shows many calls later.

**FAT16.** Every operation is a sequence of sector writes: the table, the data,
the directory. Power can fail between any two of them, the disk or a directory
can be full in the middle.

**Network.** `ping` resolves, sends and waits with interrupts on, so the receive
interrupt, which updates the ARP cache, sends answers and may itself wait for an
ARP reply, comes between any two of its instructions. The network loses, delays
and repeats packets.

**Network card.** The card writes into the receive ring and sends from the
transmit buffers at any time, between any two instructions of the driver; a few
registers say who owns what. Offsets are rounded to 4 and wrap around, `CAPR` is
16 behind and wraps at 16 bits, the status bits are cleared before the ring is
looked at. One step in the wrong order loses an interrupt, and after it nothing
is received any more.

**C library.** A stream has a position of its own or, in mode "a", none; several
streams may be open on a file; a call that fails may have written a part of its
data. What a program is told was written must be in the file, in that order.

**Shell, programs.** Sequential code over the system calls.

## 2. The plan

The order follows the importance of the behaviour. The scheduler comes first
since every other part relies on what it promises about who runs.

| module | what it is | status |
|---|---|---|
| `Sched` | every operation that changes a task, queues as sequences | done |
| `Foreground` | abstract: the stack of programs that `Sched` implements | done |
| `SchedProofs` | theorems about `Sched` | done |
| `TaskList` | the queues as the linked lists of `task.c` | done |
| `RunQueues` | abstract: two FIFO queues, implemented by `TaskList` | done |
| `Keyboard` | the driver: line editing and ring buffer | done |
| `Console` | `Keyboard` composed with `Sched`: `sys_read` with bytes | done |
| `ByteStream` | abstract: the FIFO stream of bytes `Console` implements | done |
| `Terminal` | characters, wrapping, scrolling | done |
| `Echo` | `Keyboard` composed with `Terminal` | done |
| `Heap` | `kmalloc` and `kfree` | done |
| `Allocator` | abstract: memory nobody else has, implemented by `Heap` | done |
| `FileOps` | what the calls of the file system do to one file, and what a write promises, as functions | done |
| `FatFs` | the file system, one sector write at a time; each file is what `FileOps` says the code makes of it, and what was promised where no write goes astray | done |
| `Stream` | the C library's streams over `FileOps` | done |
| `Memory` | frames, address spaces, `sbrk`, stack growth, loading | done |
| `Net` | ARP, IP, ICMP, `ping`, transmit descriptors | done |
| `NetProofs` | theorems about `Net` | done |
| `Nic` | the RTL8139 driver and the card: receive ring, interrupt, transmit descriptors | done |
| `PacketQueue` | abstract: a FIFO of packets, implemented by `Nic` once in each direction | done |
| `NatFacts` | what the proofs share: division, least elements, induction, loops | done |
| `MemoryProofs` | theorems about `Memory` and about `Heap`, which implements `Allocator` | done |
| `ConsoleProofs` | theorems about `Console` and `Echo`, `Console` implements `Sched` and `ByteStream` | done |
| `NicProofs` | theorems about `Nic`, which implements `PacketQueue` in both directions | done |
| `TaskListProofs` | theorems about `TaskList`, which implements `RunQueues` | done |
| `FileProofs` | theorems about `FatFs` and about `Stream`, which share the lemmas about `FileOps` | done |

Composition is by `EXTENDS` where a module is a part of another (`Console`
extends `Keyboard`, `Echo` extends `Keyboard` and `Terminal`), or uses another
one's definitions (`FatFs` and `Stream` extend `FileOps`: `FatFs` shows that the
calls do to a file what `FileOps` says, `Stream` builds on it), and by
`INSTANCE ... WITH` where one module is the specification another one implements
(`Sched`/`Foreground`, `TaskList`/`RunQueues`, `Console`/`Sched`,
`Console`/`ByteStream`, `Heap`/`Allocator`, `Nic`/`PacketQueue` twice) or whose actions it reuses
(`Console` takes the task side of its steps from `Sched`).

## 3. The modules and the code

Names are the code's where TLA+ allows it. Operators that stand just before a
definition and are used nowhere (`ScheduleDropsPrev`, `FitsInUse`, ...) are
deliberately broken variants of it: replacing the definition by the variant must
violate a property (`PROJECT.json`, "mutants"). They show that the properties
can fail.

### Sched

An action is what happens between two points where something else may run. A
handler runs with interrupts off, so it is one step, up to the point where
`schedule()` switches.

| TLA+ | code |
|---|---|
| `current`, `ready`, `waitq`, `nextPid` | `current_task`, `ready_queue`, `wait_queue`, `next_pid` |
| `state`, `parent`, `ticksLeft` | the fields of `task_t`; `"NONE"` is a PCB not allocated yet |
| `at` | where the saved context stands: user mode, in `ping`, in `sys_read`'s loop, behind `sys_exit`'s `schedule()` |
| `avail` | number of bytes in the keyboard ring |
| `halted` | `sys_shutdown` or a fatal exception |
| `Tick` | IRQ0: `timer_callback`, `task_tick`, `schedule` |
| `KeyboardWake` | IRQ1 for Enter and Ctrl+C: bytes into the ring, `task_wakeup` |
| `SysExit`, `SysExec`, `SysReadBlock`, `SysReadTake` | `sys_exit`, `sys_exec`, `sys_read` |
| `SysPing`, `PingReturn` | the span in which `sys_ping` has interrupts on |
| `PageFaultKill` | the end of `page_fault_handler` in user mode |
| `Halt` | `sys_shutdown`, `isr_handler` |

A user program may make any call at any time. `create_task` and
`kernel_task_exit` have no caller and are left out, as are failed calls of
`sys_exec`, which change nothing here.

### TaskList

`Sched` has sequences; the code has two head pointers and one `next` pointer per
PCB. `TaskList` is the same functions on pointers, called from any number of
tasks in any order the callers respect (more than `Sched` needs). `Walk` turns a
list into a sequence, and that sequence is the refinement mapping to
`RunQueues`. A list that runs in a circle would show as a walk longer than there
are tasks; `Ends` says that the walk comes to `NULL`.

### Keyboard, Console, ByteStream

`Keyboard` has one operator per case of `keyboard_handler_main`, `kbd_enqueue`
and the loop of `sys_read`. `Console` adds the scheduler: every interrupt and
system call in every order. It is shown to implement `Sched` with
`avail <- Used`, so that the abstraction of the ring to a number in `Sched` is
not an assumption, and `ByteStream` with `stream <- Contents`.

### Terminal, Echo

`cells`, `row` and `col` are the driver's. `paper` is a history variable: what
would have been printed on an endless roll of paper. The screen must always show
its last rows.

### Heap, Allocator

Addresses count units of 8 bytes, the alignment. `blk` maps addresses to headers
and has exactly the headers in the list; `kmalloc` is `TakeWhole`, `Split` or
`Extend`, `kfree` is `Free`. `live` is a history variable with what the callers
hold; `Allocator` speaks of nothing else. A call is one step, as it is for a caller
with interrupts off; `ip_send`'s `kfree` with interrupts on (section 7) is not in
the model.

### FileOps, FatFs

`FileOps` has two parts. The first sums up the code: a file is a size and the bytes
of its clusters, with `NewFile`, `Written`, `CutShort` (a write that ended early)
and `Readable`. It contains what is surprising about `fat_write_file_at`: the walk
to the offset stops at the last cluster (`Seek`), and a size may lie behind the
clusters. The second part is what a caller is promised, without any of that: a
size, and at each position the byte written there last (`Promise`, `Overlay`).
`Astray` marks the writes for which the two differ.

In `FatFs` the variables `fat`, `root` and `sec` are the disk; every write of a
sector is an action, and the record `op` says which operation is under way and
where. `Crash` is a loss of power between two writes, in any operation. `expect`
and `promised` are history variables: each file as `FileOps` says the code leaves
it, and as its callers were promised. A name is a
model value in 8.3 form, a byte is a letter; one cluster is one sector, as on the
image the build makes (`Makefile`, `mkfs.fat`).

The table has as many entries as fit its sectors, more than there are clusters (27
more on that image), and `fat_allocate_cluster` scans them all. Calls that
find the disk full fail (`DiskFull`, or nothing happens) on a disk without such a
rest; on one with a rest they go on behind the end of the disk, and the model ends
there (`Overrun`).

### Stream

`files` are the files that exist, as `FileOps` records; `pool` is `_file_pool`;
`fopen` in its three modes, `fclose`, `fwrite` (on which `fputc`, `fputs` and
`fprintf` are built), `fseek` and `remove` are one action each, or two when they
may fail. The clusters of all files together are bounded, so that any write may
find the disk full. As with `DiskFull`, this is a disk whose table has no entries
behind the last cluster. `held` and `begins` are history variables: the streams the
program has, and what the file of a stream must begin with by the calls that were
accepted. `Esi` is what the register holds that `fopen` does not set.

### Memory

`bitmap` is the bitmap, `space` a program's directory, tables and pages, `brk`
its break, `heap_pages` how far the kernel heap has grown; `strayed` is a history
variable, the programs whose break a negative increment has moved up. A call is one
step (interrupts are off); inside it the frames are taken in the code's order,
threaded through the record that `map_page` and `MapNew` pass on. The break is
kept modulo `Space` (2^32), since `sys_sbrk` adds a signed increment to it and
looks only at the sum: one below -1 GB may wrap around to a break further up.

### Net

`arp_cache` holds the valid entries in order; `ping` is the system call with its
program counter and its variables, split wherever interrupts can be on;
`rx` is the receive interrupt while it polls in `arp_resolve`, and `rx.over`
says that it does so on top of `ping`, which then cannot go on. `rtl8139_send` in
`ping` is three steps, each of which may read `tx_next` again: choose the
descriptor and poll it, fill the buffer, tell the card.

`asked`, `answered` and `mistaken` are history variables that begin anew with each
`ping`: its requests, those of them whose own reply came in while `ping` was
waiting for it, and whether a reply that was not this ping's came in with the
number of the current probe. All pings use one identifier and number their probes
from 1, and no one looks at the sender (`net.c:427`, `net.c:453`), so such a reply
cannot be told apart from the probe's own.

### Nic, PacketQueue

`ring` holds the packets in `rx_buf` by the offset of their header, `rx_addr` is
where the card stores the next one, `capr` the register, `isr` the interrupt
status. `drv` is `rtl8139_handler` with its program counter: read and clear the
status, test for an empty ring, read the header, call `net_receive`, write `CAPR`.
`own`, `tx_buf` and `tx_next` are the transmit descriptors, `send` is
`rtl8139_send` with its program counter. `Arrive` and `Transmit` are the card's
own steps, modelled from how the driver uses the card; a packet that is stored
over others removes them from `ring`, so a driver that gives space back too early
is found out. `boot` is the end of `rtl8139_init`, in which packets may arrive
already. `PacketQueue` says what both directions promise: packets come out once
each, in order, as they were put in.

## 4. The runs

`tlc -config X.cfg M` in this directory. All runs are exhaustive within their
bounds. Numbers are distinct states.

| run | module, cfg | states | question |
|---|---|---|---|
| `sched` | `MCSched` | 9,628 | Do queues, states, parents and saved contexts agree at every point, does everything ready run, is every reader served? |
| `lists` | `MCLists` | 124,913 | Do the linked lists of tasks end and implement FIFO queues? Are the heap's links right, is freed memory merged, does nobody get memory somebody has? |
| `console` | `MCConsole` | 537,004 | Do driver and readers together form a byte stream, and do they implement `Sched`? |
| `echo` | `MCEcho` | 468,640 | Does the screen show the end of what was printed and typed? |
| `fat` | `MCFatFs` | 148,151 | Is each file what its calls promise, through full disks and directories and losses of power? |
| `stream` | `MCStream` | 554,622 | Is what `fwrite` accepted in the file? |
| `memory` | `MCMemory` | 288,181 | Are frames private, is every byte below the break backed, does data stay where it is? |
| `net` | `MCNet` | 541,814 | Do the cache, the frames and the counting survive every interleaving of `ping` with the receive interrupt, and does every ping end? |
| `nic` | `MCNic` | 493,132 | Is each packet handed on once, in order, and is no interrupt lost? |
| `sched_orphan`, `net_send`, `fat_append` | `MCSchedOrphan.cfg`, `MCNetSend.cfg`, `MCFatFsAppend.cfg` | | three statements of the repository the code does not keep, see section 7 |

### What each shows

**sched.** `QueuesMatchStates`, `IdleCanRun`, `OneForeground`, `NoLostWakeup`,
`ForegroundChain` and `ExitWakesParent` hold in every state;
`ExecReturnsOnChildExit` in every step. `ImplementsForeground` sums up what the
user sees: programs form a stack, `exec` pushes, `exit` pops and returns to the
one below; a page fault in the program on top leaves the machine with nothing in
the foreground. `ReadyRuns` and `ReaderServed` are the liveness of scheduling.

**lists.** `MCLists` puts the two modules of linked pointers side by side; they
share no state, and in each behaviour only one of them takes steps.
`ListsMatchStates`: the walk from each head comes to `NULL`, the lists are disjoint
and contain what the states say, and no stale `next` pointer is left. `ImplementsQueues`: each call
does to the lists what it promises to do to the queues, in particular
`task_wakeup`, which walks one list while it appends to the other through the
same pointers. For the heap, `LinksAgree`, `FreeBlocksMerged`, `BlocksMatchCallers`
and `ImplementsAllocator`, including requests for 0 bytes.

**console.** `ImplementsStream` covers the wrap-around of head and tail and reads
that take part of a line. `ByteStream` allows bytes that do not fit to be dropped
and a NUL to end a read, as the code has it (section 7): the property shows that
nothing else is lost, repeated or out of order then, not that these two are right. `ImplementsSched` means
that all results about `Sched` apply to the driver with its bytes.

**echo.** `ScreenShowsPaper`, through wrapping, scrolling and both, erasing at
the beginning of a row, and echo between any two characters of output.

**fat.** Chains do not share clusters or run in circles (`ChainsIntact`), no
cluster is lost but by a loss of power (`NoClusterLost`), and every file has the
size its calls have given it and, at each position, the byte written there last
(`FilesReadBack`). This includes writes that found the disk full or lost power: a
beginning of the data is on the disk and nothing else has changed. The exception
are files to which a write has gone astray, one that began exactly behind the last
cluster (section 7); of these and all others `FollowsFileOps`, which is proved,
says that they are what the summary of the code in `FileOps` makes of them.
Deleting frees the chain before the entry is
gone (`fat.c:538`), so power lost in between leaves an entry with free clusters.
The properties say that no other file has suffered and that deleting again
completes the deletion, provided that it is done before anything else is
changed; a program that creates a file first gets clusters two entries share.
The model's programs delete again, do not create below a file, and do not delete
a directory with files in it.

**stream.** `AcceptedBytesLand`: what `fwrite` has accepted is at the beginning of
a file opened with "w", and behind what a file opened with "a" held, in the order
of the calls, with several streams on a file, with calls that failed on a full
disk and were made again, and whatever offset `fopen("w")` finds in ESI.
`StreamsMatchCallers`: failed calls keep no slot. The property says nothing of a
write that begins exactly at the end of the last cluster (section 7), nor of a
stream whose file was changed by a seek, a removal or another stream that does
not append.

**memory.** `FramesPrivate`, `BreakBacked` and `DataStays`, with frames running
out in every call that takes one, increments that leave the break inside a page,
negative increments, also those whose sum wraps around, and growth that failed
half-way. `BreakBacked` and `DataStays` leave out the programs whose break a
negative increment has moved up (section 7), `FramesPrivate` does not. Behaviours end in a state
where a program was given a frame of the kernel heap or frame 0: the kernel then
writes over its own data, and nothing can be said. `SoundWhileFramesLast` says
when this cannot happen: as long as a frame below the heap is free.

**net.** `OneEntryPerHost`, `AddressedRight`, `CountedWereAnswered`,
`WaitsInVain`, `PingEnds`, and freedom from deadlock. `CountedWereAnswered` is
about one ping: it counts no more probes than had their own reply come in while it
waited for them, whatever earlier probes and pings have left in the reply
variables. Pings during which a reply to another ping arrives with the number of
the current probe are excepted; the code counts that reply (section 7).
`AddressedRight` ends when a full cache has given up its first entry.

**nic.** `ImplementsRx` and `ImplementsTx`: driver and card together are a FIFO of
packets in either direction. On the way in this means that the card never
stores over a packet `net_receive` works on, and that the next packet is found
where it is, around the end of the ring and of the 16 bit register. On the way out it
means that a descriptor is not filled again before it was sent. `PacketsGetHandled`:
as long as packets are stored `net_receive` is called, though the handler clears
the status before it looks at the ring and `rtl8139_init` enables the receiver
before it sets `CAPR` and unmasks interrupts. `TypeOK` has the alignment of the
headers and the range of the registers.

### Bounds, and why they are enough

| run | bounds | what they let happen |
|---|---|---|
| `sched` | 4 user tasks, slices of 2 ticks, ring of 2 bytes | chains of execs four deep, death in the middle of a chain, a slice that ends and one that does not, a full ring. More tasks only lengthen the chain: at most one is runnable. |
| `lists`: queues | idle and 5 tasks | three tasks in one queue and two in the other, which is first, middle and last in both |
| `console` | ring of 3 slots, lines of 2, one user task, 4 keys, reads of up to 2 bytes | lines longer than the free space, every position of head and tail, partial reads. One task, since `OneForeground` holds for any number. |
| `echo` | screen of 2 x 2, lines up to 3 characters, up to 4 rows printed | wrapping, scrolling twice, both at once, a backspace in column 0 |
| `lists`: heap | header of 2 units, sizes 0, 1, 4, heap of 17 units | five blocks at once, requests that fit exactly, with one unit too little to split, and with just enough |
| `fat` | 3 clusters of 2 bytes, 2 root entries, 1 entry in a subdirectory, 2 interchangeable names, writes and appends of 0 and 3 bytes, at offsets 0 and 2, to files of up to 3 bytes | a file over several clusters, a write behind the end and exactly at the end, a full disk in every step that needs a cluster, a full root, a full subdirectory, a loss of power between any two writes, repeated ones included |
| `stream` | 2 slots, 2 interchangeable paths, 2 clusters of 2 bytes, writes of 1 and 3 bytes up to position 4, a seek to 1, ESI 0 or 5 | two streams on one file in any two modes, a full pool, a disk that is full at once or in the middle of a write and has room later, an ESI behind the last cluster |
| `memory` | 2 interchangeable programs alive at a time (their names are used again), 20 frames, the heap from frame 16 on, pages of 2 bytes, tables of 2 pages, images of 1 and 2 pages, addresses modulo 20, increments of 3 and -5 | frames running out in each place, tables shared by heap and image, a break in the middle of a page, sums that wrap around and are refused or accepted |
| `net` | 4 hosts (gateway, two local, one remote), cache of 2, one transmit descriptor, pings of 2 probes | a full cache, an entry overwritten between lookup and copy, late and repeated replies to the previous probe and to earlier pings. One descriptor makes every two frames meet. |
| `nic` | ring of 32 bytes, 16 bit registers that wrap at 64, packets of 6 and 12 bytes (rooms of 12 and 16), 2 descriptors, 2 frames | every offset a multiple of 4, packets that run on behind the end of the ring, a full ring, a driver that comes round to a descriptor in use |

Three runs use a `VIEW`. Two states with the same view differ only in what no
action reads before it is overwritten, or what the rest of the view determines:
in `console` slots of the ring outside `Contents`; in `echo` the ring, which the
screen does not depend on; in `fat` free and lost clusters, the rest of a vacant
directory entry, the bytes of a file that no call has written, those that the
call under way has, and what was promised of a file to which a write has gone
astray. The number of states of each is the same whatever the order
of the search, as it must be when the view leaves out nothing that matters.

`CHECK_DEADLOCK FALSE` stands only where the system may stop: the machine can be
halted (`sched`, `console`), the bound on printed rows can be reached (`echo`),
losses of power can cost every cluster (`fat`), and a behaviour of `memory` ends
where it says so. `lists`, `net`, `nic` and `stream` check for deadlock.

### Fairness

* `WF(Tick)`: the PIT interrupts 1000 times a second, and no handler masks it
  for ever; user mode, the idle loop and the polling loops run with interrupts on.
* `WF(ReadLoop)`: the CPU goes on executing the kernel code it is in. Nothing is
  assumed of programs, which need not exit, or of the person at the keyboard.
* `SF(PingStep)` in `Net`: the network does not raise interrupts so densely that
  `ping` never executes its next instruction. Strong, because each packet
  disables `ping`'s steps while its interrupt runs.
* `WF(GiveUp)` in `Net`: 500 ticks pass.
* `WF(SetCapr)`, `WF(Unmask)`, `WF(Handler)` in `Nic`: `rtl8139_init` and the
  interrupt handler run on, with interrupts off. `WF(Interrupt)`: the line is
  level triggered, and the CPU enables interrupts again and again (idle loop, user
  mode, polling). Nothing is asked of the card or of `rtl8139_send`.

## 5. What is proved

`tlapm M.tla` checks module `M`, for `SchedProofs`, `NetProofs`, `FileProofs`,
`MemoryProofs`, `ConsoleProofs`, `NicProofs`, `TaskListProofs` and the lemmas in
`NatFacts`. Everything below holds for all values of the constants that satisfy
the assumption of the module in question.

**Assumptions.** Each is named in the module that declares the constants, and
TLC evaluates it in the runs.

| assumption | says |
|---|---|
| `SchedAssumption`, `ConsoleAssumption` | the number of tasks and the time slice (the code: 10 ticks) are positive; `RingCap`, which `Console` makes `BufSize - 1`, is too |
| `TaskListAssumption` | finitely many tasks, `kernel_main` among them, and `NULL` is none of them |
| `KeyboardAssumption` | the ring has at least two slots (256); both tables have the same keys, C among them; the byte of Ctrl+C is in neither table |
| `TerminalAssumption` | the screen has a row and a column (25, 80) |
| `SecAssumption` | a sector has a byte (512) |
| `FatAssumption` | there is a cluster, a directory has slots (`DirSlots`, `RootSlots`); names are not the two marks of an unused entry; what is written is a sequence of bytes |
| `StreamAssumption` | the pool has a slot (16); offsets of seeks are within the bound `MaxPos`; what ESI may hold is a natural number; what is written is a sequence of bytes |
| `HeapAssumption` | a header has a size (16 bytes, 2 units); requests are natural numbers |
| `MemoryAssumption` | the frames below the kernel heap exist; the stack lies below the kernel, the heap of a program begins below it on a page boundary; the image of a program lies between its break and its stack |
| `NetAssumption` | the gateway is local, no host is both local and remote, sizes are positive |
| `NicAssumption` | the ring's size is a multiple of 4 and divides 2^16; a packet is longer than its checksum and fits the ring; there is a descriptor |

**Induction.** The library's induction theorems take a predicate as a parameter,
which the provers here cannot fill in. `NatFacts` states induction about sets:
from `FS_StrictSubsetOrderingWellFounded` it derives that every non-empty set of
natural numbers has a least element (`NatMinimum`), from that induction for a
set (`NatSetInduction`), and from that what a recursive function over the rounds
of a loop returns: `LoopStates` (such a function exists) and `LoopInvariant`
(what each round keeps, the last round has). With these, `sys_sbrk`'s and the
loader's loops over pages, the keyboard driver's over a line, `task_wakeup`'s
over its list, and the walk along the packets in the receive ring are proved for
every length.

### Sched

The invariants cannot be proved one by one. That a wakeup is not lost
(`NoLostWakeup`) needs that only one task can be runnable, or a second reader
could drain the ring between the wakeup and the first one's turn; that only one
is runnable needs the shape of the chain, or `sys_exit` might wake a parent that
another child still keeps waiting; the chain needs that unused pids have no
parent; all of them need the queues to match the states, or a dead task might be
scheduled; and that needs `IdleCanRun`, or `schedule()` would return to a caller
that is dead. So there is one inductive invariant, `IInv`: `TypeOK`, all the
invariants of the run, and `Contexts` (which contexts and which unused pids go
with which states). It is not an invariant of the run, which checks its parts
under their own names. `SchedProofs` first states what `AddToQueue`, `Woken` and
`Schedule` do to queues that match the states, then has one lemma per action,
and ends in:

| theorem | states |
|---|---|
| `Invariance` | `Spec => []IInv` |
| `TypeCorrect`, `QueuesCorrect`, `IdleAlwaysThere`, `SingleForeground`, `WakeupsAreNotLost`, `ChainOfExecs`, `ExitAlwaysWakes` | the invariants of the run, one each |
| `ExecReturns` | the action property `ExecReturnsOnChildExit` |
| `Refinement` | `Spec => ImplementsForeground`: initial states map to initial states, each step to a step or a stutter |

### Net

`IInv` here says for each part of the state what it needs of the others: the
cache's entries are true and unique; while `ping` is between finding an entry
and copying its address, the entry is in the cache and, unless an entry was ever
overwritten for lack of room, still that of its next hop; frames in the buffers
are addressed and numbered rightly; a noted reply with the number of the current
probe came in during it; and the replies counted are at most the judged probes that
were answered. The last two make `CountedWereAnswered` inductive: what is left in
the reply variables is forgotten before a request is built, and only the current
probe is ever counted, so each count is for a new sequence number. `NetProofs` has
one lemma per action and proves `TypeOK`, `OneEntryPerHost`, `AddressedRight`, `CountedWereAnswered` and
`WaitsInVain` for networks, caches, transmit rings and pings of any size.

### TaskList

`TypeOK` and `ListsMatchStates` are not inductive: a step changes the pointers
in the middle of a list, and `Walk`, which follows them, says nothing about
where the pointers of other tasks lead. `IInv` therefore names the two sequences
`r` and `w` (`QueuesSorted`): from each head the pointers go exactly along its
sequence, each task appears once, the sequences are disjoint, every other task's
pointer is `NULL`, and `r` and `w` hold the tasks in state `READY` and `WAIT`.
`CpuTaken`, that exactly the current task is running and `kernel_main` never
waits, is needed because `schedule()` with an empty queue keeps the caller,
which must then be able to go on. Lemmas state what each function of `task.c`
does to a list and to its sequence (`BothPush`, `BothPop`, `WokenIs`); `WalkIs`
says that on such pointers `Walk` returns the sequence.

`Invariance`, `ListsCorrect` (`ListsMatchStates`, with the end of both lists) and `QueuesImplemented`: the
linked lists of `task.c` are the two FIFO queues of `RunQueues`.

### Console, ByteStream, Sched

`TypeCorrect` is inductive by itself: the operators of the keyboard keep the
indices in range whatever their arguments. The refinements need the ring's index
arithmetic: `Contents` grows at its end by what `kbd_enqueue` puts in, up to a
full ring, and loses its head to `kbd_get_char`, also where the indices wrap
around.

`CountsForScheduler` proves that `Console` implements `Sched` with the number of
bytes in the ring for `avail`, `BytesComeInOrder` that it implements
`ByteStream`. Through the first, the theorems of `SchedProofs` hold of the
composition: with the driver's ring, too, no wakeup is lost
(`WakeupsAreNotLost`).

### Echo, Terminal

`TermInv` adds to `ScreenShowsPaper` the types and that the cursor's column is
the length of the paper's last row; `Shows` states the screen cell by cell. One
lemma for each case of `terminal_putchar` (a character, one that fills the row,
newline, backspace in and behind column 0, with and without scrolling) says that
screen and paper take the same step. `ScreenCorrect` is for the specification
`EchoSpec` of the composition, where key presses come between any two characters
of output.

### FatFs

What the three invariants say of the time between two operations depends on
every disk write within one, and on where power may have been lost. The invariant
of `Invariance` is `DiskInv`: the model has ended (`Overrun`), or `IInv` holds and
`PromisesOK`, which ties what was promised of a file to what `FileOps` makes of it
as long as no write has gone astray. `IInv` is about a disk `d` as a record of `fat`, `root` and `sec`, so that lemmas can speak
of the disk before a write and the one after it, and has five parts:

* `TreeOK`: the tables of the root directory and of the directories in it. No
  name twice, unused entries last. Without it `Find`, which returns the first
  entry of a name, would not find the entry that was added.
* `ChainsOK`: each entry's clusters form a chain that ends (`Chained`), or its
  first cluster is free because a deletion began to free them, and no two entries
  own a common one. Disjointness is what makes every write to one file leave the
  others alone; it is kept only because a cluster that is free in the FAT is in
  no chain.
* `AllocationOK`: what is allocated is in a chain, or was lost with the power
  (`lost`), or is known to the operation under way (`Extra`): the first cluster
  of an entry not yet added, the cluster marked but not yet linked, the rest of
  the chain being freed.
* `OpOK`: how far the operation under way has got. A deletion frees from the
  first cluster on, so the rest must still be a chain (`DeleteOK`), and after a
  loss of power exactly one entry is half deleted (`TornOK`). A write stands at
  the `k`-th cluster of the chain, and `k` must follow from the position
  (`WriteOK`): for offsets at the end of the last cluster the two differ by one
  cluster, which is the code's (section 7).
* `FilesOK`: the files on the disk are those in `expect`, and the sectors of
  each hold what `FileOps` says, for the file being written as far as the write
  has come (`ByNow`: `Landed` of the bytes written so far).

The lemmas are about the parts: what `Chain`, a recursive function with a bound
on its length, returns for a chain of any length (`NatSetInduction`); what
appending a cluster, allocating one or freeing one does to all chains; what a
changed entry does to the tree; what a chunk written into a cluster does to the
bytes of a file (`Landed` chunk by chunk is `Landed` at once).

| theorem | states |
|---|---|
| `Intact` | `ChainsIntact`: chains are allocated, end, and are private |
| `NoneLost` | `NoClusterLost`: only a loss of power costs clusters |
| `FollowsOps` | `FollowsFileOps`: each file is what `FileOps` says the code makes of it |
| `ReadsBack` | `FilesReadBack`: each file to which no write has gone astray is what its calls promise |

They hold of the programs `FatFs` admits: after a loss of power in a deletion
they delete again before they change anything else (section 4).

### Stream

`StreamIInv` has three parts:

* `FilesFine`: the files are such as `FileOps` can make, and their clusters
  together (`Taken`, the set of pairs of a file and the number of one of its
  clusters) fit the disk, so that `Free` is never negative and a write that is
  cut short still leaves a file at least as long as it was. `TakenSplits` counts
  the clusters of one file apart from those of all others.
* `PoolOK`: each slot is closed or a well-formed stream, and the valid ones are
  those the program holds.
* `BeginsOK`: `AcceptedBytesLand` alone does not say where the next write goes.
  `Vouched` adds it: a stream in mode "w" whose file has not been disturbed
  stands exactly behind the bytes accepted so far, and for one in mode "a" the
  file's size, where `fat_append_file` writes next, is their number. It must also
  hold of streams that nothing has been accepted from yet, whose file may not even
  exist because the disk was full when it should have been created.

`Outcome` says what any write, accepted or cut short, leaves of a file: the bytes
before it, and all of the data if it was accepted (`WrittenIs`, `CutShortIs`).
From it `VouchedAppend` and `VouchedWrite` follow, for every other stream on the
same file as well: one that appends after another has appended, and one in mode
"w" whose bytes all lie before the end where the append begins. There is one
lemma for each action.

| theorem | states |
|---|---|
| `StreamInvariance` | `StreamSpec => []StreamIInv` |
| `SlotsMatchCallers` | `StreamsMatchCallers`: failed calls keep no slot |
| `AcceptedLands` | `AcceptedBytesLand`: accepted bytes are in the file, in order |

### Heap

The invariant is about lists in general, since `kfree` goes through lists on the
way that are not the heap's before it returns. `WellLinked` says that blocks do
not overlap, in order of their addresses, that each `next` is the block that
begins where this one ends, that `prev` is its inverse, and that the list has an
end. `Unmerged(blk) = {}` is what `kfree` must restore: after the block is
marked free, only it and the one before it may be followed by a free one, and
each merge takes one of them out. `FreshIsFree` is needed for the block of size
0 with which the heap starts and which `kmalloc` turns into the first one in
use; `Callers` ties the blocks in use to what callers hold, with at most a
header's slack.

`HeapIInv` is their conjunction. `HeapInvariance`, `LinksCorrect`,
`FreedIsMerged`, `UsedMatchCallers`, and `Refinement`: `kmalloc` and `kfree` implement `Allocator`, memory nobody else
has.

### Memory

`FramesPrivate` and `SoundWhileFramesLast` are not inductive: they do not say
which frames are free, and so not which one `pmm_alloc_block` gives out next,
nor when it returns 0 because there is none. `Ownership` does: frames are given
out from the lowest on (`Segment`), the frames in the entries of an address
space are marked, appear in it once and in no other one, the frame of the kernel
heap's first page is in none, and 0 is among the entries only if every frame is
taken (`Owns`). A call is a loop over pages, and a part of it may have been done
when frames run out: `Fine` and `Grows` say what every prefix of the loop keeps,
and `LoopInvariant` gives it for the whole loop. Programs end and load, and
their frames are never given back, which is why marked frames need not have an
owner.

| theorem | states |
|---|---|
| `BreakCorrect` | `BreakBacked`: every page below a program's break is mapped, unless a negative increment has once moved the break up |
| `FramesStayPrivate` | `FramesPrivate`: no frame has two uses, in one program or in two |
| `SoundBelowTheHeap` | `SoundWhileFramesLast`: until the frames below the kernel heap are taken, no program has one of the heap's, nor frame 0 |
| `DataDoesNotMove` | the action property `DataStays`: no call takes a page with data away from a program, with the same exception |

### Nic, PacketQueue

For sending, `TxInv`: the descriptors that belong to the card are a row from
`tx_cur` to `tx_next` around the ring of descriptors (`Window`), and the one
being filled is the driver's. For receiving, `RxInv`: between the place where
the driver reads, 16 behind which `CAPR` stands, and the one where the card
writes there are whole packets in a row, shorter together than the ring, so that
a full ring and an empty one differ (`Layout`), and while the handler works on a
packet it is the first of the row. This is what each of the roundings and wraps
of the two sides must agree on.

`TypeCorrect`; `FramesLeaveInOrder` and `PacketsComeInOrder`: card and driver
together are a FIFO queue of packets in each direction.

### Only model-checked

* Liveness: `ReadyRuns`, `ReaderServed`, `PingEnds`, `PacketsGetHandled`. TLAPS
  does not reason about `ENABLED`, which fairness needs.
* The properties of the three runs that end in a violation.

## 6. What is not modelled

* `create_task`, `kernel_task_exit`, `pmm_free_block`: no caller.
* Register contents saved by `switch_to_task`, and the set-up of GDT, IDT, PIC
  and TSS: straight-line code without interleavings.
* The 8.3 conversion of names, directory listings, `fat_init`'s arithmetic,
  writing to a directory as if it were a file, and directories below the first
  level, which behave like those on it.
* ELF headers and the layout of `argv`.
* Checksums, header fields and length checks of packets, `sys_net_set_ip`.
* Reset and configuration of the RTL8139 and the PCI scan, which run before it can
  receive; receive and transmit errors, which the driver only prints; packets
  with a bad length: the card stores none (`RCR` accepts no runts or errors), so
  the `break` at `rlt8139.c:237` is not taken. What happened if it were is stated
  nowhere: `CAPR` stays, and each later interrupt stops at the same packet.
* `fread` and what is built on it, which never reach the data (section 7);
  `malloc`, which moves the break once and forgets what is freed; strings and
  number formatting: functions of their arguments.
* Colours, the hardware cursor and number formatting of the terminal.
* The polled IDE driver: a sector write is one step in `FatFs`. That a disk
  writes a sector whole or not at all is assumed.
* The shell and the other programs, sequential; the build.
* TinyCC (`tinycc/`) is a vendored compiler: 38,000 of the 44,500 lines of the
  repository. It is not code of this system, runs as one sequential program on it,
  and no model of it would say anything about the system. Of the system's own
  6,400 lines, the modules stand for about a third; the rest is the device set-up,
  formatting, string and shell code named in this section.

## 7. Where code and texts disagree

Three runs end in a violation, each of one property that states what a text of the
repository says.

* `sched_orphan`: `README.md:90` says that the exit of a child wakes its parent.
  A child that dies by a page fault (`vmm.c:127`) does not: its parent blocks for
  ever and, since nothing else can run, so does the terminal.
* `net_send`: `net.c:220` says that interrupts are to be restored "on timeout,
  too". On success they are not restored at all (`net.c:216`), so an answer the
  receive interrupt sends can replace the echo request `ping` is sending. In the
  same window `ip_send` calls `kfree` (`net.c:275`), which the receive interrupt's
  `kmalloc` may find with its list half merged; `Heap`, whose calls are one step
  each, does not show that.
* `fat_append`: `README.md:103` and `README.md:78` promise append. A write that
  begins exactly at the end of a file's last cluster, so every append to a file
  whose size is a positive multiple of 512, goes to the beginning of that cluster
  instead (`fat.c:447`). `AcceptedBytesLand` excepts such writes, too.

Other behaviour met while modelling, which no run states as a property of its
own; it is part of the models, or excluded from them where noted.

Files and streams:

* `fat_allocate_cluster` scans all entries of the table's sectors (`fat.c:270`),
  also those behind the one of the last cluster, and on a full disk gives out
  clusters that do not exist. `FatFs` ends there (`Overrun`).
* `fread` asks for the file's size with a read of at most 0 bytes, gets 0 and
  returns no data (`mylibc.c:513`), unlike the comment at `mylibc.c:478` and
  `README.md:138` have it. `SEEK_END` is `SEEK_SET` for the same reason.
* `fopen(..., "w")` makes a three-argument system call of a four-argument one;
  the file gets the size ESI happens to hold, which may be far behind its one
  cluster (`mylibc.c:486`). In `Stream`.
* Creating a file below a file, and deleting a directory with files in it, which
  loses their clusters (`fat.c:388`, `fat.c:527`): excluded from `FatFs`.

Memory:

* The frames under the kernel heap are free in the bitmap (`pmm.c:20`,
  `vmm.c:25`) although the heap uses them. They are given to programs once the
  frames below are taken; so is frame 0 once all are (`vmm.c:66`). `Memory` ends there.
* Frames of ended programs, and those of pages that are mapped again after a
  negative increment, are not given back (`syscall.c:64`).
* An `sbrk` increment below -1 GB whose sum wraps around to less than 3 GB is
  accepted and moves the break up without mapping anything (`syscall.c:48`); the
  program's next growth begins there and may map new frames over its image or
  stack. In `Memory`; `BreakBacked` and `DataStays` leave such programs out.

Terminal and keyboard:

* A key without a character (arrows, Alt, F-keys) puts byte 0 into the line;
  `sys_read` takes it for an empty ring and may return 0 bytes
  (`keyboard.c:99`). `ByteStream` allows it.
* A line longer than the ring's free space is cut off, newline included
  (`keyboard.c:32`). `ByteStream` allows it.
* A backspace in column 0 erases a character of the line but none on the screen
  (`terminal.c:90`).

Network:

* `ping` uses the same identifier and sequence numbers every time and does not
  look at who replies (`net.c:427`, `net.c:453`): a reply to an earlier ping, even
  of another host, that arrives during the probe of the same number is counted for
  it. In `Net` (`mistaken`); `CountedWereAnswered` excepts it. A late reply with
  another number ends the wait for the current one, which is then reported as timed
  out. In `Net`.
* An echo request from a host that is not in the ARP cache makes the receive
  interrupt poll for an ARP reply that only the same interrupt, not acknowledged
  yet, could receive (`net.c:206`): it always waits 500 ticks in vain, with every
  other packet held up meanwhile. `WaitsInVain` states it.
* A full ARP cache overwrites its first entry, also between `ping`'s finding it and
  copying the address (`net.c:215`), which then is another host's. In `Net`
  (`displaced`); `AddressedRight` excepts it.
* `rx_buf_static` is two bytes too small (`rtl8139.h:51`): a packet of 1518 bytes
  with its header at offset 8188 ends at 9710, the buffer at 9708. The two bytes
  behind it are the end of the checksum, which the driver does not read. `Nic`
  has the packet's place in the ring, not the padding behind it.

## 8. Files

`M.tla` is a module of section 2. `MCM.tla` gives it the constants of a run,
`MCM.cfg` and `MCM<Case>.cfg` are the configurations; `MCLists` is for `TaskList`
and `Heap`. `PROJECT.json` lists components,
runs, mutants, the lines of code each definition stands for, findings, hazards
and theorems.
