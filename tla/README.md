# Verification of the Karg kernel

Karg is a small monolithic kernel for 64-bit RISC-V: one hart, preemptive
processes, a terminal, no file system. This directory holds TLA+ models of its
code, the TLC configurations that check them on small instances, and proofs,
checked by TLAPS, that hold for every size. Paths below are relative to the
repository.

## The system

| part | code | model |
|---|---|---|
| intrusive lists | `include/list.h` | `List` |
| process table and tree | `src/proc.c`, `include/proc.h` | `Kernel` |
| scheduler | `src/sched.c` | `Kernel` |
| system calls | `src/syscalls/` | `Kernel`; checks of arguments in `Calls` |
| semaphore | `src/sync/sem.c` | `Kernel`, `Tty` |
| timers | `src/timer.c`, `src/arch/riscv/timer.c` | `Timer`, seen by `Kernel` without deadlines |
| terminal, line discipline | `src/drivers/tty.c`, `ldisc.c` | `Tty`, seen by `Kernel` as permits |
| page allocator, kmalloc | `src/mm/` | `Heap` |
| virtual memory | `src/arch/riscv/vm.c` | `Vm` |
| ELF loader, memory of processes | `src/elf.c`, `src/proc.c` | `Loader` |
| init image | `src/init.c` | `InitImage` (its headers) |
| trap entry, context switch | `src/arch/riscv/trap.S`, `trap.c`, `proc.S`, `proc.c` | `Trap` |
| descriptors, arguments, power | `src/proc.c`, `src/syscalls/`, `src/arch/riscv/pm.c`, `src/pm.c` | `Calls` |
| boot, devices, interrupts, UART, PLIC | `src/kmain.c`, `src/module/init.c`, `src/dev.c`, `src/intr.c`, `src/drivers/` | `Boot` |
| firmware results, error names | `src/arch/riscv/sbi.c`, `src/errno.c` | `Boot` |
| log | `src/module/log.c` | `Log`, composed with `Boot` in `BootLog` |

How they interact: a trap (`trampoline`) saves the user's registers and calls
`trap_handler`, which runs a system call, `timer_isr` or the handler of the
claimed interrupt. A trap clears `sstatus.SIE` and nothing in the kernel sets
it, so kernel code is never interrupted. It gives up the hart only in
`sched_resched`, which switches stacks; the process that is switched away goes
on from there when it is switched to again. A blocked process is on exactly one
queue: the ready queue, the queue of a semaphore, the timer queue, or it waits
for a child and is on none.

This fixes the grain of the model. A handler is one action. It is cut where the
code switches context in the middle and has something left to do (`sys_wait`,
a read of the terminal), and where it loops over a list (the adoption loops of
`sys_exit`, `sem_signaln`). `resume[p]` says which kernel code process `p` goes
on with, `signals` how many iterations `sem_signaln` has left; while either is
set for the running process, no trap is possible.

## Modules

* `List` -- `list.h` on sequences. The code links nodes that are embedded in
  objects; the model names the object. `list_remove` of an entry that is not on
  the list changes nothing, which no caller relies on.
* `Kernel` -- processes. The variables have the names of the fields and globals
  of the C code. `Move` is `sched_update_state` up to the reschedule,
  `sched_update_state` and `sched_resched` are functions on the record of the
  scheduler's state, so that a handler that calls them twice is still one step.
  `FREE` is the state of an object `kmalloc` has not handed out. Timers have no
  deadlines here: a timer goes to any place in the queue. `NullRootWorks` says
  whether physical page 0 can serve as a root page table; `sys_proc` and the
  idle process use one of `nullptr`. Every switch, that of `sched_start`
  included, goes on only if the page table of the process works (`CanRun`) and
  hangs the machine otherwise. With `NullRootWorks` the model allows more than
  the kernel brings about by itself: nothing in it maps the code of `idle_task`
  or of a child in the table at address 0. So what is shown of children and of
  idle running is shown for a platform that makes that table work; without it
  (`KernelVirt.cfg`, `KernelIdleVirt.cfg`) only init runs. Descriptors, stacks and pages are in the
  modules below; `sys_getpid` changes nothing.
* `Timer` -- the timer queue with deadlines in ticks, the clock, the compare
  register. Durations are in nanoseconds and divided as the code divides them,
  the sum is taken in the width of `time_t`. Arming the register
  succeeds: `timer_set` panics when the firmware refuses, but the same call has
  been made at boot and would have panicked there. `timer_cancel` is modelled for
  pending timers; in this program `sched_update_state` calls it only for a
  timer that `timer_isr` has just taken out, where it returns at once.
* `Alarms` -- what `Timer` promises: one alarm per timer, going off at its
  instant or later, the earliest first.
* `Tty` -- the receive ring with `rx_head` and `rx_tail`, the line being edited,
  the semaphore with a permit for each byte of an entered line, and several
  readers. An interrupt is one step; a read is cut at `sem_wait`.
* `Lines` -- what `Tty` promises: an editable line, a queue of entered bytes,
  each given to one reader, in order.
* `Heap` -- `kmalloc` on pages of a small size. Free pages and blocks are
  sequences (the lists), addresses are words, and `written` holds the words the
  last call stored to, list links inside free memory included: that is what
  makes "a held object is never written" a statement about the code.
* `Vm` -- page tables as operators on memory: an entry is what its page holds,
  a table is a page that was cleared.
* `Loader` -- `elf_load` header by header and page by page, then `proc_init` of
  init, then other processes made and destroyed. `mapped` records the mappings
  made; `vm_virt_to_phys` is compared with it. Contents of a page are a
  range of the file. `StoredPage` is the page that `sys_read` and `sys_wait`
  store to: they use the user's address as it is. `WriteSource` is what
  `sys_write` reads: it translates the first address of the buffer only.
* `InitImage` -- header and program headers of the array in `src/init.c`.
* `Log` -- text as numbered bytes, so that what is shown can be compared with
  what was logged. A panic before initialisation flushes the ring too. On its
  own it is what the log asks of its users: a terminal comes before
  initialisation or not at all, and nothing is logged after a panic.
* `Boot` -- modules in three phases; within a phase any order, since the linker
  chooses it. `d` is the state of drivers, interrupt layer, heap and terminals;
  `wild` records a store to the interrupt controller at address 0, which is
  lost or faults (`MayFault`).
* `BootLog` -- `Boot` and `Log` together: each step of the boot that reports is
  followed by its message, and the terminal of the log is the one a UART driver
  registers. It implements `Log`.
* `Trap` -- registers, kernel stacks word by word, `sscratch`, `satp`. `t`
  stands for the registers the trap entry saves, `s` for those `ctx_sw` saves.
  `user` is a history variable: what the program must find when it goes on.
* `Calls` -- descriptors and arguments of a process in memory of arbitrary
  former contents, and the calls that change no process.
* `MCKernel`, `MCStartup`, `MCMachine` -- instances for TLC. `MCStartup` has the
  device table of `src/platforms/virt.c`. `MCMachine` holds instances of `Heap`,
  `Loader` (a small one, and one of the real size with the headers of init),
  `Trap` and `Calls`. These share no state, and a behaviour is one of a single
  instance: the states to be searched add up, they do not multiply.
* `ListProofs`, `KernelSchedProofs`, `KernelFamilyProofs`, `KernelProofs`,
  `KernelTreeProofs`, `TimerProofs`, `TtyRingProofs`, `TtyProofs` -- proofs.

Operators named after another one with a suffix (`new_pid_Counter`,
`Enqueue_Back`, ...) are mutants: the original with a plausible bug. No
specification uses them. Substituted for the original, each makes TLC report
the property it is paired with in `PROJECT.json`.

## Runs

| run | instance | checks |
|---|---|---|
| `Kernel.cfg` | idle, init and two objects, table of 4, two permits | types; every queue matches the states; idle is always runnable; the semaphore counts its waiters; a blocked process is inside its call; an identifier is given away only after its process was collected |
| `KernelTree.cfg` | three objects, table of 5, no terminal | tree and table consistent, no cycle, a waiter has a live child and is handed its own zombie, zombies are collected by their parent only |
| `KernelLive.cfg` | two objects | `sys_exit` comes to its end |
| `KernelVirt.cfg` | page 0 unusable | the boot ends on init, which has a page table that works, not on idle |
| `Timer.cfg` | two sleepers and the slice, clock up to 6 | types, sorted queue, register armed for the first timer, nothing early; a due timer fires; `Timer` implements `Alarms` with its fairness |
| `Tty.cfg` | two readers, ring of 4, two bytes, both keys that end a line | permits match the bytes entered, the echo shows the line, `Tty` implements `Lines` |
| `Machine.cfg`: `Heap` | 3 pages of 8 words, objects of 1, 3, 6 (a whole page) and 7 (too large) words | every word has one owner, objects are blocks, free neighbours are merged, held memory is never stored to, a freed object can be read until the next call |
| `Machine.cfg`: `Loader` | small files, tables of 4 entries, heaps of 0 to 25 pages; and the real headers, page size and heap | translation is the map of the mappings made, new tables map nothing, every page has one owner, memory is the file, the entry is executable, a written buffer is read where it is mapped or, behind the first page of a table, from a table of the caller; results stored to the user stack reach it, others hit nobody's memory; init loads |
| `Machine.cfg`: `Trap` | idle and two processes | a program finds its registers, mode and address space as it left them; `sscratch` is the end of its own kernel stack; no process writes another's stack |
| `Machine.cfg`: `Calls` | two objects, 4 descriptors, 0 to 2 arguments | unopened descriptors refused, arguments whole, power as asked |
| `Startup.cfg` | 6 device tables, heaps of 0 to 4 pages, every firmware result, ring of 4, messages of 1 and 5 bytes | enabled interrupts have handlers, dependencies are met, the PLIC is used before its address is known only where the table has a UART ahead of it, errors have names; the ring holds the latest text, initialisation sends it in order, later text is shown at once, a panic is shown; `BootLog` implements `Log`; the boot ends; a byte is read only from the UART that raised the interrupt, or one that shares its line |

The properties of `Heap`, `Loader`, `Trap`, `Calls`, `Boot` and `Log` are stated
in those modules. `MCMachine` and `BootLog` conjoin those that belong together,
the types of the variables included, for their runs: `HeapWellFormed` and
`HeldIsUntouched` (`Heap`), `AddressSpaces`, `MemoryIsImage` and
`BuffersReachMemory` (`Loader`), `StacksReady` and `ResumesAsItWas` (`Trap`),
`CallsAsAsked` (`Calls`), `MessagesKept` and `TextIsShown` (`Log`). Each part of
a conjunction but the types has a mutant of its own.

The bounds. Two objects are enough for every pair of roles next to init
(parent and child, two readers, two sleepers, reader and sleeper), a full
process table and its wrap-around; three are needed for a grandchild that is
adopted while init waits for somebody else. Two permits are enough for a read
that goes on from one byte to the next. `KernelTree` tells states
apart by `proc_waiting` only where it is read again (`TreeView`). Durations in `Timer` include zero, less than a tick, a remainder
that is dropped, equal deadlines and the largest; the clock passes the ends of
two slices. Pages of 8 words with headers of 2 allow three objects
on a page, a rest too small to be split, and merging on both sides; the third
page keeps pages of different origin apart. The heaps of `Loader` end at every page an image and its
processes need, so that each `page_alloc` fails in some behaviour; its tables
have 4 entries, so that an image crosses tables on two levels. In `BootLog` the
ring wraps round within one message and between two; `MaxText` is more than any
boot logs. `Boot` has capacities of 2 with tables of up to 3 UARTs, so that
every limit of a driver is met. `Trap` needs two processes
besides idle: one that is switched out inside a call while the other uses the
hart, ends, and is made again.

Four runs show where `docs/README.md` and the code part:

* `KernelRoundRobin.cfg` -- line 28 says "round-robin"; `list_push_front` makes
  the ready queue a stack, and a process that does not block keeps the hart.
* `KernelMissedWakeup.cfg` -- line 21 says a process in WAIT waits for the
  termination of a child; init may wait although it has adopted a zombie.
* `KernelPageTable.cfg` -- line 17 says each process owns a page table; those
  made by `sys_proc` do not.
* `KernelIdleVirt.cfg` -- line 25 says idle "simply waits"; where page 0 is not
  memory, switching to it hangs the machine.

More limits met while modelling, stated by the comments of the properties
next to them: `sys_read` and `sys_write` refuse a descriptor only if it is bad
*and* lacks the flag (`src/syscalls/read.c:10`), so that a used one of the other
direction is accepted (`UnopenedRefused` in `Calls` is about unused ones); and `sys_read`
and `sys_wait` store through a user's address without translating it, which is
right only for the stack, mapped at its physical address
(`ResultsStored` in `Loader`), while `sys_write` translates only the first
address of a buffer and reads a page table where the buffer leaves the first
page of a leaf table (`BuffersReadFromCaller`).

Fairness. `KernelLive` assumes weak fairness of kernel code under way: nothing
can interrupt it. `KernelRoundRobin` assumes in addition strong fairness of the
two timer callbacks (a pending timer interrupt is taken as soon as the hart is
back in user mode, be it briefly), and the ready process starves all the same.
`Timer` assumes that the clock runs and that a pending interrupt is taken.
`BootLog` assumes that the boot code, which runs alone, goes on. Nothing is
assumed of external interrupts: they are taken in user mode only, on `virt` the
first switch to idle ends that for good, and `plic_claim` gives the least number
first, so that a line which never falls silent keeps the others waiting.

## Proofs

For every set of processes, table size of at least two and bound on permits, and
in `Timer` and `Tty` for every value of their constants that the named
assumptions allow:

* `KernelInv` (in `Kernel`) is inductive (`KernelProofs`, with the
  scheduler's part in `KernelSchedProofs` and that of tree and table in
  `KernelFamilyProofs`). None of its parts is
  so alone. That the ready queue is not empty when the scheduler takes its
  first entry needs idle to be READY or CURR, which needs the queues to match
  the states; that a collected zombie is on its parent's list needs the tree to
  be consistent; that `proc_waiting` is not stale needs the woken parent to be
  the next process run, which the front insertion gives; that `proc_table[1]` is
  init needs the order of the boot steps (`BootOrder`). `TypeOK`,
  `QueuesMatchStates`, `IdleRunnable`, `SemCountsWaiters`, `TreeConsistent`,
  `TableConsistent`, `WaiterGetsItsZombie` and `BlockedInItsCall` follow.
* `KernelTreeProofs` adds the action properties `ZombieCollectedByParent` and
  `PidGivenOnce`, and the invariants `TreeAcyclic` and `WaiterHasLiveChild`.
  A new process has no children, and adoption moves a child to init, which has
  no parent: neither closes a circle. `StartsOnInit` needs one fact about
  the boot besides (`FirstHasTable`): init has its page table and is at the
  front of the ready queue when `sched_start` takes the first entry.
* `TimerProofs`: from the assumption that clock plus longest duration stays
  below `TIME_MAX`, the sorted queue and the armed register are inductive
  together (`TimerInv`); `NeverEarly` and the safety part of the refinement
  (`Spec => Promise!Spec`) follow.
* `TtyProofs`, for every ring of at least two places, every finite set of
  readers and every longest read: `TypeOK`, `PermitsMatchBytes`,
  `EchoMatchesLine`, and that the terminal implements `Lines`.
  `TtyRingProofs` shows what storing, taking and erasing a byte do to the ring
  seen as a sequence, wherever the cursors wrap. The inductive invariant
  (`TtyInv`) adds to the properties that the places in use hold only bytes that
  were received, and that the blocked readers are exactly those in the
  semaphore's queue: without the first a reader could be given the ring's
  former contents, without the second a signal could wake a reader that holds a
  permit already, and the sum would be off by one.
* `ListProofs` has the facts about lists these rest on.

Only model-checked: liveness and the fairness part of refinements
(`ExitCompletes`, `DueTimerFires`, `BootEnds`), which are out of
the prover's reach; and the properties of `Heap`, `Loader`, `Log`, `Boot`,
`BootLog`, `Trap` and `Calls`.

## Not modelled

* The rest of `src/init.c`: more than 5600 of the repository's 8000 lines are
  the bytes of the compiled init program. The kernel copies them and never
  looks at them; there is no behaviour to model, and their contents are named by
  their place in the file.
* The layout of log messages and the hexadecimal digits of `%p`; the names of
  errors other than which numbers have one.
* The registers of the UART's transmitter and the loop that waits for it, the
  `ecall` convention of the firmware, and TLB fences; the panic of `timer_set`
  when the firmware refuses a deadline after it accepted one at boot.
* `sem_deinit` and `kcalloc`, which have no caller, and
  `sys_getpid`, which only reads a field.
* What `docs/README.md` describes and the code does not have: `open`, `close`,
  `seek`, `ioctl`, `kill`, `setpriority`, `sbrk`, priorities, VirtIO.
* Memory accesses of user programs, page faults (`trap_handler` ignores them)
  and arguments that do not fit into the page of the stack.
* More than one hart, which the kernel does not support.
