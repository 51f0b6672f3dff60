-------------------------------- MODULE Boot --------------------------------
(***************************************************************************)
(* From kmain to the first external interrupts: the modules initialised in *)
(* three phases (src/module/init.c), the devices of the platform's table   *)
(* matched with drivers (src/dev.c), the interrupt controller and the UART *)
(* set up (src/drivers/plic.c, uart.c), handlers and terminals registered  *)
(* (src/intr.c, src/drivers/ldisc.c, tty.c), and then the bytes the UARTs  *)
(* receive (src/arch/riscv/trap.c, external interrupts).                   *)
(*                                                                         *)
(* The linker orders the modules of a phase, so they may run in any order. *)
(* Interrupts are off in S-mode until sched_start enters a process.        *)
(***************************************************************************)
EXTENDS List, FiniteSets

CONSTANTS Tables,       \* device tables (DEV_TABLE) of the platforms
          HeapPages,    \* numbers of pages the heap may have
          DRIVER_DEV_CAPACITY, INTR_ISR_CAPACITY, TTY_SINK_CAPACITY,
          FIFO          \* bytes a UART holds

VARIABLES table,        \* DEV_TABLE
          phase,        \* modules | dev | proc | run | panic | fault
          todo,         \* modules still to be initialised, by phase
          i,            \* index into DEV_TABLE
          d,            \* state of drivers, interrupt and heap layers
          errors,       \* results passed to errno_name for a message
          fifo, got     \* per UART: bytes waiting; bytes read, modulo 2

vars == <<table, phase, todo, i, d, errors, fifo, got>>

NONE == -1
Num == 0..(DRIVER_DEV_CAPACITY - 1)

(* The names src/errno.c knows. *)
ErrnoNames ==
    {"E2BIG", "EACCES", "EADDRINUSE", "EADDRNOTAVAIL", "EAFNOSUPPORT", "EAGAIN",
     "EALREADY", "EBADF", "EBADMSG", "EBUSY", "ECANCELED", "ECHILD", "ECONNABORTED",
     "ECONNREFUSED", "ECONNRESET", "EDEADLK", "EDESTADDRREQ", "EDOM", "EDQUOT",
     "EEXIST", "EFAULT", "EFBIG", "EHOSTUNREACH", "EIDRM", "EILSEQ", "EINPROGRESS",
     "EINTR", "EINVAL", "EIO", "EISCONN", "EISDIR", "ELOOP", "EMFILE", "EMLINK",
     "EMSGSIZE", "EMULTIHOP", "ENAMETOOLONG", "ENETDOWN", "ENETRESET",
     "ENETUNREACH", "ENFILE", "ENOBUFS", "ENODATA", "ENODEV", "ENOENT", "ENOEXEC",
     "ENOLCK", "ENOLINK", "ENOMEM", "ENOMSG", "ENOPROTOOPT", "ENOSPC", "ENOSR",
     "ENOSTR", "ENOSYS", "ENOTCONN", "ENOTDIR", "ENOTEMPTY", "ENOTRECOVERABLE",
     "ENOTSOCK", "ENOTSUP", "ENOTTY", "ENXIO", "EOPNOTSUPP", "EOVERFLOW",
     "EOWNERDEAD", "EPERM", "EPIPE", "EPROTO", "EPROTONOSUPPORT", "EPROTOTYPE",
     "ERANGE", "EROFS", "ESPIPE", "ESRCH", "ESTALE", "ETIME", "ETIMEDOUT",
     "ETXTBSY", "EXDEV"}

(* Mutant: a result that is not known is passed on. *)
sbi_map_err_Raw(err) == IF err = 0 THEN "OK" ELSE IF err < -8 THEN "other" ELSE "EPERM"

(* sbi_map_err: the firmware's results -8..0, and any other. *)
sbi_map_err(err) ==
    IF err = 0 THEN "OK"
    ELSE IF err \in {-1, -4, -6, -7, -8} THEN "EPERM"
    ELSE IF err = -3 THEN "EINVAL"
    ELSE IF err = -5 THEN "EFAULT"
    ELSE "ENOTSUP"

SbiErr == -9..0

(* Mutant: the scheduler is initialised in the first phase. *)
Modules_SchedEarly == <<{"page_alloc", "timer", "trap", "sched"}, {"dev"}, {"log"}>>

(* Mutant: the log is initialised before the devices. *)
Modules_LogEarly == <<{"page_alloc", "timer", "trap", "log"}, {"dev"}, {"sched"}>>

Modules == <<{"page_alloc", "timer", "trap"}, {"dev"}, {"log", "sched"}>>

Init ==
    /\ table \in Tables
    /\ phase = "modules" /\ todo = Modules /\ i = 1
    /\ \E n \in HeapPages :
          d = [heap |-> n, pages |-> 0, block |-> FALSE, stvec |-> FALSE,
               sie |-> {}, base_addr |-> 0, enabled |-> {}, wild |-> FALSE,
               isrs |-> <<>>, nr_devs |-> 0, uart |-> [k \in Num |-> NONE],
               tty |-> [k \in Num |-> [blk |-> FALSE, src |-> NONE, sinks |-> <<>>]],
               log |-> FALSE, idle |-> FALSE]
    /\ errors = {}
    /\ fifo = [k \in Num |-> 0] /\ got = [k \in Num |-> 0]

-----------------------------------------------------------------------------
(* Operations on d; those that can fail return [d, res].                   *)

(* kmalloc of the small objects of this module: the first takes a page,    *)
(* and the rest of that page has room for the others.                      *)
kmalloc(s) ==
    IF s.block THEN [d |-> s, res |-> "OK"]
    ELSE IF s.pages = 0 THEN [d |-> s, res |-> "ENOMEM"]
    ELSE [d |-> [s EXCEPT !.block = TRUE, !.pages = @ - 1], res |-> "OK"]

(* Before the PLIC is probed this stores at an offset of address 0. *)
plic_enable_irq(s, irq) ==
    IF s.base_addr = 0 THEN [s EXCEPT !.wild = TRUE]
    ELSE [s EXCEPT !.enabled = @ \cup {irq}]

(* Mutant: the handler is given the first device. *)
intr_register_isr_First(s, irq, num) ==
    IF Len(s.isrs) >= INTR_ISR_CAPACITY THEN [d |-> s, res |-> "EAGAIN"]
    ELSE [d |-> [s EXCEPT !.isrs = Append(@, [irq |-> irq, num |-> 0])], res |-> "OK"]

intr_register_isr(s, irq, num) ==
    IF Len(s.isrs) >= INTR_ISR_CAPACITY THEN [d |-> s, res |-> "EAGAIN"]
    ELSE [d |-> [s EXCEPT !.isrs = Append(@, [irq |-> irq, num |-> num])], res |-> "OK"]

(* Both objects of a terminal; tty_init_ctrl_blk allocates the second.     *)
lazy_init_ctrl_blk(s, num) ==
    LET one == kmalloc(s)
        two == kmalloc(one.d)
    IN  IF num >= DRIVER_DEV_CAPACITY THEN [d |-> s, res |-> "EAGAIN"]
        ELSE IF s.tty[num].blk THEN [d |-> s, res |-> "OK"]
        ELSE IF one.res # "OK" THEN one
        ELSE IF two.res # "OK" THEN two
        ELSE [two EXCEPT !.d.tty[num].blk = TRUE]

ldisc_register_src(s, num) ==
    LET b == lazy_init_ctrl_blk(s, num)
    IN  IF b.res # "OK" THEN b ELSE [b EXCEPT !.d.tty[num].src = num]

ldisc_register_sink(s, num) ==
    LET b == lazy_init_ctrl_blk(s, num)
    IN  IF b.res # "OK" THEN b
        ELSE IF Len(b.d.tty[num].sinks) >= TTY_SINK_CAPACITY THEN [b EXCEPT !.res = "EAGAIN"]
        ELSE [b EXCEPT !.d.tty[num].sinks = Append(@, num)]

(* Mutant: the base address is not stored. *)
plic_init_dev_NoBase(s, node) == [d |-> [s EXCEPT !.sie = @ \cup {"SEIE"}], res |-> "OK"]

(* init_dev of the PLIC and of the UART. *)
plic_init_dev(s, node) ==
    [d |-> [s EXCEPT !.base_addr = node.addr, !.sie = @ \cup {"SEIE"}], res |-> "OK"]

uart_init_dev(s, node) ==
    LET num == s.nr_devs
        on == plic_enable_irq([s EXCEPT !.nr_devs = num + 1, !.uart[num] = node.irq], node.irq)
        isr == intr_register_isr(on, node.irq, num)
        src == ldisc_register_src(isr.d, num)
    IN  IF num >= DRIVER_DEV_CAPACITY THEN [d |-> s, res |-> "EAGAIN"]
        ELSE IF isr.res # "OK" THEN isr
        ELSE IF src.res # "OK" THEN src
        ELSE ldisc_register_sink(src.d, num)

-----------------------------------------------------------------------------
(* A negative result of a module, or of a step of kmain, is a log_panic    *)
(* that names the error.                                                   *)
Failed(res) == phase' = "panic" /\ errors' = errors \cup {res}

(* init_modules runs a module of the first phase with modules left. *)
Turn(mod) ==
    /\ phase = "modules"
    /\ \E k \in 1..3 : mod \in todo[k] /\ \A j \in 1..(k - 1) : todo[j] = {}
    /\ todo' = [k \in 1..3 |-> todo[k] \ {mod}]
    /\ UNCHANGED <<table, i, fifo, got>>

page_alloc_init ==
    Turn("page_alloc") /\ d' = [d EXCEPT !.pages = d.heap] /\ UNCHANGED <<phase, errors>>

timer_init ==
    /\ Turn("timer")
    /\ d' = [d EXCEPT !.sie = @ \cup {"STIE"}]
    /\ \E err \in SbiErr :
          IF sbi_map_err(err) = "OK" THEN UNCHANGED <<phase, errors>>
          ELSE Failed(sbi_map_err(err))

trap_init == Turn("trap") /\ d' = [d EXCEPT !.stvec = TRUE] /\ UNCHANGED <<phase, errors>>

dev_init == Turn("dev") /\ phase' = "dev" /\ UNCHANGED <<d, errors>>

log_init == Turn("log") /\ d' = [d EXCEPT !.log = TRUE] /\ UNCHANGED <<phase, errors>>

(* proc_init of the idle process takes two pages for stacks.               *)
sched_init ==
    /\ Turn("sched")
    /\ IF d.pages < 2 THEN Failed("ENOMEM") /\ d' = [d EXCEPT !.pages = 0]
       ELSE /\ d' = [d EXCEPT !.pages = @ - 2, !.idle = TRUE]
            /\ UNCHANGED <<phase, errors>>

(* A store at an offset of address 0 is lost or, where there is no memory, *)
(* an access fault, from which the trap entry, without a stack, does not   *)
(* return.                                                                 *)
MayFault == UNCHANGED phase \/ (d'.wild /\ ~d.wild /\ phase' = "fault")

Probed(node) == IF node.name = "plic" THEN plic_init_dev(d, node) ELSE uart_init_dev(d, node)

(* Mutant: a device whose driver fails is tried again. *)
probe_Retries ==
    /\ phase = "dev" /\ i <= Len(table)
    /\ IF table[i].name \in {"plic", "uart8250"}
       THEN /\ d' = Probed(table[i]).d
            /\ i' = IF Probed(table[i]).res = "OK" THEN i + 1 ELSE i
            /\ errors' = errors \cup ({Probed(table[i]).res} \ {"OK"})
       ELSE i' = i + 1 /\ UNCHANGED <<d, errors>>
    /\ MayFault
    /\ UNCHANGED <<table, todo, fifo, got>>

(* One entry of the device table: a driver's failure, or no driver at all, *)
(* is only a message.                                                      *)
probe ==
    /\ phase = "dev" /\ i <= Len(table)
    /\ i' = i + 1
    /\ IF table[i].name \in {"plic", "uart8250"}
       THEN /\ d' = Probed(table[i]).d
            /\ errors' = errors \cup ({Probed(table[i]).res} \ {"OK"})
       ELSE UNCHANGED <<d, errors>>
    /\ MayFault
    /\ UNCHANGED <<table, todo, fifo, got>>

probe_end ==
    /\ phase = "dev" /\ i > Len(table)
    /\ phase' = "modules"
    /\ UNCHANGED <<table, todo, i, d, errors, fifo, got>>

(* kmain goes on: elf_load, proc_init of init, sched_start.                *)
kmain ==
    /\ \/ /\ phase = "modules" /\ \A k \in 1..3 : todo[k] = {}
          /\ \/ phase' = "proc" /\ UNCHANGED errors
             \/ \E res \in {"EACCES", "EINVAL", "ENOMEM"} : Failed(res)
       \/ /\ phase = "proc"
          /\ \/ phase' = "run" /\ UNCHANGED errors
             \/ \E res \in {"EAGAIN", "ENOMEM"} : Failed(res)
    /\ UNCHANGED <<table, todo, i, d, fifo, got>>

-----------------------------------------------------------------------------
(* A byte arrives on the line of a UART that was switched on.              *)
receive(num) ==
    /\ d.uart[num] # NONE /\ fifo[num] < FIFO
    /\ fifo' = [fifo EXCEPT ![num] = @ + 1]
    /\ UNCHANGED <<table, phase, todo, i, d, errors, got>>

Pending == {irq \in d.enabled : \E num \in Num : d.uart[num] = irq /\ fifo[num] > 0}

(* The entry intr_isr stops at for an interrupt. *)
Handler(irq) ==
    {k \in DOMAIN d.isrs : d.isrs[k].irq = irq /\ \A j \in 1..(k - 1) : d.isrs[j].irq # irq}

(* Mutant: the first enabled interrupt is served, whichever is pending. *)
ext_intr_NoClaim ==
    /\ phase = "run" /\ "SEIE" \in d.sie /\ Pending # {}
    /\ \E irq \in d.enabled :
          /\ \A other \in d.enabled : irq <= other
          /\ IF Handler(irq) = {} THEN UNCHANGED <<fifo, got>>
             ELSE LET num == d.isrs[CHOOSE k \in Handler(irq) : TRUE].num
                  IN  /\ fifo' = [fifo EXCEPT ![num] = IF @ > 0 THEN @ - 1 ELSE 0]
                      /\ got' = [got EXCEPT ![num] = 1 - @]
    /\ UNCHANGED <<table, phase, todo, i, d, errors>>

(* trap_handler for an external interrupt: claim, handler, completion, all *)
(* with interrupts off.  The handler reads one byte and hands it to the    *)
(* terminal of the same number; it does not look whether there is one.     *)
ext_intr ==
    /\ phase = "run" /\ "SEIE" \in d.sie /\ Pending # {}
    /\ \E irq \in Pending :
          /\ \A other \in Pending : irq <= other
          /\ IF Handler(irq) = {} THEN UNCHANGED <<fifo, got>>
             ELSE LET num == d.isrs[CHOOSE k \in Handler(irq) : TRUE].num
                  IN  /\ fifo' = [fifo EXCEPT ![num] = IF @ > 0 THEN @ - 1 ELSE 0]
                      /\ got' = [got EXCEPT ![num] = 1 - @]
    /\ UNCHANGED <<table, phase, todo, i, d, errors>>

(* The machine hangs after a panic, and may run without interrupts. *)
Rest == phase \in {"panic", "fault", "run"} /\ UNCHANGED vars

Startup ==
    \/ page_alloc_init \/ timer_init \/ trap_init \/ dev_init \/ log_init \/ sched_init
    \/ probe \/ probe_end \/ kmain

Next == Startup \/ (\E num \in Num : receive(num)) \/ ext_intr \/ Rest

(* Boot goes on until it is done.  Nothing is assumed of interrupts: they  *)
(* are taken only while a process runs in user mode (Kernel).              *)
Spec == Init /\ [][Next]_vars /\ WF_vars(Startup)

-----------------------------------------------------------------------------
(* Types of the variables.                                                 *)
TypeOK ==
    /\ phase \in {"modules", "dev", "proc", "run", "panic", "fault"}
    /\ \A k \in 1..3 : todo[k] \subseteq Modules[k]
    /\ i \in 1..(Len(table) + 1)
    /\ d.pages \in 0..d.heap /\ d.nr_devs \in 0..DRIVER_DEV_CAPACITY
    /\ d.isrs \in Seq([irq : d.enabled \cup Range(d.uart), num : Num])
    /\ fifo \in [Num -> 0..FIFO] /\ got \in [Num -> 0..1]

(* When interrupts come on, each one that is enabled has a handler, for    *)
(* the UART that raises it, and the terminal the handler passes the byte   *)
(* to is there and echoes to that UART.  A failed driver is only reported  *)
(* and leaves its interrupt on; but what makes one fail, a heap without    *)
(* pages, also fails the scheduler's initialisation, which stops the boot. *)
InterruptsAreServed ==
    phase = "run" =>
        \A irq \in d.enabled : \E k \in Handler(irq) :
            LET num == d.isrs[k].num
            IN  /\ d.uart[num] = irq
                /\ d.tty[num] = [blk |-> TRUE, src |-> num, sinks |-> <<num>>]

(* docs/README.md: the phases ensure "that dependencies between modules    *)
(* (for example, the scheduler can only be initialized after the memory    *)
(* allocator) are properly satisfied", in whatever order the linker puts   *)
(* the modules of a phase: on a heap of three pages the scheduler's turn   *)
(* makes idle_proc, the log comes on only when every UART's terminal is    *)
(* there, and traps and the timer are set up before a process runs.        *)
(* Devices have no phases (dev.c): plic_enable_irq stores through a        *)
(* base_addr of 0 exactly where the device table has a UART ahead of the   *)
(* PLIC.                                                                   *)
DependenciesMet ==
    /\ TypeOK
    /\ d.heap >= 3 /\ "sched" \notin todo[1] \cup todo[2] \cup todo[3] => d.idle
    /\ d.log /\ d.heap > 0 => \A num \in 0..(d.nr_devs - 1) : d.tty[num].blk
    /\ phase = "run" => d.stvec /\ d.idle /\ "STIE" \in d.sie
    /\ d.wild <=> \E j \in 1..(i - 1) : /\ table[j].name = "uart8250"
                                      /\ \A k \in 1..j : table[k].name # "plic"

(* errno_name has a name for every error that reaches a message; its       *)
(* result is passed on to str_len, which must not be given nullptr.        *)
ErrorsHaveNames == errors \subseteq ErrnoNames

(* The boot ends: in a running system, in a panic, or at the faulting      *)
(* store of a device table with the UART ahead of the PLIC.                *)
BootEnds == <>(phase \in {"run", "panic", "fault"})

(* uart.c: isr reads the receive register of its device without a look at  *)
(* the line status, and what it reads goes to the terminal as typed.  So   *)
(* an interrupt must get to the UART that raised it: one byte is read, of  *)
(* a UART that holds one, and its terminal is there.  Only where two UARTs *)
(* share an interrupt is a byte read that nobody sent, since intr_isr      *)
(* stops at the handler registered first.                                  *)
NoPhantomBytes ==
    [][\A num \in Num : got'[num] # got[num] =>
        /\ d.tty[num].blk
        /\ \A other \in Num \ {num} : fifo'[other] = fifo[other]
        /\ \/ fifo[num] > 0 /\ fifo'[num] = fifo[num] - 1
           \/ \E other \in Num : other > num /\ d.uart[other] = d.uart[num] /\ fifo[other] > 0]_vars
=============================================================================
