-------------------------------- MODULE Calls --------------------------------
(***************************************************************************)
(* What a process is given when it is made, and what its calls do with it: *)
(* the file descriptors of init_fds and the arguments init_stacks copies   *)
(* to the user stack (src/proc.c), and the calls that change no process:   *)
(* sys_read and sys_write up to the driver (src/syscalls/read.c, write.c,  *)
(* src/dev.c), sys_reboot (reboot.c, src/arch/riscv/pm.c, src/pm.c) and    *)
(* numbers that are no call (src/arch/riscv/trap.c).                       *)
(*                                                                         *)
(* A process object is memory that kmalloc hands out as it is: it holds    *)
(* what the last process, or anything else, left there.                    *)
(***************************************************************************)
EXTENDS Integers, Sequences, FiniteSetsExt

CONSTANTS Object,           \* process objects
          PROC_FD_CAPACITY, \* at least 3
          ArgLens,          \* lengths of argument strings
          MaxArgs,          \* bound on the number of arguments
          PAGE_SIZE, PTR    \* bytes of a page and of a pointer

VARIABLES alive,            \* objects that are processes
          fds,              \* object -> descriptor -> flags
          args,             \* object -> block of arguments on its stack
          last,             \* the last call: [call, obj, fd, res]
          power             \* on | reset | off | hung

vars == <<alive, fds, args, last, power>>

Slot == 0..(PROC_FD_CAPACITY - 1)
Fd == -1..PROC_FD_CAPACITY     \* what programs pass: in the table and outside it
Flag == {"USED", "READABLE", "WRITABLE"}
NoCall == [call |-> "none", obj |-> "none", fd |-> 0, res |-> "OK"]
NoArgs == [lens |-> <<>>, argv |-> <<>>, array |-> 0, usp |-> 0]

Init ==
    /\ alive = {} /\ power = "on" /\ last = NoCall
    /\ fds \in [Object -> [Slot -> {{}, Flag, Flag \ {"USED"}}]]
    /\ args = [o \in Object |-> NoArgs]

-----------------------------------------------------------------------------
(* The first descriptor that is not used. *)
new_fd(f) == Min({n \in Slot : "USED" \notin f[n]})

Opened(f, flag) == [f EXCEPT ![new_fd(f)] = {"USED", flag}]

(* Mutant: only the mark of a used descriptor is cleared. *)
init_fds_KeepsRights(f) ==
    Opened(Opened(Opened([n \in Slot |-> f[n] \ {"USED"}], "READABLE"), "WRITABLE"), "WRITABLE")

(* The flags of all descriptors are cleared before the three are opened.   *)
init_fds(f) ==
    Opened(Opened(Opened([n \in Slot |-> {}], "READABLE"), "WRITABLE"), "WRITABLE")

(* Mutant: no room is made for the zero at the end of a string. *)
Strings_NoZero(lens, array) ==
    [i \in DOMAIN lens |-> array - MapThenSumSet(LAMBDA j : lens[j], 1..i)]

(* Arguments on the user stack, as places in its page: the array of        *)
(* pointers at the end of the page, the strings below it, one below the    *)
(* other, and the stack pointer below them, a multiple of 16.              *)
Strings(lens, array) ==
    [i \in DOMAIN lens |-> array - MapThenSumSet(LAMBDA j : lens[j] + 1, 1..i)]

init_stacks(lens) ==
    LET array == PAGE_SIZE - (Len(lens) + 1) * PTR
        argv == Strings(lens, array)
        usp == IF lens = <<>> THEN array ELSE argv[Len(lens)]
    IN  [lens |-> lens, argv |-> argv, array |-> array, usp |-> usp - (usp % 16)]

proc_init(o, lens) ==
    /\ power = "on" /\ o \notin alive
    /\ alive' = alive \cup {o}
    /\ fds' = [fds EXCEPT ![o] = init_fds(@)]
    /\ args' = [args EXCEPT ![o] = init_stacks(lens)]
    /\ last' = NoCall
    /\ UNCHANGED power

(* The object is given back with its contents. *)
kfree(o) ==
    /\ power = "on"
    /\ alive' = alive \ {o} /\ last' = NoCall
    /\ UNCHANGED <<fds, args, power>>

-----------------------------------------------------------------------------
Returns(c, o, fd, res) ==
    /\ power = "on"
    /\ last' = [call |-> c, obj |-> o, fd |-> fd, res |-> res]
    /\ UNCHANGED <<alive, fds, args, power>>

proc_is_bad_fd(o, fd) == fd \notin Slot \/ "USED" \notin fds[o][fd]

(* The flag is that of a descriptor, or a bit of the memory next to them.  *)
HasFlag(o, fd, flag) == IF fd \in Slot THEN {flag \in fds[o][fd]} ELSE BOOLEAN

Refused(o, fd, flag) == {proc_is_bad_fd(o, fd) /\ ~has : has \in HasFlag(o, fd, flag)}

(* "device" is the result of dev_read or dev_write. *)
sys_read(o, fd, buf) ==
    \E bad \in Refused(o, fd, "READABLE") :
        Returns("read", o, fd,
            IF bad THEN "EBADF" ELSE IF buf = "null" THEN "EFAULT" ELSE "device")

(* The buffer is translated first; one that is not mapped is "unmapped".   *)
sys_write(o, fd, buf) ==
    \E bad \in Refused(o, fd, "WRITABLE") :
        Returns("write", o, fd,
            IF buf = "unmapped" THEN "EFAULT" ELSE IF bad THEN "EBADF" ELSE "device")

(* A number that is not below NR_SYSCALLS. *)
unknown_call(o) == Returns("unknown", o, 0, "ENOSYS")

(* Mutant: on an error of the firmware the next case is run. *)
pm_reboot_Returns(to) == power' \in {to, "off", "hung"}

(* The firmware does what it is asked for or returns an error, on which    *)
(* pm_reboot and pm_shutdown panic; none of the three comes back, so that  *)
(* the cases of the switch do not fall through.                            *)
pm_reboot(to) == power' \in {to, "hung"}

sys_reboot(o, type) ==
    /\ power = "on"
    /\ last' = [call |-> type, obj |-> o, fd |-> 0, res |-> "OK"]
    /\ \/ type = "REBOOT" /\ pm_reboot("reset")
       \/ type = "SHUTDOWN" /\ pm_reboot("off")
       \/ type = "HANG" /\ power' = "hung"
    /\ UNCHANGED <<alive, fds, args>>

bad_reboot(o) == Returns("reboot", o, 0, "EINVAL")

Stopped == power # "on" /\ UNCHANGED vars

Next ==
    \/ \E o \in Object, n \in 0..MaxArgs : \E lens \in [1..n -> ArgLens] : proc_init(o, lens)
    \/ \E o \in alive :
          \/ kfree(o) \/ unknown_call(o) \/ bad_reboot(o)
          \/ \E fd \in Fd, buf \in {"mapped", "unmapped", "null"} :
                sys_read(o, fd, buf) \/ sys_write(o, fd, buf)
          \/ \E type \in {"REBOOT", "SHUTDOWN", "HANG"} : sys_reboot(o, type)
    \/ Stopped

Spec == Init /\ [][Next]_vars

-----------------------------------------------------------------------------
(* Types of the variables.                                                 *)
TypeOK ==
    /\ alive \subseteq Object /\ fds \in [Object -> [Slot -> SUBSET Flag]]
    /\ power \in {"on", "reset", "off", "hung"}
    /\ last.res \in {"OK", "EBADF", "EFAULT", "EINVAL", "ENOSYS", "device"}

(* A descriptor within the table that was not opened for the process is    *)
(* refused by sys_read and sys_write, whatever the memory of its object    *)
(* held before: their test relies on an unused descriptor having no flags. *)
UnopenedRefused ==
    last.res = "device" /\ last.fd \in Slot => last.fd \in {0, 1, 2}

(* The arguments a process is started with are whole: no string overlaps   *)
(* another or the array of pointers, the stack begins below all of them,   *)
(* and all is within the page if there is room in it.                      *)
ArgumentsIntact ==
    \A o \in alive :
        LET a == args[o]
            string(i) == a.argv[i]..(a.argv[i] + a.lens[i])
            pointers == a.array..(PAGE_SIZE - 1)
            needed == (Len(a.lens) + 1) * PTR + MapThenSumSet(LAMBDA i : a.lens[i] + 1, DOMAIN a.lens)
        IN  /\ \A i, j \in DOMAIN a.lens : i # j => string(i) \cap string(j) = {}
            /\ \A i \in DOMAIN a.lens : string(i) \cap pointers = {} /\ a.usp <= a.argv[i]
            /\ a.usp % 16 = 0 /\ a.usp <= a.array
            /\ PAGE_SIZE - a.usp <= needed + 15

(* The machine is switched off only by a call that asks for that, although *)
(* the cases of sys_reboot have no break between them.                     *)
PowerAsAsked ==
    /\ power = "off" => last.call = "SHUTDOWN"
    /\ power = "reset" => last.call = "REBOOT"
=============================================================================
