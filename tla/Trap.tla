-------------------------------- MODULE Trap --------------------------------
(***************************************************************************)
(* Registers across traps and context switches: the trap entry and return  *)
(* of src/arch/riscv/trap.S, trap_handler of trap.c, ctx_sw of proc.S and  *)
(* the first stack of a process, made by proc_fill_stack of proc.c.        *)
(*                                                                         *)
(* A register is one of a group that the code treats alike: t stands for   *)
(* t0-t6 and ra, s for s0-s11, gp and tp, a1 for a1-a7.  A value says      *)
(* whose it is, which register it was in and when.  A kernel stack is a    *)
(* page of words; word -1 is its topmost one, and an address in it is the  *)
(* pair of its owner and that place, <<p, 0>> being the end of the page.   *)
(* The C code between trampoline and ctx_sw has one word of its own on the *)
(* stack, for the s it saves; in s it keeps the address of the trap frame, *)
(* which it needs after the call.  The kernel runs with interrupts off.    *)
(***************************************************************************)
EXTENDS Integers, TLC

CONSTANTS Proc,         \* processes
          KernProc      \* those with PROC_FLAG_KERN, which run in S-mode

VARIABLES curr,         \* process on the hart
          at,           \* user | handler | switched | return
          cpu,          \* general registers and pc
          csr,          \* sscratch, satp, SPP as sret finds it
          word,         \* kernel stacks: process -> place -> value
          sp,           \* proc->sp of a process that is switched out
          status,       \* process -> dead | out | on
          user          \* what a process is to find in its registers next

vars == <<curr, at, cpu, csr, word, sp, status, user>>

Frame == 22             \* words of a trap frame, 176 bytes
Saved == 16             \* words ctx_sw stores, 128 bytes
Fresh == 38             \* words proc_fill_stack sets up

Register == {"sp", "a0", "a1", "t", "s", "pc"}
Value(p, r, n) == <<p, r, n>>
UserRegs(p, n) == [r \in Register |-> Value(p, r, n)]
Code(x) == <<"kernel", x, 0>>
Junk == Code("junk")
Kernel == Code("kernel")
Table(p) == <<p, "satp", 0>>
Mode(p) == Code(IF p \in KernProc THEN "S" ELSE "U")
Place == -(Frame + 1 + Saved)..(-1)

(* Place k words above address a; writing places of the stack of p.        *)
Above(a, k) == <<a[1], a[2] + k>>
Load(a, k) == word[a[1]][a[2] + k]
Store(p, f) == [word EXCEPT ![p] = f @@ @]

(* proc_fill_stack: the words that are not listed keep what was in them.   *)
FilledStack(p) ==
    (31 - Fresh :> Value(p, "a1", 0)) @@ (30 - Fresh :> Value(p, "a0", 0))
        @@ (27 - Fresh :> Value(p, "pc", 0)) @@ (26 - Fresh :> Mode(p))
        @@ (25 - Fresh :> Value(p, "sp", 0)) @@ (16 - Fresh :> Table(p))
        @@ (15 - Fresh :> Code("proc_entry"))

(* The first process is entered from sched_start; before that the boot     *)
(* code runs on a stack of its own.                                        *)
Init ==
    /\ curr = "boot" /\ at = "switched"
    /\ cpu = [[r \in Register |-> Kernel] EXCEPT !.sp = <<"boot", 0>>]
    /\ csr = [sscratch |-> Junk, satp |-> Kernel, spp |-> Code("S")]
    /\ word = [p \in Proc |-> FilledStack(p) @@ [k \in Place |-> Junk]]
    /\ sp = [p \in Proc |-> <<p, -Fresh>>]
    /\ status = [p \in Proc |-> "out"]
    /\ user = [p \in Proc |-> [UserRegs(p, 0) EXCEPT !.t = Junk, !.s = Junk]]

(* The program changes its registers. *)
compute(n) ==
    /\ at = "user"
    /\ cpu' = UserRegs(curr, n) /\ user' = [user EXCEPT ![curr] = UserRegs(curr, n)]
    /\ UNCHANGED <<curr, at, csr, word, sp, status>>

(* The trap entry up to trap_handler and the prologue of that.  The causes *)
(* are an ecall of user mode, and all others.                              *)
trampoline(scause) ==
    LET base == Above(csr.sscratch, -Frame)
        b == base[2]
    IN  /\ at = "user" /\ (scause = "ecall" => curr \notin KernProc)
        /\ word' = Store(base[1],
                (b + 14 :> cpu.a0) @@ (b + 15 :> cpu.a1) @@ (b + 10 :> csr.spp)
             @@ (b + 11 :> cpu.pc) @@ (b + 12 :> Code(scause)) @@ (b + 9 :> cpu.sp)
             @@ (b + 1 :> cpu.t) @@ (b :> csr.satp) @@ (b - 1 :> cpu.s))
        /\ csr' = [csr EXCEPT !.sscratch = base, !.satp = Kernel]
        /\ cpu' = [[r \in Register |-> Kernel] EXCEPT !.sp = Above(base, -1), !.s = base]
        /\ at' = "handler"
        /\ UNCHANGED <<curr, sp, status, user>>

Next4(pc) == <<pc[1], "pc+4", pc[3]>>

(* Mutant: sepc is left at the ecall. *)
Entered_SameInstruction == word

(* trap_handler on the way in: an ecall steps over its instruction. *)
Entered ==
    IF Load(cpu.s, 12) = Code("ecall")
    THEN Store(cpu.s[1], cpu.s[2] + 11 :> Next4(Load(cpu.s, 11)))
    ELSE word

(* The handler or the system call ends, with its result in the frame's a0  *)
(* if it was a call, and the epilogue of trap_handler restores s.          *)
Returned(w, res) ==
    LET f == cpu.s
        ecall == w[f[1]][f[2] + 12] = Code("ecall")
    IN  /\ word' = IF ecall THEN [w EXCEPT ![f[1]][f[2] + 14] = res] ELSE w
        /\ cpu' = [cpu EXCEPT !.sp = Above(cpu.sp, 1), !.s = w[cpu.sp[1]][cpu.sp[2]]]
        /\ at' = "return"
        /\ user' = IF ecall THEN [user EXCEPT ![curr] =
                                [@ EXCEPT !.a0 = res, !.pc = Next4(@)]] ELSE user

trap_handler(n) ==
    /\ at = "handler"
    /\ Returned(Entered, Value(curr, "res", n))
    /\ UNCHANGED <<curr, csr, sp, status>>

(* Mutant: ctx_sw does not restore the registers it saved. *)
Switch_KeepsS(w, q) ==
    LET new == sp[q]
    IN  /\ curr' = q
        /\ cpu' = [cpu EXCEPT !.sp = Above(new, Saved)]
        /\ at' = IF w[new[1]][new[2] + 15] = Code("proc_entry") THEN "return" ELSE "switched"
        /\ UNCHANGED <<csr, user>>

(* ctx_sw on the words w: what is pushed for the old process, if it is to  *)
(* come back, and what is popped for the new one.                          *)
Switch(w, q) ==
    LET new == sp[q]
    IN  /\ curr' = q
        /\ cpu' = [cpu EXCEPT !.sp = Above(new, Saved), !.s = w[new[1]][new[2] + 1]]
        /\ at' = IF w[new[1]][new[2] + 15] = Code("proc_entry") THEN "return" ELSE "switched"
        /\ UNCHANGED <<csr, user>>

(* Mutant: the stack pointer is not stored in the process. *)
resched_NoStore(q) ==
    LET old == Above(cpu.sp, -Saved)
    IN  /\ at = "handler" /\ status[q] = "out"
        /\ word' = [Entered EXCEPT ![old[1]] =
                       (old[2] + 1 :> cpu.s) @@ (old[2] + 15 :> Code("resume")) @@ @]
        /\ status' = [status EXCEPT ![curr] = "out", ![q] = "on"]
        /\ UNCHANGED sp
        /\ Switch(word', q)

(* The handler blocks or is preempted: sched_resched picks another process.*)
resched(q) ==
    LET old == Above(cpu.sp, -Saved)
    IN  /\ at = "handler" /\ status[q] = "out"
        /\ word' = [Entered EXCEPT ![old[1]] =
                       (old[2] + 1 :> cpu.s) @@ (old[2] + 15 :> Code("resume")) @@ @]
        /\ sp' = [sp EXCEPT ![curr] = old]
        /\ status' = [status EXCEPT ![curr] = "out", ![q] = "on"]
        /\ Switch(word', q)

(* sys_exit: curr_proc is nullptr, so nothing of it is kept.               *)
exit(q) ==
    /\ at = "handler" /\ status[q] = "out"
    /\ Load(cpu.s, 12) = Code("ecall")
    /\ word' = Entered /\ UNCHANGED sp
    /\ status' = [status EXCEPT ![curr] = "dead", ![q] = "on"]
    /\ Switch(word', q)

(* sched_start, whose own stack pointer goes to a local variable. *)
sched_start(q) ==
    /\ curr = "boot"
    /\ status' = [status EXCEPT ![q] = "on"]
    /\ Switch(word, q)
    /\ UNCHANGED <<word, sp>>

(* A process that comes back from ctx_sw ends its handler. *)
resume(n) ==
    /\ at = "switched" /\ curr # "boot"
    /\ Returned(word, Value(curr, "res", n))
    /\ UNCHANGED <<curr, csr, sp, status>>

(* A process is made on the stack, and with the words, of an earlier one.  *)
proc_init(p) ==
    /\ at = "handler" /\ status[p] = "dead"
    /\ word' = Store(p, FilledStack(p))
    /\ sp' = [sp EXCEPT ![p] = <<p, -Fresh>>]
    /\ status' = [status EXCEPT ![p] = "out"]
    /\ user' = [user EXCEPT ![p] = [UserRegs(p, 0) EXCEPT !.t = Junk, !.s = Junk]]
    /\ UNCHANGED <<curr, at, cpu, csr>>

(* Mutant: the frame is not popped before the stacks are swapped. *)
proc_entry_NoPop ==
    LET f == cpu.sp
    IN  /\ at = "return"
        /\ csr' = [sscratch |-> f, satp |-> Load(f, 0), spp |-> Load(f, 10)]
        /\ cpu' = [sp |-> Load(f, 9), a0 |-> Load(f, 14), a1 |-> Load(f, 15),
                   t |-> Load(f, 1), s |-> cpu.s, pc |-> Load(f, 11)]
        /\ at' = "user"
        /\ UNCHANGED <<curr, word, sp, status, user>>

(* From the label proc_entry to sret. *)
proc_entry ==
    LET f == cpu.sp
    IN  /\ at = "return"
        /\ csr' = [sscratch |-> Above(f, Frame), satp |-> Load(f, 0), spp |-> Load(f, 10)]
        /\ cpu' = [sp |-> Load(f, 9), a0 |-> Load(f, 14), a1 |-> Load(f, 15),
                   t |-> Load(f, 1), s |-> cpu.s, pc |-> Load(f, 11)]
        /\ at' = "user"
        /\ UNCHANGED <<curr, word, sp, status, user>>

Next ==
    \/ \E n \in 0..1 : compute(n) \/ trap_handler(n) \/ resume(n)
    \/ \E scause \in {"other", "ecall"} : trampoline(scause)
    \/ \E q \in Proc : resched(q) \/ exit(q) \/ sched_start(q) \/ proc_init(q)
    \/ proc_entry

Spec == Init /\ [][Next]_vars

-----------------------------------------------------------------------------
(* Types of the variables.                                                 *)
TypeOK ==
    /\ curr \in Proc \cup {"boot"} /\ at \in {"user", "handler", "switched", "return"}
    /\ DOMAIN cpu = Register
    /\ \A p \in Proc : DOMAIN word[p] = Place
    /\ status \in [Proc -> {"dead", "out", "on"}]

(* A process leaves the kernel with the registers it entered it with, but  *)
(* for the result of a system call and the instruction after it, in its    *)
(* own mode and address space, whatever ran in between on the same         *)
(* registers; a new one finds its entry, arguments and stack.              *)
ResumesAsItWas ==
    at # "user" /\ at' = "user" =>
        /\ \A r \in Register : user[curr][r] # Junk => cpu'[r] = user[curr][r]
        /\ csr'.satp = Table(curr) /\ csr'.spp = Mode(curr)

(* While a process runs, sscratch is the end of its own kernel stack, so   *)
(* that its next trap is saved there and its stack does not creep.         *)
ScratchIsOwnStack == at = "user" => csr.sscratch = <<curr, 0>>

(* The kernel works on the stack of the process it works for, between the  *)
(* trap frame and the words of ctx_sw: no process's kernel stack is stored *)
(* to while another one is current.                                        *)
OwnStackOnly ==
    \A p \in Proc : p # curr /\ status[p] # "dead" => word'[p] = word[p]

(* A process that is switched out can be switched to: its saved words are  *)
(* those of ctx_sw within its handler, or those of a new process.          *)
SavedContext ==
    \A p \in Proc : status[p] = "out" =>
        \/ sp[p] = <<p, -(Frame + 1 + Saved)>> /\ word[p][sp[p][2] + 15] = Code("resume")
        \/ sp[p] = <<p, -Fresh>> /\ word[p][sp[p][2] + 15] = Code("proc_entry")
=============================================================================
