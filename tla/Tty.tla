-------------------------------- MODULE Tty --------------------------------
(***************************************************************************)
(* The receiving side of the terminal: the ring of drivers/tty.c, the line *)
(* discipline that fills it (drivers/ldisc.c) and the semaphore with a     *)
(* permit for every byte of a completed line.  A byte arrives by an        *)
(* interrupt, which is taken only while no kernel code runs; a reader that *)
(* holds the hart goes on until its read is over or has to wait.  Waking a *)
(* reader makes it ready and switches to nobody, so the interrupt is one   *)
(* step; which of the ready readers goes on first is left open, where the  *)
(* scheduler (Kernel.tla) would take the one made ready last.              *)
(***************************************************************************)
EXTENDS List, FiniteSetsExt

CONSTANTS
    Reader,       \* processes that read the terminal
    Byte,         \* ordinary bytes
    LF, CR, DEL,  \* '\n', '\r' and '\x7F'
    Garbage,      \* what kmalloc leaves in the ring
    NONE,         \* no process
    TTY_BUF_SIZE, \* config.h
    MaxRead       \* bound: bytes a read asks for at most

ASSUME TtyAssumption ==
    /\ TTY_BUF_SIZE \in Nat /\ TTY_BUF_SIZE >= 2 /\ MaxRead \in Nat
    /\ Cardinality({LF, CR, DEL, Garbage}) = 4
    /\ {LF, CR, DEL, Garbage} \cap Byte = {}
    /\ IsFiniteSet(Reader) /\ NONE \notin Reader

VARIABLES
    rx_buf,     \* tty_ctrl_blk_t.rx_buf
    rx_head,    \* where the next byte is taken
    rx_tail,    \* where the next byte goes
    cursor_pos, \* ldisc_ctrl_blk_t.cursor_pos: bytes of the unfinished line
    sem_val,    \* rx_sem.val
    sem_queue,  \* rx_sem.wait_queue
    stage,      \* of a reader: "user", "blocked" in sem_wait, or past it, "granted"
    curr,       \* the reader whose kernel code runs, or NONE
    size,       \* bytes a reader has asked for
    buf,        \* bytes it has been given
    screen      \* the line the sink shows, as far as it is an echo

ringVars == <<rx_buf, rx_head, rx_tail, cursor_pos, screen>>
semVars  == <<sem_val, sem_queue, stage, curr>>
readVars == <<size, buf>>
vars     == <<ringVars, semVars, readVars>>

Index == 0..(TTY_BUF_SIZE - 1)

(* lazy_init_ctrl_blk and tty_init_ctrl_blk. *)
Init ==
    /\ rx_buf = [i \in Index |-> Garbage]
    /\ rx_head = 0 /\ rx_tail = 0 /\ cursor_pos = 0
    /\ sem_val = 0 /\ sem_queue = <<>>
    /\ stage = [r \in Reader |-> "user"] /\ curr = NONE
    /\ size = [r \in Reader |-> 0] /\ buf = [r \in Reader |-> <<>>]
    /\ screen = <<>>

-----------------------------------------------------------------------------
sem_wait(r) ==
    /\ sem_val' = sem_val - 1
    /\ IF sem_val - 1 < 0
       THEN /\ sem_queue' = list_push_back(sem_queue, r)
            /\ stage' = [stage EXCEPT ![r] = "blocked"] /\ curr' = NONE
       ELSE /\ stage' = [stage EXCEPT ![r] = "granted"] /\ curr' = r
            /\ UNCHANGED sem_queue

(* n signals: those below zero wake the first waiters, one each. *)
sem_signaln(n) ==
    LET woken == Min({n, IF sem_val < 0 THEN -sem_val ELSE 0})
    IN  /\ sem_val' = sem_val + n
        /\ sem_queue' = SubSeq(sem_queue, woken + 1, Len(sem_queue))
        /\ stage' = [r \in Reader |->
                        IF \E i \in 1..woken : sem_queue[i] = r
                        THEN "granted" ELSE stage[r]]
        /\ UNCHANGED curr

-----------------------------------------------------------------------------
(* drivers/tty.c: read, up to its first byte. *)
read(r, n) ==
    /\ curr = NONE /\ stage[r] = "user"
    /\ size' = [size EXCEPT ![r] = n] /\ buf' = [buf EXCEPT ![r] = <<>>]
    /\ sem_wait(r)
    /\ UNCHANGED ringVars

(* Mutant: a read does not stop at the end of a line. *)
read_byte_PastLine(r) ==
    /\ stage[r] = "granted" /\ curr \in {NONE, r}
    /\ rx_head' = (rx_head + 1) % TTY_BUF_SIZE
    /\ buf' = [buf EXCEPT ![r] = Append(@, rx_buf[rx_head])]
    /\ IF Len(buf'[r]) = size[r]
       THEN /\ stage' = [stage EXCEPT ![r] = "user"] /\ curr' = NONE
            /\ UNCHANGED <<sem_val, sem_queue>>
       ELSE sem_wait(r)
    /\ UNCHANGED <<rx_buf, rx_tail, cursor_pos, screen, size>>

(* An iteration of its loop, from sem_wait's return on. *)
read_byte(r) ==
    /\ stage[r] = "granted" /\ curr \in {NONE, r}
    /\ rx_head' = (rx_head + 1) % TTY_BUF_SIZE
    /\ buf' = [buf EXCEPT ![r] = Append(@, rx_buf[rx_head])]
    /\ IF rx_buf[rx_head] = LF \/ Len(buf'[r]) = size[r]
       THEN /\ stage' = [stage EXCEPT ![r] = "user"] /\ curr' = NONE
            /\ UNCHANGED <<sem_val, sem_queue>>
       ELSE sem_wait(r)
    /\ UNCHANGED <<rx_buf, rx_tail, cursor_pos, screen, size>>

-----------------------------------------------------------------------------
(* ldisc_write of an echo: a byte joins the line shown, the end of a line  *)
(* starts a new one.                                                       *)
ldisc_write(b) == screen' = IF b = LF THEN <<>> ELSE Append(screen, b)

(* '\x7F' takes back the last byte of the unfinished line, if any, here    *)
(* and, by "\b \b", on the screen.                                         *)
erase ==
    /\ cursor_pos > 0
    /\ rx_tail' = (IF rx_tail = 0 THEN TTY_BUF_SIZE ELSE rx_tail) - 1
    /\ cursor_pos' = cursor_pos - 1
    /\ screen' = SubSeq(screen, 1, Len(screen) - 1)
    /\ UNCHANGED <<rx_buf, rx_head, semVars>>

(* Mutant: the ring is used to its last byte. *)
accept_Fills(b) ==
    /\ rx_buf' = [rx_buf EXCEPT ![rx_tail] = b]
    /\ rx_tail' = (rx_tail + 1) % TTY_BUF_SIZE
    /\ IF b = LF THEN sem_signaln(cursor_pos + 1) /\ cursor_pos' = 0
                 ELSE cursor_pos' = cursor_pos + 1 /\ UNCHANGED semVars
    /\ ldisc_write(b)
    /\ UNCHANGED rx_head

(* Mutant: the end of the line is not counted. *)
accept_ShortLine(b) ==
    LET next_tail == (rx_tail + 1) % TTY_BUF_SIZE
    IN  /\ next_tail # rx_head
        /\ rx_buf' = [rx_buf EXCEPT ![rx_tail] = b]
        /\ rx_tail' = next_tail
        /\ IF b = LF THEN sem_signaln(cursor_pos) /\ cursor_pos' = 0
                     ELSE cursor_pos' = cursor_pos + 1 /\ UNCHANGED semVars
        /\ ldisc_write(b)
        /\ UNCHANGED rx_head

(* Mutant: a byte the ring has no room for is echoed all the same. *)
accept_EchoesDropped(b) ==
    LET next_tail == (rx_tail + 1) % TTY_BUF_SIZE
    IN  \/ /\ next_tail = rx_head
           /\ ldisc_write(b)
           /\ UNCHANGED <<rx_buf, rx_head, rx_tail, cursor_pos, semVars>>
        \/ /\ next_tail # rx_head
           /\ rx_buf' = [rx_buf EXCEPT ![rx_tail] = b]
           /\ rx_tail' = next_tail
           /\ IF b = LF THEN sem_signaln(cursor_pos + 1) /\ cursor_pos' = 0
                        ELSE cursor_pos' = cursor_pos + 1 /\ UNCHANGED semVars
           /\ ldisc_write(b)
           /\ UNCHANGED rx_head

(* Any other byte is stored and echoed unless the ring is full; the end of *)
(* a line lets readers have the line.                                      *)
accept(b) ==
    LET next_tail == (rx_tail + 1) % TTY_BUF_SIZE
    IN  /\ next_tail # rx_head
        /\ rx_buf' = [rx_buf EXCEPT ![rx_tail] = b]
        /\ rx_tail' = next_tail
        /\ IF b = LF THEN sem_signaln(cursor_pos + 1) /\ cursor_pos' = 0
                     ELSE cursor_pos' = cursor_pos + 1 /\ UNCHANGED semVars
        /\ ldisc_write(b)
        /\ UNCHANGED rx_head

(* The interrupt of the UART hands over a byte. *)
ldisc_recv_byte(byte) ==
    /\ curr = NONE
    /\ LET b == IF byte = CR THEN LF ELSE byte
       IN  \/ b = DEL /\ erase
           \/ b # DEL /\ accept(b)
    /\ UNCHANGED readVars

Input == Byte \cup {LF, CR, DEL}

Next ==
    \/ \E byte \in Input : ldisc_recv_byte(byte)
    \/ \E r \in Reader :
          \/ \E n \in 1..MaxRead : read(r, n)
          \/ read_byte(r)

Spec == Init /\ [][Next]_vars

-----------------------------------------------------------------------------
Max0(n) == IF n > 0 THEN n ELSE 0

(* The bytes of the ring from rx_head to rx_tail. *)
Used == (rx_tail - rx_head + TTY_BUF_SIZE) % TTY_BUF_SIZE

Held == [i \in 1..Used |-> rx_buf[(rx_head + i - 1) % TTY_BUF_SIZE]]

(* They are those of the lines entered, then those of the unfinished line. *)
Entered    == SubSeq(Held, 1, Used - cursor_pos)
Unfinished == SubSeq(Held, Used - cursor_pos + 1, Used)

Granted == {r \in Reader : stage[r] = "granted"}

(* Types of the variables; a process runs kernel code only past sem_wait.  *)
TypeOK ==
    /\ rx_buf \in [Index -> Byte \cup {LF, Garbage}]
    /\ rx_head \in Index /\ rx_tail \in Index
    /\ cursor_pos \in 0..(TTY_BUF_SIZE - 1)
    /\ sem_val \in -Cardinality(Reader)..(TTY_BUF_SIZE - 1)
    /\ sem_queue \in Seq(Reader) /\ IsList(sem_queue)
    /\ stage \in [Reader -> {"user", "blocked", "granted"}]
    /\ Range(sem_queue) = {r \in Reader : stage[r] = "blocked"}
    /\ curr \in Granted \cup {NONE}
    /\ size \in [Reader -> 0..MaxRead]
    /\ buf \in [Reader -> Seq(Byte \cup {LF})]
    /\ screen \in Seq(Byte)

(* The semaphore and the ring are changed by different code at different   *)
(* times, yet the permits left and those already given to readers that     *)
(* have not taken their byte are as many as the bytes of entered lines: no *)
(* reader finds the ring empty (tty.c reads without a test), and no wakeup *)
(* is lost: a reader is blocked only when every byte entered is spoken for *)
(* by one that is not.                                                     *)
PermitsMatchBytes ==
    /\ cursor_pos <= Used
    /\ Used - cursor_pos = Max0(sem_val) + Cardinality(Granted)
    /\ Len(sem_queue) = Max0(-sem_val)

(* The echo shows the line that a newline would enter, through erasures    *)
(* that wrap round the ring and bytes dropped because it is full (ldisc.c  *)
(* echoes a byte only if it has stored it).                                *)
EchoMatchesLine == screen = Unfinished

(* The ring and the semaphore keep the promise of Lines.tla: every entered *)
(* byte goes to one reader, in order, once, none after the end of a line,  *)
(* and editing never reaches an entered byte.                              *)
Promise == INSTANCE Lines WITH
    line <- Unfinished, entered <- Entered, got <- buf,
    reading <- {r \in Reader : stage[r] # "user"},
    Capacity <- TTY_BUF_SIZE - 1

ImplementsLines == Promise!Spec
=============================================================================
