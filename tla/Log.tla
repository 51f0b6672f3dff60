--------------------------------- MODULE Log ---------------------------------
(***************************************************************************)
(* The kernel log (src/module/log.c): messages of the time before the log  *)
(* module is initialised go to a ring, which init sends to terminal 0;     *)
(* later ones go there directly.  log_panic sends the ring as well and     *)
(* stops the machine.  The i-th byte that is logged is the number i, and 0 *)
(* is what the ring holds at first; how a message is put together from its *)
(* format is left out, a message is its bytes.                             *)
(***************************************************************************)
EXTENDS Integers, Sequences, SequencesExt

CONSTANTS LOG_BUF_SIZE,
          MaxMessage,   \* bound on the bytes of a message
          MaxText       \* bound on the bytes logged

VARIABLES inited, log_buf, log_head, log_tail,
          tty,      \* terminal 0 has been set up by a driver
          screen,   \* bytes terminal 0 was sent
          logged,   \* number of bytes logged so far
          hung      \* length of the message of log_panic, 0 before it

vars == <<inited, log_buf, log_head, log_tail, tty, screen, logged, hung>>
ring == <<log_buf, log_head, log_tail>>

Place == 0..(LOG_BUF_SIZE - 1)

Init ==
    /\ inited = FALSE /\ tty = FALSE
    /\ log_buf = [i \in Place |-> 0] /\ log_head = 0 /\ log_tail = 0
    /\ screen = <<>> /\ logged = 0 /\ hung = 0

(* dev_write on terminal 0: -ENXIO when no driver has set it up. *)
dev_write(bytes) == IF tty THEN screen \o bytes ELSE screen

(* Mutant: the head is not moved on when the tail reaches it. *)
Put_KeepsHead(r, byte) ==
    [buf |-> [r.buf EXCEPT ![r.tail] = byte],
     tail |-> (r.tail + 1) % LOG_BUF_SIZE, head |-> r.head]

(* The loop of write that stores one byte after the other in the ring. *)
Put(r, byte) ==
    LET tail == (r.tail + 1) % LOG_BUF_SIZE
    IN  [buf |-> [r.buf EXCEPT ![r.tail] = byte], tail |-> tail,
         head |-> IF tail = r.head THEN (r.head + 1) % LOG_BUF_SIZE ELSE r.head]

Message(n) == [i \in 1..n |-> logged + i]

Ring == [buf |-> log_buf, head |-> log_head, tail |-> log_tail]

(* The places a up to and without b of the ring. *)
Part(r, a, b) == [i \in 1..(b - a) |-> r.buf[a + i - 1]]

(* What flush sends: from the head to the end of the array, and what is    *)
(* before the tail if the text goes on there.                              *)
FlushedBytes(r) ==
    Part(r, r.head, LOG_BUF_SIZE)
        \o (IF r.tail < r.head THEN Part(r, 0, r.tail) ELSE <<>>)

Written(n) == IF inited THEN Ring ELSE FoldLeft(Put, Ring, Message(n))

SetRing(r) == log_buf' = r.buf /\ log_head' = r.head /\ log_tail' = r.tail

(* Mutant: every message is followed by a flush. *)
klogf_Flushes(n) ==
    /\ hung = 0 /\ logged + n <= MaxText
    /\ SetRing(Written(n))
    /\ screen' = dev_write((IF inited THEN Message(n) ELSE <<>>) \o FlushedBytes(Written(n)))
    /\ logged' = logged + n
    /\ UNCHANGED <<inited, tty, hung>>

klogf(n) ==
    /\ hung = 0 /\ logged + n <= MaxText
    /\ SetRing(Written(n))
    /\ screen' = IF inited THEN dev_write(Message(n)) ELSE screen
    /\ logged' = logged + n
    /\ UNCHANGED <<inited, tty, hung>>

(* Mutant: a panic does not flush the ring. *)
log_panic_NoFlush(n) ==
    /\ hung = 0 /\ logged + n <= MaxText
    /\ SetRing(Written(n))
    /\ screen' = IF inited THEN dev_write(Message(n)) ELSE screen
    /\ logged' = logged + n
    /\ hung' = n
    /\ UNCHANGED <<inited, tty>>

log_panic(n) ==
    /\ hung = 0 /\ logged + n <= MaxText
    /\ SetRing(Written(n))
    /\ screen' = dev_write((IF inited THEN Message(n) ELSE <<>>) \o FlushedBytes(Written(n)))
    /\ logged' = logged + n
    /\ hung' = n
    /\ UNCHANGED <<inited, tty>>

(* Mutant: the array is sent from its start. *)
init_FromStart ==
    /\ hung = 0 /\ ~inited
    /\ screen' = dev_write(Part(Ring, 0, LOG_BUF_SIZE))
    /\ inited' = TRUE
    /\ UNCHANGED <<ring, tty, logged, hung>>

init ==
    /\ hung = 0 /\ ~inited
    /\ screen' = dev_write(FlushedBytes(Ring))
    /\ inited' = TRUE
    /\ UNCHANGED <<ring, tty, logged, hung>>

(* The driver of a UART registers it with terminal 0 in the phase before   *)
(* the one of the log.                                                     *)
register_sink ==
    /\ hung = 0 /\ ~inited /\ ~tty
    /\ tty' = TRUE
    /\ UNCHANGED <<inited, ring, screen, logged, hung>>

Stopped == (hung > 0 \/ (logged = MaxText /\ inited)) /\ UNCHANGED vars

Next ==
    \/ \E n \in 1..MaxMessage : klogf(n) \/ log_panic(n)
    \/ init \/ register_sink \/ Stopped

Spec == Init /\ [][Next]_vars

-----------------------------------------------------------------------------
Held(r) ==
    IF r.head <= r.tail THEN Part(r, r.head, r.tail)
    ELSE Part(r, r.head, LOG_BUF_SIZE) \o Part(r, 0, r.tail)

(* The numbers from a to b. *)
Bytes(a, b) == [i \in 1..(b - a + 1) |-> a + i - 1]

Latest(n) == Bytes(IF n > logged THEN 1 ELSE logged - n + 1, logged)

(* Types of the variables.                                                 *)
TypeOK ==
    /\ inited \in BOOLEAN /\ tty \in BOOLEAN
    /\ log_buf \in [Place -> 0..MaxText] /\ log_head \in Place /\ log_tail \in Place
    /\ screen \in Seq(0..MaxText)
    /\ logged \in 0..MaxText /\ hung \in 0..MaxMessage

(* Until the log is initialised the ring holds the latest text, as much of *)
(* it as it has places but one, however often it has wrapped around.       *)
RingHoldsLatest == ~inited => Held(Ring) = Latest(LOG_BUF_SIZE - 1)

(* What init sends begins with all the text the ring holds, in order.      *)
(* Anything after it is a place that was never written or, when the tail   *)
(* is at the last place, the one byte the ring no longer counts.           *)
FlushShowsHeld ==
    inited' # inited /\ tty =>
        LET sent == SubSeq(screen', Len(screen) + 1, Len(screen'))
            held == Held(Ring)
            rest == SubSeq(sent, Len(held) + 1, Len(sent))
        IN  /\ IsPrefix(held, sent)
            /\ \/ \A i \in DOMAIN rest : rest[i] = 0
               \/ rest = <<logged - LOG_BUF_SIZE + 1>> /\ log_tail = LOG_BUF_SIZE - 1

(* Once the log is initialised text reaches the terminal at once, in order *)
(* and complete, until a panic.                                            *)
DirectAfterInit ==
    inited /\ tty /\ hung' = 0 =>
        screen' = screen \o Bytes(logged + 1, logged')

(* The last words of a panic are on the terminal whenever there is one, at *)
(* any time of the boot: all of them, or as many as the ring can hold if   *)
(* the log is not yet initialised.                                         *)
PanicShown ==
    hung > 0 /\ tty =>
        LET words == Latest(IF inited \/ hung < LOG_BUF_SIZE THEN hung ELSE LOG_BUF_SIZE - 1)
        IN  \E i \in 0..(Len(screen) - Len(words)) :
               SubSeq(screen, i + 1, i + Len(words)) = words
=============================================================================
