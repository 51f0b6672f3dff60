------------------------------ MODULE BootLog ------------------------------
(***************************************************************************)
(* Boot together with the log it reports to: init_modules announces each   *)
(* phase and each module, init of src/dev.c each device, and a failure of  *)
(* a module or of kmain is a log_panic.  Terminal 0, to which the log      *)
(* writes, is the one the driver of the first UART registers.  A step of   *)
(* Boot that reports is followed by its message before anything else; the  *)
(* announcement of a phase is taken to be part of the message before it.   *)
(***************************************************************************)
EXTENDS Boot

CONSTANTS LOG_BUF_SIZE,
          MaxMessage,   \* bytes of a long message; a short one has one
          MaxText       \* bound on the bytes logged; no boot reaches it

VARIABLES inited, log_buf, log_head, log_tail, screen, logged, hung,    \* of Log
          say           \* message to come: none | info | panic

logVars == <<inited, log_buf, log_head, log_tail, screen, logged, hung>>
allVars == <<vars, logVars, say>>

Console == INSTANCE Log WITH tty <- d.tty[0].sinks # <<>>

LoggedInit == Init /\ Console!Init /\ say = "info"

(* A module or a device is done with. *)
Reports ==
    \/ todo' # todo /\ phase' # "dev"
    \/ i' # i
    \/ phase = "dev" /\ phase' = "modules"

(* A step of Boot and the message it leaves to be written. *)
Logged(A) ==
    /\ say = "none"
    /\ A
    /\ say' = IF phase' = "panic" /\ phase # "panic" THEN "panic"
              ELSE IF Reports /\ phase' # "fault" THEN "info" ELSE "none"
    /\ IF d'.log # d.log THEN Console!init ELSE UNCHANGED logVars

Message ==
    /\ UNCHANGED vars
    /\ \E n \in {1, MaxMessage} : \/ say = "info" /\ Console!klogf(n)
                                  \/ say = "panic" /\ Console!log_panic(n)
    /\ say' = "none"

LoggedNext == Logged(Next) \/ Message

(* The fairness of Boot; a message is written at once.                     *)
LoggedSpec ==
    /\ LoggedInit /\ [][LoggedNext]_allVars
    /\ WF_allVars(Logged(Startup) \/ Message)

-----------------------------------------------------------------------------
(* klogf and log_panic: every error that a message names has a name, the   *)
(* ring holds the latest text until the log is initialised, and the words  *)
(* of a panic are on the terminal whenever the boot got as far as having   *)
(* one.                                                                    *)
MessagesKept ==
    Console!TypeOK /\ ErrorsHaveNames /\ Console!RingHoldsLatest /\ Console!PanicShown

(* log.c: init sends all the text the ring holds, in order; after it a     *)
(* message is on the terminal at once.                                     *)
TextIsShown == [][Console!FlushShowsHeld /\ Console!DirectAfterInit]_allVars

(* The boot uses the log as Log allows: a terminal comes before the init   *)
(* of the log or not at all, and nothing is written after a panic.         *)
ImplementsLog == Console!Spec
=============================================================================
