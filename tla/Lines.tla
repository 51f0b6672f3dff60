------------------------------- MODULE Lines -------------------------------
(***************************************************************************)
(* What the terminal promises its readers: the user edits a line, a line   *)
(* that is entered joins the bytes to be read, and every one of these goes *)
(* to one reader, in order; a read ends with the line, or earlier.         *)
(* Tty.tla, with its ring and its semaphore, implements it.                *)
(***************************************************************************)
EXTENDS Integers, Sequences

CONSTANTS
    Reader,     \* processes that read the terminal
    Byte,       \* bytes other than the end of a line
    LF,         \* the end of a line
    Capacity    \* bytes the terminal holds at most

VARIABLES
    line,       \* the line being edited
    entered,    \* bytes of the lines entered and not yet read
    reading,    \* the processes inside a read
    got         \* what the latest read of a process has got so far

vars == <<line, entered, reading, got>>

Init ==
    /\ line = <<>> /\ entered = <<>>
    /\ reading = {} /\ got = [r \in Reader |-> <<>>]

Room == Len(line) + Len(entered) < Capacity

Type(b) ==
    /\ Room
    /\ line' = Append(line, b) /\ UNCHANGED <<entered, reading, got>>

Erase ==
    /\ line # <<>>
    /\ line' = SubSeq(line, 1, Len(line) - 1) /\ UNCHANGED <<entered, reading, got>>

Enter ==
    /\ Room
    /\ entered' = entered \o Append(line, LF) /\ line' = <<>>
    /\ UNCHANGED <<reading, got>>

Begin(r) ==
    /\ r \notin reading
    /\ reading' = reading \cup {r} /\ got' = [got EXCEPT ![r] = <<>>]
    /\ UNCHANGED <<line, entered>>

(* The read of r gets the next byte, and is over if that ends the line or  *)
(* if r has asked for no more.                                             *)
Deliver(r) ==
    /\ r \in reading /\ entered # <<>>
    /\ got' = [got EXCEPT ![r] = Append(@, Head(entered))]
    /\ entered' = Tail(entered)
    /\ \/ reading' = reading \ {r}
       \/ Head(entered) # LF /\ UNCHANGED reading
    /\ UNCHANGED line

Next ==
    \/ \E b \in Byte : Type(b)
    \/ Erase \/ Enter
    \/ \E r \in Reader : Begin(r) \/ Deliver(r)

Spec == Init /\ [][Next]_vars
=============================================================================
