------------------------------- MODULE Alarms -------------------------------
(***************************************************************************)
(* What the time subsystem promises: alarms that are set for an instant    *)
(* and go off at that instant or later, the earliest first.  Timer.tla,    *)
(* with its queue and its single compare register, implements it.          *)
(***************************************************************************)
EXTENDS Integers

CONSTANTS
    Timer,      \* the alarms
    Instant,    \* when they may be set for: natural numbers
    OFF         \* not an instant

VARIABLES
    now,    \* the clock
    due     \* the instant each alarm is set for, or OFF

vars == <<now, due>>

Pending == {t \in Timer : due[t] # OFF}

(* t may go off: its instant has come and no other one is earlier. *)
Ripe(t) ==
    /\ t \in Pending /\ due[t] <= now
    /\ \A u \in Pending : due[t] <= due[u]

Init == now = 0 /\ due = [t \in Timer |-> OFF]

Tick == now' = now + 1 /\ UNCHANGED due

Set(t, d) ==
    /\ t \notin Pending /\ d >= now
    /\ due' = [due EXCEPT ![t] = d] /\ UNCHANGED now

Cancel(t) ==
    /\ t \in Pending
    /\ due' = [due EXCEPT ![t] = OFF] /\ UNCHANGED now

(* t goes off; it may be set again in the same step, for later. *)
GoOff(t) ==
    /\ Ripe(t)
    /\ \E d \in Instant \cup {OFF} :
          /\ d # OFF => d > now
          /\ due' = [due EXCEPT ![t] = d]
    /\ UNCHANGED now

Next ==
    \/ Tick
    \/ \E t \in Timer :
          \/ \E d \in Instant : Set(t, d)
          \/ Cancel(t) \/ GoOff(t)

Spec == Init /\ [][Next]_vars

(* A ripe alarm does go off. *)
FairSpec == Spec /\ WF_vars(\E t \in Timer : GoOff(t))
=============================================================================
