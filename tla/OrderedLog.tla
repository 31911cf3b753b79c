----------------------------- MODULE OrderedLog -----------------------------
(***************************************************************************)
(* What an event-sourced reducer promises about the events it accepts:     *)
(* they form a log that only grows at its end, an event id enters it at    *)
(* most once, and the source time of the newest entry never falls.  How    *)
(* events are numbered, checked and reduced is left to the implementation. *)
(***************************************************************************)
EXTENDS Naturals, Sequences

CONSTANT Id

VARIABLES
    log,   \* the ids of the accepted events, oldest first
    now    \* source time of the newest one

Init == log = << >> /\ now = 0

Enter(id) ==
    /\ \A i \in 1 .. Len(log) : log[i] # id
    /\ log' = Append(log, id)
    /\ now' \in Nat
    /\ now' >= now

Next == \E id \in Id : Enter(id)

Spec == Init /\ [][Next]_<<log, now>>
=============================================================================
