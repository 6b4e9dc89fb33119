------------------------------- MODULE Agenda -------------------------------
(***************************************************************************)
(* What the operations on a recurring series do to the calendar a user     *)
(* sees: each occurrence is shown as the series has it, shown as its own   *)
(* edited version, or not shown.  The operations take several requests and *)
(* may stop after any of them; each visible change is one of these steps.  *)
(* Once two operations have overlapped, nothing is promised: an update     *)
(* replaces the whole row it read.                                         *)
(***************************************************************************)

CONSTANT Slot          \* original starts of occurrences

VARIABLES view,        \* how each occurrence is shown
          contended    \* two operations have overlapped

vars == <<view, contended>>
Views == {"none", "original", "edited"}

Init == view \in [Slot -> {"none", "original"}] /\ contended = FALSE

Edit(s) ==
    /\ view[s] = "original"
    /\ view' = [view EXCEPT ![s] = "edited"]

Delete(s) ==
    /\ view[s] # "none"
    /\ view' = [view EXCEPT ![s] = "none"]

\* A new time or rule for the series leaves edited occurrences alone...
Reschedule ==
    /\ view' \in [Slot -> Views]
    /\ \A s \in Slot : view[s] = "edited" <=> view'[s] = "edited"

\* ...and is then followed by dropping them all.
DropEdits ==
    /\ view' \in [Slot -> {"none", "original"}]
    /\ \E s \in Slot : view[s] = "edited"
    /\ \A s \in Slot : view[s] # "edited" => view'[s] = view[s]

\* The whole series at once.
Cancel == view' = [s \in Slot |-> "none"]

Contend == contended' = TRUE

Step == Reschedule \/ DropEdits \/ Cancel \/ \E s \in Slot : Edit(s) \/ Delete(s)

Next == Contend \/ (Step /\ UNCHANGED contended)

Spec == Init /\ [][Next]_vars
=============================================================================
