------------------------------ MODULE SlotUpdate ------------------------------
(***************************************************************************)
(* What the updater promises of a device with two system slots, whatever   *)
(* threads, preferences and staging files it uses: a payload is written    *)
(* over the inactive slot only when it is newer than the running system    *)
(* and than every update recorded as installed; an update is recorded as   *)
(* installed only from a running system that passed its startup checks.    *)
(***************************************************************************)
EXTENDS Integers

CONSTANT MaxSequence

VARIABLES running, other, armed, trial, bootVerified, accepted, payload

slotVars == <<running, other, armed, trial, bootVerified, accepted, payload>>

(* payload is the sequence being written or waiting for the restart, or 0. *)
Init == /\ running = 1 /\ other = 0 /\ armed = FALSE /\ trial = FALSE
        /\ bootVerified = FALSE /\ accepted = 0 /\ payload = 0

Begin(s) == /\ payload = 0
            /\ s > running /\ s > accepted
            /\ payload' = s /\ other' = 0 /\ armed' = FALSE
            /\ UNCHANGED <<running, trial, bootVerified, accepted>>

Written == /\ payload # 0
           /\ other' = payload /\ armed' = TRUE
           /\ UNCHANGED <<running, trial, bootVerified, accepted, payload>>

Abandon == /\ payload' = 0
           /\ armed' \in {armed, FALSE}
           /\ UNCHANGED <<running, other, trial, bootVerified, accepted>>

Verify == /\ bootVerified' = TRUE /\ trial' = FALSE
          /\ UNCHANGED <<running, other, armed, accepted, payload>>

Accept(s) == /\ bootVerified /\ accepted <= s /\ s <= running
             /\ accepted' = s
             /\ UNCHANGED <<running, other, armed, trial, bootVerified, payload>>

(* A restart tries an armed slot, or refuses it for good, and leaves a trial *)
(* that was never verified for the previous slot, if that is still whole.    *)
Boot == /\ \/ armed /\ running' = other /\ other' = running /\ trial' = TRUE
           \/ armed /\ other' = 0 /\ UNCHANGED <<running, trial>>
           \/ /\ ~armed /\ trial /\ other \in 1..(running - 1)
              /\ running' = other /\ other' = 0 /\ trial' = FALSE
           \/ ~armed /\ UNCHANGED <<running, other, trial>>
        /\ armed' = FALSE /\ bootVerified' = FALSE /\ payload' = 0
        /\ UNCHANGED accepted

Next == \/ \E s \in 1..MaxSequence : Begin(s) \/ Accept(s)
        \/ Written \/ Abandon \/ Verify \/ Boot

Spec == Init /\ [][Next]_slotVars
=============================================================================
