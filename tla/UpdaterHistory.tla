---------------------------- MODULE UpdaterHistory ----------------------------
(***************************************************************************)
(* KikiUpdater with two history variables, for the guarantees that end at  *)
(* one exactly known event: they say what remains true after every other   *)
(* crash, interleaving and order of events.                                *)
(***************************************************************************)
EXTENDS MCKikiUpdater

VARIABLES
  announced,  \* the restart into this trial boot found rebootReady set
  orphaned    \* in this boot a payload outlived the updater's process

history == <<announced, orphaned>>

HistoryInit == Init /\ announced = FALSE /\ orphaned = FALSE

(* A process of the updater ends while update_engine goes on writing: what   *)
(* the two then hold against each other lasts until the device restarts.     *)
OutlivesProcess ==
  \/ engine = "RUNNING" /\ engine' = "RUNNING"
     /\ pc[Main] # "down" /\ pc'[Main] = "down"
  \/ orphaned /\ ~Restart

(* A restart into the other slot keeps the preferences it finds. *)
AnnouncedTrial == /\ trial'
                  /\ IF running' = running THEN announced ELSE rebootReady

HistoryNext == /\ Next
               /\ announced' = AnnouncedTrial
               /\ orphaned' = OutlivesProcess

HistorySpec == HistoryInit /\ [][HistoryNext]_<<vars, history>>

----------------------------------------------------------------------------
(* The slot the device falls back to stays whole until the new system has    *)
(* been verified: rebootReady, kept across the restart and every crash of    *)
(* the trial boot, holds further installations off (lines 94 and 99).  The   *)
(* one exception is power lost between the engine's slot switch and the      *)
(* commit of rebootReady (line 41), after which nothing announces the trial. *)
FallbackPreserved == trial /\ announced => other # 0

(* While update_engine writes a payload no other one gets past the guards,   *)
(* whatever was lost to restarts before; only in a boot in which a payload   *)
(* outlived the process that submitted it (see ActiveDuplicateRejected) can  *)
(* it meet a second submission.                                              *)
DuplicateOnlyOfOrphan == ~orphaned => ActiveDuplicateRejected
=============================================================================
