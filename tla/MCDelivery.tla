----------------------------- MODULE MCDelivery -----------------------------
(***************************************************************************)
(* Outbox and Reminders, the two ways an event reaches Kafka, on small     *)
(* instances.  They share no state; a behaviour is of one, chosen at the   *)
(* start: the outbox ("outbox"), two jobs and one milestone ("overlap"),   *)
(* one job at a time and two milestones ("series").  The fairness is that  *)
(* of the outbox.                                                          *)
(***************************************************************************)
EXTENDS Outbox, Reminders

VARIABLE focus

deliveryVars == <<vars, reminderVars, focus>>

DeliveryInit == Init /\ RemindersInit /\ focus \in {"outbox", "overlap", "series"}

DeliveryNext ==
    /\ UNCHANGED focus
    /\ \/ focus = "outbox" /\ Next /\ UNCHANGED reminderVars
       \/ focus = "overlap" /\ RemindersNext /\ created' <= 1 /\ UNCHANGED vars
       \/ focus = "series" /\ RemindersNext /\ job'["J2"] = Asleep /\ UNCHANGED vars

DeliverySpec == DeliveryInit /\ [][DeliveryNext]_deliveryVars /\ Fairness
=============================================================================
