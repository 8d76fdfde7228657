----------------------------- MODULE MCEventTimer -----------------------------
(* Small instances of EventTimer: a timer event with a notify function    *)
(* beside one that is polled.                                               *)
EXTENDS EventTimer

CONSTANTS idle, check, notified, polled, none

MCNotifySignal == Event \ {polled}
MCNotifyTpl    == [e \in Event |-> CASE e = idle  -> 16
                                     [] e = check -> 30
                                     [] e = polled -> 0
                                     [] OTHER     -> 16]
MCEventGroup   == [e \in Event |-> IF e = idle THEN idle ELSE none]
MCWaitArray    == <<idle>>
=============================================================================
