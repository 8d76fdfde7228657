------------------------------ MODULE MCEventTpl ------------------------------
(* A small instance of EventTpl for TLC: the two events of the core and    *)
(* one event of a driver at a time, either an EVT_NOTIFY_SIGNAL event in   *)
(* the group of the idle event or an EVT_NOTIFY_WAIT event that is waited  *)
(* for, twice in one array.                                                *)
EXTENDS EventTpl

CONSTANTS idle, check, grouped, waitable, none,
          DriverTpl   \* the level of the driver's notify function

MCNotifySignal == Event \ {waitable}
MCNotifyTpl  == [e \in Event |-> CASE e = idle  -> 16
                                   [] e = check -> 30
                                   [] OTHER     -> DriverTpl]
MCEventGroup == [e \in Event |-> IF e \in {idle, grouped} THEN idle ELSE none]
MCWaitArray  == <<waitable, waitable>>
=============================================================================
