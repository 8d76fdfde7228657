----------------------------- MODULE BlockUpdate -----------------------------
(* What the fault tolerant write protocol promises its callers: a block is *)
(* replaced as a whole or not at all, by the update that was asked for and *)
(* no other, whatever fails on the way.                                    *)
CONSTANTS
  Target,   \* the blocks that are updated
  Value,    \* their possible contents
  None      \* no update is asked for

VARIABLES
  contents, \* what a reader of each block gets, after recovery if need be
  request   \* the update in progress, not yet committed

vars == <<contents, request>>

Requests == [target : Target, value : Value]

Init ==
  /\ contents \in [Target -> Value]
  /\ request = None

Request(r) ==
  /\ request = None
  /\ request' = r
  /\ UNCHANGED contents

Commit ==
  /\ request # None
  /\ contents' = [contents EXCEPT ![request.target] = request.value]
  /\ request' = None

(* The update failed, or power was lost, before it was committed.          *)
Drop ==
  /\ request # None
  /\ request' = None
  /\ UNCHANGED contents

Next == (\E r \in Requests : Request(r)) \/ Commit \/ Drop

Spec == Init /\ [][Next]_vars
=============================================================================
