---------------------------- MODULE DurableState ----------------------------
(***************************************************************************)
(* What persist_state and load_state promise together, without their files: *)
(* one durable version that only moves forward, and a reported version that *)
(* never runs ahead of it.  A crash is a step that changes neither.  Once   *)
(* something else has written the file, or a start could not read it though *)
(* it was good, nothing is promised any more.                               *)
(***************************************************************************)
EXTENDS Naturals

VARIABLES
    durable,    \* the version the next start loads
    reported,   \* the last version the user was told is saved
    touched     \* something else wrote the file, or a start failed to read it

Init == durable = 0 /\ reported = 0 /\ ~ touched

Save ==
    /\ durable' \in Nat
    /\ durable' > durable
    /\ UNCHANGED <<reported, touched>>

Report ==
    /\ reported' = durable
    /\ UNCHANGED <<durable, touched>>

Next == Save \/ Report \/ touched'

Spec == Init /\ [][Next]_<<durable, reported, touched>>

(* Nothing that was reported as saved is lost.                              *)
NothingLost == touched \/ reported <= durable
=============================================================================
