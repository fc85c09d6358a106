------------------------------ MODULE LockService ------------------------------
(***************************************************************************)
(* What alsactl's lock files promise their callers, whatever the protocol  *)
(* behind them: a process outside asks for the lock, is then either inside *)
(* or turned away, and at most one process that uses locking is inside.    *)
(* A process started with locking off (--no-lock) is not a client.         *)
(***************************************************************************)
CONSTANT Clients

VARIABLE status          \* status[p]: where process p stands with the lock

Init == status = [p \in Clients |-> "out"]

Request(p) ==
    /\ status[p] = "out"
    /\ status' = [status EXCEPT ![p] = "trying"]

Enter(p) ==
    /\ status[p] = "trying"
    /\ \A q \in Clients : status[q] # "in"
    /\ status' = [status EXCEPT ![p] = "in"]

Leave(p) ==              \* a release, a refusal or the end of the process
    /\ status[p] # "out"
    /\ status' = [status EXCEPT ![p] = "out"]

Next == \E p \in Clients : Request(p) \/ Enter(p) \/ Leave(p)

Spec == Init /\ [][Next]_status
================================================================================
