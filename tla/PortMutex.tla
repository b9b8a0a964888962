----------------------------- MODULE PortMutex -----------------------------
(***************************************************************************)
(* What services/port_lock.py promises: one physical device, one operation *)
(* at a time, whatever thread or process the operation runs in.            *)
(***************************************************************************)
CONSTANT Users

VARIABLE using  \* the operations that are using the device

Init == using = {}

Enter(u) == using = {} /\ using' = {u}

Leave(u) == using = {u} /\ using' = {}

Next == \E u \in Users : Enter(u) \/ Leave(u)

Spec == Init /\ [][Next]_using
=============================================================================
