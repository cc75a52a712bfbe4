----------------------------- MODULE BlockStore -----------------------------
(***************************************************************************)
(* What block_read and block_write promise ("internally synchronizes       *)
(* accesses"): a request is called, takes effect atomically on the sectors *)
(* and returns.  A failing disk may lose a write.                          *)
(***************************************************************************)
EXTENDS Naturals

CONSTANTS Thread, Disk, Sector, Data, Blank, MaxFaults

VARIABLES store, phase, request, result, faults
vars == <<store, phase, request, result, faults>>

Init ==
  /\ store = [d \in Disk |-> [s \in Sector |-> Blank]]
  /\ phase = [t \in Thread |-> "none"]
  /\ request \in [Thread -> [op : {"read", "write"}, disk : Disk, sector : Sector, data : Data]]
  /\ result = [t \in Thread |-> Blank]
  /\ faults = 0

(* The contents of the sector a request is for. *)
At(r) == store[r.disk][r.sector]

Call(t) ==
  /\ phase[t] = "none" /\ phase' = [phase EXCEPT ![t] = "called"]
  /\ \A u \in Thread \ {t} : request'[u] = request[u]
  /\ UNCHANGED <<store, result, faults>>

Effect(t) ==
  /\ phase[t] = "called" /\ phase' = [phase EXCEPT ![t] = "decided"]
  /\ \/ /\ request[t].op = "read"
        /\ result' = [result EXCEPT ![t] = At(request[t])]
        /\ UNCHANGED store
     \/ /\ request[t].op = "write"
        /\ store' = [store EXCEPT ![request[t].disk][request[t].sector] = request[t].data]
        /\ UNCHANGED result
  /\ UNCHANGED <<request, faults>>

Return(t) ==
  /\ phase[t] = "decided" /\ phase' = [phase EXCEPT ![t] = "none"]
  /\ UNCHANGED <<store, request, result, faults>>

(* The disk fails, and may have lost one sector. *)
Fault ==
  /\ faults < MaxFaults /\ faults' = faults + 1
  /\ \E d \in Disk, s \in Sector, v \in Data : store' = [store EXCEPT ![d][s] = v]
  /\ UNCHANGED <<phase, request, result>>

Next == Fault \/ \E t \in Thread : Call(t) \/ Effect(t) \/ Return(t)

Spec == Init /\ [][Next]_vars
=============================================================================
