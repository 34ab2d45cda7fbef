---------------------------- MODULE FulcrumCall -----------------------------
(***************************************************************************)
(* What the pooled transport promises the caller of one provider request:  *)
(* it settles once, endpoints are asked in order, a query is written at    *)
(* most twice to an endpoint and a submission at most once, and a call     *)
(* only returns a result after some request of its own was written.        *)
(***************************************************************************)
EXTENDS Naturals

CONSTANTS Call, Broadcast, Slots

VARIABLES status,  \* per call: "idle", "outstanding", "returned" or "threw"
          writes   \* requests written, per call and endpoint

Budget(c) == IF c \in Broadcast THEN 1 ELSE 2

Init ==
    /\ status = [c \in Call |-> "idle"]
    /\ writes = [c \in Call |-> [s \in 1..Slots |-> 0]]

Begin(c) ==
    /\ status[c] = "idle"
    /\ status' = [status EXCEPT ![c] = "outstanding"]
    /\ UNCHANGED writes

Write(c, s) ==
    /\ status[c] = "outstanding"
    /\ writes[c][s] < Budget(c)
    /\ \A t \in (s + 1)..Slots : writes[c][t] = 0
    /\ writes' = [writes EXCEPT ![c][s] = @ + 1]
    /\ UNCHANGED status

\* One chunk of answers may complete several calls.
Return(S) ==
    /\ \A c \in S : status[c] = "outstanding" /\ \E s \in 1..Slots : writes[c][s] > 0
    /\ status' = [c \in Call |-> IF c \in S THEN "returned" ELSE status[c]]
    /\ UNCHANGED writes

Throw(c) ==
    /\ status[c] = "outstanding"
    /\ status' = [status EXCEPT ![c] = "threw"]
    /\ UNCHANGED writes

Next ==
    \/ \E c \in Call : Begin(c) \/ Throw(c) \/ \E s \in 1..Slots : Write(c, s)
    \/ \E S \in (SUBSET Call) \ {{}} : Return(S)

Spec == Init /\ [][Next]_<<status, writes>>
=============================================================================
