--------------------------- MODULE RefundWorkflow ---------------------------
(***************************************************************************)
(* What the refund service promises about one purchase (the RefundStatus   *)
(* enum and the comment above it in schema.prisma): an unopened purchase   *)
(* goes straight to COMPLETED, an opened one is REQUESTED, decided once,   *)
(* and only an approval leads on to COMPLETED.  The books count the sale   *)
(* as returned from the moment the refund is COMPLETED, and forever.       *)
(***************************************************************************)
CONSTANT Purchases

VARIABLES status,    \* where the refund of a purchase stands
          opened,    \* purchases whose content was handed out
          returned   \* purchases the books count as returned

vars == <<status, opened, returned>>

Init == /\ status = [p \in Purchases |-> "none"]
        /\ opened = {}
        /\ returned = {}

\* Whatever the refund does: a download that is under way is not called back.
Open(p) == /\ opened' = opened \cup {p}
           /\ UNCHANGED <<status, returned>>

\* A manual refund is for opened purchases only.
Request(p) == /\ status[p] = "none"
              /\ p \in opened
              /\ status' = [status EXCEPT ![p] = "REQUESTED"]
              /\ UNCHANGED <<opened, returned>>

Decide(p, verdict) == /\ status[p] = "REQUESTED"
                      /\ verdict \in {"APPROVED", "REJECTED"}
                      /\ status' = [status EXCEPT ![p] = verdict]
                      /\ UNCHANGED <<opened, returned>>

Complete(p) == /\ status[p] \in {"none", "APPROVED"}
               /\ status' = [status EXCEPT ![p] = "COMPLETED"]
               /\ returned' = returned \cup {p}
               /\ UNCHANGED opened

Next == \E p \in Purchases :
          \/ Open(p) \/ Request(p) \/ Complete(p)
          \/ \E verdict \in {"APPROVED", "REJECTED"} : Decide(p, verdict)

Spec == Init /\ [][Next]_vars
=============================================================================
