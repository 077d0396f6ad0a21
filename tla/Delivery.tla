------------------------------ MODULE Delivery ------------------------------
(***************************************************************************)
(* What msptiActivity promises of the records it accepts                   *)
(* (csrc/include/mspti_activity.h, docs/en/user_guide/activity_api.md):    *)
(* they reach the client in batches, one per buffer; a batch is final, and *)
(* no record is delivered before it was accepted, or lost afterwards.      *)
(***************************************************************************)
CONSTANT Records

VARIABLES
    accepted,   \* records whose Record call has written them
    delivered   \* records the client has been given

Init == accepted = {} /\ delivered = {}

Accept == \E r \in Records \ accepted :
              /\ accepted' = accepted \cup {r}
              /\ UNCHANGED delivered

Deliver == \E batch \in SUBSET (accepted \ delivered) :
               /\ delivered' = delivered \cup batch
               /\ UNCHANGED accepted

Next == Accept \/ Deliver
Spec == Init /\ [][Next]_<<accepted, delivered>>
=============================================================================
