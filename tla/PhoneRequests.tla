--------------------------- MODULE PhoneRequests ---------------------------
(***************************************************************************)
(* What the headset promises the phone about its requests to the sensor:   *)
(* one at a time, and each is closed once.  A reset of the headset forgets *)
(* the open request.                                                       *)
(***************************************************************************)
EXTENDS Naturals

VARIABLES
    accepted,   \* requests accepted since the last reset
    closed      \* requests closed since the last reset

Init == accepted = 0 /\ closed = 0

\* A request is accepted only when none is open.
Accept ==
    /\ accepted = closed
    /\ accepted' = accepted + 1
    /\ UNCHANGED closed

\* The open request is closed; a request that is not open cannot be.
Close ==
    /\ closed < accepted
    /\ closed' = closed + 1
    /\ UNCHANGED accepted

Reset == accepted' = 0 /\ closed' = 0

Next == Accept \/ Close \/ Reset

Spec == Init /\ [][Next]_<<accepted, closed>>
=============================================================================
