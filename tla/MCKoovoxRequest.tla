-------------------------- MODULE MCKoovoxRequest --------------------------
(***************************************************************************)
(* Small instances of KoovoxRequest for TLC.                               *)
(***************************************************************************)
EXTENDS KoovoxRequest

\* One request the code answers and one whose confirmation lands in the
\* default branch.
MCPhoneCmd ==
    { [cmd |-> "STOP",  obj |-> "HEART_RATE"],
      [cmd |-> "START", obj |-> "SYSTEM"] }

\* Only requests whose confirmation answers the phone.
MCAnsweredCmd ==
    { [cmd |-> "START", obj |-> "HEALTH_MONITOR"],
      [cmd |-> "START", obj |-> "NECK_PROTECT"],
      [cmd |-> "START", obj |-> "CONST_SEAT"] }
=============================================================================
