--------------------------- MODULE MCSlcReconnect ---------------------------
(* SlcReconnect with two phones and four configurations: with and without   *)
(* multipoint, through the list or again to the last connected.             *)
EXTENDS SlcReconnect

CONSTANTS p1, p2

Keys(profiled, multipoint, action, list, last, pairing, auto) ==
    [Paired |-> <<p1, p2>>, Profiled |-> profiled, Multipoint |-> multipoint,
     action |-> action, ReconnectionAttempts |-> list, ReconnectLastAttempts |-> last,
     EnterPairingModeOnFailureToConnect |-> pairing, AutoReconnectPowerOn |-> auto]

\* The whole list once with multipoint, when the user asks for it, and round and
\* round without; the last connected; and one phone of two that has no HFP.
MCConfiguration ==
    {Keys(Phone, TRUE, "List", 0, 0, FALSE, FALSE),
     Keys(Phone, TRUE, "LastConnected", 0, 1, TRUE, TRUE),
     Keys(Phone, FALSE, "List", 2, 0, TRUE, TRUE),
     Keys(Phone, FALSE, "LastConnected", 0, 1, FALSE, TRUE)}
    \cup {Keys({a}, FALSE, "LastConnected", 0, 1, TRUE, TRUE) : a \in Phone}
    \cup {Keys({a}, TRUE, "List", 1, 0, FALSE, TRUE) : a \in Phone}
=============================================================================
