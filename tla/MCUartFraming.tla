--------------------------- MODULE MCUartFraming ---------------------------
(***************************************************************************)
(* Small instances of UartFraming for TLC.                                 *)
(***************************************************************************)
EXTENDS UartFraming

\* A short frame, one whose data end in '{', one whose data begin with '}', which
\* may meet a '{' before it, and one whose data hold the tail.
MCBody == {<<PLAIN>>, <<PLAIN, OPEN>>, <<CLOSE, PLAIN>>, <<OPEN, CLOSE, PLAIN>>}
=============================================================================
