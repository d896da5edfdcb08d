------------------------- MODULE MCHeartRateFilter -------------------------
(***************************************************************************)
(* Small instances of HeartRateFilter for TLC.                             *)
(***************************************************************************)
EXTENDS HeartRateFilter

\* A dropout, rates within a threshold, within the filter and beyond it.
MCRate == {0, 8, 9, 11, 16}
=============================================================================
