-------------------------- MODULE MCBleAdvertising --------------------------
(* Names that fit with all of the data, that push the maker's data out,    *)
(* and that are cut short.  The channels may be exchanged.                 *)
EXTENDS BleAdvertising, TLC

MCNameSizes == {6, 23}

Channels == Permutations(Cid)
=============================================================================
