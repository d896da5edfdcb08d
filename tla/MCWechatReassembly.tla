------------------------- MODULE MCWechatReassembly -------------------------
(***************************************************************************)
(* Small instances of WechatReassembly for TLC.                            *)
(***************************************************************************)
EXTENDS WechatReassembly

\* The shortest frame, which gives an error, and one that comes in two fragments.
MCFrame == {<<9, 1, 4, 2>>, <<9, 1, 6, 0, 0, 0>>}

\* Behind a fragment: nothing of use, or the rest of a head.
MCStale == {<<0, 0>>, <<1, 5>>}
=============================================================================
