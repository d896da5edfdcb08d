-------------------------- MODULE MCWechatSession --------------------------
(***************************************************************************)
(* Small instances of WechatSession for TLC.                               *)
(***************************************************************************)
EXTENDS WechatSession, TLC

\* Buffers are only compared, so that safety may be checked up to renaming.
BufferSymmetry == Permutations(Buffer)
=============================================================================
