------------------------- MODULE MCWechatTransport -------------------------
(***************************************************************************)
(* Small instances of WechatTransport for TLC.                             *)
(***************************************************************************)
EXTENDS WechatTransport

\* Streams and channels are only compared.
TransportSymmetry == Permutations(Sink) \cup Permutations(Channel)
=============================================================================
