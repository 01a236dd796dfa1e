----------------------------- MODULE MCCleanup ------------------------------
(* The caller has one rooted frame and one active allocator.               *)
EXTENDS Cleanup

OneRoot == <<0>>
OneContext == <<0>>
=============================================================================
