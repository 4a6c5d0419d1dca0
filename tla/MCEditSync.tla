----------------------------- MODULE MCEditSync -----------------------------
(* Small instances of EditSync. The first content is special (the copy starts *)
(* with it) and the other sets have one member, so nothing is permuted.       *)
EXTENDS EditSync
=============================================================================
