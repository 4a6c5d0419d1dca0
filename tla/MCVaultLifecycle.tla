-------------------------- MODULE MCVaultLifecycle --------------------------
(* Small instances of VaultLifecycle for TLC.                                *)
EXTENDS VaultLifecycle, TLC

\* Calls of one command differ in nothing but their identity, and no property
\* of the safety runs names one.
Symmetry ==
  Permutations(Unlocks) \cup Permutations(Creates) \cup Permutations(Locks)

=============================================================================
