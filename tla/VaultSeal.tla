------------------------------ MODULE VaultSeal ------------------------------
(***************************************************************************)
(* What the vault promises about the data at rest, with every race between *)
(* commands abstracted away: there is one password, every stored secret is *)
(* sealed under it, and a password change re-seals all of them at once.    *)
(***************************************************************************)
CONSTANTS Records, Passwords, NoPassword

VARIABLES
  key,      \* the password that opens the vault, NoPassword before it exists
  sealed    \* per record, the password it is sealed under; NoPassword: absent

vars == <<key, sealed>>

Init ==
  /\ key \in Passwords \cup {NoPassword}
  /\ sealed \in [Records -> {key, NoPassword}]

\* The vault is created once.
Create(p) ==
  /\ key = NoPassword
  /\ key' = p
  /\ UNCHANGED sealed

\* A secret is stored, or replaced.
Put(r) ==
  /\ key # NoPassword
  /\ sealed' = [sealed EXCEPT ![r] = key]
  /\ UNCHANGED key

Remove(r) ==
  /\ sealed' = [sealed EXCEPT ![r] = NoPassword]
  /\ UNCHANGED key

\* The password changes, and every stored secret with it, in one step.
Rotate(p) ==
  /\ key # NoPassword
  /\ key' = p
  /\ sealed' = [r \in Records |->
                  IF sealed[r] = NoPassword THEN NoPassword ELSE p]

Next ==
  \/ \E p \in Passwords : Create(p) \/ Rotate(p)
  \/ \E r \in Records : Put(r) \/ Remove(r)

Spec == Init /\ [][Next]_vars

=============================================================================
