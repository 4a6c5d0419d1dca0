----------------------- MODULE VaultLifecycle_proofs -----------------------
(***************************************************************************)
(* Proofs about VaultLifecycle, for every number of calls, records and     *)
(* passwords.  The inductive invariant says, for every step of every call, *)
(* which guard the call holds, which password and which generation it      *)
(* works with.  Its parts are proved one after another; each uses the ones *)
(* before it.                                                              *)
(***************************************************************************)
EXTENDS VaultLifecycle, TLAPS

USE DEF disk, guards, throttle, live, frame, local, history

HoldingSteps ==
  {"guard", "attempt", "verify", "upgrade", "set", "check", "clear", "create",
   "createSet", "queue", "wait", "snapshot", "recheck", "commit", "write",
   "unseal"}

\* A call that works with a password has one, and so has one that guesses.
HeldIsPassword ==
  \A r \in Requests : pc[r] \in HoldingSteps => held[r] \in Passwords

GuessIsPassword ==
  \A r \in Guessers : pc[r] \in HoldingSteps => guess[r] \in Passwords

\* What an unlock will set is what it offers for verification.
UnlockOffersOne ==
  \A u \in Unlocks : pc[u] \in HoldingSteps => held[u] = guess[u]

HoldsPassword == HeldIsPassword /\ GuessIsPassword /\ UnlockOffersOne

\* An empty snapshot is one.
LEMMA NothingType == Nothing \in [Records -> Blobs]
BY DEF Nothing, Blobs, NoBlob

\* What the program starts with has its types.
LEMMA TypeInit == Init => TypeOK
<1> SUFFICES ASSUME Init PROVE TypeOK
  OBVIOUS
<1>1. records \in [Records -> Blobs]
  <2>1. CASE StartPassword = NoPassword
    BY <2>1 DEF Init, Blobs, NoBlob
  <2>2. CASE StartPassword \in Passwords
    BY <2>2 DEF Init, Blobs, NoBlob
  <2> QED
    BY <2>1, <2>2, PasswordsAssumption
<1>2. snapshot \in [Changes -> [Records -> Blobs]]
  BY NothingType DEF Init
<1> QED
  BY <1>1, <1>2, PasswordsAssumption
  DEF Init, TypeOK, Requests, Steps, Guessers

\* The calls of every command are requests.
LEMMA Kinds ==
  /\ Creates \subseteq Requests /\ Locks \subseteq Requests
  /\ Seals \subseteq Requests /\ Deletes \subseteq Requests
  /\ Guessers \subseteq Requests /\ Pending \subseteq Requests
  /\ Unlocks \subseteq Guessers /\ Changes \subseteq Guessers
  /\ Connects \subseteq Pending /\ Opens \subseteq Pending
  /\ \A r \in Guessers : r \in Unlocks \/ r \in Changes
  /\ \A p \in Pending : p \in Connects \/ p \in Opens
BY DEF Requests, Guessers, Pending

\* No request is a call of two commands.
LEMMA Apart ==
  /\ NoRequest \notin Requests
  /\ \A u \in Unlocks : u \notin Changes
  /\ \A g \in Guessers :
       g \notin Creates \cup Locks \cup Seals \cup Deletes \cup Pending
  /\ \A k \in Creates : k \notin Locks \cup Seals \cup Deletes \cup Pending
  /\ \A l \in Locks : l \notin Seals \cup Deletes \cup Pending
  /\ \A s \in Seals : s \notin Deletes \cup Pending
  /\ \A d \in Deletes : d \notin Pending
  /\ \A c \in Connects : c \notin Opens
BY RequestsDistinct DEF Guessers, Pending

\* A step to another step keeps the type of pc.
LEMMA GotoType ==
  ASSUME TypeOK, NEW r \in Requests, NEW from, NEW to \in Steps,
         Goto(r, from, to)
  PROVE  pc' \in [Requests -> Steps]
BY DEF Goto, TypeOK

\* What a call seals under a password is a blob.
LEMMA SealedBlobs ==
  /\ NoBlob \in Blobs
  /\ \A p \in Passwords, r \in Requests : [pw |-> p, by |-> r] \in Blobs
BY DEF Blobs

\* The types of what a return writes.
ReturnType ==
  /\ readers' \subseteq Requests
  /\ writer' \in Changes \cup {NoRequest}
  /\ waiting' \subseteq Changes
  /\ attempt' \in Guessers \cup {NoRequest}
  /\ pc' \in [Requests -> Steps]
  /\ captured' \in [Requests -> Nat]
  /\ guess' \in [Requests -> Passwords \cup {NoPassword}]
  /\ held' \in [Requests -> Passwords \cup {NoPassword}]
  /\ snapshot' \in [Changes -> [Records -> Blobs]]

\* A return keeps the types of everything it drops.
LEMMA ReturnTypes ==
  ASSUME TypeOK, NEW r \in Requests, Return(r)
  PROVE  ReturnType
<1>1. snapshot' \in [Changes -> [Records -> Blobs]]
  BY NothingType DEF Return, TypeOK
<1> QED
  BY <1>1 DEF Return, ReturnType, TypeOK, Steps

\* Every step keeps the types, given that a working call has its password.
LEMMA TypeStep ==
  ASSUME TypeOK, HoldsPassword, [Next]_vars
  PROVE  TypeOK'
<1> USE Kinds, PasswordsAssumption DEF TypeOK
<1>1. ASSUME NEW k \in Creates, CreateBegin(k) PROVE TypeOK'
  BY <1>1 DEF CreateBegin, Goto, Steps
<1>2. ASSUME NEW k \in Creates, CreateVerifier(k) PROVE TypeOK'
  <2>1. ReturnType
    <3>1. CASE Return(k)
      BY <3>1, ReturnTypes
    <3>2. CASE ~Return(k)
      BY <1>2, <3>2 DEF CreateVerifier, Goto, ReturnType, Steps
    <3> QED
      BY <3>1, <3>2
  <2> QED
    BY <1>2, <2>1 DEF CreateVerifier, Goto, ReturnType, Steps
<1>3. ASSUME NEW k \in Creates, CreateSet(k) PROVE TypeOK'
  <2>1. ReturnType
    <3>1. CASE Return(k)
      BY <3>1, ReturnTypes
    <3>2. CASE ~Return(k)
      BY <1>3, <3>2 DEF CreateSet, Goto, ReturnType, Steps
    <3> QED
      BY <3>1, <3>2
  <2> QED
    BY <1>3, <2>1 DEF CreateSet, Goto, ReturnType, Steps
<1>4. ASSUME NEW u \in Unlocks, UnlockBegin(u) PROVE TypeOK'
  BY <1>4 DEF UnlockBegin, Goto, Steps
<1>5. ASSUME NEW u \in Unlocks, UnlockGuard(u) PROVE TypeOK'
  <2>1. pc' \in [Requests -> Steps]
    BY <1>5 DEF UnlockGuard, Goto, Steps
  <2>2. readers' \subseteq Requests
    BY <1>5 DEF UnlockGuard
  <2> QED
    BY <1>5, <2>1, <2>2 DEF UnlockGuard
<1>6. ASSUME NEW c \in Changes, ChangeBegin(c) PROVE TypeOK'
  BY <1>6 DEF ChangeBegin, Goto, Steps
<1>7. ASSUME NEW c \in Changes, ChangeQueue(c) PROVE TypeOK'
  BY <1>7 DEF ChangeQueue, Goto, Steps
<1>8. ASSUME NEW c \in Changes, ChangeAcquire(c) PROVE TypeOK'
  BY <1>8 DEF ChangeAcquire, Goto, Steps
<1>9. ASSUME NEW c \in Changes, ChangeTimeout(c) PROVE TypeOK'
  <2>1. ReturnType
    <3>1. CASE Return(c)
      BY <3>1, ReturnTypes
    <3>2. CASE ~Return(c)
      BY <1>9, <3>2 DEF ChangeTimeout, Goto, ReturnType, Steps
    <3> QED
      BY <3>1, <3>2
  <2> QED
    BY <1>9, <2>1 DEF ChangeTimeout, Goto, ReturnType, Steps
<1>10. ASSUME NEW c \in Changes, ChangeSnapshot(c) PROVE TypeOK'
  <2>1. ReturnType
    <3>1. CASE Return(c)
      BY <3>1, ReturnTypes
    <3>2. CASE ~Return(c)
      <4>1. snapshot' = [snapshot EXCEPT ![c] = records]
        BY <1>10, <3>2 DEF ChangeSnapshot
      <4>2. snapshot' \in [Changes -> [Records -> Blobs]]
        BY <4>1
      <4>3. pc' \in [Requests -> Steps]
        BY <1>10, <3>2 DEF ChangeSnapshot, Goto, Steps
      <4> QED
        BY <1>10, <3>2, <4>2, <4>3 DEF ChangeSnapshot, ReturnType
    <3> QED
      BY <3>1, <3>2
  <2> QED
    BY <1>10, <2>1 DEF ChangeSnapshot, Goto, ReturnType, Steps
<1>11. ASSUME NEW c \in Changes, ChangeRecheck(c) PROVE TypeOK'
  <2>1. ReturnType
    <3>1. CASE Return(c)
      BY <3>1, ReturnTypes
    <3>2. CASE ~Return(c)
      BY <1>11, <3>2 DEF ChangeRecheck, Goto, ReturnType, Steps
    <3> QED
      BY <3>1, <3>2
  <2> QED
    BY <1>11, <2>1 DEF ChangeRecheck, Goto, ReturnType, Steps
<1>12. ASSUME NEW c \in Changes, ChangeCommit(c) PROVE TypeOK'
  <2>1. ReturnType
    <3>1. CASE Return(c)
      BY <3>1, ReturnTypes
    <3>2. CASE ~Return(c)
      BY <1>12, <3>2 DEF ChangeCommit, Goto, ReturnType, Steps, Resealed
    <3> QED
      BY <3>1, <3>2
  <2> QED
    <3>1. CASE records' = records /\ master' = master /\ legacy' = legacy
      BY <1>12, <2>1, <3>1 DEF ChangeCommit, ReturnType
    <3>2. CASE records' = Resealed(c) /\ master' = held[c] /\ legacy' = FALSE
      <4>1. held[c] \in Passwords
        BY <1>12 DEF ChangeCommit, HoldsPassword, HeldIsPassword, HoldingSteps
      <4>2. Resealed(c) \in [Records -> Blobs]
        BY <4>1, SealedBlobs DEF Resealed
      <4> QED
        BY <1>12, <2>1, <3>2, <4>2 DEF ChangeCommit, ReturnType
    <3> QED
      BY <1>12, <3>1, <3>2 DEF ChangeCommit
<1>13. ASSUME NEW r \in Guessers, GuessBegin(r) PROVE TypeOK'
  <2>1. ReturnType
    <3>1. CASE Return(r)
      BY <3>1, ReturnTypes
    <3>2. CASE ~Return(r)
      BY <1>13, <3>2 DEF GuessBegin, Goto, ReturnType, Steps
    <3> QED
      BY <3>1, <3>2
  <2> QED
    BY <1>13, <2>1 DEF GuessBegin, Goto, ReturnType, Steps
<1>14. ASSUME NEW r \in Guessers, GuessVerify(r) PROVE TypeOK'
  <2>1. ReturnType
    <3>1. CASE Return(r)
      BY <3>1, ReturnTypes
    <3>2. CASE ~Return(r)
      BY <1>14, <3>2 DEF GuessVerify, Goto, ReturnType, Steps, Accept
    <3> QED
      BY <3>1, <3>2
  <2> QED
    <3>1. failures' \in Nat
      BY <1>14 DEF GuessVerify, Accept
    <3>2. cooling' \in BOOLEAN
      BY <1>14, Zenon DEF GuessVerify, Accept
    <3> QED
      BY <1>14, <2>1, <3>1, <3>2 DEF GuessVerify, ReturnType
<1>15. ASSUME NEW r \in Guessers, GuessUpgrade(r) PROVE TypeOK'
  BY <1>15 DEF GuessUpgrade, Goto, Steps, Accept
<1>16. ASSUME NEW r \in Guessers, SetPassword(r) PROVE TypeOK'
  BY <1>16 DEF SetPassword, Goto, Steps
<1>17. ASSUME NEW r \in Guessers, CheckStillCurrent(r) PROVE TypeOK'
  <2>1. ReturnType
    <3>1. CASE Return(r)
      BY <3>1, ReturnTypes
    <3>2. CASE ~Return(r)
      BY <1>17, <3>2 DEF CheckStillCurrent, Goto, ReturnType, Steps
    <3> QED
      BY <3>1, <3>2
  <2> QED
    BY <1>17, <2>1 DEF CheckStillCurrent, Goto, ReturnType, Steps
<1>18. ASSUME NEW r \in Guessers, ClearAgain(r) PROVE TypeOK'
  <2>1. ReturnType
    <3>1. CASE Return(r)
      BY <3>1, ReturnTypes
    <3>2. CASE ~Return(r)
      BY <1>18, <3>2 DEF ClearAgain, Goto, ReturnType, Steps
    <3> QED
      BY <3>1, <3>2
  <2> QED
    BY <1>18, <2>1 DEF ClearAgain, Goto, ReturnType, Steps
<1>19. ASSUME NEW l \in Locks, LockBump(l) PROVE TypeOK'
  BY <1>19 DEF LockBump, Goto, Steps, Registered, CapturedNotRechecked
<1>20. ASSUME NEW l \in Locks, LockKillSessions(l) PROVE TypeOK'
  BY <1>20 DEF LockKillSessions, Goto, Steps
<1>21. ASSUME NEW l \in Locks, LockCloseSftp(l) PROVE TypeOK'
  BY <1>21 DEF LockCloseSftp, Goto, Steps
<1>22. ASSUME NEW l \in Locks, LockClear(l) PROVE TypeOK'
  BY <1>22 DEF LockClear, Goto, Steps
<1>23. ASSUME NEW s \in Seals, SealBegin(s) PROVE TypeOK'
  BY <1>23 DEF SealBegin, Goto, Steps
<1>24. ASSUME NEW s \in Seals, SealWrite(s) PROVE TypeOK'
  <2>1. ReturnType
    <3>1. CASE Return(s)
      BY <3>1, ReturnTypes
    <3>2. CASE ~Return(s)
      BY <1>24, <3>2 DEF SealWrite, Goto, ReturnType, Steps
    <3> QED
      BY <3>1, <3>2
  <2> QED
    <3>1. records' \in [Records -> Blobs]
      <4>1. held[s] \in Passwords
        BY <1>24 DEF SealWrite, HoldsPassword, HeldIsPassword, HoldingSteps
      <4> QED
        BY <1>24, <4>1, SealedBlobs DEF SealWrite
    <3> QED
      BY <1>24, <2>1, <3>1 DEF SealWrite, ReturnType
<1>25. ASSUME NEW d \in Deletes, Delete(d) PROVE TypeOK'
  BY <1>25, SealedBlobs DEF Delete, Goto, Steps
<1>26. ASSUME NEW p \in Pending, CaptureUnlocked(p) PROVE TypeOK'
  BY <1>26 DEF CaptureUnlocked, Goto, Steps
<1>27. ASSUME NEW p \in Pending, CaptureGeneration(p) PROVE TypeOK'
  BY <1>27 DEF CaptureGeneration, Goto, Steps
<1>28. ASSUME NEW c \in Connects, ConnectResolve(c) PROVE TypeOK'
  <2>1. pc' \in [Requests -> Steps]
    BY <1>28 DEF ConnectResolve, Goto, Steps
  <2>2. held' \in [Requests -> Passwords \cup {NoPassword}]
    BY <1>28 DEF ConnectResolve
  <2>3. target' \in [Pending -> Records \cup Connects \cup {NoRequest}]
    BY <1>28 DEF ConnectResolve
  <2>4. readers' \subseteq Requests
    BY <1>28 DEF ConnectResolve
  <2> QED
    BY <1>28, <2>1, <2>2, <2>3, <2>4 DEF ConnectResolve
<1>29. ASSUME NEW c \in Connects, ConnectUnseal(c) PROVE TypeOK'
  BY <1>29 DEF ConnectUnseal, Goto, Steps
<1>30. ASSUME NEW c \in Connects, ConnectHandshake(c) PROVE TypeOK'
  BY <1>30 DEF ConnectHandshake, Goto, Steps
<1>31. ASSUME NEW o \in Opens, OpenRequest(o) PROVE TypeOK'
  BY <1>31 DEF OpenRequest, Goto, Steps
<1>32. ASSUME NEW o \in Opens, OpenAnswer(o) PROVE TypeOK'
  BY <1>32 DEF OpenAnswer, Goto, Steps
<1>33. ASSUME NEW p \in Pending, RecheckUnlocked(p) PROVE TypeOK'
  BY <1>33 DEF RecheckUnlocked, Goto, Steps
<1>34. ASSUME NEW p \in Pending, RecheckGeneration(p) PROVE TypeOK'
  BY <1>34 DEF RecheckGeneration, Goto, Steps
<1>35. ASSUME NEW p \in Pending, Register(p) PROVE TypeOK'
  BY <1>35 DEF Register, Goto, Steps
<1>36. ASSUME NEW c \in Connects, Disconnect(c) PROVE TypeOK'
  BY <1>36 DEF Disconnect, Goto, Steps
<1>37. ASSUME NEW c \in Connects, RemoteClose(c) PROVE TypeOK'
  BY <1>37 DEF RemoteClose, Goto, Steps
<1>38. CASE ThrottleCools
  BY <1>38 DEF ThrottleCools, Goto, Steps
<1>39. CASE Restart
  BY <1>39, NothingType DEF Restart, Goto, Steps
<1>40. CASE UNCHANGED vars
  BY <1>40 DEF vars
<1> QED
  BY <1>1, <1>2, <1>3, <1>4, <1>5, <1>6, <1>7, <1>8, <1>9, <1>10, <1>11, <1>12,
     <1>13, <1>14, <1>15, <1>16, <1>17, <1>18, <1>19, <1>20, <1>21, <1>22,
     <1>23, <1>24, <1>25, <1>26, <1>27, <1>28, <1>29, <1>30, <1>31, <1>32,
     <1>33, <1>34, <1>35, <1>36, <1>37, <1>38, <1>39, <1>40
  DEF Next, Create, Unlock, Change, GuessStep, Lock, Seal, Connect, OpenSftp,
      PendingStep, Guessers, Pending

\* Every step leaves a working call with its password.
LEMMA HoldsStep ==
  ASSUME TypeOK, HoldsPassword, [Next]_vars
  PROVE  HoldsPassword'
<1> USE Kinds, Apart, PasswordsAssumption DEF TypeOK, HoldsPassword, HoldingSteps
<1>1. ASSUME NEW k \in Creates, CreateBegin(k) PROVE HoldsPassword'
  BY <1>1
  DEF CreateBegin, Goto, HeldIsPassword, GuessIsPassword, UnlockOffersOne,
    HoldsPassword
<1>2. ASSUME NEW k \in Creates, CreateVerifier(k) PROVE HoldsPassword'
  BY <1>2
  DEF CreateVerifier, Goto, Return, HeldIsPassword, GuessIsPassword,
    UnlockOffersOne, HoldsPassword
<1>3. ASSUME NEW k \in Creates, CreateSet(k) PROVE HoldsPassword'
  BY <1>3
  DEF CreateSet, Goto, Return, HeldIsPassword, GuessIsPassword,
    UnlockOffersOne, HoldsPassword
<1>4. ASSUME NEW u \in Unlocks, UnlockBegin(u) PROVE HoldsPassword'
  BY <1>4
  DEF UnlockBegin, Goto, HeldIsPassword, GuessIsPassword, UnlockOffersOne,
    HoldsPassword
<1>5. ASSUME NEW u \in Unlocks, UnlockGuard(u) PROVE HoldsPassword'
  BY <1>5
  DEF UnlockGuard, Goto, SharedFree, HeldIsPassword, GuessIsPassword,
    UnlockOffersOne, HoldsPassword
<1>6. ASSUME NEW c \in Changes, ChangeBegin(c) PROVE HoldsPassword'
  BY <1>6
  DEF ChangeBegin, Goto, HeldIsPassword, GuessIsPassword, UnlockOffersOne,
    HoldsPassword
<1>7. ASSUME NEW c \in Changes, ChangeQueue(c) PROVE HoldsPassword'
  BY <1>7
  DEF ChangeQueue, Goto, HeldIsPassword, GuessIsPassword, UnlockOffersOne,
    HoldsPassword
<1>8. ASSUME NEW c \in Changes, ChangeAcquire(c) PROVE HoldsPassword'
  BY <1>8
  DEF ChangeAcquire, Goto, HeldIsPassword, GuessIsPassword, UnlockOffersOne,
    HoldsPassword
<1>9. ASSUME NEW c \in Changes, ChangeTimeout(c) PROVE HoldsPassword'
  BY <1>9
  DEF ChangeTimeout, Goto, Return, HeldIsPassword, GuessIsPassword,
    UnlockOffersOne, HoldsPassword
<1>10. ASSUME NEW c \in Changes, ChangeSnapshot(c) PROVE HoldsPassword'
  BY <1>10
  DEF ChangeSnapshot, Goto, Return, HeldIsPassword, GuessIsPassword,
    UnlockOffersOne, HoldsPassword
<1>11. ASSUME NEW c \in Changes, ChangeRecheck(c) PROVE HoldsPassword'
  BY <1>11
  DEF ChangeRecheck, Goto, Return, HeldIsPassword, GuessIsPassword,
    UnlockOffersOne, HoldsPassword
<1>12. ASSUME NEW c \in Changes, ChangeCommit(c) PROVE HoldsPassword'
  BY <1>12
  DEF ChangeCommit, Goto, Return, HeldIsPassword, GuessIsPassword,
    UnlockOffersOne, HoldsPassword
<1>13. ASSUME NEW r \in Guessers, GuessBegin(r) PROVE HoldsPassword'
  BY <1>13
  DEF GuessBegin, Goto, Return, HeldIsPassword, GuessIsPassword,
    UnlockOffersOne, HoldsPassword
<1>14. ASSUME NEW r \in Guessers, GuessVerify(r) PROVE HoldsPassword'
  BY <1>14
  DEF GuessVerify, Goto, Return, Accept, HeldIsPassword, GuessIsPassword,
    UnlockOffersOne, HoldsPassword
<1>15. ASSUME NEW r \in Guessers, GuessUpgrade(r) PROVE HoldsPassword'
  BY <1>15
  DEF GuessUpgrade, Goto, Accept, HeldIsPassword, GuessIsPassword,
    UnlockOffersOne, HoldsPassword
<1>16. ASSUME NEW r \in Guessers, SetPassword(r) PROVE HoldsPassword'
  BY <1>16
  DEF SetPassword, Goto, HeldIsPassword, GuessIsPassword, UnlockOffersOne,
    HoldsPassword
<1>17. ASSUME NEW r \in Guessers, CheckStillCurrent(r) PROVE HoldsPassword'
  BY <1>17
  DEF CheckStillCurrent, Goto, Return, HeldIsPassword, GuessIsPassword,
    UnlockOffersOne, HoldsPassword
<1>18. ASSUME NEW r \in Guessers, ClearAgain(r) PROVE HoldsPassword'
  BY <1>18
  DEF ClearAgain, Goto, Return, HeldIsPassword, GuessIsPassword,
    UnlockOffersOne, HoldsPassword
<1>19. ASSUME NEW l \in Locks, LockBump(l) PROVE HoldsPassword'
  BY <1>19
  DEF LockBump, Goto, HeldIsPassword, GuessIsPassword, UnlockOffersOne,
    HoldsPassword
<1>20. ASSUME NEW l \in Locks, LockKillSessions(l) PROVE HoldsPassword'
  BY <1>20
  DEF LockKillSessions, Goto, HeldIsPassword, GuessIsPassword,
    UnlockOffersOne, HoldsPassword
<1>21. ASSUME NEW l \in Locks, LockCloseSftp(l) PROVE HoldsPassword'
  BY <1>21
  DEF LockCloseSftp, Goto, HeldIsPassword, GuessIsPassword, UnlockOffersOne,
    HoldsPassword
<1>22. ASSUME NEW l \in Locks, LockClear(l) PROVE HoldsPassword'
  BY <1>22
  DEF LockClear, Goto, HeldIsPassword, GuessIsPassword, UnlockOffersOne,
    HoldsPassword
<1>23. ASSUME NEW s \in Seals, SealBegin(s) PROVE HoldsPassword'
  BY <1>23
  DEF SealBegin, Goto, SharedFree, Unlocked, HeldIsPassword,
    GuessIsPassword, UnlockOffersOne, HoldsPassword
<1>24. ASSUME NEW s \in Seals, SealWrite(s) PROVE HoldsPassword'
  BY <1>24
  DEF SealWrite, Goto, Return, HeldIsPassword, GuessIsPassword,
    UnlockOffersOne, HoldsPassword
<1>25. ASSUME NEW d \in Deletes, Delete(d) PROVE HoldsPassword'
  BY <1>25
  DEF Delete, Goto, Unlocked, HeldIsPassword, GuessIsPassword,
    UnlockOffersOne, HoldsPassword
<1>26. ASSUME NEW p \in Pending, CaptureUnlocked(p) PROVE HoldsPassword'
  BY <1>26
  DEF CaptureUnlocked, Goto, Unlocked, HeldIsPassword, GuessIsPassword,
    UnlockOffersOne, HoldsPassword
<1>27. ASSUME NEW p \in Pending, CaptureGeneration(p) PROVE HoldsPassword'
  BY <1>27
  DEF CaptureGeneration, Goto, HeldIsPassword, GuessIsPassword,
    UnlockOffersOne, HoldsPassword
<1>28. ASSUME NEW c \in Connects, ConnectResolve(c) PROVE HoldsPassword'
  BY <1>28
  DEF ConnectResolve, Goto, SharedFree, Unlocked, HeldIsPassword,
    GuessIsPassword, UnlockOffersOne, HoldsPassword
<1>29. ASSUME NEW c \in Connects, ConnectUnseal(c) PROVE HoldsPassword'
  BY <1>29
  DEF ConnectUnseal, Goto, HeldIsPassword, GuessIsPassword, UnlockOffersOne,
    HoldsPassword
<1>30. ASSUME NEW c \in Connects, ConnectHandshake(c) PROVE HoldsPassword'
  BY <1>30
  DEF ConnectHandshake, Goto, HeldIsPassword, GuessIsPassword,
    UnlockOffersOne, HoldsPassword
<1>31. ASSUME NEW o \in Opens, OpenRequest(o) PROVE HoldsPassword'
  BY <1>31
  DEF OpenRequest, Goto, HeldIsPassword, GuessIsPassword, UnlockOffersOne,
    HoldsPassword
<1>32. ASSUME NEW o \in Opens, OpenAnswer(o) PROVE HoldsPassword'
  BY <1>32
  DEF OpenAnswer, Goto, HeldIsPassword, GuessIsPassword, UnlockOffersOne,
    HoldsPassword
<1>33. ASSUME NEW p \in Pending, RecheckUnlocked(p) PROVE HoldsPassword'
  BY <1>33
  DEF RecheckUnlocked, Goto, Unlocked, HeldIsPassword, GuessIsPassword,
    UnlockOffersOne, HoldsPassword
<1>34. ASSUME NEW p \in Pending, RecheckGeneration(p) PROVE HoldsPassword'
  BY <1>34
  DEF RecheckGeneration, Goto, HeldIsPassword, GuessIsPassword,
    UnlockOffersOne, HoldsPassword
<1>35. ASSUME NEW p \in Pending, Register(p) PROVE HoldsPassword'
  BY <1>35
  DEF Register, Goto, HeldIsPassword, GuessIsPassword, UnlockOffersOne,
    HoldsPassword
<1>36. ASSUME NEW c \in Connects, Disconnect(c) PROVE HoldsPassword'
  BY <1>36
  DEF Disconnect, HeldIsPassword, GuessIsPassword, UnlockOffersOne,
    HoldsPassword
<1>37. ASSUME NEW c \in Connects, RemoteClose(c) PROVE HoldsPassword'
  BY <1>37
  DEF RemoteClose, HeldIsPassword, GuessIsPassword, UnlockOffersOne,
    HoldsPassword
<1>38. CASE ThrottleCools
  BY <1>38
  DEF ThrottleCools, HeldIsPassword, GuessIsPassword, UnlockOffersOne,
    HoldsPassword
<1>39. CASE Restart
  BY <1>39
  DEF Restart, HeldIsPassword, GuessIsPassword, UnlockOffersOne,
    HoldsPassword
<1>40. CASE UNCHANGED vars
  BY <1>40
  DEF vars, HeldIsPassword, GuessIsPassword, UnlockOffersOne, HoldsPassword
<1> QED
  BY <1>1, <1>2, <1>3, <1>4, <1>5, <1>6, <1>7, <1>8, <1>9, <1>10, <1>11,
    <1>12, <1>13, <1>14, <1>15, <1>16, <1>17, <1>18, <1>19, <1>20, <1>21,
    <1>22, <1>23, <1>24, <1>25, <1>26, <1>27, <1>28, <1>29, <1>30, <1>31,
    <1>32, <1>33, <1>34, <1>35, <1>36, <1>37, <1>38, <1>39, <1>40
  DEF Next, Create, Unlock, Change, GuessStep, Lock, Seal, Connect,
    OpenSftp, PendingStep, Guessers, Pending

-----------------------------------------------------------------------------
(* The rotation lock and the attempt lock *)

\* Where an unlock holds its read guard, and a change the write guard.
GuardedSteps ==
  {"attempt", "verify", "upgrade", "snapshot", "recheck", "commit", "set",
   "check", "clear"}

UnlocksShare == \A u \in Unlocks : pc[u] \in GuardedSteps => u \in readers

SealsShare == \A s \in Seals : pc[s] = "write" => s \in readers

UnsealsShare == \A c \in Connects : pc[c] = "unseal" => c \in readers

ChangesExclude == \A c \in Changes : pc[c] \in GuardedSteps => writer = c

WriterAlone == writer # NoRequest => readers = {}

RotationLock ==
  UnlocksShare /\ SealsShare /\ UnsealsShare /\ ChangesExclude /\ WriterAlone

\* Every step keeps readers and the writer of the rotation lock apart
\* (VaultRotationLock).
LEMMA RotationLockStep ==
  ASSUME TypeOK, RotationLock, [Next]_vars
  PROVE  RotationLock'
<1> USE Kinds, Apart DEF TypeOK, RotationLock, GuardedSteps
<1>1. ASSUME NEW k \in Creates, CreateBegin(k) PROVE RotationLock'
  BY <1>1
  DEF CreateBegin, Goto, UnlocksShare, SealsShare, UnsealsShare,
    ChangesExclude, WriterAlone, RotationLock
<1>2. ASSUME NEW k \in Creates, CreateVerifier(k) PROVE RotationLock'
  BY <1>2
  DEF CreateVerifier, Goto, Return, UnlocksShare, SealsShare, UnsealsShare,
    ChangesExclude, WriterAlone, RotationLock
<1>3. ASSUME NEW k \in Creates, CreateSet(k) PROVE RotationLock'
  BY <1>3
  DEF CreateSet, Goto, Return, UnlocksShare, SealsShare, UnsealsShare,
    ChangesExclude, WriterAlone, RotationLock
<1>4. ASSUME NEW u \in Unlocks, UnlockBegin(u) PROVE RotationLock'
  BY <1>4
  DEF UnlockBegin, Goto, UnlocksShare, SealsShare, UnsealsShare,
    ChangesExclude, WriterAlone, RotationLock
<1>5. ASSUME NEW u \in Unlocks, UnlockGuard(u) PROVE RotationLock'
  BY <1>5
  DEF UnlockGuard, Goto, SharedFree, UnlocksShare, SealsShare, UnsealsShare,
    ChangesExclude, WriterAlone, RotationLock
<1>6. ASSUME NEW c \in Changes, ChangeBegin(c) PROVE RotationLock'
  BY <1>6
  DEF ChangeBegin, Goto, UnlocksShare, SealsShare, UnsealsShare,
    ChangesExclude, WriterAlone, RotationLock
<1>7. ASSUME NEW c \in Changes, ChangeQueue(c) PROVE RotationLock'
  BY <1>7
  DEF ChangeQueue, Goto, UnlocksShare, SealsShare, UnsealsShare,
    ChangesExclude, WriterAlone, RotationLock
<1>8. ASSUME NEW c \in Changes, ChangeAcquire(c) PROVE RotationLock'
  BY <1>8
  DEF ChangeAcquire, Goto, UnlocksShare, SealsShare, UnsealsShare,
    ChangesExclude, WriterAlone, RotationLock
<1>9. ASSUME NEW c \in Changes, ChangeTimeout(c) PROVE RotationLock'
  BY <1>9
  DEF ChangeTimeout, Goto, Return, UnlocksShare, SealsShare, UnsealsShare,
    ChangesExclude, WriterAlone, RotationLock
<1>10. ASSUME NEW c \in Changes, ChangeSnapshot(c) PROVE RotationLock'
  BY <1>10
  DEF ChangeSnapshot, Goto, Return, UnlocksShare, SealsShare, UnsealsShare,
    ChangesExclude, WriterAlone, RotationLock
<1>11. ASSUME NEW c \in Changes, ChangeRecheck(c) PROVE RotationLock'
  BY <1>11
  DEF ChangeRecheck, Goto, Return, UnlocksShare, SealsShare, UnsealsShare,
    ChangesExclude, WriterAlone, RotationLock
<1>12. ASSUME NEW c \in Changes, ChangeCommit(c) PROVE RotationLock'
  BY <1>12
  DEF ChangeCommit, Goto, Return, UnlocksShare, SealsShare, UnsealsShare,
    ChangesExclude, WriterAlone, RotationLock
<1>13. ASSUME NEW r \in Guessers, GuessBegin(r) PROVE RotationLock'
  BY <1>13
  DEF GuessBegin, Goto, Return, UnlocksShare, SealsShare, UnsealsShare,
    ChangesExclude, WriterAlone, RotationLock
<1>14. ASSUME NEW r \in Guessers, GuessVerify(r) PROVE RotationLock'
  BY <1>14
  DEF GuessVerify, Goto, Return, Accept, UnlocksShare, SealsShare,
    UnsealsShare, ChangesExclude, WriterAlone, RotationLock
<1>15. ASSUME NEW r \in Guessers, GuessUpgrade(r) PROVE RotationLock'
  <2>1. UnlocksShare'
    BY <1>15 DEF GuessUpgrade, Goto, Accept, UnlocksShare
  <2>2. SealsShare'
    BY <1>15 DEF GuessUpgrade, Goto, Accept, SealsShare
  <2>3. UnsealsShare'
    BY <1>15 DEF GuessUpgrade, Goto, Accept, UnsealsShare
  <2>4. ChangesExclude'
    <3>1. CASE r \in Unlocks
      BY <1>15, <3>1 DEF GuessUpgrade, Goto, Accept, ChangesExclude
    <3>2. CASE r \in Changes
      BY <1>15, <3>2 DEF GuessUpgrade, Goto, Accept, ChangesExclude
    <3> QED
      BY <3>1, <3>2 DEF Guessers
  <2> QED
    BY <1>15, <2>1, <2>2, <2>3, <2>4
    DEF GuessUpgrade, Accept, WriterAlone, RotationLock
<1>16. ASSUME NEW r \in Guessers, SetPassword(r) PROVE RotationLock'
  BY <1>16
  DEF SetPassword, Goto, UnlocksShare, SealsShare, UnsealsShare,
    ChangesExclude, WriterAlone, RotationLock
<1>17. ASSUME NEW r \in Guessers, CheckStillCurrent(r) PROVE RotationLock'
  BY <1>17
  DEF CheckStillCurrent, Goto, Return, UnlocksShare, SealsShare,
    UnsealsShare, ChangesExclude, WriterAlone, RotationLock
<1>18. ASSUME NEW r \in Guessers, ClearAgain(r) PROVE RotationLock'
  BY <1>18
  DEF ClearAgain, Goto, Return, UnlocksShare, SealsShare, UnsealsShare,
    ChangesExclude, WriterAlone, RotationLock
<1>19. ASSUME NEW l \in Locks, LockBump(l) PROVE RotationLock'
  BY <1>19
  DEF LockBump, Goto, UnlocksShare, SealsShare, UnsealsShare,
    ChangesExclude, WriterAlone, RotationLock
<1>20. ASSUME NEW l \in Locks, LockKillSessions(l) PROVE RotationLock'
  BY <1>20
  DEF LockKillSessions, Goto, UnlocksShare, SealsShare, UnsealsShare,
    ChangesExclude, WriterAlone, RotationLock
<1>21. ASSUME NEW l \in Locks, LockCloseSftp(l) PROVE RotationLock'
  BY <1>21
  DEF LockCloseSftp, Goto, UnlocksShare, SealsShare, UnsealsShare,
    ChangesExclude, WriterAlone, RotationLock
<1>22. ASSUME NEW l \in Locks, LockClear(l) PROVE RotationLock'
  BY <1>22
  DEF LockClear, Goto, UnlocksShare, SealsShare, UnsealsShare,
    ChangesExclude, WriterAlone, RotationLock
<1>23. ASSUME NEW s \in Seals, SealBegin(s) PROVE RotationLock'
  BY <1>23
  DEF SealBegin, Goto, SharedFree, Unlocked, UnlocksShare, SealsShare,
    UnsealsShare, ChangesExclude, WriterAlone, RotationLock
<1>24. ASSUME NEW s \in Seals, SealWrite(s) PROVE RotationLock'
  BY <1>24
  DEF SealWrite, Goto, Return, UnlocksShare, SealsShare, UnsealsShare,
    ChangesExclude, WriterAlone, RotationLock
<1>25. ASSUME NEW d \in Deletes, Delete(d) PROVE RotationLock'
  BY <1>25
  DEF Delete, Goto, Unlocked, UnlocksShare, SealsShare, UnsealsShare,
    ChangesExclude, WriterAlone, RotationLock
<1>26. ASSUME NEW p \in Pending, CaptureUnlocked(p) PROVE RotationLock'
  BY <1>26
  DEF CaptureUnlocked, Goto, Unlocked, UnlocksShare, SealsShare,
    UnsealsShare, ChangesExclude, WriterAlone, RotationLock
<1>27. ASSUME NEW p \in Pending, CaptureGeneration(p) PROVE RotationLock'
  BY <1>27
  DEF CaptureGeneration, Goto, UnlocksShare, SealsShare, UnsealsShare,
    ChangesExclude, WriterAlone, RotationLock
<1>28. ASSUME NEW c \in Connects, ConnectResolve(c) PROVE RotationLock'
  BY <1>28
  DEF ConnectResolve, Goto, SharedFree, Unlocked, UnlocksShare, SealsShare,
    UnsealsShare, ChangesExclude, WriterAlone, RotationLock
<1>29. ASSUME NEW c \in Connects, ConnectUnseal(c) PROVE RotationLock'
  BY <1>29
  DEF ConnectUnseal, Goto, UnlocksShare, SealsShare, UnsealsShare,
    ChangesExclude, WriterAlone, RotationLock
<1>30. ASSUME NEW c \in Connects, ConnectHandshake(c) PROVE RotationLock'
  BY <1>30
  DEF ConnectHandshake, Goto, UnlocksShare, SealsShare, UnsealsShare,
    ChangesExclude, WriterAlone, RotationLock
<1>31. ASSUME NEW o \in Opens, OpenRequest(o) PROVE RotationLock'
  BY <1>31
  DEF OpenRequest, Goto, UnlocksShare, SealsShare, UnsealsShare,
    ChangesExclude, WriterAlone, RotationLock
<1>32. ASSUME NEW o \in Opens, OpenAnswer(o) PROVE RotationLock'
  BY <1>32
  DEF OpenAnswer, Goto, UnlocksShare, SealsShare, UnsealsShare,
    ChangesExclude, WriterAlone, RotationLock
<1>33. ASSUME NEW p \in Pending, RecheckUnlocked(p) PROVE RotationLock'
  BY <1>33
  DEF RecheckUnlocked, Goto, Unlocked, UnlocksShare, SealsShare,
    UnsealsShare, ChangesExclude, WriterAlone, RotationLock
<1>34. ASSUME NEW p \in Pending, RecheckGeneration(p) PROVE RotationLock'
  BY <1>34
  DEF RecheckGeneration, Goto, UnlocksShare, SealsShare, UnsealsShare,
    ChangesExclude, WriterAlone, RotationLock
<1>35. ASSUME NEW p \in Pending, Register(p) PROVE RotationLock'
  BY <1>35
  DEF Register, Goto, UnlocksShare, SealsShare, UnsealsShare,
    ChangesExclude, WriterAlone, RotationLock
<1>36. ASSUME NEW c \in Connects, Disconnect(c) PROVE RotationLock'
  BY <1>36
  DEF Disconnect, UnlocksShare, SealsShare, UnsealsShare, ChangesExclude,
    WriterAlone, RotationLock
<1>37. ASSUME NEW c \in Connects, RemoteClose(c) PROVE RotationLock'
  BY <1>37
  DEF RemoteClose, UnlocksShare, SealsShare, UnsealsShare, ChangesExclude,
    WriterAlone, RotationLock
<1>38. CASE ThrottleCools
  BY <1>38
  DEF ThrottleCools, UnlocksShare, SealsShare, UnsealsShare, ChangesExclude,
    WriterAlone, RotationLock
<1>39. CASE Restart
  BY <1>39
  DEF Restart, UnlocksShare, SealsShare, UnsealsShare, ChangesExclude,
    WriterAlone, RotationLock
<1>40. CASE UNCHANGED vars
  BY <1>40
  DEF vars, UnlocksShare, SealsShare, UnsealsShare, ChangesExclude,
    WriterAlone, RotationLock
<1> QED
  BY <1>1, <1>2, <1>3, <1>4, <1>5, <1>6, <1>7, <1>8, <1>9, <1>10, <1>11,
    <1>12, <1>13, <1>14, <1>15, <1>16, <1>17, <1>18, <1>19, <1>20, <1>21,
    <1>22, <1>23, <1>24, <1>25, <1>26, <1>27, <1>28, <1>29, <1>30, <1>31,
    <1>32, <1>33, <1>34, <1>35, <1>36, <1>37, <1>38, <1>39, <1>40
  DEF Next, Create, Unlock, Change, GuessStep, Lock, Seal, Connect,
    OpenSftp, PendingStep, Guessers, Pending

\* One guess at a time: who verifies holds the attempt lock, an unlock until
\* it returns; and nobody verifies while the throttle cools down.
VerifierHoldsAttempt ==
  \A r \in Guessers : pc[r] \in {"verify", "upgrade"} => attempt = r

SetterHoldsAttempt ==
  \A u \in Unlocks : pc[u] \in {"set", "check", "clear"} => attempt = u

VerifierIsNotCooling ==
  \A r \in Guessers : pc[r] = "verify" => ~cooling

OneGuess == VerifierHoldsAttempt /\ SetterHoldsAttempt /\ VerifierIsNotCooling

\* Every step keeps guesses one at a time (UnlockThrottle.attempt).
LEMMA OneGuessStep ==
  ASSUME TypeOK, OneGuess, [Next]_vars
  PROVE  OneGuess'
<1> USE Kinds, Apart DEF TypeOK, OneGuess
<1>1. ASSUME NEW k \in Creates, CreateBegin(k) PROVE OneGuess'
  BY <1>1
  DEF CreateBegin, Goto, VerifierHoldsAttempt, SetterHoldsAttempt,
    VerifierIsNotCooling, OneGuess
<1>2. ASSUME NEW k \in Creates, CreateVerifier(k) PROVE OneGuess'
  BY <1>2
  DEF CreateVerifier, Goto, Return, VerifierHoldsAttempt,
    SetterHoldsAttempt, VerifierIsNotCooling, OneGuess
<1>3. ASSUME NEW k \in Creates, CreateSet(k) PROVE OneGuess'
  BY <1>3
  DEF CreateSet, Goto, Return, VerifierHoldsAttempt, SetterHoldsAttempt,
    VerifierIsNotCooling, OneGuess
<1>4. ASSUME NEW u \in Unlocks, UnlockBegin(u) PROVE OneGuess'
  BY <1>4
  DEF UnlockBegin, Goto, VerifierHoldsAttempt, SetterHoldsAttempt,
    VerifierIsNotCooling, OneGuess
<1>5. ASSUME NEW u \in Unlocks, UnlockGuard(u) PROVE OneGuess'
  BY <1>5
  DEF UnlockGuard, Goto, SharedFree, VerifierHoldsAttempt,
    SetterHoldsAttempt, VerifierIsNotCooling, OneGuess
<1>6. ASSUME NEW c \in Changes, ChangeBegin(c) PROVE OneGuess'
  BY <1>6
  DEF ChangeBegin, Goto, VerifierHoldsAttempt, SetterHoldsAttempt,
    VerifierIsNotCooling, OneGuess
<1>7. ASSUME NEW c \in Changes, ChangeQueue(c) PROVE OneGuess'
  BY <1>7
  DEF ChangeQueue, Goto, VerifierHoldsAttempt, SetterHoldsAttempt,
    VerifierIsNotCooling, OneGuess
<1>8. ASSUME NEW c \in Changes, ChangeAcquire(c) PROVE OneGuess'
  BY <1>8
  DEF ChangeAcquire, Goto, VerifierHoldsAttempt, SetterHoldsAttempt,
    VerifierIsNotCooling, OneGuess
<1>9. ASSUME NEW c \in Changes, ChangeTimeout(c) PROVE OneGuess'
  BY <1>9
  DEF ChangeTimeout, Goto, Return, VerifierHoldsAttempt, SetterHoldsAttempt,
    VerifierIsNotCooling, OneGuess
<1>10. ASSUME NEW c \in Changes, ChangeSnapshot(c) PROVE OneGuess'
  BY <1>10
  DEF ChangeSnapshot, Goto, Return, VerifierHoldsAttempt,
    SetterHoldsAttempt, VerifierIsNotCooling, OneGuess
<1>11. ASSUME NEW c \in Changes, ChangeRecheck(c) PROVE OneGuess'
  BY <1>11
  DEF ChangeRecheck, Goto, Return, VerifierHoldsAttempt, SetterHoldsAttempt,
    VerifierIsNotCooling, OneGuess
<1>12. ASSUME NEW c \in Changes, ChangeCommit(c) PROVE OneGuess'
  BY <1>12
  DEF ChangeCommit, Goto, Return, VerifierHoldsAttempt, SetterHoldsAttempt,
    VerifierIsNotCooling, OneGuess
<1>13. ASSUME NEW r \in Guessers, GuessBegin(r) PROVE OneGuess'
  BY <1>13
  DEF GuessBegin, Goto, Return, VerifierHoldsAttempt, SetterHoldsAttempt,
    VerifierIsNotCooling, OneGuess
<1>14. ASSUME NEW r \in Guessers, GuessVerify(r) PROVE OneGuess'
  <2>1. VerifierHoldsAttempt'
    <3>1. CASE Return(r)
      BY <1>14, <3>1 DEF GuessVerify, Return, VerifierHoldsAttempt
    <3>2. CASE /\ Goto(r, "verify", "upgrade")
               /\ UNCHANGED <<guards, throttle, frame>>
      BY <3>2 DEF Goto, VerifierHoldsAttempt
    <3>3. CASE pc[r] = "verify" /\ Accept(r)
      <4>1. CASE r \in Unlocks
        BY <3>3, <4>1 DEF Accept, VerifierHoldsAttempt
      <4>2. CASE r \in Changes
        BY <3>3, <4>2 DEF Accept, VerifierHoldsAttempt
      <4> QED
        BY <4>1, <4>2 DEF Guessers
    <3> QED
      BY <1>14, <3>1, <3>2, <3>3 DEF GuessVerify
  <2>2. SetterHoldsAttempt'
    <3>1. CASE Return(r)
      BY <1>14, <3>1
      DEF GuessVerify, Return, SetterHoldsAttempt, VerifierHoldsAttempt
    <3>2. CASE /\ Goto(r, "verify", "upgrade")
               /\ UNCHANGED <<guards, throttle, frame>>
      BY <3>2 DEF Goto, SetterHoldsAttempt, VerifierHoldsAttempt
    <3>3. CASE pc[r] = "verify" /\ Accept(r)
      <4>1. CASE r \in Unlocks
        BY <3>3, <4>1 DEF Accept, SetterHoldsAttempt, VerifierHoldsAttempt
      <4>2. CASE r \in Changes
        BY <3>3, <4>2 DEF Accept, SetterHoldsAttempt, VerifierHoldsAttempt
      <4> QED
        BY <4>1, <4>2 DEF Guessers
    <3> QED
      BY <1>14, <3>1, <3>2, <3>3 DEF GuessVerify
  <2>3. VerifierIsNotCooling'
    <3>1. CASE Return(r)
      BY <1>14, <3>1
      DEF GuessVerify, Return, VerifierIsNotCooling, VerifierHoldsAttempt
    <3>2. CASE /\ Goto(r, "verify", "upgrade")
               /\ UNCHANGED <<guards, throttle, frame>>
      BY <3>2 DEF Goto, VerifierIsNotCooling, VerifierHoldsAttempt
    <3>3. CASE pc[r] = "verify" /\ Accept(r)
      <4>1. CASE r \in Unlocks
        BY <3>3, <4>1 DEF Accept, VerifierIsNotCooling, VerifierHoldsAttempt
      <4>2. CASE r \in Changes
        BY <3>3, <4>2 DEF Accept, VerifierIsNotCooling, VerifierHoldsAttempt
      <4> QED
        BY <4>1, <4>2 DEF Guessers
    <3> QED
      BY <1>14, <3>1, <3>2, <3>3 DEF GuessVerify
  <2> QED
    BY <2>1, <2>2, <2>3 DEF OneGuess
<1>15. ASSUME NEW r \in Guessers, GuessUpgrade(r) PROVE OneGuess'
  <2>1. VerifierHoldsAttempt'
    BY <1>15 DEF GuessUpgrade, Goto, Accept, VerifierHoldsAttempt
  <2>2. SetterHoldsAttempt'
    <3>1. CASE r \in Unlocks
      BY <1>15, <3>1
      DEF GuessUpgrade, Goto, Accept, SetterHoldsAttempt,
        VerifierHoldsAttempt
    <3>2. CASE r \in Changes
      BY <1>15, <3>2
      DEF GuessUpgrade, Goto, Accept, SetterHoldsAttempt,
        VerifierHoldsAttempt
    <3> QED
      BY <3>1, <3>2 DEF Guessers
  <2>3. VerifierIsNotCooling'
    BY <1>15 DEF GuessUpgrade, Goto, Accept, VerifierIsNotCooling
  <2> QED
    BY <2>1, <2>2, <2>3 DEF OneGuess
<1>16. ASSUME NEW r \in Guessers, SetPassword(r) PROVE OneGuess'
  BY <1>16
  DEF SetPassword, Goto, VerifierHoldsAttempt, SetterHoldsAttempt,
    VerifierIsNotCooling, OneGuess
<1>17. ASSUME NEW r \in Guessers, CheckStillCurrent(r) PROVE OneGuess'
  BY <1>17
  DEF CheckStillCurrent, Goto, Return, VerifierHoldsAttempt,
    SetterHoldsAttempt, VerifierIsNotCooling, OneGuess
<1>18. ASSUME NEW r \in Guessers, ClearAgain(r) PROVE OneGuess'
  BY <1>18
  DEF ClearAgain, Goto, Return, VerifierHoldsAttempt, SetterHoldsAttempt,
    VerifierIsNotCooling, OneGuess
<1>19. ASSUME NEW l \in Locks, LockBump(l) PROVE OneGuess'
  BY <1>19
  DEF LockBump, Goto, VerifierHoldsAttempt, SetterHoldsAttempt,
    VerifierIsNotCooling, OneGuess
<1>20. ASSUME NEW l \in Locks, LockKillSessions(l) PROVE OneGuess'
  BY <1>20
  DEF LockKillSessions, Goto, VerifierHoldsAttempt, SetterHoldsAttempt,
    VerifierIsNotCooling, OneGuess
<1>21. ASSUME NEW l \in Locks, LockCloseSftp(l) PROVE OneGuess'
  BY <1>21
  DEF LockCloseSftp, Goto, VerifierHoldsAttempt, SetterHoldsAttempt,
    VerifierIsNotCooling, OneGuess
<1>22. ASSUME NEW l \in Locks, LockClear(l) PROVE OneGuess'
  BY <1>22
  DEF LockClear, Goto, VerifierHoldsAttempt, SetterHoldsAttempt,
    VerifierIsNotCooling, OneGuess
<1>23. ASSUME NEW s \in Seals, SealBegin(s) PROVE OneGuess'
  BY <1>23
  DEF SealBegin, Goto, SharedFree, Unlocked, VerifierHoldsAttempt,
    SetterHoldsAttempt, VerifierIsNotCooling, OneGuess
<1>24. ASSUME NEW s \in Seals, SealWrite(s) PROVE OneGuess'
  BY <1>24
  DEF SealWrite, Goto, Return, VerifierHoldsAttempt, SetterHoldsAttempt,
    VerifierIsNotCooling, OneGuess
<1>25. ASSUME NEW d \in Deletes, Delete(d) PROVE OneGuess'
  BY <1>25
  DEF Delete, Goto, Unlocked, VerifierHoldsAttempt, SetterHoldsAttempt,
    VerifierIsNotCooling, OneGuess
<1>26. ASSUME NEW p \in Pending, CaptureUnlocked(p) PROVE OneGuess'
  BY <1>26
  DEF CaptureUnlocked, Goto, Unlocked, VerifierHoldsAttempt,
    SetterHoldsAttempt, VerifierIsNotCooling, OneGuess
<1>27. ASSUME NEW p \in Pending, CaptureGeneration(p) PROVE OneGuess'
  BY <1>27
  DEF CaptureGeneration, Goto, VerifierHoldsAttempt, SetterHoldsAttempt,
    VerifierIsNotCooling, OneGuess
<1>28. ASSUME NEW c \in Connects, ConnectResolve(c) PROVE OneGuess'
  BY <1>28
  DEF ConnectResolve, Goto, SharedFree, Unlocked, VerifierHoldsAttempt,
    SetterHoldsAttempt, VerifierIsNotCooling, OneGuess
<1>29. ASSUME NEW c \in Connects, ConnectUnseal(c) PROVE OneGuess'
  BY <1>29
  DEF ConnectUnseal, Goto, VerifierHoldsAttempt, SetterHoldsAttempt,
    VerifierIsNotCooling, OneGuess
<1>30. ASSUME NEW c \in Connects, ConnectHandshake(c) PROVE OneGuess'
  BY <1>30
  DEF ConnectHandshake, Goto, VerifierHoldsAttempt, SetterHoldsAttempt,
    VerifierIsNotCooling, OneGuess
<1>31. ASSUME NEW o \in Opens, OpenRequest(o) PROVE OneGuess'
  BY <1>31
  DEF OpenRequest, Goto, VerifierHoldsAttempt, SetterHoldsAttempt,
    VerifierIsNotCooling, OneGuess
<1>32. ASSUME NEW o \in Opens, OpenAnswer(o) PROVE OneGuess'
  BY <1>32
  DEF OpenAnswer, Goto, VerifierHoldsAttempt, SetterHoldsAttempt,
    VerifierIsNotCooling, OneGuess
<1>33. ASSUME NEW p \in Pending, RecheckUnlocked(p) PROVE OneGuess'
  BY <1>33
  DEF RecheckUnlocked, Goto, Unlocked, VerifierHoldsAttempt,
    SetterHoldsAttempt, VerifierIsNotCooling, OneGuess
<1>34. ASSUME NEW p \in Pending, RecheckGeneration(p) PROVE OneGuess'
  BY <1>34
  DEF RecheckGeneration, Goto, VerifierHoldsAttempt, SetterHoldsAttempt,
    VerifierIsNotCooling, OneGuess
<1>35. ASSUME NEW p \in Pending, Register(p) PROVE OneGuess'
  BY <1>35
  DEF Register, Goto, VerifierHoldsAttempt, SetterHoldsAttempt,
    VerifierIsNotCooling, OneGuess
<1>36. ASSUME NEW c \in Connects, Disconnect(c) PROVE OneGuess'
  BY <1>36
  DEF Disconnect, VerifierHoldsAttempt, SetterHoldsAttempt,
    VerifierIsNotCooling, OneGuess
<1>37. ASSUME NEW c \in Connects, RemoteClose(c) PROVE OneGuess'
  BY <1>37
  DEF RemoteClose, VerifierHoldsAttempt, SetterHoldsAttempt,
    VerifierIsNotCooling, OneGuess
<1>38. CASE ThrottleCools
  BY <1>38
  DEF ThrottleCools, VerifierHoldsAttempt, SetterHoldsAttempt,
    VerifierIsNotCooling, OneGuess
<1>39. CASE Restart
  BY <1>39
  DEF Restart, VerifierHoldsAttempt, SetterHoldsAttempt,
    VerifierIsNotCooling, OneGuess
<1>40. CASE UNCHANGED vars
  BY <1>40
  DEF vars, VerifierHoldsAttempt, SetterHoldsAttempt, VerifierIsNotCooling,
    OneGuess
<1> QED
  BY <1>1, <1>2, <1>3, <1>4, <1>5, <1>6, <1>7, <1>8, <1>9, <1>10, <1>11,
    <1>12, <1>13, <1>14, <1>15, <1>16, <1>17, <1>18, <1>19, <1>20, <1>21,
    <1>22, <1>23, <1>24, <1>25, <1>26, <1>27, <1>28, <1>29, <1>30, <1>31,
    <1>32, <1>33, <1>34, <1>35, <1>36, <1>37, <1>38, <1>39, <1>40
  DEF Next, Create, Unlock, Change, GuessStep, Lock, Seal, Connect,
    OpenSftp, PendingStep, Guessers, Pending

-----------------------------------------------------------------------------
(* The password and what is sealed under it *)

VaultExists == StartPassword # NoPassword => master # NoPassword

CreatorHoldsMaster ==
  \A k \in Creates : pc[k] = "createSet" => held[k] = master

\* A guess that was verified stays the master password until it is used.
VerifiedIsMaster ==
  /\ \A r \in Guessers : pc[r] = "upgrade" => guess[r] = master
  /\ \A c \in Changes :
       pc[c] \in {"snapshot", "recheck", "commit"} => guess[c] = master

SetterHoldsMaster == \A r \in Guessers : pc[r] = "set" => held[r] = master

SealerHoldsMaster == \A s \in Seals : pc[s] = "write" => held[s] = master

UnsealerHoldsMaster ==
  \A c \in Connects :
    pc[c] = "unseal" => held[c] = master /\ target[c] \in Records

Secrets ==
  /\ VaultExists /\ CreatorHoldsMaster /\ VerifiedIsMaster
  /\ SetterHoldsMaster /\ SealerHoldsMaster /\ UnsealerHoldsMaster
  /\ SealedTogether /\ StoreOpensVault

\* A stored blob is sealed under a password.
LEMMA RecordTypes ==
  ASSUME TypeOK, NEW r \in Records, records[r] # NoBlob
  PROVE  records[r].pw \in Passwords
BY DEF TypeOK, Blobs

\* What vault_create relies on and does not check: no change commits between
\* its write of the verifier and its write of the store.
CommitsAfterCreates ==
  \A c \in Changes :
    pc[c] = "commit" /\ pc'[c] = "set"
      => \A k \in Creates : pc[k] # "createSet"

\* Every step keeps passwords and seals in agreement.
LEMMA SecretsStep ==
  ASSUME CommitsAfterCreates, TypeOK, HoldsPassword, RotationLock, Secrets,
    [Next]_vars
  PROVE  Secrets'
<1> USE Kinds, Apart, PasswordsAssumption
       DEF TypeOK, HoldsPassword, RotationLock, Secrets
<1>1. ASSUME NEW k \in Creates, CreateBegin(k) PROVE Secrets'
  BY <1>1
  DEF CreateBegin, Goto, VaultExists, CreatorHoldsMaster, VerifiedIsMaster,
    SetterHoldsMaster, SealerHoldsMaster, UnsealerHoldsMaster, SealedTogether,
    StoreOpensVault, Unlocked, Installing, Secrets
<1>2. ASSUME NEW k \in Creates, CreateVerifier(k) PROVE Secrets'
  BY <1>2, RecordTypes
  DEF CreateVerifier, Goto, Return, VaultExists, CreatorHoldsMaster,
    VerifiedIsMaster, SetterHoldsMaster, SealerHoldsMaster,
    UnsealerHoldsMaster, SealedTogether, StoreOpensVault, Unlocked,
    Installing, Secrets, HeldIsPassword, GuessIsPassword, HoldingSteps
<1>3. ASSUME NEW k \in Creates, CreateSet(k) PROVE Secrets'
  BY <1>3
  DEF CreateSet, Goto, Return, VaultExists, CreatorHoldsMaster,
    VerifiedIsMaster, SetterHoldsMaster, SealerHoldsMaster,
    UnsealerHoldsMaster, SealedTogether, StoreOpensVault, Unlocked,
    Installing, Secrets
<1>4. ASSUME NEW u \in Unlocks, UnlockBegin(u) PROVE Secrets'
  BY <1>4
  DEF UnlockBegin, Goto, VaultExists, CreatorHoldsMaster, VerifiedIsMaster,
    SetterHoldsMaster, SealerHoldsMaster, UnsealerHoldsMaster, SealedTogether,
    StoreOpensVault, Unlocked, Installing, Secrets
<1>5. ASSUME NEW u \in Unlocks, UnlockGuard(u) PROVE Secrets'
  BY <1>5
  DEF UnlockGuard, Goto, SharedFree, VaultExists, CreatorHoldsMaster,
    VerifiedIsMaster, SetterHoldsMaster, SealerHoldsMaster,
    UnsealerHoldsMaster, SealedTogether, StoreOpensVault, Unlocked,
    Installing, Secrets
<1>6. ASSUME NEW c \in Changes, ChangeBegin(c) PROVE Secrets'
  BY <1>6
  DEF ChangeBegin, Goto, VaultExists, CreatorHoldsMaster, VerifiedIsMaster,
    SetterHoldsMaster, SealerHoldsMaster, UnsealerHoldsMaster, SealedTogether,
    StoreOpensVault, Unlocked, Installing, Secrets
<1>7. ASSUME NEW c \in Changes, ChangeQueue(c) PROVE Secrets'
  BY <1>7
  DEF ChangeQueue, Goto, VaultExists, CreatorHoldsMaster, VerifiedIsMaster,
    SetterHoldsMaster, SealerHoldsMaster, UnsealerHoldsMaster, SealedTogether,
    StoreOpensVault, Unlocked, Installing, Secrets
<1>8. ASSUME NEW c \in Changes, ChangeAcquire(c) PROVE Secrets'
  BY <1>8
  DEF ChangeAcquire, Goto, VaultExists, CreatorHoldsMaster,
    VerifiedIsMaster, SetterHoldsMaster, SealerHoldsMaster,
    UnsealerHoldsMaster, SealedTogether, StoreOpensVault, Unlocked,
    Installing, Secrets
<1>9. ASSUME NEW c \in Changes, ChangeTimeout(c) PROVE Secrets'
  BY <1>9
  DEF ChangeTimeout, Goto, Return, VaultExists, CreatorHoldsMaster,
    VerifiedIsMaster, SetterHoldsMaster, SealerHoldsMaster,
    UnsealerHoldsMaster, SealedTogether, StoreOpensVault, Unlocked,
    Installing, Secrets
<1>10. ASSUME NEW c \in Changes, ChangeSnapshot(c) PROVE Secrets'
  BY <1>10
  DEF ChangeSnapshot, Goto, Return, VaultExists, CreatorHoldsMaster,
    VerifiedIsMaster, SetterHoldsMaster, SealerHoldsMaster,
    UnsealerHoldsMaster, SealedTogether, StoreOpensVault, Unlocked,
    Installing, Secrets
<1>11. ASSUME NEW c \in Changes, ChangeRecheck(c) PROVE Secrets'
  <2>1. CreatorHoldsMaster'
    BY <1>11 DEF ChangeRecheck, Goto, Return, CreatorHoldsMaster
  <2>2. VerifiedIsMaster'
    <3>1. CASE Return(c)
      BY <1>11, <3>1 DEF ChangeRecheck, Return, VerifiedIsMaster
    <3>2. CASE Goto(c, "recheck", "commit") /\ UNCHANGED <<guards, frame>>
      BY <1>11, <3>2 DEF ChangeRecheck, Goto, VerifiedIsMaster
    <3> QED
      BY <1>11, <3>1, <3>2 DEF ChangeRecheck
  <2>3. SetterHoldsMaster'
    BY <1>11 DEF ChangeRecheck, Goto, Return, SetterHoldsMaster
  <2>4. SealerHoldsMaster'
    BY <1>11 DEF ChangeRecheck, Goto, Return, SealerHoldsMaster
  <2>5. UnsealerHoldsMaster'
    BY <1>11 DEF ChangeRecheck, Goto, Return, UnsealerHoldsMaster
  <2>6. StoreOpensVault'
    BY <1>11
    DEF ChangeRecheck, Goto, Return, StoreOpensVault, Unlocked, Installing
  <2> QED
    BY <1>11, <2>1, <2>2, <2>3, <2>4, <2>5, <2>6
    DEF ChangeRecheck, VaultExists, SealedTogether, Secrets
<1>12. ASSUME NEW c \in Changes, ChangeCommit(c) PROVE Secrets'
  <2>1. CASE Return(c) /\ UNCHANGED disk
    <3>1. UNCHANGED <<store, target, records, master>>
      BY <1>12, <2>1 DEF ChangeCommit
    <3>2. CreatorHoldsMaster' /\ VerifiedIsMaster'
      BY <2>1, <3>1 DEF Return, CreatorHoldsMaster, VerifiedIsMaster
    <3>3. SetterHoldsMaster' /\ SealerHoldsMaster' /\ UnsealerHoldsMaster'
      BY <2>1, <3>1 DEF Return, SetterHoldsMaster, SealerHoldsMaster,
         UnsealerHoldsMaster
    <3>4. StoreOpensVault'
      <4>1. pc[c] = "commit" /\ \A d \in Changes \ {c} : pc'[d] = pc[d]
        BY <1>12, <2>1 DEF ChangeCommit, Return
      <4> QED
        BY <3>1, <4>1 DEF StoreOpensVault, Unlocked, Installing
    <3> QED
      BY <3>1, <3>2, <3>3, <3>4 DEF VaultExists, SealedTogether, Secrets
  <2>2. CASE ~(Return(c) /\ UNCHANGED disk)
    <3>1. /\ pc[c] = "commit" /\ pc' = [pc EXCEPT ![c] = "set"]
          /\ records = snapshot[c] /\ records' = Resealed(c)
          /\ master' = held[c]
          /\ UNCHANGED <<store, guards, held, guess, target>>
      BY <1>12, <2>2 DEF ChangeCommit, Goto
    <3>2. held[c] \in Passwords
      BY <3>1 DEF HeldIsPassword, HoldingSteps
    <3>3. CreatorHoldsMaster'
      BY <3>1 DEF CommitsAfterCreates, CreatorHoldsMaster
    <3>4. /\ \A d \in Changes \ {c} : pc[d] \notin GuardedSteps
          /\ \A u \in Unlocks : pc[u] \notin GuardedSteps
          /\ \A s \in Seals : pc[s] # "write"
          /\ \A t \in Connects : pc[t] # "unseal"
      BY <3>1
      DEF UnlocksShare, SealsShare, UnsealsShare, ChangesExclude, WriterAlone,
        GuardedSteps
    <3>5. VaultExists' /\ SealedTogether'
      BY <3>1, <3>2, RecordTypes
      DEF VaultExists, SealedTogether, Resealed, NoBlob
    <3>6. VerifiedIsMaster' /\ SetterHoldsMaster'
      BY <3>1, <3>4 DEF VerifiedIsMaster, SetterHoldsMaster, GuardedSteps
    <3>7. SealerHoldsMaster' /\ UnsealerHoldsMaster'
      BY <3>1, <3>4 DEF SealerHoldsMaster, UnsealerHoldsMaster
    <3>8. StoreOpensVault'
      BY <3>1 DEF StoreOpensVault, Unlocked, Installing
    <3> QED
      BY <3>3, <3>5, <3>6, <3>7, <3>8 DEF Secrets
  <2> QED
    BY <2>1, <2>2
<1>13. ASSUME NEW r \in Guessers, GuessBegin(r) PROVE Secrets'
  <2>1. CreatorHoldsMaster'
    BY <1>13 DEF GuessBegin, Goto, Return, CreatorHoldsMaster
  <2>2. VerifiedIsMaster'
    <3>1. CASE Return(r)
      BY <1>13, <3>1 DEF GuessBegin, Return, VerifiedIsMaster
    <3>2. CASE Goto(r, "attempt", "verify")
      BY <1>13, <3>2 DEF GuessBegin, Goto, Return, VerifiedIsMaster
    <3> QED
      BY <1>13, <3>1, <3>2 DEF GuessBegin
  <2>3. SetterHoldsMaster'
    BY <1>13 DEF GuessBegin, Goto, Return, SetterHoldsMaster
  <2>4. SealerHoldsMaster'
    BY <1>13 DEF GuessBegin, Goto, Return, SealerHoldsMaster
  <2>5. UnsealerHoldsMaster'
    BY <1>13 DEF GuessBegin, Goto, Return, UnsealerHoldsMaster
  <2>6. StoreOpensVault'
    BY <1>13
    DEF GuessBegin, Goto, Return, StoreOpensVault, Unlocked, Installing
  <2> QED
    BY <1>13, <2>1, <2>2, <2>3, <2>4, <2>5, <2>6
    DEF GuessBegin, VaultExists, SealedTogether, Secrets
<1>14. ASSUME NEW r \in Guessers, GuessVerify(r) PROVE Secrets'
  <2>1. CreatorHoldsMaster'
    BY <1>14 DEF GuessVerify, Goto, Return, Accept, CreatorHoldsMaster
  <2>2. VerifiedIsMaster'
    BY <1>14 DEF GuessVerify, Goto, Return, Accept, VerifiedIsMaster
  <2>3. SetterHoldsMaster'
    BY <1>14
    DEF GuessVerify, Goto, Return, Accept, SetterHoldsMaster,
      UnlockOffersOne, HeldIsPassword, GuessIsPassword, HoldingSteps
  <2>4. SealerHoldsMaster'
    BY <1>14 DEF GuessVerify, Goto, Return, Accept, SealerHoldsMaster
  <2>5. UnsealerHoldsMaster'
    BY <1>14 DEF GuessVerify, Goto, Return, Accept, UnsealerHoldsMaster
  <2>6. StoreOpensVault'
    BY <1>14
    DEF GuessVerify, Goto, Return, Accept, StoreOpensVault, Unlocked,
      Installing
  <2> QED
    BY <1>14, <2>1, <2>2, <2>3, <2>4, <2>5, <2>6
    DEF GuessVerify, Accept, VaultExists, SealedTogether, Secrets
<1>15. ASSUME NEW r \in Guessers, GuessUpgrade(r) PROVE Secrets'
  BY <1>15
  DEF GuessUpgrade, Goto, Accept, VaultExists, CreatorHoldsMaster,
    VerifiedIsMaster, SetterHoldsMaster, SealerHoldsMaster,
    UnsealerHoldsMaster, SealedTogether, StoreOpensVault, Unlocked,
    Installing, Secrets, UnlockOffersOne, HeldIsPassword, GuessIsPassword,
    HoldingSteps
<1>16. ASSUME NEW r \in Guessers, SetPassword(r) PROVE Secrets'
  BY <1>16
  DEF SetPassword, Goto, VaultExists, CreatorHoldsMaster, VerifiedIsMaster,
    SetterHoldsMaster, SealerHoldsMaster, UnsealerHoldsMaster, SealedTogether,
    StoreOpensVault, Unlocked, Installing, Secrets
<1>17. ASSUME NEW r \in Guessers, CheckStillCurrent(r) PROVE Secrets'
  <2>1. CreatorHoldsMaster'
    BY <1>17 DEF CheckStillCurrent, Goto, Return, CreatorHoldsMaster
  <2>2. VerifiedIsMaster'
    BY <1>17 DEF CheckStillCurrent, Goto, Return, VerifiedIsMaster
  <2>3. SetterHoldsMaster'
    BY <1>17 DEF CheckStillCurrent, Goto, Return, SetterHoldsMaster
  <2>4. SealerHoldsMaster'
    BY <1>17 DEF CheckStillCurrent, Goto, Return, SealerHoldsMaster
  <2>5. UnsealerHoldsMaster'
    BY <1>17 DEF CheckStillCurrent, Goto, Return, UnsealerHoldsMaster
  <2>6. StoreOpensVault'
    BY <1>17
    DEF CheckStillCurrent, Goto, Return, StoreOpensVault, Unlocked,
      Installing
  <2> QED
    BY <1>17, <2>1, <2>2, <2>3, <2>4, <2>5, <2>6
    DEF CheckStillCurrent, VaultExists, SealedTogether, Secrets
<1>18. ASSUME NEW r \in Guessers, ClearAgain(r) PROVE Secrets'
  BY <1>18
  DEF ClearAgain, Goto, Return, VaultExists, CreatorHoldsMaster,
    VerifiedIsMaster, SetterHoldsMaster, SealerHoldsMaster,
    UnsealerHoldsMaster, SealedTogether, StoreOpensVault, Unlocked,
    Installing, Secrets
<1>19. ASSUME NEW l \in Locks, LockBump(l) PROVE Secrets'
  BY <1>19
  DEF LockBump, Goto, VaultExists, CreatorHoldsMaster, VerifiedIsMaster,
    SetterHoldsMaster, SealerHoldsMaster, UnsealerHoldsMaster, SealedTogether,
    StoreOpensVault, Unlocked, Installing, Secrets
<1>20. ASSUME NEW l \in Locks, LockKillSessions(l) PROVE Secrets'
  BY <1>20
  DEF LockKillSessions, Goto, VaultExists, CreatorHoldsMaster,
    VerifiedIsMaster, SetterHoldsMaster, SealerHoldsMaster,
    UnsealerHoldsMaster, SealedTogether, StoreOpensVault, Unlocked,
    Installing, Secrets
<1>21. ASSUME NEW l \in Locks, LockCloseSftp(l) PROVE Secrets'
  BY <1>21
  DEF LockCloseSftp, Goto, VaultExists, CreatorHoldsMaster,
    VerifiedIsMaster, SetterHoldsMaster, SealerHoldsMaster,
    UnsealerHoldsMaster, SealedTogether, StoreOpensVault, Unlocked,
    Installing, Secrets
<1>22. ASSUME NEW l \in Locks, LockClear(l) PROVE Secrets'
  BY <1>22
  DEF LockClear, Goto, VaultExists, CreatorHoldsMaster, VerifiedIsMaster,
    SetterHoldsMaster, SealerHoldsMaster, UnsealerHoldsMaster, SealedTogether,
    StoreOpensVault, Unlocked, Installing, Secrets
<1>23. ASSUME NEW s \in Seals, SealBegin(s) PROVE Secrets'
  BY <1>23
  DEF SealBegin, Goto, SharedFree, Unlocked, VaultExists,
    CreatorHoldsMaster, VerifiedIsMaster, SetterHoldsMaster,
    SealerHoldsMaster, UnsealerHoldsMaster, SealedTogether, StoreOpensVault,
    Installing, Secrets, ChangesExclude, GuardedSteps
<1>24. ASSUME NEW s \in Seals, SealWrite(s) PROVE Secrets'
  BY <1>24
  DEF SealWrite, Goto, Return, VaultExists, CreatorHoldsMaster,
    VerifiedIsMaster, SetterHoldsMaster, SealerHoldsMaster,
    UnsealerHoldsMaster, SealedTogether, StoreOpensVault, Unlocked,
    Installing, Secrets
<1>25. ASSUME NEW d \in Deletes, Delete(d) PROVE Secrets'
  BY <1>25
  DEF Delete, Goto, Unlocked, VaultExists, CreatorHoldsMaster,
    VerifiedIsMaster, SetterHoldsMaster, SealerHoldsMaster,
    UnsealerHoldsMaster, SealedTogether, StoreOpensVault, Installing, Secrets
<1>26. ASSUME NEW p \in Pending, CaptureUnlocked(p) PROVE Secrets'
  BY <1>26
  DEF CaptureUnlocked, Goto, Unlocked, VaultExists, CreatorHoldsMaster,
    VerifiedIsMaster, SetterHoldsMaster, SealerHoldsMaster,
    UnsealerHoldsMaster, SealedTogether, StoreOpensVault, Installing, Secrets
<1>27. ASSUME NEW p \in Pending, CaptureGeneration(p) PROVE Secrets'
  BY <1>27
  DEF CaptureGeneration, Goto, VaultExists, CreatorHoldsMaster,
    VerifiedIsMaster, SetterHoldsMaster, SealerHoldsMaster,
    UnsealerHoldsMaster, SealedTogether, StoreOpensVault, Unlocked,
    Installing, Secrets
<1>28. ASSUME NEW c \in Connects, ConnectResolve(c) PROVE Secrets'
  BY <1>28
  DEF ConnectResolve, Goto, SharedFree, Unlocked, VaultExists,
    CreatorHoldsMaster, VerifiedIsMaster, SetterHoldsMaster,
    SealerHoldsMaster, UnsealerHoldsMaster, SealedTogether, StoreOpensVault,
    Installing, Secrets, ChangesExclude, GuardedSteps
<1>29. ASSUME NEW c \in Connects, ConnectUnseal(c) PROVE Secrets'
  BY <1>29
  DEF ConnectUnseal, Goto, VaultExists, CreatorHoldsMaster,
    VerifiedIsMaster, SetterHoldsMaster, SealerHoldsMaster,
    UnsealerHoldsMaster, SealedTogether, StoreOpensVault, Unlocked,
    Installing, Secrets
<1>30. ASSUME NEW c \in Connects, ConnectHandshake(c) PROVE Secrets'
  BY <1>30
  DEF ConnectHandshake, Goto, VaultExists, CreatorHoldsMaster,
    VerifiedIsMaster, SetterHoldsMaster, SealerHoldsMaster,
    UnsealerHoldsMaster, SealedTogether, StoreOpensVault, Unlocked,
    Installing, Secrets
<1>31. ASSUME NEW o \in Opens, OpenRequest(o) PROVE Secrets'
  BY <1>31
  DEF OpenRequest, Goto, VaultExists, CreatorHoldsMaster, VerifiedIsMaster,
    SetterHoldsMaster, SealerHoldsMaster, UnsealerHoldsMaster, SealedTogether,
    StoreOpensVault, Unlocked, Installing, Secrets
<1>32. ASSUME NEW o \in Opens, OpenAnswer(o) PROVE Secrets'
  BY <1>32
  DEF OpenAnswer, Goto, VaultExists, CreatorHoldsMaster, VerifiedIsMaster,
    SetterHoldsMaster, SealerHoldsMaster, UnsealerHoldsMaster, SealedTogether,
    StoreOpensVault, Unlocked, Installing, Secrets
<1>33. ASSUME NEW p \in Pending, RecheckUnlocked(p) PROVE Secrets'
  BY <1>33
  DEF RecheckUnlocked, Goto, Unlocked, VaultExists, CreatorHoldsMaster,
    VerifiedIsMaster, SetterHoldsMaster, SealerHoldsMaster,
    UnsealerHoldsMaster, SealedTogether, StoreOpensVault, Installing, Secrets
<1>34. ASSUME NEW p \in Pending, RecheckGeneration(p) PROVE Secrets'
  BY <1>34
  DEF RecheckGeneration, Goto, VaultExists, CreatorHoldsMaster,
    VerifiedIsMaster, SetterHoldsMaster, SealerHoldsMaster,
    UnsealerHoldsMaster, SealedTogether, StoreOpensVault, Unlocked,
    Installing, Secrets
<1>35. ASSUME NEW p \in Pending, Register(p) PROVE Secrets'
  BY <1>35
  DEF Register, Goto, VaultExists, CreatorHoldsMaster, VerifiedIsMaster,
    SetterHoldsMaster, SealerHoldsMaster, UnsealerHoldsMaster, SealedTogether,
    StoreOpensVault, Unlocked, Installing, Secrets
<1>36. ASSUME NEW c \in Connects, Disconnect(c) PROVE Secrets'
  BY <1>36
  DEF Disconnect, VaultExists, CreatorHoldsMaster, VerifiedIsMaster,
    SetterHoldsMaster, SealerHoldsMaster, UnsealerHoldsMaster, SealedTogether,
    StoreOpensVault, Unlocked, Installing, Secrets
<1>37. ASSUME NEW c \in Connects, RemoteClose(c) PROVE Secrets'
  BY <1>37
  DEF RemoteClose, VaultExists, CreatorHoldsMaster, VerifiedIsMaster,
    SetterHoldsMaster, SealerHoldsMaster, UnsealerHoldsMaster, SealedTogether,
    StoreOpensVault, Unlocked, Installing, Secrets
<1>38. CASE ThrottleCools
  BY <1>38
  DEF ThrottleCools, VaultExists, CreatorHoldsMaster, VerifiedIsMaster,
    SetterHoldsMaster, SealerHoldsMaster, UnsealerHoldsMaster, SealedTogether,
    StoreOpensVault, Unlocked, Installing, Secrets
<1>39. CASE Restart
  BY <1>39
  DEF Restart, VaultExists, CreatorHoldsMaster, VerifiedIsMaster,
    SetterHoldsMaster, SealerHoldsMaster, UnsealerHoldsMaster, SealedTogether,
    StoreOpensVault, Unlocked, Installing, Secrets
<1>40. CASE UNCHANGED vars
  BY <1>40
  DEF vars, VaultExists, CreatorHoldsMaster, VerifiedIsMaster,
    SetterHoldsMaster, SealerHoldsMaster, UnsealerHoldsMaster, SealedTogether,
    StoreOpensVault, Unlocked, Installing, Secrets
<1> QED
  BY <1>1, <1>2, <1>3, <1>4, <1>5, <1>6, <1>7, <1>8, <1>9, <1>10, <1>11,
    <1>12, <1>13, <1>14, <1>15, <1>16, <1>17, <1>18, <1>19, <1>20, <1>21,
    <1>22, <1>23, <1>24, <1>25, <1>26, <1>27, <1>28, <1>29, <1>30, <1>31,
    <1>32, <1>33, <1>34, <1>35, <1>36, <1>37, <1>38, <1>39, <1>40
  DEF Next, Create, Unlock, Change, GuessStep, Lock, Seal, Connect,
    OpenSftp, PendingStep, Guessers, Pending

-----------------------------------------------------------------------------
(* A lock wins *)

LockAtWork == \E l \in Locks : Locking(l)

\* Between setting the password and looking at the generation, what an
\* unlocked vault was opened by is known to the request that will look: no
\* other guesser can set the password meanwhile.
CheckerOpened ==
  \A r \in Guessers :
    pc[r] = "check" /\ Unlocked
      => openedAt = captured[r] \/ openedAt = generation \/ LockAtWork

LockOrder == CheckerOpened /\ LockWins

\* Every step keeps the order of locks and openings.
LEMMA LockOrderStep ==
  ASSUME TypeOK, RotationLock, OneGuess, LockOrder, [Next]_vars
  PROVE  LockOrder'
<1> USE Kinds, Apart DEF TypeOK, LockOrder
<1>1. ASSUME NEW k \in Creates, CreateBegin(k) PROVE LockOrder'
  BY <1>1
  DEF CreateBegin, Goto, CheckerOpened, Unlocked, LockAtWork, Locking,
    LockWins, Unconfirmed, LockOrder
<1>2. ASSUME NEW k \in Creates, CreateVerifier(k) PROVE LockOrder'
  BY <1>2
  DEF CreateVerifier, Goto, Return, CheckerOpened, Unlocked, LockAtWork,
    Locking, LockWins, Unconfirmed, LockOrder
<1>3. ASSUME NEW k \in Creates, CreateSet(k) PROVE LockOrder'
  BY <1>3
  DEF CreateSet, Goto, Return, CheckerOpened, Unlocked, LockAtWork, Locking,
    LockWins, Unconfirmed, LockOrder
<1>4. ASSUME NEW u \in Unlocks, UnlockBegin(u) PROVE LockOrder'
  BY <1>4
  DEF UnlockBegin, Goto, CheckerOpened, Unlocked, LockAtWork, Locking,
    LockWins, Unconfirmed, LockOrder
<1>5. ASSUME NEW u \in Unlocks, UnlockGuard(u) PROVE LockOrder'
  BY <1>5
  DEF UnlockGuard, Goto, SharedFree, CheckerOpened, Unlocked, LockAtWork,
    Locking, LockWins, Unconfirmed, LockOrder
<1>6. ASSUME NEW c \in Changes, ChangeBegin(c) PROVE LockOrder'
  BY <1>6
  DEF ChangeBegin, Goto, CheckerOpened, Unlocked, LockAtWork, Locking,
    LockWins, Unconfirmed, LockOrder
<1>7. ASSUME NEW c \in Changes, ChangeQueue(c) PROVE LockOrder'
  BY <1>7
  DEF ChangeQueue, Goto, CheckerOpened, Unlocked, LockAtWork, Locking,
    LockWins, Unconfirmed, LockOrder
<1>8. ASSUME NEW c \in Changes, ChangeAcquire(c) PROVE LockOrder'
  BY <1>8
  DEF ChangeAcquire, Goto, CheckerOpened, Unlocked, LockAtWork, Locking,
    LockWins, Unconfirmed, LockOrder
<1>9. ASSUME NEW c \in Changes, ChangeTimeout(c) PROVE LockOrder'
  BY <1>9
  DEF ChangeTimeout, Goto, Return, CheckerOpened, Unlocked, LockAtWork,
    Locking, LockWins, Unconfirmed, LockOrder
<1>10. ASSUME NEW c \in Changes, ChangeSnapshot(c) PROVE LockOrder'
  BY <1>10
  DEF ChangeSnapshot, Goto, Return, CheckerOpened, Unlocked, LockAtWork,
    Locking, LockWins, Unconfirmed, LockOrder
<1>11. ASSUME NEW c \in Changes, ChangeRecheck(c) PROVE LockOrder'
  BY <1>11
  DEF ChangeRecheck, Goto, Return, CheckerOpened, Unlocked, LockAtWork,
    Locking, LockWins, Unconfirmed, LockOrder
<1>12. ASSUME NEW c \in Changes, ChangeCommit(c) PROVE LockOrder'
  BY <1>12
  DEF ChangeCommit, Goto, Return, CheckerOpened, Unlocked, LockAtWork,
    Locking, LockWins, Unconfirmed, LockOrder
<1>13. ASSUME NEW r \in Guessers, GuessBegin(r) PROVE LockOrder'
  BY <1>13
  DEF GuessBegin, Goto, Return, CheckerOpened, Unlocked, LockAtWork,
    Locking, LockWins, Unconfirmed, LockOrder
<1>14. ASSUME NEW r \in Guessers, GuessVerify(r) PROVE LockOrder'
  BY <1>14
  DEF GuessVerify, Goto, Return, Accept, CheckerOpened, Unlocked,
    LockAtWork, Locking, LockWins, Unconfirmed, LockOrder
<1>15. ASSUME NEW r \in Guessers, GuessUpgrade(r) PROVE LockOrder'
  BY <1>15
  DEF GuessUpgrade, Goto, Accept, CheckerOpened, Unlocked, LockAtWork,
    Locking, LockWins, Unconfirmed, LockOrder
<1>16. ASSUME NEW r \in Guessers, SetPassword(r) PROVE LockOrder'
  BY <1>16
  DEF SetPassword, Goto, CheckerOpened, Unlocked, LockAtWork, Locking,
    LockWins, Unconfirmed, LockOrder, UnlocksShare, SealsShare, UnsealsShare,
    ChangesExclude, WriterAlone, GuardedSteps, VerifierHoldsAttempt,
    SetterHoldsAttempt, OneGuess, RotationLock
<1>17. ASSUME NEW r \in Guessers, CheckStillCurrent(r) PROVE LockOrder'
  BY <1>17
  DEF CheckStillCurrent, Goto, Return, CheckerOpened, Unlocked, LockAtWork,
    Locking, LockWins, Unconfirmed, LockOrder
<1>18. ASSUME NEW r \in Guessers, ClearAgain(r) PROVE LockOrder'
  BY <1>18
  DEF ClearAgain, Goto, Return, CheckerOpened, Unlocked, LockAtWork,
    Locking, LockWins, Unconfirmed, LockOrder
<1>19. ASSUME NEW l \in Locks, LockBump(l) PROVE LockOrder'
  BY <1>19
  DEF LockBump, Goto, CheckerOpened, Unlocked, LockAtWork, Locking,
    LockWins, Unconfirmed, LockOrder
<1>20. ASSUME NEW l \in Locks, LockKillSessions(l) PROVE LockOrder'
  BY <1>20
  DEF LockKillSessions, Goto, CheckerOpened, Unlocked, LockAtWork, Locking,
    LockWins, Unconfirmed, LockOrder
<1>21. ASSUME NEW l \in Locks, LockCloseSftp(l) PROVE LockOrder'
  BY <1>21
  DEF LockCloseSftp, Goto, CheckerOpened, Unlocked, LockAtWork, Locking,
    LockWins, Unconfirmed, LockOrder
<1>22. ASSUME NEW l \in Locks, LockClear(l) PROVE LockOrder'
  BY <1>22
  DEF LockClear, Goto, CheckerOpened, Unlocked, LockAtWork, Locking,
    LockWins, Unconfirmed, LockOrder
<1>23. ASSUME NEW s \in Seals, SealBegin(s) PROVE LockOrder'
  BY <1>23
  DEF SealBegin, Goto, SharedFree, Unlocked, CheckerOpened, LockAtWork,
    Locking, LockWins, Unconfirmed, LockOrder
<1>24. ASSUME NEW s \in Seals, SealWrite(s) PROVE LockOrder'
  BY <1>24
  DEF SealWrite, Goto, Return, CheckerOpened, Unlocked, LockAtWork, Locking,
    LockWins, Unconfirmed, LockOrder
<1>25. ASSUME NEW d \in Deletes, Delete(d) PROVE LockOrder'
  BY <1>25
  DEF Delete, Goto, Unlocked, CheckerOpened, LockAtWork, Locking, LockWins,
    Unconfirmed, LockOrder
<1>26. ASSUME NEW p \in Pending, CaptureUnlocked(p) PROVE LockOrder'
  BY <1>26
  DEF CaptureUnlocked, Goto, Unlocked, CheckerOpened, LockAtWork, Locking,
    LockWins, Unconfirmed, LockOrder
<1>27. ASSUME NEW p \in Pending, CaptureGeneration(p) PROVE LockOrder'
  BY <1>27
  DEF CaptureGeneration, Goto, CheckerOpened, Unlocked, LockAtWork, Locking,
    LockWins, Unconfirmed, LockOrder
<1>28. ASSUME NEW c \in Connects, ConnectResolve(c) PROVE LockOrder'
  BY <1>28
  DEF ConnectResolve, Goto, SharedFree, Unlocked, CheckerOpened, LockAtWork,
    Locking, LockWins, Unconfirmed, LockOrder
<1>29. ASSUME NEW c \in Connects, ConnectUnseal(c) PROVE LockOrder'
  BY <1>29
  DEF ConnectUnseal, Goto, CheckerOpened, Unlocked, LockAtWork, Locking,
    LockWins, Unconfirmed, LockOrder
<1>30. ASSUME NEW c \in Connects, ConnectHandshake(c) PROVE LockOrder'
  BY <1>30
  DEF ConnectHandshake, Goto, CheckerOpened, Unlocked, LockAtWork, Locking,
    LockWins, Unconfirmed, LockOrder
<1>31. ASSUME NEW o \in Opens, OpenRequest(o) PROVE LockOrder'
  BY <1>31
  DEF OpenRequest, Goto, CheckerOpened, Unlocked, LockAtWork, Locking,
    LockWins, Unconfirmed, LockOrder
<1>32. ASSUME NEW o \in Opens, OpenAnswer(o) PROVE LockOrder'
  BY <1>32
  DEF OpenAnswer, Goto, CheckerOpened, Unlocked, LockAtWork, Locking,
    LockWins, Unconfirmed, LockOrder
<1>33. ASSUME NEW p \in Pending, RecheckUnlocked(p) PROVE LockOrder'
  BY <1>33
  DEF RecheckUnlocked, Goto, Unlocked, CheckerOpened, LockAtWork, Locking,
    LockWins, Unconfirmed, LockOrder
<1>34. ASSUME NEW p \in Pending, RecheckGeneration(p) PROVE LockOrder'
  BY <1>34
  DEF RecheckGeneration, Goto, CheckerOpened, Unlocked, LockAtWork, Locking,
    LockWins, Unconfirmed, LockOrder
<1>35. ASSUME NEW p \in Pending, Register(p) PROVE LockOrder'
  BY <1>35
  DEF Register, Goto, CheckerOpened, Unlocked, LockAtWork, Locking,
    LockWins, Unconfirmed, LockOrder
<1>36. ASSUME NEW c \in Connects, Disconnect(c) PROVE LockOrder'
  BY <1>36
  DEF Disconnect, CheckerOpened, Unlocked, LockAtWork, Locking, LockWins,
    Unconfirmed, LockOrder
<1>37. ASSUME NEW c \in Connects, RemoteClose(c) PROVE LockOrder'
  BY <1>37
  DEF RemoteClose, CheckerOpened, Unlocked, LockAtWork, Locking, LockWins,
    Unconfirmed, LockOrder
<1>38. CASE ThrottleCools
  BY <1>38
  DEF ThrottleCools, CheckerOpened, Unlocked, LockAtWork, Locking, LockWins,
    Unconfirmed, LockOrder
<1>39. CASE Restart
  BY <1>39
  DEF Restart, CheckerOpened, Unlocked, LockAtWork, Locking, LockWins,
    Unconfirmed, LockOrder
<1>40. CASE UNCHANGED vars
  BY <1>40
  DEF vars, CheckerOpened, Unlocked, LockAtWork, Locking, LockWins,
    Unconfirmed, LockOrder
<1> QED
  BY <1>1, <1>2, <1>3, <1>4, <1>5, <1>6, <1>7, <1>8, <1>9, <1>10, <1>11,
    <1>12, <1>13, <1>14, <1>15, <1>16, <1>17, <1>18, <1>19, <1>20, <1>21,
    <1>22, <1>23, <1>24, <1>25, <1>26, <1>27, <1>28, <1>29, <1>30, <1>31,
    <1>32, <1>33, <1>34, <1>35, <1>36, <1>37, <1>38, <1>39, <1>40
  DEF Next, Create, Unlock, Change, GuessStep, Lock, Seal, Connect,
    OpenSftp, PendingStep, Guessers, Pending

-----------------------------------------------------------------------------
(* What a lock found does not survive it *)

CapturedPast == \A r \in Requests : captured[r] <= generation

\* A pending call that a lock found has captured an older generation ...
DoomedIsStale ==
  \A p \in Pending : p \in doomed /\ CapturedNotRechecked(p)
                       => captured[p] < generation

\* ... so it never gets past its recheck.
DoomedNotEntering ==
  \A p \in Pending : pc[p] \in {"idle", "capture", "insert"} => p \notin doomed

RegisteredReturned ==
  /\ \A c \in sessions : pc[c] = "done"
  /\ \A c \in Connects : sftp[c] # NoRequest => pc[sftp[c]] = "done"

SessionsDoomed ==
  sessions \cap doomed = {} \/ \E l \in Locks : pc[l] = "kill"

ChannelsDoomed ==
  \/ \A c \in Connects : sftp[c] \notin doomed
  \/ \E l \in Locks : pc[l] \in {"kill", "closeSftp"}

Doom ==
  /\ CapturedPast /\ DoomedIsStale /\ DoomedNotEntering
  /\ RegisteredReturned /\ SessionsDoomed /\ ChannelsDoomed

\* Every step keeps what a lock found from entering the registries.
LEMMA DoomStep ==
  ASSUME TypeOK, Doom, [Next]_vars
  PROVE  Doom'
<1> USE Kinds, Apart DEF TypeOK, Doom
<1>1. ASSUME NEW k \in Creates, CreateBegin(k) PROVE Doom'
  BY <1>1
  DEF CreateBegin, Goto, CapturedPast, DoomedIsStale, CapturedNotRechecked,
    DoomedNotEntering, RegisteredReturned, SessionsDoomed, ChannelsDoomed,
    Doom
<1>2. ASSUME NEW k \in Creates, CreateVerifier(k) PROVE Doom'
  BY <1>2
  DEF CreateVerifier, Goto, Return, CapturedPast, DoomedIsStale,
    CapturedNotRechecked, DoomedNotEntering, RegisteredReturned,
    SessionsDoomed, ChannelsDoomed, Doom
<1>3. ASSUME NEW k \in Creates, CreateSet(k) PROVE Doom'
  BY <1>3
  DEF CreateSet, Goto, Return, CapturedPast, DoomedIsStale,
    CapturedNotRechecked, DoomedNotEntering, RegisteredReturned,
    SessionsDoomed, ChannelsDoomed, Doom
<1>4. ASSUME NEW u \in Unlocks, UnlockBegin(u) PROVE Doom'
  BY <1>4
  DEF UnlockBegin, Goto, CapturedPast, DoomedIsStale, CapturedNotRechecked,
    DoomedNotEntering, RegisteredReturned, SessionsDoomed, ChannelsDoomed,
    Doom
<1>5. ASSUME NEW u \in Unlocks, UnlockGuard(u) PROVE Doom'
  BY <1>5
  DEF UnlockGuard, Goto, SharedFree, CapturedPast, DoomedIsStale,
    CapturedNotRechecked, DoomedNotEntering, RegisteredReturned,
    SessionsDoomed, ChannelsDoomed, Doom
<1>6. ASSUME NEW c \in Changes, ChangeBegin(c) PROVE Doom'
  BY <1>6
  DEF ChangeBegin, Goto, CapturedPast, DoomedIsStale, CapturedNotRechecked,
    DoomedNotEntering, RegisteredReturned, SessionsDoomed, ChannelsDoomed,
    Doom
<1>7. ASSUME NEW c \in Changes, ChangeQueue(c) PROVE Doom'
  BY <1>7
  DEF ChangeQueue, Goto, CapturedPast, DoomedIsStale, CapturedNotRechecked,
    DoomedNotEntering, RegisteredReturned, SessionsDoomed, ChannelsDoomed,
    Doom
<1>8. ASSUME NEW c \in Changes, ChangeAcquire(c) PROVE Doom'
  BY <1>8
  DEF ChangeAcquire, Goto, CapturedPast, DoomedIsStale,
    CapturedNotRechecked, DoomedNotEntering, RegisteredReturned,
    SessionsDoomed, ChannelsDoomed, Doom
<1>9. ASSUME NEW c \in Changes, ChangeTimeout(c) PROVE Doom'
  BY <1>9
  DEF ChangeTimeout, Goto, Return, CapturedPast, DoomedIsStale,
    CapturedNotRechecked, DoomedNotEntering, RegisteredReturned,
    SessionsDoomed, ChannelsDoomed, Doom
<1>10. ASSUME NEW c \in Changes, ChangeSnapshot(c) PROVE Doom'
  BY <1>10
  DEF ChangeSnapshot, Goto, Return, CapturedPast, DoomedIsStale,
    CapturedNotRechecked, DoomedNotEntering, RegisteredReturned,
    SessionsDoomed, ChannelsDoomed, Doom
<1>11. ASSUME NEW c \in Changes, ChangeRecheck(c) PROVE Doom'
  <2>1. CapturedPast'
    BY <1>11 DEF ChangeRecheck, Goto, Return, CapturedPast
  <2>2. DoomedIsStale'
    BY <1>11
    DEF ChangeRecheck, Goto, Return, DoomedIsStale, CapturedNotRechecked
  <2>3. DoomedNotEntering'
    BY <1>11 DEF ChangeRecheck, Goto, Return, DoomedNotEntering
  <2>4. RegisteredReturned'
    BY <1>11 DEF ChangeRecheck, Goto, Return, RegisteredReturned
  <2>5. SessionsDoomed'
    BY <1>11 DEF ChangeRecheck, Goto, Return, SessionsDoomed
  <2>6. ChannelsDoomed'
    BY <1>11 DEF ChangeRecheck, Goto, Return, ChannelsDoomed
  <2> QED
    BY <2>1, <2>2, <2>3, <2>4, <2>5, <2>6 DEF Doom
<1>12. ASSUME NEW c \in Changes, ChangeCommit(c) PROVE Doom'
  <2>1. CapturedPast'
    BY <1>12 DEF ChangeCommit, Goto, Return, CapturedPast
  <2>2. DoomedIsStale'
    BY <1>12
    DEF ChangeCommit, Goto, Return, DoomedIsStale, CapturedNotRechecked
  <2>3. DoomedNotEntering'
    BY <1>12 DEF ChangeCommit, Goto, Return, DoomedNotEntering
  <2>4. RegisteredReturned'
    BY <1>12 DEF ChangeCommit, Goto, Return, RegisteredReturned
  <2>5. SessionsDoomed'
    BY <1>12 DEF ChangeCommit, Goto, Return, SessionsDoomed
  <2>6. ChannelsDoomed'
    BY <1>12 DEF ChangeCommit, Goto, Return, ChannelsDoomed
  <2> QED
    BY <2>1, <2>2, <2>3, <2>4, <2>5, <2>6 DEF Doom
<1>13. ASSUME NEW r \in Guessers, GuessBegin(r) PROVE Doom'
  BY <1>13
  DEF GuessBegin, Goto, Return, CapturedPast, DoomedIsStale,
    CapturedNotRechecked, DoomedNotEntering, RegisteredReturned,
    SessionsDoomed, ChannelsDoomed, Doom
<1>14. ASSUME NEW r \in Guessers, GuessVerify(r) PROVE Doom'
  BY <1>14
  DEF GuessVerify, Goto, Return, Accept, CapturedPast, DoomedIsStale,
    CapturedNotRechecked, DoomedNotEntering, RegisteredReturned,
    SessionsDoomed, ChannelsDoomed, Doom
<1>15. ASSUME NEW r \in Guessers, GuessUpgrade(r) PROVE Doom'
  BY <1>15
  DEF GuessUpgrade, Goto, Accept, CapturedPast, DoomedIsStale,
    CapturedNotRechecked, DoomedNotEntering, RegisteredReturned,
    SessionsDoomed, ChannelsDoomed, Doom
<1>16. ASSUME NEW r \in Guessers, SetPassword(r) PROVE Doom'
  BY <1>16
  DEF SetPassword, Goto, CapturedPast, DoomedIsStale, CapturedNotRechecked,
    DoomedNotEntering, RegisteredReturned, SessionsDoomed, ChannelsDoomed,
    Doom
<1>17. ASSUME NEW r \in Guessers, CheckStillCurrent(r) PROVE Doom'
  BY <1>17
  DEF CheckStillCurrent, Goto, Return, CapturedPast, DoomedIsStale,
    CapturedNotRechecked, DoomedNotEntering, RegisteredReturned,
    SessionsDoomed, ChannelsDoomed, Doom
<1>18. ASSUME NEW r \in Guessers, ClearAgain(r) PROVE Doom'
  BY <1>18
  DEF ClearAgain, Goto, Return, CapturedPast, DoomedIsStale,
    CapturedNotRechecked, DoomedNotEntering, RegisteredReturned,
    SessionsDoomed, ChannelsDoomed, Doom
<1>19. ASSUME NEW l \in Locks, LockBump(l) PROVE Doom'
  BY <1>19
  DEF LockBump, Goto, CapturedPast, DoomedIsStale, CapturedNotRechecked,
    DoomedNotEntering, RegisteredReturned, SessionsDoomed, ChannelsDoomed,
    Doom, Registered
<1>20. ASSUME NEW l \in Locks, LockKillSessions(l) PROVE Doom'
  BY <1>20
  DEF LockKillSessions, Goto, CapturedPast, DoomedIsStale,
    CapturedNotRechecked, DoomedNotEntering, RegisteredReturned,
    SessionsDoomed, ChannelsDoomed, Doom
<1>21. ASSUME NEW l \in Locks, LockCloseSftp(l) PROVE Doom'
  BY <1>21
  DEF LockCloseSftp, Goto, CapturedPast, DoomedIsStale,
    CapturedNotRechecked, DoomedNotEntering, RegisteredReturned,
    SessionsDoomed, ChannelsDoomed, Doom
<1>22. ASSUME NEW l \in Locks, LockClear(l) PROVE Doom'
  BY <1>22
  DEF LockClear, Goto, CapturedPast, DoomedIsStale, CapturedNotRechecked,
    DoomedNotEntering, RegisteredReturned, SessionsDoomed, ChannelsDoomed,
    Doom
<1>23. ASSUME NEW s \in Seals, SealBegin(s) PROVE Doom'
  BY <1>23
  DEF SealBegin, Goto, SharedFree, Unlocked, CapturedPast, DoomedIsStale,
    CapturedNotRechecked, DoomedNotEntering, RegisteredReturned,
    SessionsDoomed, ChannelsDoomed, Doom
<1>24. ASSUME NEW s \in Seals, SealWrite(s) PROVE Doom'
  BY <1>24
  DEF SealWrite, Goto, Return, CapturedPast, DoomedIsStale,
    CapturedNotRechecked, DoomedNotEntering, RegisteredReturned,
    SessionsDoomed, ChannelsDoomed, Doom
<1>25. ASSUME NEW d \in Deletes, Delete(d) PROVE Doom'
  BY <1>25
  DEF Delete, Goto, Unlocked, CapturedPast, DoomedIsStale,
    CapturedNotRechecked, DoomedNotEntering, RegisteredReturned,
    SessionsDoomed, ChannelsDoomed, Doom
<1>26. ASSUME NEW p \in Pending, CaptureUnlocked(p) PROVE Doom'
  BY <1>26
  DEF CaptureUnlocked, Goto, Unlocked, CapturedPast, DoomedIsStale,
    CapturedNotRechecked, DoomedNotEntering, RegisteredReturned,
    SessionsDoomed, ChannelsDoomed, Doom
<1>27. ASSUME NEW p \in Pending, CaptureGeneration(p) PROVE Doom'
  BY <1>27
  DEF CaptureGeneration, Goto, CapturedPast, DoomedIsStale,
    CapturedNotRechecked, DoomedNotEntering, RegisteredReturned,
    SessionsDoomed, ChannelsDoomed, Doom
<1>28. ASSUME NEW c \in Connects, ConnectResolve(c) PROVE Doom'
  BY <1>28
  DEF ConnectResolve, Goto, SharedFree, Unlocked, CapturedPast,
    DoomedIsStale, CapturedNotRechecked, DoomedNotEntering,
    RegisteredReturned, SessionsDoomed, ChannelsDoomed, Doom
<1>29. ASSUME NEW c \in Connects, ConnectUnseal(c) PROVE Doom'
  BY <1>29
  DEF ConnectUnseal, Goto, CapturedPast, DoomedIsStale,
    CapturedNotRechecked, DoomedNotEntering, RegisteredReturned,
    SessionsDoomed, ChannelsDoomed, Doom
<1>30. ASSUME NEW c \in Connects, ConnectHandshake(c) PROVE Doom'
  BY <1>30
  DEF ConnectHandshake, Goto, CapturedPast, DoomedIsStale,
    CapturedNotRechecked, DoomedNotEntering, RegisteredReturned,
    SessionsDoomed, ChannelsDoomed, Doom
<1>31. ASSUME NEW o \in Opens, OpenRequest(o) PROVE Doom'
  BY <1>31
  DEF OpenRequest, Goto, CapturedPast, DoomedIsStale, CapturedNotRechecked,
    DoomedNotEntering, RegisteredReturned, SessionsDoomed, ChannelsDoomed,
    Doom
<1>32. ASSUME NEW o \in Opens, OpenAnswer(o) PROVE Doom'
  BY <1>32
  DEF OpenAnswer, Goto, CapturedPast, DoomedIsStale, CapturedNotRechecked,
    DoomedNotEntering, RegisteredReturned, SessionsDoomed, ChannelsDoomed,
    Doom
<1>33. ASSUME NEW p \in Pending, RecheckUnlocked(p) PROVE Doom'
  BY <1>33
  DEF RecheckUnlocked, Goto, Unlocked, CapturedPast, DoomedIsStale,
    CapturedNotRechecked, DoomedNotEntering, RegisteredReturned,
    SessionsDoomed, ChannelsDoomed, Doom
<1>34. ASSUME NEW p \in Pending, RecheckGeneration(p) PROVE Doom'
  BY <1>34
  DEF RecheckGeneration, Goto, CapturedPast, DoomedIsStale,
    CapturedNotRechecked, DoomedNotEntering, RegisteredReturned,
    SessionsDoomed, ChannelsDoomed, Doom
<1>35. ASSUME NEW p \in Pending, Register(p) PROVE Doom'
  BY <1>35
  DEF Register, Goto, CapturedPast, DoomedIsStale, CapturedNotRechecked,
    DoomedNotEntering, RegisteredReturned, SessionsDoomed, ChannelsDoomed,
    Doom
<1>36. ASSUME NEW c \in Connects, Disconnect(c) PROVE Doom'
  BY <1>36
  DEF Disconnect, CapturedPast, DoomedIsStale, CapturedNotRechecked,
    DoomedNotEntering, RegisteredReturned, SessionsDoomed, ChannelsDoomed,
    Doom
<1>37. ASSUME NEW c \in Connects, RemoteClose(c) PROVE Doom'
  BY <1>37
  DEF RemoteClose, CapturedPast, DoomedIsStale, CapturedNotRechecked,
    DoomedNotEntering, RegisteredReturned, SessionsDoomed, ChannelsDoomed,
    Doom
<1>38. CASE ThrottleCools
  BY <1>38
  DEF ThrottleCools, CapturedPast, DoomedIsStale, CapturedNotRechecked,
    DoomedNotEntering, RegisteredReturned, SessionsDoomed, ChannelsDoomed,
    Doom
<1>39. CASE Restart
  BY <1>39
  DEF Restart, CapturedPast, DoomedIsStale, CapturedNotRechecked,
    DoomedNotEntering, RegisteredReturned, SessionsDoomed, ChannelsDoomed,
    Doom
<1>40. CASE UNCHANGED vars
  BY <1>40
  DEF vars, CapturedPast, DoomedIsStale, CapturedNotRechecked,
    DoomedNotEntering, RegisteredReturned, SessionsDoomed, ChannelsDoomed,
    Doom
<1> QED
  BY <1>1, <1>2, <1>3, <1>4, <1>5, <1>6, <1>7, <1>8, <1>9, <1>10, <1>11,
    <1>12, <1>13, <1>14, <1>15, <1>16, <1>17, <1>18, <1>19, <1>20, <1>21,
    <1>22, <1>23, <1>24, <1>25, <1>26, <1>27, <1>28, <1>29, <1>30, <1>31,
    <1>32, <1>33, <1>34, <1>35, <1>36, <1>37, <1>38, <1>39, <1>40
  DEF Next, Create, Unlock, Change, GuessStep, Lock, Seal, Connect,
    OpenSftp, PendingStep, Guessers, Pending

-----------------------------------------------------------------------------
(* The theorems *)

IInv ==
  TypeOK /\ HoldsPassword /\ RotationLock /\ OneGuess /\ LockOrder /\ Doom

\* The invariant holds at the start ...
LEMMA IInvInit == Init => IInv
<1> SUFFICES ASSUME Init PROVE IInv
  OBVIOUS
<1> USE DEF Init
<1>1. TypeOK
  BY TypeInit
<1>2. HoldsPassword
  BY Kinds DEF HoldsPassword, HeldIsPassword, GuessIsPassword,
     UnlockOffersOne, HoldingSteps
<1>3. RotationLock
  BY Kinds DEF RotationLock, UnlocksShare, SealsShare, UnsealsShare,
     ChangesExclude, WriterAlone, GuardedSteps
<1>4. OneGuess
  BY Kinds DEF OneGuess, VerifierHoldsAttempt, SetterHoldsAttempt,
     VerifierIsNotCooling
<1>5. LockOrder
  BY DEF LockOrder, CheckerOpened, LockWins, Unlocked
<1>6. Doom
  BY Kinds DEF Doom, CapturedPast, DoomedIsStale, DoomedNotEntering,
     RegisteredReturned, SessionsDoomed, ChannelsDoomed
<1> QED
  BY <1>1, <1>2, <1>3, <1>4, <1>5, <1>6 DEF IInv

\* ... and every step keeps it.
LEMMA IInvStep == IInv /\ [Next]_vars => IInv'
BY TypeStep, HoldsStep, RotationLockStep, OneGuessStep, LockOrderStep,
   DoomStep
DEF IInv

\* The invariant everything else rests on: who holds which guard, which
\* password and which generation at every step of every call.
THEOREM Invariance == Spec => []IInv
BY IInvInit, IInvStep, PTL DEF Spec

\* Every variable keeps its type, for every number of calls, records and
\* passwords (the state of src-tauri/src/commands/mod.rs).
THEOREM TypeCorrect == Spec => []TypeOK
<1>1. IInv => TypeOK
  BY DEF IInv
<1> QED
  BY <1>1, Invariance, PTL

\* A lock wins over every unlock and password change that began before it
\* (vault_unlock_in, install_rotated_password).
THEOREM LocksWin == Spec => []LockWins
<1>1. IInv => LockWins
  BY DEF IInv, LockOrder
<1> QED
  BY <1>1, Invariance, PTL

\* Nothing a lock found registered, or captured and not yet rechecked, is
\* registered after it (VaultGeneration::is_current).
THEOREM LocksEndSessions == Spec => []DoomedNeverSurvives
<1>1. IInv => DoomedNeverSurvives
  <2> SUFFICES ASSUME IInv, ~\E l \in Locks : Locking(l)
               PROVE  Registered \cap doomed = {}
    BY DEF DoomedNeverSurvives
  <2>1. sessions \cap doomed = {}
    BY DEF IInv, Doom, SessionsDoomed, Locking
  <2>2. \A c \in Connects : sftp[c] \notin doomed
    BY DEF IInv, Doom, ChannelsDoomed, Locking
  <2> QED
    BY <2>1, <2>2 DEF Registered
<1> QED
  BY <1>1, Invariance, PTL

JudgedOpen == failures' > failures => ~cooling

\* A step that counts a failure is taken while the throttle is open.
LEMMA NoGuessStep ==
  ASSUME IInv, [Next]_vars
  PROVE  JudgedOpen
<1> USE Kinds DEF IInv, TypeOK, JudgedOpen
<1>1. ASSUME NEW k \in Creates, CreateBegin(k) PROVE JudgedOpen
  BY <1>1 DEF CreateBegin
<1>2. ASSUME NEW k \in Creates, CreateVerifier(k) PROVE JudgedOpen
  BY <1>2 DEF CreateVerifier
<1>3. ASSUME NEW k \in Creates, CreateSet(k) PROVE JudgedOpen
  BY <1>3 DEF CreateSet
<1>4. ASSUME NEW u \in Unlocks, UnlockBegin(u) PROVE JudgedOpen
  BY <1>4 DEF UnlockBegin
<1>5. ASSUME NEW u \in Unlocks, UnlockGuard(u) PROVE JudgedOpen
  BY <1>5 DEF UnlockGuard
<1>6. ASSUME NEW c \in Changes, ChangeBegin(c) PROVE JudgedOpen
  BY <1>6 DEF ChangeBegin
<1>7. ASSUME NEW c \in Changes, ChangeQueue(c) PROVE JudgedOpen
  BY <1>7 DEF ChangeQueue
<1>8. ASSUME NEW c \in Changes, ChangeAcquire(c) PROVE JudgedOpen
  BY <1>8 DEF ChangeAcquire
<1>9. ASSUME NEW c \in Changes, ChangeTimeout(c) PROVE JudgedOpen
  BY <1>9 DEF ChangeTimeout
<1>10. ASSUME NEW c \in Changes, ChangeSnapshot(c) PROVE JudgedOpen
  BY <1>10 DEF ChangeSnapshot
<1>11. ASSUME NEW c \in Changes, ChangeRecheck(c) PROVE JudgedOpen
  BY <1>11 DEF ChangeRecheck
<1>12. ASSUME NEW c \in Changes, ChangeCommit(c) PROVE JudgedOpen
  BY <1>12 DEF ChangeCommit
<1>13. ASSUME NEW r \in Guessers, GuessBegin(r) PROVE JudgedOpen
  BY <1>13 DEF GuessBegin
<1>14. ASSUME NEW r \in Guessers, GuessVerify(r) PROVE JudgedOpen
  BY <1>14 DEF GuessVerify, OneGuess, VerifierIsNotCooling
<1>15. ASSUME NEW r \in Guessers, GuessUpgrade(r) PROVE JudgedOpen
  BY <1>15 DEF GuessUpgrade, Accept
<1>16. ASSUME NEW r \in Guessers, SetPassword(r) PROVE JudgedOpen
  BY <1>16 DEF SetPassword
<1>17. ASSUME NEW r \in Guessers, CheckStillCurrent(r) PROVE JudgedOpen
  BY <1>17 DEF CheckStillCurrent
<1>18. ASSUME NEW r \in Guessers, ClearAgain(r) PROVE JudgedOpen
  BY <1>18 DEF ClearAgain
<1>19. ASSUME NEW l \in Locks, LockBump(l) PROVE JudgedOpen
  BY <1>19 DEF LockBump
<1>20. ASSUME NEW l \in Locks, LockKillSessions(l) PROVE JudgedOpen
  BY <1>20 DEF LockKillSessions
<1>21. ASSUME NEW l \in Locks, LockCloseSftp(l) PROVE JudgedOpen
  BY <1>21 DEF LockCloseSftp
<1>22. ASSUME NEW l \in Locks, LockClear(l) PROVE JudgedOpen
  BY <1>22 DEF LockClear
<1>23. ASSUME NEW s \in Seals, SealBegin(s) PROVE JudgedOpen
  BY <1>23 DEF SealBegin
<1>24. ASSUME NEW s \in Seals, SealWrite(s) PROVE JudgedOpen
  BY <1>24 DEF SealWrite
<1>25. ASSUME NEW d \in Deletes, Delete(d) PROVE JudgedOpen
  BY <1>25 DEF Delete
<1>26. ASSUME NEW p \in Pending, CaptureUnlocked(p) PROVE JudgedOpen
  BY <1>26 DEF CaptureUnlocked
<1>27. ASSUME NEW p \in Pending, CaptureGeneration(p) PROVE JudgedOpen
  BY <1>27 DEF CaptureGeneration
<1>28. ASSUME NEW c \in Connects, ConnectResolve(c) PROVE JudgedOpen
  BY <1>28 DEF ConnectResolve
<1>29. ASSUME NEW c \in Connects, ConnectUnseal(c) PROVE JudgedOpen
  BY <1>29 DEF ConnectUnseal
<1>30. ASSUME NEW c \in Connects, ConnectHandshake(c) PROVE JudgedOpen
  BY <1>30 DEF ConnectHandshake
<1>31. ASSUME NEW o \in Opens, OpenRequest(o) PROVE JudgedOpen
  BY <1>31 DEF OpenRequest
<1>32. ASSUME NEW o \in Opens, OpenAnswer(o) PROVE JudgedOpen
  BY <1>32 DEF OpenAnswer
<1>33. ASSUME NEW p \in Pending, RecheckUnlocked(p) PROVE JudgedOpen
  BY <1>33 DEF RecheckUnlocked
<1>34. ASSUME NEW p \in Pending, RecheckGeneration(p) PROVE JudgedOpen
  BY <1>34 DEF RecheckGeneration
<1>35. ASSUME NEW p \in Pending, Register(p) PROVE JudgedOpen
  BY <1>35 DEF Register
<1>36. ASSUME NEW c \in Connects, Disconnect(c) PROVE JudgedOpen
  BY <1>36 DEF Disconnect
<1>37. ASSUME NEW c \in Connects, RemoteClose(c) PROVE JudgedOpen
  BY <1>37 DEF RemoteClose
<1>38. CASE ThrottleCools
  BY <1>38 DEF ThrottleCools
<1>39. CASE Restart
  BY <1>39 DEF Restart
<1>40. CASE UNCHANGED vars
  BY <1>40 DEF vars
<1> QED
  BY <1>1, <1>2, <1>3, <1>4, <1>5, <1>6, <1>7, <1>8, <1>9, <1>10, <1>11,
    <1>12, <1>13, <1>14, <1>15, <1>16, <1>17, <1>18, <1>19, <1>20, <1>21,
    <1>22, <1>23, <1>24, <1>25, <1>26, <1>27, <1>28, <1>29, <1>30, <1>31,
    <1>32, <1>33, <1>34, <1>35, <1>36, <1>37, <1>38, <1>39, <1>40
  DEF Next, Create, Unlock, Change, GuessStep, Lock, Seal, Connect,
    OpenSftp, PendingStep, Guessers, Pending

\* No guess is judged while the throttle cools down
\* (UnlockThrottle, vault_unlock_in, verify_current_password).
THEOREM ThrottleHolds == Spec => NoGuessWhileCooling
<1>1. IInv /\ [Next]_vars => [failures' > failures => ~cooling]_vars
  BY NoGuessStep DEF JudgedOpen
<1> QED
  BY <1>1, Invariance, PTL DEF Spec, NoGuessWhileCooling

Reappears ==
  \A r \in Records : records[r] = NoBlob /\ records'[r] # NoBlob
                     => records'[r].by \in Seals

\* A row that was absent holds a blob only because a command sealed it.
LEMMA DeletedStep ==
  ASSUME TypeOK, [Next]_vars
  PROVE  Reappears
<1> USE Kinds DEF TypeOK, Reappears
<1>1. ASSUME NEW k \in Creates, CreateBegin(k) PROVE Reappears
  BY <1>1 DEF CreateBegin
<1>2. ASSUME NEW k \in Creates, CreateVerifier(k) PROVE Reappears
  BY <1>2 DEF CreateVerifier
<1>3. ASSUME NEW k \in Creates, CreateSet(k) PROVE Reappears
  BY <1>3 DEF CreateSet
<1>4. ASSUME NEW u \in Unlocks, UnlockBegin(u) PROVE Reappears
  BY <1>4 DEF UnlockBegin
<1>5. ASSUME NEW u \in Unlocks, UnlockGuard(u) PROVE Reappears
  BY <1>5 DEF UnlockGuard
<1>6. ASSUME NEW c \in Changes, ChangeBegin(c) PROVE Reappears
  BY <1>6 DEF ChangeBegin
<1>7. ASSUME NEW c \in Changes, ChangeQueue(c) PROVE Reappears
  BY <1>7 DEF ChangeQueue
<1>8. ASSUME NEW c \in Changes, ChangeAcquire(c) PROVE Reappears
  BY <1>8 DEF ChangeAcquire
<1>9. ASSUME NEW c \in Changes, ChangeTimeout(c) PROVE Reappears
  BY <1>9 DEF ChangeTimeout
<1>10. ASSUME NEW c \in Changes, ChangeSnapshot(c) PROVE Reappears
  BY <1>10 DEF ChangeSnapshot
<1>11. ASSUME NEW c \in Changes, ChangeRecheck(c) PROVE Reappears
  BY <1>11 DEF ChangeRecheck
<1>12. ASSUME NEW c \in Changes, ChangeCommit(c) PROVE Reappears
  BY <1>12 DEF ChangeCommit, Resealed
<1>13. ASSUME NEW r \in Guessers, GuessBegin(r) PROVE Reappears
  BY <1>13 DEF GuessBegin
<1>14. ASSUME NEW r \in Guessers, GuessVerify(r) PROVE Reappears
  BY <1>14 DEF GuessVerify, Accept
<1>15. ASSUME NEW r \in Guessers, GuessUpgrade(r) PROVE Reappears
  BY <1>15 DEF GuessUpgrade, Accept
<1>16. ASSUME NEW r \in Guessers, SetPassword(r) PROVE Reappears
  BY <1>16 DEF SetPassword
<1>17. ASSUME NEW r \in Guessers, CheckStillCurrent(r) PROVE Reappears
  BY <1>17 DEF CheckStillCurrent
<1>18. ASSUME NEW r \in Guessers, ClearAgain(r) PROVE Reappears
  BY <1>18 DEF ClearAgain
<1>19. ASSUME NEW l \in Locks, LockBump(l) PROVE Reappears
  BY <1>19 DEF LockBump
<1>20. ASSUME NEW l \in Locks, LockKillSessions(l) PROVE Reappears
  BY <1>20 DEF LockKillSessions
<1>21. ASSUME NEW l \in Locks, LockCloseSftp(l) PROVE Reappears
  BY <1>21 DEF LockCloseSftp
<1>22. ASSUME NEW l \in Locks, LockClear(l) PROVE Reappears
  BY <1>22 DEF LockClear
<1>23. ASSUME NEW s \in Seals, SealBegin(s) PROVE Reappears
  BY <1>23 DEF SealBegin
<1>24. ASSUME NEW s \in Seals, SealWrite(s) PROVE Reappears
  BY <1>24 DEF SealWrite
<1>25. ASSUME NEW d \in Deletes, Delete(d) PROVE Reappears
  BY <1>25 DEF Delete
<1>26. ASSUME NEW p \in Pending, CaptureUnlocked(p) PROVE Reappears
  BY <1>26 DEF CaptureUnlocked
<1>27. ASSUME NEW p \in Pending, CaptureGeneration(p) PROVE Reappears
  BY <1>27 DEF CaptureGeneration
<1>28. ASSUME NEW c \in Connects, ConnectResolve(c) PROVE Reappears
  BY <1>28 DEF ConnectResolve
<1>29. ASSUME NEW c \in Connects, ConnectUnseal(c) PROVE Reappears
  BY <1>29 DEF ConnectUnseal
<1>30. ASSUME NEW c \in Connects, ConnectHandshake(c) PROVE Reappears
  BY <1>30 DEF ConnectHandshake
<1>31. ASSUME NEW o \in Opens, OpenRequest(o) PROVE Reappears
  BY <1>31 DEF OpenRequest
<1>32. ASSUME NEW o \in Opens, OpenAnswer(o) PROVE Reappears
  BY <1>32 DEF OpenAnswer
<1>33. ASSUME NEW p \in Pending, RecheckUnlocked(p) PROVE Reappears
  BY <1>33 DEF RecheckUnlocked
<1>34. ASSUME NEW p \in Pending, RecheckGeneration(p) PROVE Reappears
  BY <1>34 DEF RecheckGeneration
<1>35. ASSUME NEW p \in Pending, Register(p) PROVE Reappears
  BY <1>35 DEF Register
<1>36. ASSUME NEW c \in Connects, Disconnect(c) PROVE Reappears
  BY <1>36 DEF Disconnect
<1>37. ASSUME NEW c \in Connects, RemoteClose(c) PROVE Reappears
  BY <1>37 DEF RemoteClose
<1>38. CASE ThrottleCools
  BY <1>38 DEF ThrottleCools
<1>39. CASE Restart
  BY <1>39 DEF Restart
<1>40. CASE UNCHANGED vars
  BY <1>40 DEF vars
<1> QED
  BY <1>1, <1>2, <1>3, <1>4, <1>5, <1>6, <1>7, <1>8, <1>9, <1>10, <1>11,
    <1>12, <1>13, <1>14, <1>15, <1>16, <1>17, <1>18, <1>19, <1>20, <1>21,
    <1>22, <1>23, <1>24, <1>25, <1>26, <1>27, <1>28, <1>29, <1>30, <1>31,
    <1>32, <1>33, <1>34, <1>35, <1>36, <1>37, <1>38, <1>39, <1>40
  DEF Next, Create, Unlock, Change, GuessStep, Lock, Seal, Connect,
    OpenSftp, PendingStep, Guessers, Pending

\* A secret deleted during a password change stays deleted
\* (apply_vault_rotation).
THEOREM DeletionsHold == Spec => DeletedStaysDeleted
<1>1. TypeOK /\ [Next]_vars => [Reappears]_vars
  BY DeletedStep
<1> QED
  BY <1>1, TypeCorrect, PTL DEF Spec, DeletedStaysDeleted, Reappears

-----------------------------------------------------------------------------
(* The theorems about the data at rest *)

\* Passwords and seals agree at the start.
LEMMA SecretsInit == Init => Secrets
<1> SUFFICES ASSUME Init PROVE Secrets
  OBVIOUS
<1>1. SealedTogether
  <2> SUFFICES ASSUME NEW r \in Records, records[r] # NoBlob
               PROVE  records[r].pw = master
    BY DEF SealedTogether
  <2>1. records[r] \in {[pw |-> p, by |-> NoRequest] : p \in {StartPassword}}
    BY DEF Init
  <2> QED
    BY <2>1 DEF Init
<1>2. StoreOpensVault
  BY DEF Init, StoreOpensVault, Unlocked
<1> QED
  BY <1>1, <1>2, Kinds
  DEF Init, Secrets, VaultExists, CreatorHoldsMaster, VerifiedIsMaster,
      SetterHoldsMaster, SealerHoldsMaster, UnsealerHoldsMaster

\* As long as no change commits between the two writes of a create, what is
\* read from the store, verified, or about to be set is the password the
\* verifier accepts - whatever else interleaves (vault_create,
\* change_master_password).
THEOREM SecretsHoldUnlessOvertaken ==
  Spec /\ [][CommitsAfterCreates]_vars => []Secrets
<1>1. IInv /\ Secrets /\ [Next]_vars /\ [CommitsAfterCreates]_vars => Secrets'
  <2> SUFFICES ASSUME IInv, Secrets, [Next]_vars, [CommitsAfterCreates]_vars
               PROVE  Secrets'
    OBVIOUS
  <2>1. CommitsAfterCreates
    BY DEF CommitsAfterCreates, vars
  <2> QED
    BY <2>1, SecretsStep DEF IInv
<1> QED
  BY <1>1, SecretsInit, Invariance, PTL DEF Spec

\* So the store opens the vault, every secret is sealed under its password and
\* every unseal works, also while vaults are created and passwords changed side
\* by side: the window of vault_create is the only one (vault_create_in).
THEOREM StoreMatchesUnlessOvertaken ==
  Spec /\ [][CommitsAfterCreates]_vars
    => [](StoreOpensVault /\ SealedTogether /\ UnsealWorks)
<1>1. Secrets => StoreOpensVault /\ SealedTogether /\ UnsealWorks
  BY DEF Secrets, UnsealerHoldsMaster, SealedTogether, UnsealWorks
<1> QED
  BY <1>1, SecretsHoldUnlessOvertaken, PTL

\* The vault was there when the program was installed, or nobody changes its
\* password: then no change can overtake a create.
CreatedBeforeChanged == StartPassword # NoPassword \/ Changes = {}

NoneCreating ==
  StartPassword # NoPassword => \A k \in Creates : pc[k] # "createSet"

\* A step of a call that is no create.
LEMMA OtherCallsCreateNothing ==
  ASSUME TypeOK, NoneCreating, NEW r \in Requests \ Creates,
         \A q \in Requests \ {r} : pc'[q] = pc[q]
  PROVE  NoneCreating'
BY Kinds DEF NoneCreating

\* Where there is a vault, no create gets to its second write.
LEMMA NoneCreatingStep ==
  ASSUME TypeOK, VaultExists, NoneCreating, [Next]_vars
  PROVE  NoneCreating'
<1> USE Kinds, Apart DEF TypeOK
<1>1. ASSUME NEW k \in Creates, Create(k) PROVE NoneCreating'
  BY <1>1 DEF Create, CreateBegin, CreateVerifier, CreateSet, Goto, Return,
              VaultExists, NoneCreating
<1>2. ASSUME NEW r \in Requests \ Creates,
             \/ r \in Guessers /\ GuessStep(r)
             \/ r \in Seals /\ Seal(r)
             \/ r \in Unlocks /\ (UnlockBegin(r) \/ UnlockGuard(r))
      PROVE  NoneCreating'
  <2>1. \A q \in Requests \ {r} : pc'[q] = pc[q]
    BY <1>2 DEF GuessStep, GuessBegin, GuessVerify, GuessUpgrade, SetPassword,
       CheckStillCurrent, ClearAgain, Accept, Seal, SealBegin, SealWrite,
       UnlockBegin, UnlockGuard, Goto, Return
  <2> QED BY <2>1, OtherCallsCreateNothing
<1>3. ASSUME NEW c \in Changes,
             \/ ChangeBegin(c) \/ ChangeQueue(c) \/ ChangeAcquire(c)
             \/ ChangeTimeout(c) \/ ChangeSnapshot(c) \/ ChangeRecheck(c)
             \/ ChangeCommit(c)
      PROVE  NoneCreating'
  <2>1. \A q \in Requests \ {c} : pc'[q] = pc[q]
    BY <1>3 DEF ChangeBegin, ChangeQueue, ChangeAcquire, ChangeTimeout,
       ChangeSnapshot, ChangeRecheck, ChangeCommit, Goto, Return
  <2> QED BY <2>1, OtherCallsCreateNothing
<1>4. ASSUME NEW r \in Requests \ Creates,
             \/ r \in Locks /\ Lock(r)
             \/ r \in Deletes /\ Delete(r)
             \/ r \in Pending /\ PendingStep(r)
             \/ r \in Connects /\ Connect(r)
             \/ r \in Opens /\ OpenSftp(r)
      PROVE  NoneCreating'
  <2>1. \A q \in Requests \ {r} : pc'[q] = pc[q]
    BY <1>4 DEF Lock, LockBump, LockKillSessions, LockCloseSftp, LockClear,
       Delete, PendingStep, CaptureUnlocked, CaptureGeneration,
       RecheckUnlocked, RecheckGeneration, Register, Connect, ConnectResolve,
       ConnectUnseal, ConnectHandshake, OpenSftp, OpenRequest, OpenAnswer, Goto
  <2> QED BY <2>1, OtherCallsCreateNothing
<1>5. ASSUME \A k \in Creates : pc'[k] \in {pc[k], "idle", "done"}
      PROVE  NoneCreating'
  BY <1>5 DEF NoneCreating
<1>6. ASSUME NEW c \in Connects, Disconnect(c) \/ RemoteClose(c)
      PROVE  NoneCreating'
  BY <1>5, <1>6 DEF Disconnect, RemoteClose
<1>7. CASE ThrottleCools \/ Restart \/ UNCHANGED vars
  BY <1>5, <1>7 DEF ThrottleCools, Restart, vars
<1> QED
  BY <1>1, <1>2, <1>3, <1>4, <1>6, <1>7 DEF Next, Unlock, Change

\* What is read from the store, verified, or about to be set is the password
\* the verifier accepts.
THEOREM SecretsHold ==
  ASSUME CreatedBeforeChanged
  PROVE  Spec => []Secrets
<1>1. Init => Secrets /\ NoneCreating
  BY SecretsInit, Kinds DEF Init, NoneCreating
<1>2. IInv /\ Secrets /\ NoneCreating /\ [Next]_vars
        => Secrets' /\ NoneCreating'
  <2> SUFFICES ASSUME IInv, Secrets, NoneCreating, [Next]_vars
               PROVE  Secrets' /\ NoneCreating'
    OBVIOUS
  <2>1. CommitsAfterCreates
    BY CreatedBeforeChanged
    DEF CreatedBeforeChanged, NoneCreating, CommitsAfterCreates
  <2>2. NoneCreating'
    BY NoneCreatingStep DEF IInv, Secrets
  <2> QED
    BY <2>1, <2>2, SecretsStep DEF IInv
<1> QED
  BY <1>1, <1>2, Invariance, PTL DEF Spec

\* Every stored secret is sealed under the password the verifier accepts
\* (VaultRotationLock, apply_vault_rotation).
THEOREM RecordsSealedTogether ==
  ASSUME CreatedBeforeChanged
  PROVE  Spec => []SealedTogether
<1>1. Secrets => SealedTogether
  BY DEF Secrets
<1> QED
  BY <1>1, CreatedBeforeChanged, SecretsHold, PTL

\* The password in memory opens the vault on disk
\* (vault_unlock_in, change_master_password).
THEOREM StoreMatchesVault ==
  ASSUME CreatedBeforeChanged
  PROVE  Spec => []StoreOpensVault
<1>1. Secrets => StoreOpensVault
  BY DEF Secrets
<1> QED
  BY <1>1, CreatedBeforeChanged, SecretsHold, PTL

\* A connect unseals its record under the password it copied
\* (resolve_connection).
THEOREM UnsealsWork ==
  ASSUME CreatedBeforeChanged
  PROVE  Spec => []UnsealWorks
<1>1. Secrets => UnsealWorks
  BY DEF Secrets, UnsealerHoldsMaster, SealedTogether, UnsealWorks
<1> QED
  BY <1>1, CreatedBeforeChanged, SecretsHold, PTL

-----------------------------------------------------------------------------
(* The data at rest behaves as VaultSeal says *)

AbstractStep == [SealedData!Next]_(SealedData!vars)

\* The start is a start of VaultSeal.
LEMMA AbstractInit == Init => SealedData!Init
<1> SUFFICES ASSUME Init PROVE SealedData!Init
  OBVIOUS
<1>1. \A r \in Records : records[r].pw \in {master, NoPassword}
  <2> TAKE r \in Records
  <2>1. \/ records[r] = NoBlob
        \/ records[r] \in {[pw |-> p, by |-> NoRequest] : p \in {StartPassword}}
    BY DEF Init
  <2> QED
    BY <2>1 DEF Init, NoBlob
<1> QED
  BY <1>1, PasswordsAssumption DEF Init, SealedData!Init

\* A step that leaves the verifier and the rows alone stutters.
LEMMA AtRest ==
  ASSUME UNCHANGED <<master, records>>
  PROVE  AbstractStep
BY DEF AbstractStep, SealedData!vars

\* Every step is a step of VaultSeal or a stutter.
LEMMA AbstractStepHolds ==
  ASSUME TypeOK, HoldsPassword, Secrets, [Next]_vars
  PROVE  AbstractStep
<1> USE Kinds, PasswordsAssumption DEF TypeOK
<1>1. ASSUME NEW k \in Creates, CreateBegin(k) PROVE AbstractStep
  BY <1>1, AtRest DEF CreateBegin
<1>2. ASSUME NEW k \in Creates, CreateVerifier(k) PROVE AbstractStep
  <2>1. CASE UNCHANGED <<master, records>>
    BY <2>1, AtRest
  <2>2. CASE ~UNCHANGED <<master, records>>
    <3>1. held[k] \in Passwords
      BY <1>2, <2>2 DEF CreateVerifier, Goto, HoldsPassword, HeldIsPassword,
         HoldingSteps
    <3>2. SealedData!Create(held[k])
      BY <1>2, <2>2 DEF CreateVerifier, SealedData!Create
    <3> QED
      BY <3>1, <3>2 DEF AbstractStep, SealedData!Next
  <2> QED
    BY <2>1, <2>2
<1>3. ASSUME NEW k \in Creates, CreateSet(k) PROVE AbstractStep
  BY <1>3, AtRest DEF CreateSet
<1>4. ASSUME NEW u \in Unlocks, UnlockBegin(u) PROVE AbstractStep
  BY <1>4, AtRest DEF UnlockBegin
<1>5. ASSUME NEW u \in Unlocks, UnlockGuard(u) PROVE AbstractStep
  BY <1>5, AtRest DEF UnlockGuard
<1>6. ASSUME NEW c \in Changes, ChangeBegin(c) PROVE AbstractStep
  BY <1>6, AtRest DEF ChangeBegin
<1>7. ASSUME NEW c \in Changes, ChangeQueue(c) PROVE AbstractStep
  BY <1>7, AtRest DEF ChangeQueue
<1>8. ASSUME NEW c \in Changes, ChangeAcquire(c) PROVE AbstractStep
  BY <1>8, AtRest DEF ChangeAcquire
<1>9. ASSUME NEW c \in Changes, ChangeTimeout(c) PROVE AbstractStep
  BY <1>9, AtRest DEF ChangeTimeout
<1>10. ASSUME NEW c \in Changes, ChangeSnapshot(c) PROVE AbstractStep
  BY <1>10, AtRest DEF ChangeSnapshot
<1>11. ASSUME NEW c \in Changes, ChangeRecheck(c) PROVE AbstractStep
  BY <1>11, AtRest DEF ChangeRecheck
<1>12. ASSUME NEW c \in Changes, ChangeCommit(c) PROVE AbstractStep
  <2>1. CASE UNCHANGED <<master, records>>
    BY <2>1, AtRest
  <2>2. CASE ~UNCHANGED <<master, records>>
    <3>1. /\ pc[c] = "commit"
          /\ records = snapshot[c]
          /\ records' = Resealed(c)
          /\ master' = held[c]
      BY <1>12, <2>2 DEF ChangeCommit
    <3>2. held[c] \in Passwords /\ guess[c] \in Passwords
      BY <3>1 DEF HoldsPassword, HeldIsPassword, GuessIsPassword,
         HoldingSteps
    <3>3. master # NoPassword
      BY <3>1, <3>2 DEF Secrets, VerifiedIsMaster
    <3>4. ASSUME NEW r \in Records
          PROVE  records'[r].pw = IF records[r].pw = NoPassword
                                  THEN NoPassword ELSE held[c]
      <4>1. records[r] = NoBlob <=> records[r].pw = NoPassword
        BY RecordTypes DEF NoBlob
      <4> QED
        BY <3>1, <4>1 DEF Resealed, NoBlob
    <3>5. SealedData!Rotate(held[c])
      BY <3>1, <3>3, <3>4 DEF SealedData!Rotate
    <3>6. \E p \in Passwords : SealedData!Create(p) \/ SealedData!Rotate(p)
      BY <3>2, <3>5 DEF SealedData!Create, SealedData!Rotate
    <3> QED
      BY <3>6 DEF AbstractStep, SealedData!Next
  <2> QED
    BY <2>1, <2>2
<1>13. ASSUME NEW r \in Guessers, GuessBegin(r) PROVE AbstractStep
  BY <1>13, AtRest DEF GuessBegin
<1>14. ASSUME NEW r \in Guessers, GuessVerify(r) PROVE AbstractStep
  BY <1>14, AtRest DEF GuessVerify, Accept
<1>15. ASSUME NEW r \in Guessers, GuessUpgrade(r) PROVE AbstractStep
  <2>1. UNCHANGED <<master, records>>
    BY <1>15 DEF GuessUpgrade, Secrets, VerifiedIsMaster
  <2> QED
    BY <2>1, AtRest
<1>16. ASSUME NEW r \in Guessers, SetPassword(r) PROVE AbstractStep
  BY <1>16, AtRest DEF SetPassword
<1>17. ASSUME NEW r \in Guessers, CheckStillCurrent(r) PROVE AbstractStep
  BY <1>17, AtRest DEF CheckStillCurrent
<1>18. ASSUME NEW r \in Guessers, ClearAgain(r) PROVE AbstractStep
  BY <1>18, AtRest DEF ClearAgain
<1>19. ASSUME NEW l \in Locks, LockBump(l) PROVE AbstractStep
  BY <1>19, AtRest DEF LockBump
<1>20. ASSUME NEW l \in Locks, LockKillSessions(l) PROVE AbstractStep
  BY <1>20, AtRest DEF LockKillSessions
<1>21. ASSUME NEW l \in Locks, LockCloseSftp(l) PROVE AbstractStep
  BY <1>21, AtRest DEF LockCloseSftp
<1>22. ASSUME NEW l \in Locks, LockClear(l) PROVE AbstractStep
  BY <1>22, AtRest DEF LockClear
<1>23. ASSUME NEW s \in Seals, SealBegin(s) PROVE AbstractStep
  BY <1>23, AtRest DEF SealBegin
<1>24. ASSUME NEW s \in Seals, SealWrite(s) PROVE AbstractStep
  <2>1. PICK r \in Records :
          records' = [records EXCEPT ![r] = [pw |-> held[s], by |-> s]]
    BY <1>24 DEF SealWrite
  <2>2. held[s] \in Passwords /\ held[s] = master
    BY <1>24 DEF SealWrite, HoldsPassword, HeldIsPassword, HoldingSteps,
       Secrets, SealerHoldsMaster
  <2>3. master' = master
    BY <1>24 DEF SealWrite
  <2>4. SealedData!Put(r)
    BY <2>1, <2>2, <2>3 DEF SealedData!Put
  <2> QED
    BY <2>4 DEF AbstractStep, SealedData!Next
<1>25. ASSUME NEW d \in Deletes, Delete(d) PROVE AbstractStep
  <2>1. PICK r \in Records : records' = [records EXCEPT ![r] = NoBlob]
    BY <1>25 DEF Delete
  <2>2. SealedData!Remove(r)
    BY <1>25, <2>1 DEF Delete, NoBlob, SealedData!Remove
  <2> QED
    BY <2>2 DEF AbstractStep, SealedData!Next
<1>26. ASSUME NEW p \in Pending, CaptureUnlocked(p) PROVE AbstractStep
  BY <1>26, AtRest DEF CaptureUnlocked
<1>27. ASSUME NEW p \in Pending, CaptureGeneration(p) PROVE AbstractStep
  BY <1>27, AtRest DEF CaptureGeneration
<1>28. ASSUME NEW c \in Connects, ConnectResolve(c) PROVE AbstractStep
  BY <1>28, AtRest DEF ConnectResolve
<1>29. ASSUME NEW c \in Connects, ConnectUnseal(c) PROVE AbstractStep
  BY <1>29, AtRest DEF ConnectUnseal
<1>30. ASSUME NEW c \in Connects, ConnectHandshake(c) PROVE AbstractStep
  BY <1>30, AtRest DEF ConnectHandshake
<1>31. ASSUME NEW o \in Opens, OpenRequest(o) PROVE AbstractStep
  BY <1>31, AtRest DEF OpenRequest
<1>32. ASSUME NEW o \in Opens, OpenAnswer(o) PROVE AbstractStep
  BY <1>32, AtRest DEF OpenAnswer
<1>33. ASSUME NEW p \in Pending, RecheckUnlocked(p) PROVE AbstractStep
  BY <1>33, AtRest DEF RecheckUnlocked
<1>34. ASSUME NEW p \in Pending, RecheckGeneration(p) PROVE AbstractStep
  BY <1>34, AtRest DEF RecheckGeneration
<1>35. ASSUME NEW p \in Pending, Register(p) PROVE AbstractStep
  BY <1>35, AtRest DEF Register
<1>36. ASSUME NEW c \in Connects, Disconnect(c) PROVE AbstractStep
  BY <1>36, AtRest DEF Disconnect
<1>37. ASSUME NEW c \in Connects, RemoteClose(c) PROVE AbstractStep
  BY <1>37, AtRest DEF RemoteClose
<1>38. CASE ThrottleCools
  BY <1>38, AtRest DEF ThrottleCools
<1>39. CASE Restart
  BY <1>39, AtRest DEF Restart
<1>40. CASE UNCHANGED vars
  BY <1>40, AtRest DEF vars
<1> QED
  BY <1>1, <1>2, <1>3, <1>4, <1>5, <1>6, <1>7, <1>8, <1>9, <1>10, <1>11,
    <1>12, <1>13, <1>14, <1>15, <1>16, <1>17, <1>18, <1>19, <1>20, <1>21,
    <1>22, <1>23, <1>24, <1>25, <1>26, <1>27, <1>28, <1>29, <1>30, <1>31,
    <1>32, <1>33, <1>34, <1>35, <1>36, <1>37, <1>38, <1>39, <1>40
  DEF Next, Create, Unlock, Change, GuessStep, Lock, Seal, Connect,
    OpenSftp, PendingStep, Guessers, Pending

\* Whatever calls interleave, the data at rest is one password over all
\* secrets, and a change of it replaces every seal at once - as long as no
\* change overtakes a create.
THEOREM VaultSealUnlessOvertaken ==
  Spec /\ [][CommitsAfterCreates]_vars => ImplementsVaultSeal
<1>1. IInv /\ Secrets /\ [Next]_vars => [SealedData!Next]_(SealedData!vars)
  BY AbstractStepHolds DEF IInv, AbstractStep
<1> QED
  BY <1>1, AbstractInit, SecretsHoldUnlessOvertaken, Invariance, PTL
  DEF Spec, ImplementsVaultSeal, SealedData!Spec

\* The same where the vault was there before any change.
THEOREM VaultSealRefined ==
  ASSUME CreatedBeforeChanged
  PROVE  Spec => ImplementsVaultSeal
<1>1. IInv /\ Secrets /\ [Next]_vars => [SealedData!Next]_(SealedData!vars)
  BY AbstractStepHolds DEF IInv, AbstractStep
<1> QED
  BY <1>1, AbstractInit, CreatedBeforeChanged, SecretsHold, Invariance, PTL
  DEF Spec, ImplementsVaultSeal, SealedData!Spec

-----------------------------------------------------------------------------
(* What a session outlives, when no lock begins between the recheck of a   *)
(* connect and its registration.                                           *)

\* What terminal_connect_in does not prevent: a lock bumps the generation
\* only while no connect stands between its recheck and its registration.
BumpsBetweenConnects ==
  generation' > generation => \A c \in Connects : pc[c] # "insert"

\* A connect that is about to register is current, and so is every session,
\* but for those the kill of a lock that has begun will end.
SessionsCurrent ==
  /\ \A c \in Connects : pc[c] = "insert" => captured[c] = generation
  /\ \A c \in sessions : \/ captured[c] = generation
                         \/ \E l \in Locks : pc[l] = "kill"

\* A step of one call that neither locks nor registers.
CallOf(r) ==
  /\ generation' = generation /\ sessions' = sessions
  /\ \A q \in Requests \ {r} : pc'[q] = pc[q] /\ captured'[q] = captured[q]

LEMMA CallKeepsCurrent ==
  ASSUME TypeOK, RegisteredReturned, SessionsCurrent,
         NEW r \in Requests \ Locks, CallOf(r), pc[r] # "done",
         r \in Connects /\ pc'[r] = "insert" => captured'[r] = generation
  PROVE  SessionsCurrent'
<1>1. r \notin sessions
  BY DEF RegisteredReturned
<1>2. sessions \subseteq Requests /\ Locks \subseteq Requests
      /\ Connects \subseteq Requests
  BY Kinds DEF TypeOK
<1> QED BY <1>1, <1>2 DEF CallOf, SessionsCurrent

\* A return is a step of its call.
LEMMA ReturnIsCall ==
  ASSUME TypeOK, NEW r \in Requests, Return(r)
  PROVE  pc'[r] = "done"
         /\ \A q \in Requests \ {r} : pc'[q] = pc[q] /\ captured'[q] = captured[q]
BY DEF Return, TypeOK

\* Sessions stay current.
LEMMA CurrentStep ==
  ASSUME TypeOK, RegisteredReturned, SessionsCurrent, [Next]_vars,
         BumpsBetweenConnects
  PROVE  SessionsCurrent'
<1> USE Kinds, Apart DEF TypeOK
<1>1. ASSUME NEW k \in Creates, Create(k) PROVE SessionsCurrent'
  <2>1. CallOf(k) /\ pc[k] # "done"
    BY <1>1, ReturnIsCall
    DEF Create, CreateBegin, CreateVerifier, CreateSet, Goto, CallOf
  <2> QED BY <2>1, CallKeepsCurrent
<1>2. ASSUME NEW r \in Guessers, GuessStep(r) PROVE SessionsCurrent'
  <2>1. CallOf(r) /\ pc[r] # "done"
    BY <1>2, ReturnIsCall
    DEF GuessStep, GuessBegin, GuessVerify, GuessUpgrade, SetPassword,
        CheckStillCurrent, ClearAgain, Accept, Goto, CallOf
  <2> QED BY <2>1, CallKeepsCurrent
<1>3. ASSUME NEW u \in Unlocks, UnlockBegin(u) \/ UnlockGuard(u)
      PROVE  SessionsCurrent'
  <2>1. CallOf(u) /\ pc[u] # "done"
    BY <1>3 DEF UnlockBegin, UnlockGuard, Goto, CallOf
  <2> QED BY <2>1, CallKeepsCurrent
<1>4. ASSUME NEW c \in Changes,
             \/ ChangeBegin(c) \/ ChangeQueue(c) \/ ChangeAcquire(c)
             \/ ChangeTimeout(c) \/ ChangeSnapshot(c) \/ ChangeRecheck(c)
             \/ ChangeCommit(c)
      PROVE  SessionsCurrent'
  <2>1. CallOf(c) /\ pc[c] # "done"
    BY <1>4, ReturnIsCall
    DEF ChangeBegin, ChangeQueue, ChangeAcquire, ChangeTimeout,
        ChangeSnapshot, ChangeRecheck, ChangeCommit, Goto, CallOf
  <2> QED BY <2>1, CallKeepsCurrent
<1>5. ASSUME NEW s \in Seals, Seal(s) PROVE SessionsCurrent'
  <2>1. CallOf(s) /\ pc[s] # "done"
    BY <1>5, ReturnIsCall DEF Seal, SealBegin, SealWrite, Goto, CallOf
  <2> QED BY <2>1, CallKeepsCurrent
<1>6. ASSUME NEW d \in Deletes, Delete(d) PROVE SessionsCurrent'
  <2>1. CallOf(d) /\ pc[d] # "done"
    BY <1>6 DEF Delete, Goto, CallOf
  <2> QED BY <2>1, CallKeepsCurrent
<1>7. ASSUME NEW p \in Pending,
             CaptureUnlocked(p) \/ CaptureGeneration(p) \/ RecheckUnlocked(p)
      PROVE  SessionsCurrent'
  <2>1. CallOf(p) /\ pc[p] # "done" /\ pc'[p] # "insert"
    BY <1>7 DEF CaptureUnlocked, CaptureGeneration, RecheckUnlocked, Goto,
                CallOf
  <2> QED BY <2>1, CallKeepsCurrent
<1>8. ASSUME NEW p \in Pending, RecheckGeneration(p) PROVE SessionsCurrent'
  <2>1. CallOf(p) /\ pc[p] # "done"
        /\ (pc'[p] = "insert" => captured'[p] = generation)
    BY <1>8 DEF RecheckGeneration, Goto, CallOf
  <2> QED BY <2>1, CallKeepsCurrent
<1>9. ASSUME NEW c \in Connects,
             ConnectResolve(c) \/ ConnectUnseal(c) \/ ConnectHandshake(c)
      PROVE  SessionsCurrent'
  <2>1. CallOf(c) /\ pc[c] # "done" /\ pc'[c] # "insert"
    BY <1>9 DEF ConnectResolve, ConnectUnseal, ConnectHandshake, Goto, CallOf
  <2> QED BY <2>1, CallKeepsCurrent
<1>10. ASSUME NEW o \in Opens, OpenRequest(o) \/ OpenAnswer(o)
       PROVE  SessionsCurrent'
  <2>1. CallOf(o) /\ pc[o] # "done"
    BY <1>10 DEF OpenRequest, OpenAnswer, Goto, CallOf
  <2> QED BY <2>1, CallKeepsCurrent
<1>11. ASSUME NEW p \in Pending, Register(p) PROVE SessionsCurrent'
  <2>1. /\ generation' = generation /\ captured' = captured
        /\ pc[p] = "insert" /\ pc' = [pc EXCEPT ![p] = "done"]
        /\ sessions' = sessions
             \/ (p \in Connects /\ sessions' = sessions \cup {p})
    BY <1>11 DEF Register, Goto
  <2> QED BY <2>1 DEF SessionsCurrent
<1>12. ASSUME NEW l \in Locks, LockBump(l) PROVE SessionsCurrent'
  <2>1. /\ generation' = generation + 1 /\ captured' = captured
        /\ sessions' = sessions /\ pc' = [pc EXCEPT ![l] = "kill"]
    BY <1>12 DEF LockBump, Goto
  <2>2. \A c \in Connects : pc[c] # "insert"
    BY <2>1 DEF BumpsBetweenConnects
  <2> QED BY <2>1, <2>2 DEF SessionsCurrent
<1>13. ASSUME NEW l \in Locks, LockKillSessions(l) PROVE SessionsCurrent'
  BY <1>13 DEF LockKillSessions, Goto, SessionsCurrent
<1>14. ASSUME NEW l \in Locks, LockCloseSftp(l) \/ LockClear(l)
       PROVE  SessionsCurrent'
  <2>1. /\ UNCHANGED <<generation, sessions, captured>> /\ pc[l] # "kill"
        /\ \E s \in {"forget", "done"} : pc' = [pc EXCEPT ![l] = s]
    BY <1>14 DEF LockCloseSftp, LockClear, Goto
  <2> QED BY <2>1 DEF SessionsCurrent
<1>15. ASSUME UNCHANGED <<generation, pc, captured>>,
              sessions' \subseteq sessions
       PROVE  SessionsCurrent'
  BY <1>15 DEF SessionsCurrent
<1>16. ASSUME NEW c \in Connects, Disconnect(c) \/ RemoteClose(c)
       PROVE  SessionsCurrent'
  BY <1>15, <1>16 DEF Disconnect, RemoteClose
<1>17. CASE ThrottleCools \/ UNCHANGED vars
  BY <1>15, <1>17 DEF ThrottleCools, vars
<1>18. CASE Restart
  BY <1>18 DEF Restart, SessionsCurrent
<1> QED
  BY <1>1, <1>2, <1>3, <1>4, <1>5, <1>6, <1>7, <1>8, <1>9, <1>10, <1>11,
     <1>12, <1>13, <1>14, <1>16, <1>17, <1>18
  DEF Next, Unlock, Change, Lock, Connect, OpenSftp, PendingStep

\* No session outlives a lock as long as no lock begins between a connect's
\* recheck of the generation and its registration: that window is the only
\* way out (terminal_connect, SessionRegistry).
THEOREM NoSessionOutlivesSpacedLocks ==
  Spec /\ [][BumpsBetweenConnects]_vars => []NoSessionOutlivesLock
<1>1. Init => SessionsCurrent
  BY DEF Init, SessionsCurrent, Requests
<1>2. IInv /\ SessionsCurrent /\ [Next]_vars /\ [BumpsBetweenConnects]_vars
        => SessionsCurrent'
  <2> SUFFICES ASSUME IInv, SessionsCurrent, [Next]_vars,
                      [BumpsBetweenConnects]_vars
               PROVE  SessionsCurrent'
    OBVIOUS
  <2>1. BumpsBetweenConnects
    BY DEF BumpsBetweenConnects, vars, IInv, TypeOK
  <2> QED BY <2>1, CurrentStep DEF IInv, Doom
<1>3. SessionsCurrent => NoSessionOutlivesLock
  BY DEF SessionsCurrent, NoSessionOutlivesLock, Locking
<1> QED BY <1>1, <1>2, <1>3, Invariance, PTL DEF Spec

-----------------------------------------------------------------------------
(* What a locked vault leaves open, when no setter clears the store again.  *)

\* An unlock or a change that finds itself overtaken by a lock clears the
\* store: this hypothesis excludes that step and no other.
NoLateClear == \A r \in Guessers : ~ClearAgain(r)

\* A settled session is open only in an unlocked vault, and not behind the
\* back of a lock that has ended the sessions.
SettledSessions ==
  /\ \A c \in settled : pc[c] = "done"
  /\ \/ sessions \cap settled = {}
     \/ Unlocked /\ \A l \in Locks : pc[l] \notin {"closeSftp", "forget"}

\* A step that leaves locks and sessions alone and does not lock the vault.
LeavesOpen ==
  /\ settled' = settled /\ sessions' \subseteq sessions
  /\ Unlocked => Unlocked'
  /\ \A c \in settled : pc[c] = "done" => pc'[c] = "done"
  /\ \A l \in Locks : pc'[l] \in {"closeSftp", "forget"} => pc'[l] = pc[l]

LEMMA OpenKeepsSettled ==
  ASSUME SettledSessions, LeavesOpen
  PROVE  SettledSessions'
BY DEF SettledSessions, LeavesOpen

\* A step of one call that is no lock.
LEMMA CallLeavesOpen ==
  ASSUME TypeOK, NEW r \in Requests \ Locks, pc[r] # "done",
         sessions' = sessions, settled' = settled, Unlocked => Unlocked',
         \A q \in Requests \ {r} : pc'[q] = pc[q]
  PROVE  LeavesOpen
BY Kinds DEF LeavesOpen, TypeOK

\* A settled session stays open only while the vault is unlocked.
LEMMA SettledStep ==
  ASSUME TypeOK, HoldsPassword, SettledSessions, [Next]_vars, NoLateClear
  PROVE  SettledSessions'
<1> USE Kinds, Apart, PasswordsAssumption DEF TypeOK
<1>1. ASSUME NEW k \in Creates, Create(k) PROVE SettledSessions'
  <2>1. /\ pc[k] # "done" /\ sessions' = sessions /\ settled' = settled
        /\ \A q \in Requests \ {k} : pc'[q] = pc[q]
    BY <1>1, ReturnIsCall
    DEF Create, CreateBegin, CreateVerifier, CreateSet, Goto
  <2>2. store' = store \/ store' # NoPassword
    BY <1>1 DEF Create, CreateBegin, CreateVerifier, CreateSet, Goto,
                HoldsPassword, HeldIsPassword, HoldingSteps
  <2> QED BY <2>1, <2>2, CallLeavesOpen, OpenKeepsSettled DEF Unlocked
<1>2. ASSUME NEW r \in Guessers, GuessStep(r) PROVE SettledSessions'
  <2>1. /\ pc[r] # "done" /\ sessions' = sessions /\ settled' = settled
        /\ \A q \in Requests \ {r} : pc'[q] = pc[q]
    BY <1>2, ReturnIsCall
    DEF GuessStep, GuessBegin, GuessVerify, GuessUpgrade, SetPassword,
        CheckStillCurrent, ClearAgain, Accept, Goto
  <2>2. store' = store \/ store' # NoPassword
    BY <1>2
    DEF NoLateClear, GuessStep, GuessBegin, GuessVerify, GuessUpgrade,
        SetPassword, CheckStillCurrent, Accept, Goto, HoldsPassword,
        HeldIsPassword, HoldingSteps
  <2> QED BY <2>1, <2>2, CallLeavesOpen, OpenKeepsSettled DEF Unlocked
<1>3. ASSUME NEW u \in Unlocks, UnlockBegin(u) \/ UnlockGuard(u)
      PROVE  SettledSessions'
  <2>1. /\ pc[u] # "done" /\ sessions' = sessions /\ settled' = settled
        /\ store' = store /\ \A q \in Requests \ {u} : pc'[q] = pc[q]
    BY <1>3 DEF UnlockBegin, UnlockGuard, Goto
  <2> QED BY <2>1, CallLeavesOpen, OpenKeepsSettled DEF Unlocked
<1>4. ASSUME NEW c \in Changes,
             \/ ChangeBegin(c) \/ ChangeQueue(c) \/ ChangeAcquire(c)
             \/ ChangeTimeout(c) \/ ChangeSnapshot(c) \/ ChangeRecheck(c)
             \/ ChangeCommit(c)
      PROVE  SettledSessions'
  <2>1. /\ pc[c] # "done" /\ sessions' = sessions /\ settled' = settled
        /\ store' = store /\ \A q \in Requests \ {c} : pc'[q] = pc[q]
    BY <1>4, ReturnIsCall
    DEF ChangeBegin, ChangeQueue, ChangeAcquire, ChangeTimeout,
        ChangeSnapshot, ChangeRecheck, ChangeCommit, Goto
  <2> QED BY <2>1, CallLeavesOpen, OpenKeepsSettled DEF Unlocked
<1>5. ASSUME NEW s \in Seals, Seal(s) PROVE SettledSessions'
  <2>1. /\ pc[s] # "done" /\ sessions' = sessions /\ settled' = settled
        /\ store' = store /\ \A q \in Requests \ {s} : pc'[q] = pc[q]
    BY <1>5, ReturnIsCall DEF Seal, SealBegin, SealWrite, Goto
  <2> QED BY <2>1, CallLeavesOpen, OpenKeepsSettled DEF Unlocked
<1>6. ASSUME NEW d \in Deletes, Delete(d) PROVE SettledSessions'
  <2>1. /\ pc[d] # "done" /\ sessions' = sessions /\ settled' = settled
        /\ store' = store /\ \A q \in Requests \ {d} : pc'[q] = pc[q]
    BY <1>6 DEF Delete, Goto
  <2> QED BY <2>1, CallLeavesOpen, OpenKeepsSettled DEF Unlocked
<1>7. ASSUME NEW p \in Pending,
             \/ CaptureUnlocked(p) \/ CaptureGeneration(p)
             \/ RecheckUnlocked(p) \/ RecheckGeneration(p)
      PROVE  SettledSessions'
  <2>1. /\ pc[p] # "done" /\ sessions' = sessions /\ settled' = settled
        /\ store' = store /\ \A q \in Requests \ {p} : pc'[q] = pc[q]
    BY <1>7 DEF CaptureUnlocked, CaptureGeneration, RecheckUnlocked,
                RecheckGeneration, Goto
  <2> QED BY <2>1, CallLeavesOpen, OpenKeepsSettled DEF Unlocked
<1>8. ASSUME NEW c \in Connects,
             ConnectResolve(c) \/ ConnectUnseal(c) \/ ConnectHandshake(c)
      PROVE  SettledSessions'
  <2>1. /\ pc[c] # "done" /\ sessions' = sessions /\ settled' = settled
        /\ store' = store /\ \A q \in Requests \ {c} : pc'[q] = pc[q]
    BY <1>8 DEF ConnectResolve, ConnectUnseal, ConnectHandshake, Goto
  <2> QED BY <2>1, CallLeavesOpen, OpenKeepsSettled DEF Unlocked
<1>9. ASSUME NEW o \in Opens, OpenRequest(o) \/ OpenAnswer(o)
      PROVE  SettledSessions'
  <2>1. /\ pc[o] # "done" /\ sessions' = sessions /\ settled' = settled
        /\ store' = store /\ \A q \in Requests \ {o} : pc'[q] = pc[q]
    BY <1>9 DEF OpenRequest, OpenAnswer, Goto
  <2> QED BY <2>1, CallLeavesOpen, OpenKeepsSettled DEF Unlocked
<1>10. ASSUME NEW p \in Pending, Register(p) PROVE SettledSessions'
  <2>1. /\ pc[p] = "insert" /\ pc' = [pc EXCEPT ![p] = "done"]
        /\ store' = store
    BY <1>10 DEF Register, Goto
  <2>2. p \notin settled
    BY <2>1 DEF SettledSessions
  <2>3. CASE /\ sessions' = sessions \cup {p}
             /\ settled' = settled \cup {p}
             /\ Unlocked /\ ~\E l \in Locks : Locking(l)
    <3>1. \A l \in Locks : pc'[l] \notin {"closeSftp", "forget"}
      BY <2>1, <2>3 DEF Locking
    <3> QED BY <2>1, <2>3, <3>1 DEF SettledSessions, Unlocked
  <2>4. CASE settled' = settled /\ sessions' \subseteq sessions \cup {p}
    <3>1. sessions' \cap settled' \subseteq sessions \cap settled
      BY <2>2, <2>4
    <3> QED BY <2>1, <2>4, <3>1 DEF SettledSessions, Unlocked
  <2> QED BY <1>10, <2>3, <2>4 DEF Register
<1>11. ASSUME NEW l \in Locks, LockBump(l) PROVE SettledSessions'
  <2>1. UNCHANGED <<sessions, settled, store>>
        /\ pc[l] = "idle" /\ pc' = [pc EXCEPT ![l] = "kill"]
    BY <1>11 DEF LockBump, Goto
  <2> QED BY <2>1, OpenKeepsSettled DEF LeavesOpen, Unlocked
<1>12. ASSUME NEW l \in Locks, LockKillSessions(l) PROVE SettledSessions'
  <2>1. sessions' = {} /\ settled' = settled
        /\ pc[l] = "kill" /\ pc' = [pc EXCEPT ![l] = "closeSftp"]
    BY <1>12 DEF LockKillSessions, Goto, history
  <2> QED BY <2>1 DEF SettledSessions
<1>13. ASSUME NEW l \in Locks, LockCloseSftp(l) \/ LockClear(l)
       PROVE  SettledSessions'
  <2>1. /\ UNCHANGED <<sessions, settled>>
        /\ pc[l] \in {"closeSftp", "forget"}
        /\ \E s \in {"forget", "done"} : pc' = [pc EXCEPT ![l] = s]
    BY <1>13 DEF LockCloseSftp, LockClear, Goto, history
  <2>2. sessions \cap settled = {}
    BY <2>1 DEF SettledSessions
  <2> QED BY <2>1, <2>2 DEF SettledSessions
<1>14. ASSUME NEW c \in Connects, Disconnect(c) \/ RemoteClose(c)
       PROVE  SettledSessions'
  BY <1>14, OpenKeepsSettled
  DEF Disconnect, RemoteClose, LeavesOpen, Unlocked, history
<1>15. CASE ThrottleCools \/ UNCHANGED vars
  BY <1>15, OpenKeepsSettled
  DEF ThrottleCools, LeavesOpen, Unlocked, vars, live, history
<1>16. CASE Restart
  BY <1>16 DEF Restart, SettledSessions
<1> QED
  BY <1>1, <1>2, <1>3, <1>4, <1>5, <1>6, <1>7, <1>8, <1>9, <1>10, <1>11,
     <1>12, <1>13, <1>14, <1>15, <1>16
  DEF Next, Unlock, Change, Lock, Connect, OpenSftp, PendingStep

\* What was registered in an unlocked vault is gone when the vault is locked
\* and nobody works on that - unless an overtaken unlock or change cleared the
\* store: sessions that were opened while its password was there stay
\* (vault_unlock_in, install_rotated_password).
THEOREM LockedVaultHasNoSession ==
  Spec /\ [][NoLateClear]_vars => []LockedHasNoSession
<1>1. Init => SettledSessions
  BY DEF Init, SettledSessions
<1>2. IInv /\ SettledSessions /\ [Next]_vars /\ [NoLateClear]_vars
        => SettledSessions'
  <2> SUFFICES ASSUME IInv, SettledSessions, [Next]_vars, [NoLateClear]_vars
               PROVE  SettledSessions'
    OBVIOUS
  <2>1. CASE NoLateClear
    BY <2>1, SettledStep DEF IInv
  <2>2. CASE UNCHANGED vars
    BY <2>2, OpenKeepsSettled DEF LeavesOpen, Unlocked, vars, live, history
  <2> QED BY <2>1, <2>2
<1>3. SettledSessions => LockedHasNoSession
  BY DEF SettledSessions, LockedHasNoSession, Locking
<1> QED BY <1>1, <1>2, <1>3, Invariance, PTL DEF Spec

=============================================================================
