----------------------- MODULE BitwardenSync_proofs -----------------------
(***************************************************************************)
(* Proofs about BitwardenSync, for any rows, items, categories and bounds. *)
(* The inductive invariant has a part for each thing the sync relies on:   *)
(* how stamps are ordered, what a run that has read rows and items may     *)
(* still take for granted, what row and item last agreed on, where each    *)
(* row is filed, and whose each item is.                                   *)
(***************************************************************************)
EXTENDS BitwardenSync_steps

(* Stamps: none is from the future, and what a run holds is past. *)

HerePassed ==
  \A r \in Servers :
    /\ rows[r].updated <= clock /\ rows[r].synced <= clock
    /\ rows[r].revision <= clock /\ rows[r].mark <= clock
    /\ saving[r].at <= clock
RunPassed ==
  /\ \A r \in Servers :
       /\ run.listed[r].updated <= clock /\ run.listed[r].revision <= clock
       /\ run.marks[r] <= clock
  /\ \A i \in Items : run.served[i].revision <= clock
ItemsPassed ==
  /\ \A i \in Items : items[i].revision <= clock
  /\ \A a \in answer : a.revision <= clock
ListPassed ==
  /\ \A c \in pending : c.served.revision <= clock
  /\ \A p \in pulling : p.change.served.revision <= clock

\* A row there is was written once; an id without a row holds nothing.
RowShape ==
  \A r \in Servers :
    /\ rows[r].stored => rows[r].updated > 0
    /\ ~rows[r].stored => rows[r] = NoRow
    /\ run.listed[r].stored => run.listed[r].updated > 0
    /\ ~run.listed[r].stored => run.listed[r] = NoRow
    /\ saving[r] # NoSave => saving[r].at > 0

\* What the vault served is older than the item, or the item still.
ServedIsPast ==
  \A i \in Items :
    /\ run.served[i].revision <= items[i].revision
    /\ run.served[i].revision = items[i].revision =>
         items[i] = run.served[i]
    /\ run.served[i].state # "none" => items[i].state # "none"
    /\ items[i].revision = 0 => items[i] = Unused

Quiet == pc \in {"idle", "asked"} => run = NoRun

Stamps ==
  /\ HerePassed /\ RunPassed /\ ItemsPassed /\ ListPassed
  /\ RowShape /\ ServedIsPast /\ Quiet

\* Stamps are numbers, and ids name rows and items.
LEMMA Nats ==
  ASSUME TypeOK
  PROVE  /\ clock \in Nat
         /\ \A r \in Servers :
              /\ rows[r].updated \in Nat /\ rows[r].synced \in Nat
              /\ rows[r].revision \in Nat /\ rows[r].mark \in Nat
              /\ saving[r].at \in Nat
              /\ run.listed[r].updated \in Nat
              /\ run.listed[r].synced \in Nat
              /\ run.listed[r].revision \in Nat
              /\ run.marks[r] \in Nat
         /\ \A i \in Items : /\ items[i].revision \in Nat
                             /\ run.served[i].revision \in Nat
         /\ \A a \in answer : a.row \in Servers /\ a.item \in Items
                              /\ a.revision \in Nat
         /\ \A c \in pending : /\ c.item \in Items
                               /\ c.row \in Servers \cup {NoServer}
                               /\ c.served.revision \in Nat
         /\ \A p \in pulling : /\ p.change.item \in Items
                               /\ p.change.row \in Servers \cup {NoServer}
                               /\ p.change.served.revision \in Nat
<1>1. run \in Run
  BY DEF TypeOK
<1>2. \A r \in Servers : run.listed[r] \in Row /\ run.marks[r] \in Nat
  BY <1>1 DEF Run
<1>3. \A i \in Items : run.served[i] \in Item /\ items[i] \in Item
  BY <1>1 DEF Run, TypeOK
<1>4. \A r \in Servers : rows[r] \in Row /\ saving[r] \in Saving
  BY DEF TypeOK
<1>5. \A c \in pending : /\ c.item \in Items /\ c.served \in Item
                         /\ c.row \in Servers \cup {NoServer}
  BY DEF TypeOK, Change
<1>6. \A p \in pulling : /\ p.change.item \in Items
                         /\ p.change.row \in Servers \cup {NoServer}
                         /\ p.change.served \in Item
  BY DEF TypeOK, Pull, Change
<1>7. \A a \in answer : a.row \in Servers /\ a.item \in Items
                        /\ a.revision \in Nat
  BY DEF TypeOK, Answer
<1>8. clock \in Nat
  BY DEF TypeOK
<1> QED BY <1>2, <1>3, <1>4, <1>5, <1>6, <1>7, <1>8 DEF Row, Item, Saving

\* An upload is under way in the pass over the rows only, a pull only when
\* the approved list is applied.
LEMMA Alone ==
  ASSUME TypeOK
  PROVE  /\ pc # "rows" => answer = {}
         /\ pc # "apply" => pulling = {}
BY DEF TypeOK

LEMMA AloneNext ==
  ASSUME TypeOK'
  PROVE  /\ pc' # "rows" => answer' = {}
         /\ pc' # "apply" => pulling' = {}
BY DEF TypeOK

\* Stamps is inductive.
LEMMA StampsNext ==
  ASSUME TypeOK, TypeOK', Stamps, [Next]_vars
  PROVE  Stamps'
<1>1. ASSUME NEW r \in Servers, NEW c \in Cats \cup {NoCat},
             SaveStart(r, c)
      PROVE  Stamps'
  <2>1. HerePassed'
    BY <1>1, SaveStartDoes, Nats
       DEF RunAsWas, HerePassed, Stamps, Tick
  <2>2. RunPassed'
    BY <1>1, SaveStartDoes, Nats, ZeroFields
       DEF RunAsWas, HerePassed, RunPassed, Stamps, Tick
  <2>3. ItemsPassed'
    BY <1>1, SaveStartDoes, Nats
       DEF RunAsWas, ItemsPassed, Stamps, Tick
  <2>4. ListPassed'
    BY <1>1, SaveStartDoes, Nats
       DEF RunAsWas, ListPassed, RunPassed, ItemsPassed, Stamps, Tick
  <2>5. RowShape'
    BY <1>1, SaveStartDoes, Nats, ZeroFields
       DEF RunAsWas, RowShape, Stamps, HerePassed, Tick
  <2>6. ServedIsPast'
    BY <1>1, SaveStartDoes, Nats, ZeroFields
       DEF RunAsWas, ServedIsPast, Stamps, ItemsPassed, RunPassed, Tick
  <2>7. Quiet'
    BY <1>1, SaveStartDoes
       DEF RunAsWas, Quiet, Stamps
  <2> QED BY <2>1, <2>2, <2>3, <2>4, <2>5, <2>6, <2>7 DEF Stamps
<1>2. ASSUME NEW r \in Servers, SaveWrite(r)
      PROVE  Stamps'
  <2>1. HerePassed'
    BY <1>2, SaveWriteDoes, Nats, ZeroFields
       DEF RunAsWas, OthersKeep, HerePassed, Stamps, Tick
  <2>2. RunPassed'
    BY <1>2, SaveWriteDoes, Nats, ZeroFields
       DEF RunAsWas, OthersKeep, HerePassed, RunPassed, Stamps, Tick
  <2>3. ItemsPassed'
    BY <1>2, SaveWriteDoes, Nats
       DEF RunAsWas, OthersKeep, ItemsPassed, Stamps, Tick
  <2>4. ListPassed'
    BY <1>2, SaveWriteDoes, Nats
       DEF RunAsWas, OthersKeep, ListPassed, RunPassed, ItemsPassed, Stamps,
            Tick
  <2>5. RowShape'
    BY <1>2, SaveWriteDoes, Nats, ZeroFields
       DEF RunAsWas, OthersKeep, RowShape, Stamps, HerePassed, Tick
  <2>6. ServedIsPast'
    BY <1>2, SaveWriteDoes, Nats, ZeroFields
       DEF RunAsWas, OthersKeep, ServedIsPast, Stamps, ItemsPassed, RunPassed,
            Tick
  <2>7. Quiet'
    BY <1>2, SaveWriteDoes
       DEF RunAsWas, OthersKeep, Quiet, Stamps
  <2> QED BY <2>1, <2>2, <2>3, <2>4, <2>5, <2>6, <2>7 DEF Stamps
<1>3. ASSUME NEW r \in Servers, ServerDelete(r)
      PROVE  Stamps'
  <2>1. HerePassed'
    BY <1>3, ServerDeleteDoes, Nats, ZeroFields
       DEF RunAsWas, OthersKeep, HerePassed, Stamps, Tick
  <2>2. RunPassed'
    BY <1>3, ServerDeleteDoes, Nats, ZeroFields
       DEF RunAsWas, OthersKeep, HerePassed, RunPassed, Stamps, Tick
  <2>3. ItemsPassed'
    BY <1>3, ServerDeleteDoes, Nats
       DEF RunAsWas, OthersKeep, ItemsPassed, Stamps, Tick
  <2>4. ListPassed'
    BY <1>3, ServerDeleteDoes, Nats
       DEF RunAsWas, OthersKeep, ListPassed, RunPassed, ItemsPassed, Stamps,
            Tick
  <2>5. RowShape'
    BY <1>3, ServerDeleteDoes, Nats, ZeroFields
       DEF RunAsWas, OthersKeep, RowShape, Stamps, HerePassed, Tick
  <2>6. ServedIsPast'
    BY <1>3, ServerDeleteDoes, Nats, ZeroFields
       DEF RunAsWas, OthersKeep, ServedIsPast, Stamps, ItemsPassed, RunPassed,
            Tick
  <2>7. Quiet'
    BY <1>3, ServerDeleteDoes
       DEF RunAsWas, OthersKeep, Quiet, Stamps
  <2> QED BY <2>1, <2>2, <2>3, <2>4, <2>5, <2>6, <2>7 DEF Stamps
<1>4. ASSUME NEW c \in Cats, CategoryChanges(c)
      PROVE  Stamps'
  <2>1. HerePassed'
    BY <1>4, Nats
       DEF CategoryChanges, RunAsWas, HerePassed, Stamps, Tick
  <2>2. RunPassed'
    BY <1>4, Nats, ZeroFields
       DEF CategoryChanges, RunAsWas, HerePassed, RunPassed, Stamps, Tick
  <2>3. ItemsPassed'
    BY <1>4, Nats
       DEF CategoryChanges, RunAsWas, ItemsPassed, Stamps, Tick
  <2>4. ListPassed'
    BY <1>4, Nats
       DEF CategoryChanges, RunAsWas, ListPassed, RunPassed, ItemsPassed,
            Stamps, Tick
  <2>5. RowShape'
    BY <1>4, Nats, ZeroFields, NamesApart
       DEF CategoryChanges, RunAsWas, RowShape, Stamps, HerePassed, Tick
  <2>6. ServedIsPast'
    BY <1>4, Nats, ZeroFields
       DEF CategoryChanges, RunAsWas, ServedIsPast, Stamps, ItemsPassed,
            RunPassed, Tick
  <2>7. Quiet'
    BY <1>4
       DEF CategoryChanges, RunAsWas, Quiet, Stamps
  <2> QED BY <2>1, <2>2, <2>3, <2>4, <2>5, <2>6, <2>7 DEF Stamps
<1>5. ASSUME NEW i \in Items, Remote(i)
      PROVE  Stamps'
  <2>1. HerePassed'
    BY <1>5, Nats
       DEF Remote, Moves, HereKept, RunAsWas, HerePassed, Stamps, Tick
  <2>2. RunPassed'
    BY <1>5, Nats, ZeroFields
       DEF Remote, Moves, HereKept, RunAsWas, HerePassed, RunPassed, Stamps,
            Tick
  <2>3. ItemsPassed'
    BY <1>5, Nats
       DEF Remote, Moves, HereKept, RunAsWas, ItemsPassed, Stamps, Tick
  <2>4. ListPassed'
    BY <1>5, Nats
       DEF Remote, Moves, HereKept, RunAsWas, ListPassed, RunPassed,
            ItemsPassed, Stamps, Tick
  <2>5. RowShape'
    BY <1>5, Nats, ZeroFields
       DEF Remote, Moves, HereKept, RunAsWas, RowShape, Stamps, HerePassed,
            Tick
  <2>6. ServedIsPast'
    BY <1>5, Nats, ZeroFields
       DEF Remote, Moves, HereKept, RunAsWas, ServedIsPast, Stamps,
            ItemsPassed, RunPassed, Tick
  <2>7. Quiet'
    BY <1>5
       DEF Remote, Moves, HereKept, RunAsWas, Quiet, Stamps
  <2> QED BY <2>1, <2>2, <2>3, <2>4, <2>5, <2>6, <2>7 DEF Stamps
<1>6. ASSUME pc \in {"idle", "asked"}, NEW a \in SUBSET Change,
             Fetch(a)
      PROVE  Stamps'
  <2>1. HerePassed'
    BY <1>6, FetchDoes, Nats
       DEF RunGone, HereKept, ThereKept, HerePassed, Stamps, Tick
  <2>2. RunPassed'
    BY <1>6, FetchDoes, Nats, ZeroFields
       DEF RunGone, HereKept, ThereKept, HerePassed, RunPassed, Stamps, Tick,
            ItemsPassed
  <2>3. ItemsPassed'
    BY <1>6, FetchDoes, Nats
       DEF RunGone, HereKept, ThereKept, ItemsPassed, Stamps, Tick
  <2>4. ListPassed'
    BY <1>6, FetchDoes, Nats
       DEF RunGone, HereKept, ThereKept, ListPassed, RunPassed, ItemsPassed,
            Stamps, Tick
  <2>5. RowShape'
    BY <1>6, FetchDoes, Nats, ZeroFields
       DEF RunGone, HereKept, ThereKept, RowShape, Stamps, HerePassed, Tick
  <2>6. ServedIsPast'
    BY <1>6, FetchDoes, Nats, ZeroFields
       DEF RunGone, HereKept, ThereKept, ServedIsPast, Stamps, ItemsPassed,
            RunPassed, Tick
  <2>7. Quiet'
    BY <1>6, FetchDoes
       DEF RunGone, HereKept, ThereKept, Quiet, Stamps
  <2> QED BY <2>1, <2>2, <2>3, <2>4, <2>5, <2>6, <2>7 DEF Stamps
<1>7. ASSUME ListServers
      PROVE  Stamps'
  <2>1. HerePassed'
    BY <1>7, ListServersDoes, Nats
       DEF HereKept, ThereKept, HerePassed, Stamps, Tick
  <2>2. RunPassed'
    BY <1>7, ListServersDoes, Nats, ZeroFields
       DEF HereKept, ThereKept, HerePassed, RunPassed, Stamps, Tick
  <2>3. ItemsPassed'
    BY <1>7, ListServersDoes, Nats
       DEF HereKept, ThereKept, ItemsPassed, Stamps, Tick
  <2>4. ListPassed'
    BY <1>7, ListServersDoes, Nats
       DEF HereKept, ThereKept, ListPassed, RunPassed, ItemsPassed, Stamps,
            Tick
  <2>5. RowShape'
    BY <1>7, ListServersDoes, Nats, ZeroFields
       DEF HereKept, ThereKept, RowShape, Stamps, HerePassed, Tick
  <2>6. ServedIsPast'
    BY <1>7, ListServersDoes, Nats, ZeroFields
       DEF HereKept, ThereKept, ServedIsPast, Stamps, ItemsPassed, RunPassed,
            Tick
  <2>7. Quiet'
    BY <1>7, ListServersDoes
       DEF HereKept, ThereKept, Quiet, Stamps
  <2> QED BY <2>1, <2>2, <2>3, <2>4, <2>5, <2>6, <2>7 DEF Stamps
<1>8. ASSUME CategoryMarks
      PROVE  Stamps'
  <2>1. HerePassed'
    BY <1>8, CategoryMarksDoes, Nats
       DEF HereKept, ThereKept, HerePassed, Stamps, Tick
  <2>2. RunPassed'
    BY <1>8, CategoryMarksDoes, Nats, ZeroFields
       DEF HereKept, ThereKept, HerePassed, RunPassed, Stamps, Tick
  <2>3. ItemsPassed'
    BY <1>8, CategoryMarksDoes, Nats
       DEF HereKept, ThereKept, ItemsPassed, Stamps, Tick
  <2>4. ListPassed'
    BY <1>8, CategoryMarksDoes, Nats
       DEF HereKept, ThereKept, ListPassed, RunPassed, ItemsPassed, Stamps,
            Tick
  <2>5. RowShape'
    BY <1>8, CategoryMarksDoes, Nats, ZeroFields
       DEF HereKept, ThereKept, RowShape, Stamps, HerePassed, Tick
  <2>6. ServedIsPast'
    BY <1>8, CategoryMarksDoes, Nats, ZeroFields
       DEF HereKept, ThereKept, ServedIsPast, Stamps, ItemsPassed, RunPassed,
            Tick
  <2>7. Quiet'
    BY <1>8, CategoryMarksDoes
       DEF HereKept, ThereKept, Quiet, Stamps
  <2> QED BY <2>1, <2>2, <2>3, <2>4, <2>5, <2>6, <2>7 DEF Stamps
<1>9. ASSUME QuietStep
      PROVE  Stamps'
  <2>1. HerePassed'
    BY <1>9, Nats
       DEF QuietStep, Narrows, Applies, Stops, Lists, RunKept, RunOver,
            RunGone, NothingServed, HereKept, ThereKept, HerePassed, Stamps,
            Tick
  <2>2. RunPassed'
    BY <1>9, Nats, ZeroFields
       DEF QuietStep, Narrows, Applies, Stops, Lists, RunKept, RunOver,
            RunGone, NothingServed, HereKept, ThereKept, HerePassed,
            RunPassed, Stamps, Tick
  <2>3. ItemsPassed'
    BY <1>9, Nats
       DEF QuietStep, Narrows, Applies, Stops, Lists, RunKept, RunOver,
            RunGone, NothingServed, HereKept, ThereKept, ItemsPassed, Stamps,
            Tick
  <2>4. ListPassed'
    <3>1. \A c \in pending' : \/ c \in pending
                              \/ /\ c.item \in Items
                                 /\ c.served = run.served[c.item]
      BY <1>9, NewItemsAre
         DEF QuietStep, Narrows, Applies, Stops, Lists, Change
    <3>2. pulling' \subseteq pulling /\ clock' = clock
      BY <1>9 DEF QuietStep, ThereKept
    <3> QED BY <3>1, <3>2 DEF Stamps, ListPassed, RunPassed
  <2>5. RowShape'
    BY <1>9, Nats, ZeroFields
       DEF QuietStep, Narrows, Applies, Stops, Lists, RunKept, RunOver,
            RunGone, NothingServed, HereKept, ThereKept, RowShape, Stamps,
            HerePassed, Tick
  <2>6. ServedIsPast'
    BY <1>9, Nats, ZeroFields
       DEF QuietStep, Narrows, Applies, Stops, Lists, RunKept, RunOver,
            RunGone, NothingServed, HereKept, ThereKept, ServedIsPast, Stamps,
            ItemsPassed, RunPassed, Tick
  <2>7. Quiet'
    BY <1>9
       DEF QuietStep, Narrows, Applies, Stops, Lists, RunKept, RunOver,
            RunGone, NothingServed, HereKept, ThereKept, Quiet, Stamps, Turn
  <2> QED BY <2>1, <2>2, <2>3, <2>4, <2>5, <2>6, <2>7 DEF Stamps
<1>10. ASSUME NEW r \in Servers, NEW i \in Items, Create(r, i)
      PROVE  Stamps'
  <2>1. HerePassed'
    BY <1>10, CreateDoes, Nats
       DEF Uploads, Moves, RunKept, HereKept, Turn, HerePassed, Stamps, Tick
  <2>2. RunPassed'
    BY <1>10, CreateDoes, Nats, ZeroFields
       DEF Uploads, Moves, RunKept, HereKept, Turn, HerePassed, RunPassed,
            Stamps, Tick
  <2>3. ItemsPassed'
    BY <1>10, CreateDoes, Nats
       DEF Uploads, Moves, RunKept, HereKept, Turn, ItemsPassed, Stamps, Tick
  <2>4. ListPassed'
    BY <1>10, CreateDoes, Nats
       DEF Uploads, Moves, RunKept, HereKept, Turn, ListPassed, RunPassed,
            ItemsPassed, Stamps, Tick
  <2>5. RowShape'
    BY <1>10, CreateDoes, Nats, ZeroFields
       DEF Uploads, Moves, RunKept, HereKept, Turn, RowShape, Stamps,
            HerePassed, Tick
  <2>6. ServedIsPast'
    BY <1>10, CreateDoes, Nats, ZeroFields
       DEF Uploads, Moves, RunKept, HereKept, Turn, ServedIsPast, Stamps,
            ItemsPassed, RunPassed, Tick
  <2>7. Quiet'
    BY <1>10, CreateDoes
       DEF Uploads, Moves, RunKept, HereKept, Turn, Quiet, Stamps
  <2> QED BY <2>1, <2>2, <2>3, <2>4, <2>5, <2>6, <2>7 DEF Stamps
<1>11. ASSUME NEW r \in Servers, NEW i \in Items, Update(r, i)
      PROVE  Stamps'
  <2>1. HerePassed'
    BY <1>11, UpdateDoes, Nats
       DEF Uploads, Moves, RunKept, HereKept, Turn, HerePassed, Stamps, Tick
  <2>2. RunPassed'
    BY <1>11, UpdateDoes, Nats, ZeroFields
       DEF Uploads, Moves, RunKept, HereKept, Turn, HerePassed, RunPassed,
            Stamps, Tick
  <2>3. ItemsPassed'
    BY <1>11, UpdateDoes, Nats
       DEF Uploads, Moves, RunKept, HereKept, Turn, ItemsPassed, Stamps, Tick
  <2>4. ListPassed'
    BY <1>11, UpdateDoes, Nats
       DEF Uploads, Moves, RunKept, HereKept, Turn, ListPassed, RunPassed,
            ItemsPassed, Stamps, Tick
  <2>5. RowShape'
    BY <1>11, UpdateDoes, Nats, ZeroFields
       DEF Uploads, Moves, RunKept, HereKept, Turn, RowShape, Stamps,
            HerePassed, Tick
  <2>6. ServedIsPast'
    BY <1>11, UpdateDoes, Nats, ZeroFields
       DEF Uploads, Moves, RunKept, HereKept, Turn, ServedIsPast, Stamps,
            ItemsPassed, RunPassed, Tick
  <2>7. Quiet'
    BY <1>11, UpdateDoes
       DEF Uploads, Moves, RunKept, HereKept, Turn, Quiet, Stamps
  <2> QED BY <2>1, <2>2, <2>3, <2>4, <2>5, <2>6, <2>7 DEF Stamps
<1>12. ASSUME Record
      PROVE  Stamps'
  <2>1. HerePassed'
    BY <1>12, RecordDoes, Nats
       DEF HerePassed, Stamps, Tick, ItemsPassed, RunPassed
  <2>2. RunPassed'
    BY <1>12, RecordDoes, Nats, ZeroFields
       DEF HerePassed, RunPassed, Stamps, Tick
  <2>3. ItemsPassed'
    BY <1>12, RecordDoes, Nats
       DEF ItemsPassed, Stamps, Tick
  <2>4. ListPassed'
    BY <1>12, RecordDoes, Nats
       DEF ListPassed, RunPassed, ItemsPassed, Stamps, Tick
  <2>5. RowShape'
    BY <1>12, RecordDoes, Nats, ZeroFields
       DEF RowShape, Stamps, HerePassed, Tick
  <2>6. ServedIsPast'
    BY <1>12, RecordDoes, Nats, ZeroFields
       DEF ServedIsPast, Stamps, ItemsPassed, RunPassed, Tick
  <2>7. Quiet'
    BY <1>12, RecordDoes
       DEF Quiet, Stamps
  <2> QED BY <2>1, <2>2, <2>3, <2>4, <2>5, <2>6, <2>7 DEF Stamps
<1>13. ASSUME NEW r \in Servers, NEW i \in Items, Link(r, i)
      PROVE  Stamps'
  <2>1. HerePassed'
    BY <1>13, LinkDoes, Nats
       DEF RunKept, ThereKept, OthersKeep, Turn, HerePassed, Stamps, Tick,
            RunPassed
  <2>2. RunPassed'
    BY <1>13, LinkDoes, Nats, ZeroFields
       DEF RunKept, ThereKept, OthersKeep, Turn, HerePassed, RunPassed,
            Stamps, Tick
  <2>3. ItemsPassed'
    BY <1>13, LinkDoes, Nats
       DEF RunKept, ThereKept, OthersKeep, Turn, ItemsPassed, Stamps, Tick
  <2>4. ListPassed'
    BY <1>13, LinkDoes, Nats
       DEF RunKept, ThereKept, OthersKeep, Turn, ListPassed, RunPassed,
            ItemsPassed, Stamps, Tick
  <2>5. RowShape'
    BY <1>13, LinkDoes, Nats, ZeroFields
       DEF RunKept, ThereKept, OthersKeep, Turn, RowShape, Stamps, HerePassed,
            Tick
  <2>6. ServedIsPast'
    BY <1>13, LinkDoes, Nats, ZeroFields
       DEF RunKept, ThereKept, OthersKeep, Turn, ServedIsPast, Stamps,
            ItemsPassed, RunPassed, Tick
  <2>7. Quiet'
    BY <1>13, LinkDoes
       DEF RunKept, ThereKept, OthersKeep, Turn, Quiet, Stamps
  <2> QED BY <2>1, <2>2, <2>3, <2>4, <2>5, <2>6, <2>7 DEF Stamps
<1>14. ASSUME NEW change \in pending, NEW c \in Cats \cup {NoCat},
             PullStart(change, c)
      PROVE  Stamps'
  <2>1. HerePassed'
    BY <1>14, PullStartDoes, Nats
       DEF ThereKept, HerePassed, Stamps, Tick
  <2>2. RunPassed'
    BY <1>14, PullStartDoes, Nats, ZeroFields
       DEF ThereKept, HerePassed, RunPassed, Stamps, Tick
  <2>3. ItemsPassed'
    BY <1>14, PullStartDoes, Nats
       DEF ThereKept, ItemsPassed, Stamps, Tick
  <2>4. ListPassed'
    BY <1>14, PullStartDoes, Nats
       DEF ThereKept, ListPassed, RunPassed, ItemsPassed, Stamps, Tick
  <2>5. RowShape'
    BY <1>14, PullStartDoes, Nats, ZeroFields
       DEF ThereKept, RowShape, Stamps, HerePassed, Tick
  <2>6. ServedIsPast'
    BY <1>14, PullStartDoes, Nats, ZeroFields
       DEF ThereKept, ServedIsPast, Stamps, ItemsPassed, RunPassed, Tick
  <2>7. Quiet'
    BY <1>14, PullStartDoes
       DEF ThereKept, Quiet, Stamps
  <2> QED BY <2>1, <2>2, <2>3, <2>4, <2>5, <2>6, <2>7 DEF Stamps
<1>15. ASSUME NEW p \in pulling, Replaces(p)
      PROVE  Stamps'
  <2>1. HerePassed'
    BY <1>15, Nats
       DEF Replaces, Ends, Writes, RunOver, RunGone, NothingServed,
            HerePassed, Stamps, Tick, ListPassed, RunPassed
  <2>2. RunPassed'
    BY <1>15, Nats, ZeroFields
       DEF Replaces, Ends, Writes, RunOver, RunGone, NothingServed,
            HerePassed, RunPassed, Stamps, Tick
  <2>3. ItemsPassed'
    BY <1>15, Nats
       DEF Replaces, Ends, Writes, RunOver, RunGone, NothingServed,
            ItemsPassed, Stamps, Tick
  <2>4. ListPassed'
    BY <1>15, Nats
       DEF Replaces, Ends, Writes, RunOver, RunGone, NothingServed,
            ListPassed, RunPassed, ItemsPassed, Stamps, Tick
  <2>5. RowShape'
    BY <1>15, Nats, ZeroFields
       DEF Replaces, Ends, Writes, RunOver, RunGone, NothingServed, RowShape,
            Stamps, HerePassed, Tick
  <2>6. ServedIsPast'
    BY <1>15, Nats, ZeroFields
       DEF Replaces, Ends, Writes, RunOver, RunGone, NothingServed,
            ServedIsPast, Stamps, ItemsPassed, RunPassed, Tick
  <2>7. Quiet'
    BY <1>15
       DEF Replaces, Ends, Writes, RunOver, RunGone, NothingServed, Quiet,
            Stamps
  <2> QED BY <2>1, <2>2, <2>3, <2>4, <2>5, <2>6, <2>7 DEF Stamps
<1>16. ASSUME NEW p \in pulling, NEW r \in Servers, Imports(p, r)
      PROVE  Stamps'
  <2>1. HerePassed'
    BY <1>16, Nats
       DEF Imports, Ends, Writes, RunOver, RunGone, NothingServed, Fresh,
            HerePassed, Stamps, Tick, ListPassed
  <2>2. RunPassed'
    BY <1>16, Nats, ZeroFields
       DEF Imports, Ends, Writes, RunOver, RunGone, NothingServed, Fresh,
            HerePassed, RunPassed, Stamps, Tick
  <2>3. ItemsPassed'
    BY <1>16, Nats
       DEF Imports, Ends, Writes, RunOver, RunGone, NothingServed, Fresh,
            ItemsPassed, Stamps, Tick
  <2>4. ListPassed'
    BY <1>16, Nats
       DEF Imports, Ends, Writes, RunOver, RunGone, NothingServed, Fresh,
            ListPassed, RunPassed, ItemsPassed, Stamps, Tick
  <2>5. RowShape'
    BY <1>16, Nats, ZeroFields
       DEF Imports, Ends, Writes, RunOver, RunGone, NothingServed, Fresh,
            RowShape, Stamps, HerePassed, Tick
  <2>6. ServedIsPast'
    BY <1>16, Nats, ZeroFields
       DEF Imports, Ends, Writes, RunOver, RunGone, NothingServed, Fresh,
            ServedIsPast, Stamps, ItemsPassed, RunPassed, Tick
  <2>7. Quiet'
    BY <1>16
       DEF Imports, Ends, Writes, RunOver, RunGone, NothingServed, Fresh,
            Quiet, Stamps
  <2> QED BY <2>1, <2>2, <2>3, <2>4, <2>5, <2>6, <2>7 DEF Stamps
<1>17. ASSUME Crash
      PROVE  Stamps'
  <2>1. HerePassed'
    BY <1>17, CrashDoes, Nats, ZeroFields
       DEF RunOver, RunGone, NothingServed, ThereKept, HerePassed, Stamps, Tick
  <2>2. RunPassed'
    BY <1>17, CrashDoes, Nats, ZeroFields
       DEF RunOver, RunGone, NothingServed, ThereKept, HerePassed, RunPassed,
            Stamps, Tick
  <2>3. ItemsPassed'
    BY <1>17, CrashDoes, Nats
       DEF RunOver, RunGone, NothingServed, ThereKept, ItemsPassed, Stamps,
            Tick
  <2>4. ListPassed'
    BY <1>17, CrashDoes, Nats
       DEF RunOver, RunGone, NothingServed, ThereKept, ListPassed, RunPassed,
            ItemsPassed, Stamps, Tick
  <2>5. RowShape'
    <3>1. \A r \in Servers : ~rows[r].stored => Filed(r)
      BY ZeroFields DEF Stamps, RowShape, Filed, Exists
    <3> QED BY <1>17, <3>1, CrashDoes, ZeroFields
            DEF RowShape, Stamps, RunOver, RunGone
  <2>6. ServedIsPast'
    BY <1>17, CrashDoes, Nats, ZeroFields
       DEF RunOver, RunGone, NothingServed, ThereKept, ServedIsPast, Stamps,
            ItemsPassed, RunPassed, Tick
  <2>7. Quiet'
    BY <1>17, CrashDoes
       DEF RunOver, RunGone, NothingServed, ThereKept, Quiet, Stamps
  <2> QED BY <2>1, <2>2, <2>3, <2>4, <2>5, <2>6, <2>7 DEF Stamps
<1> QED BY <1>1, <1>2, <1>3, <1>4, <1>5, <1>6, <1>7, <1>8, <1>9, <1>10, <1>11,
     <1>12, <1>13, <1>14, <1>15, <1>16, <1>17, NextIs

LEMMA StampsInit ==
  ASSUME Init PROVE Stamps
<1>1. /\ \A r \in Servers : /\ rows[r].updated \in {0, 1}
                            /\ rows[r].synced = 0 /\ rows[r].revision = 0
                            /\ rows[r].mark = 0
                            /\ rows[r].stored => rows[r].updated = 1
                            /\ ~rows[r].stored => rows[r] = NoRow
  BY NamesApart DEF Init, NoRow
<1>2. \A r \in Servers : saving[r] = NoSave
  BY DEF Init
<1>3. \A i \in Items : items[i] = Unused
  BY DEF Init
<1>4. /\ clock = 1 /\ run = NoRun /\ answer = {} /\ pending = {}
      /\ pulling = {} /\ pc = "idle"
  BY DEF Init
<1>5. HerePassed /\ ItemsPassed /\ RunPassed /\ ListPassed
  BY <1>1, <1>2, <1>3, <1>4, ZeroFields, NoRunFields
     DEF HerePassed, ItemsPassed, RunPassed, ListPassed
<1>6. RowShape /\ ServedIsPast /\ Quiet
  BY <1>1, <1>2, <1>3, <1>4, ZeroFields, NoRunFields
     DEF RowShape, ServedIsPast, Quiet
<1> QED BY <1>5, <1>6 DEF Stamps

-----------------------------------------------------------------------------
(* What a run still has to do, upload or apply belongs to what it listed. *)

Untouched(r) ==
  /\ run.listed[r].stored
  /\ rows[r].stored => /\ rows[r].link = run.listed[r].link
                       /\ rows[r].synced = run.listed[r].synced
                       /\ rows[r].revision = run.listed[r].revision

TodoUntouched ==
  \A r \in run.todo :
    r \in Servers /\ Untouched(r) /\ pc \in {"marks", "index", "rows"}

\* A change on the list is of a row whose turn is over, and whose link still
\* is what was listed.
ChangeOf(c) ==
  /\ c.served = run.served[c.item]
  /\ c.served.state = "live"
  /\ c.row # NoServer =>
       /\ Untouched(c.row) /\ c.row \notin run.todo
       /\ \A a \in answer : a.row # c.row
       /\ c.item = run.listed[c.row].link
       /\ run.listed[c.row].updated <= run.listed[c.row].synced

ListedOnce ==
  \A c, d \in pending : c.row = d.row /\ c.row # NoServer => c = d

ChangesKept ==
  /\ pc \in {"rows", "apply"} => ListedOnce /\ \A c \in pending : ChangeOf(c)
  /\ pc \in {"idle", "list", "marks", "index"} => pending = {}
  /\ pc = "rows" => \A c \in pending : c.row # NoServer
  /\ pc = "apply" => pending \subseteq run.approve /\ run.todo = {}
  /\ \A p \in pulling : p.change \in pending

\* The item of an upload under way is still the server's, and holds what was
\* listed until somebody changes it.
AnswerKept ==
  \A a \in answer :
    /\ run.listed[a.row].stored /\ a.row \notin run.todo
    /\ items[a.item].names = a.row /\ items[a.item].state # "none"
    /\ a.revision <= items[a.item].revision
    /\ items[a.item].revision <= a.revision =>
         items[a.item].data = run.listed[a.row].data

Kept == TodoUntouched /\ ChangesKept /\ AnswerKept

\* The row is gone, or its link and marks are what they were.
KeepsLink(r) ==
  rows'[r].stored => /\ rows[r].stored
                     /\ rows'[r].link = rows[r].link
                     /\ rows'[r].synced = rows[r].synced
                     /\ rows'[r].revision = rows[r].revision

LEMMA UntouchedStays ==
  ASSUME NEW r \in Servers, Untouched(r), run'.listed = run.listed,
         KeepsLink(r)
  PROVE  Untouched(r)'
BY DEF Untouched, KeepsLink

LEMMA TodoStays ==
  ASSUME TodoUntouched, run'.listed = run.listed,
         run'.todo \subseteq run.todo, \A r \in run'.todo : KeepsLink(r),
         pc' = pc \/ pc' \in {"index", "rows"}
  PROVE  TodoUntouched'
<1>1. ASSUME NEW r \in run'.todo
      PROVE  /\ r \in Servers /\ Untouched(r)'
             /\ pc' \in {"marks", "index", "rows"}
  <2>1. r \in Servers /\ Untouched(r) /\ pc \in {"marks", "index", "rows"}
    BY DEF TodoUntouched
  <2> QED BY <2>1, UntouchedStays
<1> QED BY <1>1 DEF TodoUntouched

LEMMA ChangesStay ==
  ASSUME TypeOK, ChangesKept, RunKept, run'.todo \subseteq run.todo,
         pc' = pc, pending' \subseteq pending,
         \A c \in pending' : /\ c.row # NoServer => KeepsLink(c.row)
                             /\ \A a \in answer' :
                                  a \in answer \/ a.row # c.row,
         \A p \in pulling' : p.change \in pending'
  PROVE  ChangesKept'
<1>1. ASSUME pc \in {"rows", "apply"}, NEW c \in pending'
      PROVE  ChangeOf(c)'
  <2>1. ChangeOf(c) /\ c.row \in Servers \cup {NoServer}
    BY <1>1, Nats DEF ChangesKept
  <2>2. c.row # NoServer => Untouched(c.row)'
    BY <2>1, UntouchedStays DEF ChangeOf, RunKept
  <2> QED BY <2>1, <2>2 DEF ChangeOf, RunKept
<1>2. pc \in {"rows", "apply"} => ListedOnce'
  BY DEF ChangesKept, ListedOnce
<1> QED BY <1>1, <1>2 DEF ChangesKept, RunKept

LEMMA NoChangesKept ==
  ASSUME pending' = {}, pulling' = {}, run'.todo = {} \/ pc' # "apply"
  PROVE  ChangesKept'
BY DEF ChangesKept, ListedOnce

LEMMA AnswerStays ==
  ASSUME AnswerKept, RunKept, run'.todo \subseteq run.todo,
         items' = items, answer' \subseteq answer
  PROVE  AnswerKept'
BY DEF AnswerKept, RunKept

\* A save, a deletion, a change of a category: the links stay.
LEMMA LinksStay ==
  ASSUME TypeOK, Kept, RunAsWas, \A r \in Servers : KeepsLink(r)
  PROVE  TodoUntouched' /\ ChangesKept'
<1>1. RunKept /\ run' = run /\ pc' = pc
  BY DEF RunAsWas, RunKept
<1>2. TodoUntouched'
  BY <1>1, TodoStays DEF Kept, TodoUntouched
<1>3. \A c \in pending' : c.row # NoServer => KeepsLink(c.row)
  BY Nats DEF RunAsWas
<1>4. \A p \in pulling' : p.change \in pending'
  BY DEF RunAsWas, Kept, ChangesKept
<1>5. ChangesKept'
  BY <1>1, <1>3, <1>4, ChangesStay DEF RunAsWas, Kept
<1> QED BY <1>2, <1>5

\* Steps of the run that move nothing else.
LEMMA KeptQuiet ==
  ASSUME TypeOK, TypeOK', Kept, QuietStep
  PROVE  Kept'
<1>0. /\ \A r \in Servers : KeepsLink(r)
      /\ items' = items /\ answer' \subseteq answer
      /\ pulling' \subseteq pulling
  BY DEF QuietStep, HereKept, ThereKept, KeepsLink
<1>1. CASE Narrows
  <2>1. TodoUntouched'
    <3>1. \A r \in run'.todo : KeepsLink(r)
      BY <1>0, <1>1 DEF Narrows, Kept, TodoUntouched
    <3> QED BY <1>1, <3>1, TodoStays DEF Narrows, RunKept, Kept
  <2>2. AnswerKept'
    BY <1>0, <1>1, AnswerStays DEF Narrows, Kept
  <2>3. ASSUME pc' = pc PROVE ChangesKept'
    <3>1. \A c \in pending' : c.row # NoServer => KeepsLink(c.row)
      BY <1>0, <1>1, Nats DEF Narrows
    <3>2. \A p \in pulling' : p.change \in pending'
      BY <1>0, <1>1 DEF Narrows, Kept, ChangesKept
    <3> QED BY <1>0, <1>1, <2>3, <3>1, <3>2, ChangesStay DEF Narrows, Kept
  <2>4. ASSUME pc = "index", pc' = "rows" PROVE ChangesKept'
    BY <1>1, <2>4, AloneNext, NoChangesKept DEF Narrows, Kept, ChangesKept
  <2> QED BY <1>1, <2>1, <2>2, <2>3, <2>4 DEF Narrows, Kept
<1>2. CASE Applies
  <2>1. TodoUntouched'
    BY <1>2 DEF Applies, TodoUntouched
  <2>2. AnswerKept'
    BY <1>0, <1>2 DEF Applies, AnswerKept
  <2>3. ASSUME NEW c \in pending' PROVE ChangeOf(c)'
    <3>1. CASE c \in pending
      <4>1. ChangeOf(c) /\ c.row \in Servers \cup {NoServer}
        BY <1>2, <3>1, Nats DEF Applies, Kept, ChangesKept
      <4>2. c.row # NoServer => Untouched(c.row)'
        BY <1>0, <1>2, <4>1, UntouchedStays DEF Applies, ChangeOf
      <4> QED BY <1>0, <1>2, <4>1, <4>2 DEF Applies, ChangeOf
    <3>2. CASE c \in NewItems
      BY <1>2, <3>2, NewItemsAre DEF Applies, ChangeOf
    <3> QED BY <1>2, <3>1, <3>2 DEF Applies
  <2>4. ListedOnce'
    <3>1. \A c \in pending' : c.row # NoServer => c \in pending
      BY <1>2, NewItemsAre DEF Applies
    <3> QED BY <1>2, <3>1 DEF Applies, Kept, ChangesKept, ListedOnce
  <2>5. pulling' = {}
    BY <1>0, <1>2, Alone DEF Applies
  <2>6. ChangesKept'
    BY <1>2, <2>3, <2>4, <2>5 DEF Applies, ChangesKept
  <2> QED BY <2>1, <2>2, <2>6 DEF Kept
<1>3. CASE Stops
  <2>1. answer' = {} /\ pulling' = {}
    BY <1>3, AloneNext DEF Stops
  <2>2. TodoUntouched' /\ AnswerKept'
    BY <1>3, <2>1 DEF Stops, RunOver, RunGone, TodoUntouched, AnswerKept
  <2>3. ChangesKept'
    BY <1>3, <2>1 DEF Stops, ChangesKept
  <2> QED BY <2>2, <2>3 DEF Kept
<1>4. ASSUME NEW r \in Servers, NEW c \in Change, Lists(r, c) PROVE Kept'
  <2>1. answer = {} /\ answer' = {} /\ pulling' = {} /\ pc = "rows"
        /\ pc' = "rows" /\ r \in run.todo
    BY <1>0, <1>4, Alone DEF Lists, Turn
  <2>2. TodoUntouched'
    <3>1. \A s \in run'.todo : KeepsLink(s)
      BY <1>0, <1>4 DEF Lists, Kept, TodoUntouched
    <3> QED BY <1>4, <3>1, TodoStays DEF Lists, RunKept, Kept
  <2>3. AnswerKept'
    BY <2>1 DEF AnswerKept
  <2>4. ASSUME NEW d \in pending PROVE ChangeOf(d)' /\ d.row # r
    <3>1. ChangeOf(d) /\ d.row \in Servers
      BY <2>1, Nats DEF Kept, ChangesKept
    <3>2. Untouched(d.row)'
      BY <1>0, <1>4, <3>1, UntouchedStays, NamesApart
         DEF Lists, RunKept, ChangeOf
    <3> QED BY <1>4, <2>1, <3>1, <3>2, NamesApart
            DEF Lists, RunKept, ChangeOf
  <2>5. ChangeOf(c)' /\ c.row \in Servers
    <3>1. Untouched(r)'
      BY <1>0, <1>4, <2>1, UntouchedStays
         DEF Lists, RunKept, Kept, TodoUntouched
    <3> QED BY <1>4, <2>1, <3>1 DEF Lists, RunKept, ChangeOf
  <2>6. ListedOnce'
    BY <1>4, <2>1, <2>4 DEF Lists, Kept, ChangesKept, ListedOnce
  <2>7. \A d \in pending' : ChangeOf(d)' /\ d.row # NoServer
    <3>1. \A d \in pending : d.row # NoServer
      BY <2>1 DEF Kept, ChangesKept
    <3> QED BY <1>4, <2>4, <2>5, <3>1, NamesApart DEF Lists
  <2>8. ChangesKept'
    BY <2>1, <2>6, <2>7 DEF ChangesKept
  <2> QED BY <2>2, <2>3, <2>8 DEF Kept
<1> QED BY <1>1, <1>2, <1>3, <1>4 DEF QuietStep

LEMMA KeptInit ==
  ASSUME Init PROVE Kept
BY NoRunFields DEF Init, Kept, TodoUntouched, ChangesKept, AnswerKept,
   ListedOnce

\* An upload takes a row off what is left to do.
LEMMA KeptUpload ==
  ASSUME TypeOK, TypeOK', Stamps, Kept, NEW r \in Servers, NEW i \in Items,
         Uploads(r, i)
  PROVE  Kept'
<1>1. /\ Turn(r) /\ RunKept /\ run'.todo = run.todo \ {r}
      /\ pc' = pc /\ pending' = pending /\ pulling' = pulling
      /\ \A s \in Servers : KeepsLink(s)
  BY DEF Uploads, HereKept, KeepsLink
<1>2. PICK a \in Answer : /\ answer' = {a} /\ a.row = r /\ a.item = i
                         /\ a.revision = Tick
  BY DEF Uploads
<1>3. TodoUntouched'
  <2>1. \A s \in run'.todo : KeepsLink(s)
    BY <1>1 DEF Kept, TodoUntouched
  <2> QED BY <1>1, <2>1, TodoStays DEF Kept, RunKept
<1>4. ChangesKept'
  <2>1. \A c \in pending' : c.row # NoServer => KeepsLink(c.row)
    BY <1>1, Nats
  <2>2. \A c \in pending' : a.row # c.row
    BY <1>1, <1>2, NamesApart DEF Turn, Kept, ChangesKept, ChangeOf
  <2>3. \A p \in pulling' : p.change \in pending'
    BY <1>1 DEF Kept, ChangesKept
  <2> QED BY <1>1, <1>2, <2>1, <2>2, <2>3, ChangesStay DEF Kept
<1>5. AnswerKept'
  <2>1. run.listed[r].stored
    BY <1>1 DEF Turn, Kept, TodoUntouched, Untouched
  <2> QED BY <1>1, <1>2, <2>1, TickTyped
          DEF AnswerKept, Uploads, Moves, RunKept
<1> QED BY <1>3, <1>4, <1>5 DEF Kept

\* Kept is inductive, given Stamps.
LEMMA KeptNext ==
  ASSUME TypeOK, TypeOK', Stamps, Kept, [Next]_vars
  PROVE  Kept'
<1>1. ASSUME NEW r \in Servers, NEW c \in Cats \cup {NoCat},
             SaveStart(r, c)
      PROVE  Kept'
  <2>1. TodoUntouched'
    BY <1>1, SaveStartDoes, Nats
       DEF RunAsWas, TodoUntouched, Untouched, Kept
  <2>2. ChangesKept'
    BY <1>1, SaveStartDoes, Nats
       DEF RunAsWas, ChangesKept, ChangeOf, ListedOnce, Untouched, Kept
  <2>3. AnswerKept'
    BY <1>1, SaveStartDoes, Nats
       DEF RunAsWas, AnswerKept, Kept, Stamps, ItemsPassed, Tick
  <2> QED BY <2>1, <2>2, <2>3 DEF Kept
<1>2. ASSUME NEW r \in Servers, SaveWrite(r)
      PROVE  Kept'
  <2>1. RunAsWas /\ items' = items /\ \A s \in Servers : KeepsLink(s)
    BY <1>2, SaveWriteDoes DEF KeepsLink, OthersKeep
  <2>2. AnswerKept'
    BY <2>1, AnswerStays DEF RunAsWas, RunKept, Kept
  <2> QED BY <2>1, <2>2, LinksStay DEF Kept
<1>3. ASSUME NEW r \in Servers, ServerDelete(r)
      PROVE  Kept'
  <2>1. RunAsWas /\ items' = items /\ \A s \in Servers : KeepsLink(s)
    BY <1>3, ServerDeleteDoes, ZeroFields DEF KeepsLink, OthersKeep
  <2>2. AnswerKept'
    BY <2>1, AnswerStays DEF RunAsWas, RunKept, Kept
  <2> QED BY <2>1, <2>2, LinksStay DEF Kept
<1>4. ASSUME NEW c \in Cats, CategoryChanges(c)
      PROVE  Kept'
  <2>1. RunAsWas /\ items' = items /\ \A s \in Servers : KeepsLink(s)
    BY <1>4 DEF KeepsLink, CategoryChanges
  <2>2. AnswerKept'
    BY <2>1, AnswerStays DEF RunAsWas, RunKept, Kept
  <2> QED BY <2>1, <2>2, LinksStay DEF Kept
<1>5. ASSUME NEW i \in Items, Remote(i)
      PROVE  Kept'
  <2>1. TodoUntouched'
    BY <1>5, Nats
       DEF Remote, Moves, HereKept, RunAsWas, TodoUntouched, Untouched, Kept
  <2>2. ChangesKept'
    BY <1>5, Nats
       DEF Remote, Moves, HereKept, RunAsWas, ChangesKept, ChangeOf,
            ListedOnce, Untouched, Kept
  <2>3. AnswerKept'
    BY <1>5, Nats
       DEF Remote, Moves, HereKept, RunAsWas, AnswerKept, Kept, Stamps,
            ItemsPassed, Tick
  <2> QED BY <2>1, <2>2, <2>3 DEF Kept
<1>6. ASSUME pc \in {"idle", "asked"}, NEW a \in SUBSET Change,
             Fetch(a)
      PROVE  Kept'
  <2>1. RunGone /\ pc' = "list" /\ pending' = {}
    BY <1>6, FetchDoes
  <2> QED BY <2>1, AloneNext, NoChangesKept
          DEF Kept, RunGone, TodoUntouched, AnswerKept
<1>7. ASSUME ListServers
      PROVE  Kept'
  <2>1. TodoUntouched'
    BY <1>7, ListServersDoes, Nats
       DEF HereKept, ThereKept, TodoUntouched, Untouched, Kept
  <2>2. ChangesKept'
    BY <1>7, ListServersDoes, Nats
       DEF HereKept, ThereKept, ChangesKept, ChangeOf, ListedOnce, Untouched,
            Kept
  <2>3. AnswerKept'
    BY <1>7, ListServersDoes, AloneNext DEF AnswerKept
  <2> QED BY <2>1, <2>2, <2>3 DEF Kept
<1>8. ASSUME CategoryMarks
      PROVE  Kept'
  <2>1. TodoUntouched'
    BY <1>8, CategoryMarksDoes, Nats
       DEF HereKept, ThereKept, TodoUntouched, Untouched, Kept
  <2>2. ChangesKept'
    BY <1>8, CategoryMarksDoes, Nats
       DEF HereKept, ThereKept, ChangesKept, ChangeOf, ListedOnce, Untouched,
            Kept
  <2>3. AnswerKept'
    BY <1>8, CategoryMarksDoes, Nats
       DEF HereKept, ThereKept, AnswerKept, Kept, Stamps, ItemsPassed, Tick
  <2> QED BY <2>1, <2>2, <2>3 DEF Kept
<1>9. ASSUME QuietStep
      PROVE  Kept'
  BY <1>9, KeptQuiet
<1>10. ASSUME NEW r \in Servers, NEW i \in Items, Create(r, i)
      PROVE  Kept'
  <2>1. Uploads(r, i)
    BY <1>10, CreateDoes
  <2> QED BY <2>1, KeptUpload
<1>11. ASSUME NEW r \in Servers, NEW i \in Items, Update(r, i)
      PROVE  Kept'
  <2>1. Uploads(r, i)
    BY <1>11, UpdateDoes
  <2> QED BY <2>1, KeptUpload
<1>12. ASSUME Record
      PROVE  Kept'
  <2>1. PICK a \in answer : \A s \in Servers \ {a.row} : rows'[s] = rows[s]
    BY <1>12, RecordDoes
  <2>2. /\ pc' = pc /\ run' = run /\ RunKept /\ pending' = pending
        /\ pulling' = pulling /\ answer' = {}
    BY <1>12, RecordDoes DEF RunKept
  <2>3. \A s \in Servers \ {a.row} : KeepsLink(s)
    BY <2>1 DEF KeepsLink
  <2>4. TodoUntouched'
    <3>1. \A s \in run'.todo : KeepsLink(s)
      BY <2>2, <2>3 DEF Kept, TodoUntouched, AnswerKept
    <3> QED BY <2>2, <3>1, TodoStays DEF Kept
  <2>5. ChangesKept'
    <3>1. pc \in {"rows", "apply"}
      BY Alone
    <3>2. \A c \in pending' : c.row # NoServer => KeepsLink(c.row)
      BY <2>2, <2>3, <3>1, Nats DEF Kept, ChangesKept, ChangeOf
    <3>3. \A p \in pulling' : p.change \in pending'
      BY <2>2 DEF Kept, ChangesKept
    <3> QED BY <2>2, <3>2, <3>3, ChangesStay DEF Kept
  <2>6. AnswerKept'
    BY <2>2 DEF AnswerKept
  <2> QED BY <2>4, <2>5, <2>6 DEF Kept
<1>13. ASSUME NEW r \in Servers, NEW i \in Items, Link(r, i)
      PROVE  Kept'
  <2>1. /\ Turn(r) /\ RunKept /\ run'.todo = run.todo \ {r}
        /\ pc' = pc /\ pending' = pending /\ pulling' = pulling
        /\ answer' = answer /\ items' = items /\ OthersKeep(r)
    BY <1>13, LinkDoes DEF ThereKept
  <2>2. \A s \in Servers \ {r} : KeepsLink(s)
    BY <2>1 DEF KeepsLink, OthersKeep
  <2>3. TodoUntouched'
    <3>1. \A s \in run'.todo : KeepsLink(s)
      BY <2>1, <2>2 DEF Kept, TodoUntouched
    <3> QED BY <2>1, <3>1, TodoStays DEF Kept, RunKept
  <2>4. ChangesKept'
    <3>1. \A c \in pending' : c.row # NoServer => KeepsLink(c.row)
      BY <2>1, <2>2, Nats DEF Turn, Kept, ChangesKept, ChangeOf
    <3>2. \A p \in pulling' : p.change \in pending'
      BY <2>1 DEF Kept, ChangesKept
    <3> QED BY <2>1, <3>1, <3>2, ChangesStay DEF Kept
  <2>5. AnswerKept'
    BY <2>1, AnswerStays DEF Kept
  <2> QED BY <2>3, <2>4, <2>5 DEF Kept
<1>14. ASSUME NEW change \in pending, NEW c \in Cats \cup {NoCat},
             PullStart(change, c)
      PROVE  Kept'
  <2>1. TodoUntouched'
    BY <1>14, PullStartDoes, Nats
       DEF ThereKept, TodoUntouched, Untouched, Kept
  <2>2. ChangesKept'
    BY <1>14, PullStartDoes, Nats
       DEF ThereKept, ChangesKept, ChangeOf, ListedOnce, Untouched, Kept
  <2>3. AnswerKept'
    BY <1>14, PullStartDoes, Nats
       DEF ThereKept, AnswerKept, Kept, Stamps, ItemsPassed, Tick
  <2> QED BY <2>1, <2>2, <2>3 DEF Kept
<1>15. ASSUME NEW p \in pulling, Replaces(p)
      PROVE  Kept'
  <2>1. /\ Ends(p) /\ Writes(p, p.change.row) /\ pc = "apply"
    BY <1>15 DEF Replaces
  <2>2. answer' = {} /\ pulling' = {}
    BY <2>1, Alone DEF Ends
  <2>3. AnswerKept' /\ run.todo = {}
    BY <2>1, <2>2 DEF AnswerKept, Kept, ChangesKept
  <2>4. CASE pc' = "idle" /\ RunOver /\ pending' = {}
    BY <2>1, <2>2, <2>3, <2>4, AloneNext, NoChangesKept
       DEF RunOver, RunGone, Ends, Kept, TodoUntouched
  <2>5. CASE pc' = pc /\ run' = run
    <3>1. RunKept /\ TodoUntouched'
      BY <2>3, <2>5 DEF RunKept, TodoUntouched
    <3>2. \A c \in pending' : c.row # NoServer => KeepsLink(c.row)
      <4>1. p.change \in pending
        BY DEF Kept, ChangesKept
      <4>2. \A c \in pending' : c \in pending /\ c # p.change
        BY <2>1 DEF Ends
      <4>3. p.change.row # NoServer
        BY <1>15, NamesApart DEF Replaces
      <4>4. \A c \in pending' : c.row # p.change.row
        BY <2>1, <4>1, <4>2, <4>3 DEF Kept, ChangesKept, ListedOnce
      <4> QED BY <2>1, <4>2, <4>4, Nats DEF Writes, KeepsLink
    <3>3. ChangesKept'
      BY <2>1, <2>2, <2>5, <3>1, <3>2, ChangesStay DEF Ends, Kept
    <3> QED BY <2>3, <3>1, <3>3 DEF Kept
  <2> QED BY <2>1, <2>4, <2>5 DEF Ends
<1>16. ASSUME NEW p \in pulling, NEW r \in Servers, Imports(p, r)
      PROVE  Kept'
  <2>1. /\ Ends(p) /\ Writes(p, r) /\ pc = "apply"
    BY <1>16 DEF Imports
  <2>2. answer' = {} /\ pulling' = {}
    BY <2>1, Alone DEF Ends
  <2>3. AnswerKept' /\ run.todo = {}
    BY <2>1, <2>2 DEF AnswerKept, Kept, ChangesKept
  <2>4. CASE pc' = "idle" /\ RunOver /\ pending' = {}
    BY <2>1, <2>2, <2>3, <2>4, AloneNext, NoChangesKept
       DEF RunOver, RunGone, Ends, Kept, TodoUntouched
  <2>5. CASE pc' = pc /\ run' = run
    <3>1. RunKept /\ TodoUntouched'
      BY <2>3, <2>5 DEF RunKept, TodoUntouched
    <3>2. \A c \in pending' : c.row # NoServer => KeepsLink(c.row)
      <4>1. \A c \in pending' : c \in pending /\ ChangeOf(c)
        BY <2>1 DEF Ends, Kept, ChangesKept
      <4>2. ~run.listed[r].stored
        BY <1>16 DEF Imports, Fresh
      <4> QED BY <2>1, <4>1, <4>2, Nats
              DEF Writes, KeepsLink, ChangeOf, Untouched
    <3>3. ChangesKept'
      BY <2>1, <2>2, <2>5, <3>1, <3>2, ChangesStay DEF Ends, Kept
    <3> QED BY <2>3, <3>1, <3>3 DEF Kept
  <2> QED BY <2>1, <2>4, <2>5 DEF Ends
<1>17. ASSUME Crash
      PROVE  Kept'
  <2>1. TodoUntouched'
    BY <1>17, CrashDoes, Nats
       DEF RunOver, RunGone, NothingServed, ThereKept, TodoUntouched,
            Untouched, Kept
  <2>2. ChangesKept'
    BY <1>17, CrashDoes, Nats
       DEF RunOver, RunGone, NothingServed, ThereKept, ChangesKept, ChangeOf,
            ListedOnce, Untouched, Kept
  <2>3. AnswerKept'
    BY <1>17, CrashDoes, Nats
       DEF RunOver, RunGone, NothingServed, ThereKept, AnswerKept, Kept,
            Stamps, ItemsPassed, Tick
  <2> QED BY <2>1, <2>2, <2>3 DEF Kept
<1> QED BY <1>1, <1>2, <1>3, <1>4, <1>5, <1>6, <1>7, <1>8, <1>9, <1>10, <1>11,
     <1>12, <1>13, <1>14, <1>15, <1>16, <1>17, NextIs

-----------------------------------------------------------------------------
(* What the user approved. *)

\* Only a pull brings other data into a row.
LEMMA OnlyPulls ==
  ASSUME TypeOK, [Next]_vars, NEW r \in Servers, Pulled(r)
  PROVE  \E p \in pulling : \/ Replaces(p) /\ p.change.row = r
                            \/ Imports(p, r)
<1>1. /\ rows'[r].stored /\ rows'[r].data # rows[r].data /\ saving' = saving
  BY DEF Pulled
<1>2. ASSUME NEW s \in Servers, SaveWrite(s) PROVE FALSE
  BY <1>1, <1>2, SaveWriteDoes
<1>3. ASSUME NEW s \in Servers, ServerDelete(s) PROVE FALSE
  BY <1>1, <1>3, ServerDeleteDoes, ZeroFields DEF OthersKeep
<1>4. ASSUME NEW c \in Cats, CategoryChanges(c) PROVE FALSE
  BY <1>1, <1>4 DEF CategoryChanges
<1>5. ASSUME HereKept PROVE FALSE
  BY <1>1, <1>5 DEF HereKept
<1>6. ASSUME Record PROVE FALSE
  BY <1>1, <1>6, RecordDoes
<1>7. ASSUME NEW s \in Servers, NEW i \in Items, Link(s, i) PROVE FALSE
  BY <1>1, <1>7, LinkDoes DEF OthersKeep
<1>8. ASSUME Crash PROVE FALSE
  BY <1>1, <1>8, CrashDoes
<1>9. ASSUME NEW p \in pulling, Replaces(p) PROVE p.change.row = r
  BY <1>1, <1>9 DEF Replaces, Writes
<1>10. ASSUME NEW p \in pulling, NEW s \in Servers, Imports(p, s)
       PROVE  s = r
  BY <1>1, <1>10 DEF Imports, Writes
<1>11. ASSUME NEW s \in Servers, NEW c \in Cats \cup {NoCat},
              SaveStart(s, c)
       PROVE  FALSE
  BY <1>1, <1>11, SaveStartDoes
<1>12. ASSUME NEW s \in Servers, NEW i \in Items,
              Create(s, i) \/ Update(s, i)
       PROVE  FALSE
  BY <1>5, <1>12, CreateDoes, UpdateDoes DEF Uploads
<1>13. ASSUME NEW change \in pending, NEW c \in Cats \cup {NoCat},
              PullStart(change, c)
       PROVE  FALSE
  BY <1>1, <1>13, PullStartDoes
<1>14. ASSUME \/ ListServers \/ CategoryMarks \/ QuietStep
              \/ \E i \in Items : Remote(i)
              \/ \E a \in SUBSET Change : Fetch(a)
       PROVE  FALSE
  BY <1>5, <1>14, ListServersDoes, CategoryMarksDoes, FetchDoes
     DEF QuietStep, Remote
<1> QED BY <1>2, <1>3, <1>4, <1>6, <1>7, <1>8, <1>9, <1>10, <1>11, <1>12,
           <1>13, <1>14, NextIs

\* A pull writes an entry of the list the user approved.
LEMMA ApprovedStep ==
  ASSUME TypeOK, Kept, [Next]_vars, NEW r \in Servers, Pulled(r)
  PROVE  \E c \in run.approve :
           /\ c.row = IF rows[r].stored THEN r ELSE NoServer
           /\ c.item = rows'[r].link /\ c.served.data = rows'[r].data
<1>1. PICK p \in pulling : \/ Replaces(p) /\ p.change.row = r
                           \/ Imports(p, r)
  BY OnlyPulls
<1>2. pc = "apply" /\ p.change \in pending
  BY <1>1 DEF Replaces, Imports, Kept, ChangesKept
<1>3. p.change \in run.approve /\ ChangeOf(p.change)
  BY <1>2 DEF Kept, ChangesKept
<1>4. CASE Replaces(p) /\ p.change.row = r
  <2>1. /\ rows[r].stored /\ rows'[r].link = rows[r].link
        /\ rows'[r].data = p.change.served.data
    BY <1>4 DEF Replaces, Writes
  <2>2. p.change.item = rows[r].link
    BY <1>3, <1>4, <2>1, NamesApart DEF ChangeOf, Untouched
  <2> QED BY <1>3, <1>4, <2>1, <2>2
<1>5. CASE Imports(p, r)
  BY <1>3, <1>5 DEF Imports, Writes, Fresh
<1> QED BY <1>1, <1>4, <1>5

-----------------------------------------------------------------------------
(* What row and item last agreed on. *)

\* A save under way is older than the row, or newer than all that was seen.
SaveOrder ==
  \A r \in Servers : saving[r] # NoSave /\ rows[r].stored =>
    \/ saving[r].at < rows[r].updated
    \/ /\ saving[r].at > rows[r].updated
       /\ saving[r].at > rows[r].synced
       /\ run.listed[r].stored => saving[r].at > run.listed[r].updated

\* The row is what was listed, or newer.
ListedIsPast ==
  \A r \in Servers : r \notin late /\ rows[r].stored /\ run.listed[r].stored =>
    /\ rows[r].updated >= run.listed[r].updated
    /\ rows[r].updated = run.listed[r].updated =>
         rows[r].data = run.listed[r].data

\* A row that counts as uploaded holds what was agreed on.
BaseOfRow ==
  \A r \in Servers :
    r \notin late /\ rows[r].stored /\ rows[r].updated <= rows[r].synced =>
      rows[r].data = base[r]

\* An item that counts as seen holds what was agreed on.
BaseOfItem ==
  \A r \in Servers : rows[r].link # NoItem /\ rows[r].synced > 0 =>
    /\ rows[r].revision <= items[rows[r].link].revision
    /\ items[rows[r].link].revision <= rows[r].revision =>
         items[rows[r].link].data = base[r]

\* The same of the row as it was listed, until its turn.
BaseAsListed ==
  \A r \in run.todo :
    /\ run.listed[r].link # NoItem /\ run.listed[r].synced > 0
    /\ items[run.listed[r].link].revision <= run.listed[r].revision
    => items[run.listed[r].link].data = base[r]

Bases ==
  /\ SaveOrder /\ ListedIsPast /\ BaseOfRow /\ BaseOfItem /\ BaseAsListed

LEMMA BasesInit ==
  ASSUME Init PROVE Bases
<1>1. /\ \A r \in Servers : /\ rows[r].link = NoItem
                            /\ rows[r].synced = 0
                            /\ rows[r].stored => rows[r].updated = 1
  BY NamesApart DEF Init, NoRow
<1>2. run.todo = {} /\ \A r \in Servers : run.listed[r].stored = FALSE
  BY NoRunFields, ZeroFields DEF Init
<1>3. \A r \in Servers : saving[r] = NoSave
  BY DEF Init
<1> QED BY <1>1, <1>2, <1>3
        DEF Bases, SaveOrder, ListedIsPast, BaseOfRow, BaseOfItem,
            BaseAsListed

LEMMA Links ==
  ASSUME TypeOK
  PROVE  /\ \A r \in Servers : /\ rows[r].link \in Items \cup {NoItem}
                               /\ run.listed[r].link \in Items \cup {NoItem}
         /\ run.todo \subseteq Servers
<1>1. run \in Run
  BY DEF TypeOK
<1>2. \A r \in Servers : rows[r] \in Row /\ run.listed[r] \in Row
  BY <1>1 DEF TypeOK, Run
<1> QED BY <1>1, <1>2 DEF Row, Run

\* A quiet step keeps what the run has read, or forgets all of it.
LEMMA QuietRun ==
  ASSUME TypeOK, QuietStep
  PROVE  /\ HereKept /\ ThereKept /\ answer' \subseteq answer
         /\ \/ RunKept /\ run'.todo \subseteq run.todo
            \/ RunGone
BY DEF QuietStep, Narrows, Applies, Stops, Lists, RunKept, RunOver

LEMMA BasesQuiet ==
  ASSUME TypeOK, Bases, HereKept, ThereKept,
         (RunKept /\ run'.todo \subseteq run.todo) \/ RunGone
  PROVE  Bases'
<1>1. \A r \in Servers : \/ run'.listed[r] = run.listed[r]
                         \/ run'.listed[r].stored = FALSE
  BY ZeroFields DEF RunKept, RunGone
<1>2. \A r \in run'.todo : r \in run.todo /\ run'.listed[r] = run.listed[r]
  BY DEF RunKept, RunGone
<1>3. SaveOrder' /\ ListedIsPast'
  BY <1>1 DEF Bases, SaveOrder, ListedIsPast, HereKept
<1>4. BaseOfRow' /\ BaseOfItem'
  BY DEF Bases, BaseOfRow, BaseOfItem, HereKept, ThereKept
<1>5. BaseAsListed'
  BY <1>2 DEF Bases, BaseAsListed, HereKept, ThereKept
<1> QED BY <1>3, <1>4, <1>5 DEF Bases

\* A pull makes row and item agree.
LEMMA BasesPull ==
  ASSUME TypeOK, TypeOK', Stamps, Kept, Bases, NEW p \in pulling,
         NEW r \in Servers, Ends(p), Writes(p, r), pc = "apply",
         ChangeOf(p.change), rows'[r].link = p.change.item
  PROVE  Bases'
<1>1. /\ UNCHANGED <<saving, items>> /\ clock' = Tick
      /\ \A s \in Servers \ {r} : /\ rows'[s] = rows[s]
                                  /\ base'[s] = base[s]
      /\ rows'[r].updated = Tick /\ rows'[r].synced = Tick
      /\ rows'[r].data = p.change.served.data
      /\ rows'[r].revision = p.change.served.revision
      /\ base'[r] = p.change.served.data
      /\ late' = late \ {r}
  BY DEF Ends, Writes
<1>2. run' = run \/ RunGone
  BY DEF Ends, RunOver
<1>3. \A s \in Servers : \/ run'.listed[s] = run.listed[s]
                         \/ run'.listed[s].stored = FALSE
  BY <1>2, ZeroFields DEF RunGone
<1>4. run'.todo = {}
  BY <1>2 DEF RunGone, Kept, ChangesKept
<1>5. SaveOrder'
  BY <1>1, <1>3, Nats DEF Bases, SaveOrder, Stamps, HerePassed, Tick
<1>6. ListedIsPast'
  BY <1>1, <1>3, Nats DEF Bases, ListedIsPast, Stamps, RunPassed, Tick
<1>7. BaseOfRow'
  BY <1>1 DEF Bases, BaseOfRow
<1>8. BaseOfItem'
  <2>1. /\ p.change.item \in Items
        /\ p.change.served = run.served[p.change.item]
    BY Nats DEF ChangeOf
  <2>2. /\ p.change.served.revision <= items[p.change.item].revision
        /\ items[p.change.item].revision <= p.change.served.revision =>
             items[p.change.item].data = p.change.served.data
    <3> DEFINE i == p.change.item
    <3>1. /\ run.served[i].revision <= items[i].revision
          /\ run.served[i].revision = items[i].revision =>
               items[i] = run.served[i]
      BY <2>1 DEF Stamps, ServedIsPast
    <3>2. run.served[i].revision \in Nat /\ items[i].revision \in Nat
      BY <2>1, Nats
    <3> QED BY <2>1, <3>1, <3>2
  <2> QED BY <1>1, <2>1, <2>2 DEF Bases, BaseOfItem
<1>9. BaseAsListed'
  BY <1>4 DEF BaseAsListed
<1> QED BY <1>5, <1>6, <1>7, <1>8, <1>9 DEF Bases

\* Bases is inductive, given Stamps and Kept.
LEMMA BasesNext ==
  ASSUME TypeOK, TypeOK', Stamps, Kept, Bases, [Next]_vars
  PROVE  Bases'
<1>1. ASSUME NEW r \in Servers, NEW c \in Cats \cup {NoCat},
             SaveStart(r, c)
      PROVE  Bases'
  <2>1. SaveOrder'
    BY <1>1, SaveStartDoes, Nats
       DEF RunAsWas, SaveOrder, Bases, Stamps, HerePassed, RunPassed, Tick
  <2>2. ListedIsPast'
    BY <1>1, SaveStartDoes, Nats
       DEF RunAsWas, ListedIsPast, SaveOrder, Bases, Stamps, HerePassed,
            RunPassed, RowShape, Tick
  <2>3. BaseOfRow'
    BY <1>1, SaveStartDoes, Nats
       DEF RunAsWas, BaseOfRow, SaveOrder, Bases, Stamps, RowShape
  <2>4. BaseOfItem'
    BY <1>1, SaveStartDoes, Nats, Links, NamesApart
       DEF RunAsWas, BaseOfItem, Bases, Stamps, HerePassed, ItemsPassed, Tick
  <2>5. BaseAsListed'
    BY <1>1, SaveStartDoes, Nats, Links, NamesApart
       DEF RunAsWas, BaseAsListed, BaseOfItem, Bases, Stamps, RunPassed, Tick
  <2> QED BY <2>1, <2>2, <2>3, <2>4, <2>5 DEF Bases
<1>2. ASSUME NEW r \in Servers, SaveWrite(r)
      PROVE  Bases'
  <2>1. SaveOrder'
    BY <1>2, SaveWriteDoes, Nats
       DEF RunAsWas, OthersKeep, SaveOrder, Bases, Stamps, HerePassed,
            RunPassed, Tick
  <2>2. ListedIsPast'
    BY <1>2, SaveWriteDoes, Nats
       DEF RunAsWas, OthersKeep, ListedIsPast, SaveOrder, Bases, Stamps,
            HerePassed, RunPassed, RowShape, Tick
  <2>3. BaseOfRow'
    BY <1>2, SaveWriteDoes, Nats
       DEF RunAsWas, OthersKeep, BaseOfRow, SaveOrder, Bases, Stamps, RowShape
  <2>4. BaseOfItem'
    BY <1>2, SaveWriteDoes, Nats, Links, NamesApart
       DEF RunAsWas, OthersKeep, BaseOfItem, Bases, Stamps, HerePassed,
            ItemsPassed, Tick
  <2>5. BaseAsListed'
    BY <1>2, SaveWriteDoes, Nats, Links, NamesApart
       DEF RunAsWas, OthersKeep, BaseAsListed, BaseOfItem, Bases, Stamps,
            RunPassed, Tick
  <2> QED BY <2>1, <2>2, <2>3, <2>4, <2>5 DEF Bases
<1>3. ASSUME NEW r \in Servers, ServerDelete(r)
      PROVE  Bases'
  <2>1. SaveOrder'
    BY <1>3, ServerDeleteDoes, Nats, ZeroFields
       DEF RunAsWas, OthersKeep, SaveOrder, Bases, Stamps, HerePassed,
            RunPassed, Tick
  <2>2. ListedIsPast'
    BY <1>3, ServerDeleteDoes, Nats, ZeroFields
       DEF RunAsWas, OthersKeep, ListedIsPast, SaveOrder, Bases, Stamps,
            HerePassed, RunPassed, RowShape, Tick
  <2>3. BaseOfRow'
    BY <1>3, ServerDeleteDoes, Nats, ZeroFields
       DEF RunAsWas, OthersKeep, BaseOfRow, SaveOrder, Bases, Stamps, RowShape
  <2>4. BaseOfItem'
    BY <1>3, ServerDeleteDoes, Nats, Links, NamesApart, ZeroFields
       DEF RunAsWas, OthersKeep, BaseOfItem, Bases, Stamps, HerePassed,
            ItemsPassed, Tick
  <2>5. BaseAsListed'
    BY <1>3, ServerDeleteDoes, Nats, Links, NamesApart
       DEF RunAsWas, OthersKeep, BaseAsListed, BaseOfItem, Bases, Stamps,
            RunPassed, Tick
  <2> QED BY <2>1, <2>2, <2>3, <2>4, <2>5 DEF Bases
<1>4. ASSUME NEW c \in Cats, CategoryChanges(c)
      PROVE  Bases'
  <2>1. SaveOrder'
    BY <1>4, Nats
       DEF CategoryChanges, RunAsWas, SaveOrder, Bases, Stamps, HerePassed,
            RunPassed, Tick
  <2>2. ListedIsPast'
    BY <1>4, Nats
       DEF CategoryChanges, RunAsWas, ListedIsPast, SaveOrder, Bases, Stamps,
            HerePassed, RunPassed, RowShape, Tick
  <2>3. BaseOfRow'
    BY <1>4, Nats
       DEF CategoryChanges, RunAsWas, BaseOfRow, SaveOrder, Bases, Stamps,
            RowShape
  <2>4. BaseOfItem'
    BY <1>4, Nats, Links, NamesApart
       DEF CategoryChanges, RunAsWas, BaseOfItem, Bases, Stamps, HerePassed,
            ItemsPassed, Tick
  <2>5. BaseAsListed'
    BY <1>4, Nats, Links, NamesApart
       DEF CategoryChanges, RunAsWas, BaseAsListed, BaseOfItem, Bases, Stamps,
            RunPassed, Tick
  <2> QED BY <2>1, <2>2, <2>3, <2>4, <2>5 DEF Bases
<1>5. ASSUME NEW i \in Items, Remote(i)
      PROVE  Bases'
  <2>1. SaveOrder'
    BY <1>5, Nats
       DEF Remote, Moves, HereKept, RunAsWas, SaveOrder, Bases, Stamps,
            HerePassed, RunPassed, Tick
  <2>2. ListedIsPast'
    BY <1>5, Nats
       DEF Remote, Moves, HereKept, RunAsWas, ListedIsPast, SaveOrder, Bases,
            Stamps, HerePassed, RunPassed, RowShape, Tick
  <2>3. BaseOfRow'
    BY <1>5, Nats
       DEF Remote, Moves, HereKept, RunAsWas, BaseOfRow, SaveOrder, Bases,
            Stamps, RowShape
  <2>4. BaseOfItem'
    BY <1>5, Nats, Links, NamesApart
       DEF Remote, Moves, HereKept, RunAsWas, BaseOfItem, Bases, Stamps,
            HerePassed, ItemsPassed, Tick
  <2>5. BaseAsListed'
    BY <1>5, Nats, Links, NamesApart
       DEF Remote, Moves, HereKept, RunAsWas, BaseAsListed, BaseOfItem, Bases,
            Stamps, RunPassed, Tick
  <2> QED BY <2>1, <2>2, <2>3, <2>4, <2>5 DEF Bases
<1>6. ASSUME pc \in {"idle", "asked"}, NEW a \in SUBSET Change,
             Fetch(a)
      PROVE  Bases'
  <2>1. RunGone /\ HereKept /\ ThereKept
    BY <1>6, FetchDoes
  <2> QED BY <2>1, BasesQuiet
<1>7. ASSUME ListServers
      PROVE  Bases'
  <2>1. SaveOrder'
    BY <1>7, ListServersDoes, Nats
       DEF HereKept, ThereKept, SaveOrder, Bases, Stamps, HerePassed,
            RunPassed, Tick
  <2>2. ListedIsPast'
    BY <1>7, ListServersDoes, Nats
       DEF HereKept, ThereKept, ListedIsPast, SaveOrder, Bases, Stamps,
            HerePassed, RunPassed, RowShape, Tick
  <2>3. BaseOfRow'
    BY <1>7, ListServersDoes, Nats
       DEF HereKept, ThereKept, BaseOfRow, SaveOrder, Bases, Stamps, RowShape
  <2>4. BaseOfItem'
    BY <1>7, ListServersDoes, Nats, Links, NamesApart
       DEF HereKept, ThereKept, BaseOfItem, Bases, Stamps, HerePassed,
            ItemsPassed, Tick
  <2>5. BaseAsListed'
    BY <1>7, ListServersDoes, Nats, Links, NamesApart
       DEF HereKept, ThereKept, BaseAsListed, BaseOfItem, Bases, Stamps,
            RunPassed, Tick
  <2> QED BY <2>1, <2>2, <2>3, <2>4, <2>5 DEF Bases
<1>8. ASSUME CategoryMarks
      PROVE  Bases'
  <2>1. SaveOrder'
    BY <1>8, CategoryMarksDoes, Nats
       DEF HereKept, ThereKept, SaveOrder, Bases, Stamps, HerePassed,
            RunPassed, Tick
  <2>2. ListedIsPast'
    BY <1>8, CategoryMarksDoes, Nats
       DEF HereKept, ThereKept, ListedIsPast, SaveOrder, Bases, Stamps,
            HerePassed, RunPassed, RowShape, Tick
  <2>3. BaseOfRow'
    BY <1>8, CategoryMarksDoes, Nats
       DEF HereKept, ThereKept, BaseOfRow, SaveOrder, Bases, Stamps, RowShape
  <2>4. BaseOfItem'
    BY <1>8, CategoryMarksDoes, Nats, Links, NamesApart
       DEF HereKept, ThereKept, BaseOfItem, Bases, Stamps, HerePassed,
            ItemsPassed, Tick
  <2>5. BaseAsListed'
    BY <1>8, CategoryMarksDoes, Nats, Links, NamesApart
       DEF HereKept, ThereKept, BaseAsListed, BaseOfItem, Bases, Stamps,
            RunPassed, Tick
  <2> QED BY <2>1, <2>2, <2>3, <2>4, <2>5 DEF Bases
<1>9. ASSUME QuietStep
      PROVE  Bases'
  BY <1>9, QuietRun, BasesQuiet
<1>10. ASSUME NEW r \in Servers, NEW i \in Items, Create(r, i)
      PROVE  Bases'
  <2>1. SaveOrder'
    BY <1>10, CreateDoes, Nats
       DEF Uploads, Moves, RunKept, HereKept, Turn, SaveOrder, Bases, Stamps,
            HerePassed, RunPassed, Tick
  <2>2. ListedIsPast'
    BY <1>10, CreateDoes, Nats
       DEF Uploads, Moves, RunKept, HereKept, Turn, ListedIsPast, SaveOrder,
            Bases, Stamps, HerePassed, RunPassed, RowShape, Tick
  <2>3. BaseOfRow'
    BY <1>10, CreateDoes, Nats
       DEF Uploads, Moves, RunKept, HereKept, Turn, BaseOfRow, SaveOrder,
            Bases, Stamps, RowShape
  <2>4. BaseOfItem'
    BY <1>10, CreateDoes, Nats, Links, NamesApart
       DEF Uploads, Moves, RunKept, HereKept, Turn, BaseOfItem, Bases, Stamps,
            HerePassed, ItemsPassed, Tick
  <2>5. BaseAsListed'
    BY <1>10, CreateDoes, Nats, Links, NamesApart
       DEF Uploads, Moves, RunKept, HereKept, Turn, BaseAsListed, BaseOfItem,
            Bases, Stamps, RunPassed, Tick
  <2> QED BY <2>1, <2>2, <2>3, <2>4, <2>5 DEF Bases
<1>11. ASSUME NEW r \in Servers, NEW i \in Items, Update(r, i)
      PROVE  Bases'
  <2>1. SaveOrder'
    BY <1>11, UpdateDoes, Nats
       DEF Uploads, Moves, RunKept, HereKept, Turn, SaveOrder, Bases, Stamps,
            HerePassed, RunPassed, Tick
  <2>2. ListedIsPast'
    BY <1>11, UpdateDoes, Nats
       DEF Uploads, Moves, RunKept, HereKept, Turn, ListedIsPast, SaveOrder,
            Bases, Stamps, HerePassed, RunPassed, RowShape, Tick
  <2>3. BaseOfRow'
    BY <1>11, UpdateDoes, Nats
       DEF Uploads, Moves, RunKept, HereKept, Turn, BaseOfRow, SaveOrder,
            Bases, Stamps, RowShape
  <2>4. BaseOfItem'
    BY <1>11, UpdateDoes, Nats, Links, NamesApart
       DEF Uploads, Moves, RunKept, HereKept, Turn, BaseOfItem, Bases, Stamps,
            HerePassed, ItemsPassed, Tick
  <2>5. BaseAsListed'
    BY <1>11, UpdateDoes, Nats, Links, NamesApart
       DEF Uploads, Moves, RunKept, HereKept, Turn, BaseAsListed, BaseOfItem,
            Bases, Stamps, RunPassed, Tick
  <2> QED BY <2>1, <2>2, <2>3, <2>4, <2>5 DEF Bases
<1>12. ASSUME Record
      PROVE  Bases'
  <2>1. PICK a \in answer :
          /\ \A s \in Servers \ {a.row} :
               rows'[s] = rows[s] /\ base'[s] = base[s]
          /\ rows[a.row].stored =>
               /\ rows'[a.row].stored
               /\ rows'[a.row].data = rows[a.row].data
               /\ rows'[a.row].updated = rows[a.row].updated
               /\ rows'[a.row].link = a.item
               /\ rows'[a.row].revision = a.revision
               /\ rows'[a.row].synced = run.listed[a.row].updated
               /\ base'[a.row] = run.listed[a.row].data
          /\ ~rows[a.row].stored => UNCHANGED <<rows, base, astray>>
    BY <1>12, RecordDoes
  <2>2. /\ UNCHANGED <<saving, late, items, ours, clock, run>>
        /\ a.row \in Servers /\ a.item \in Items /\ a.item # NoItem
    BY <1>12, RecordDoes, Nats, NamesApart
  <2>3. /\ run.listed[a.row].stored /\ a.row \notin run.todo
        /\ a.revision <= items[a.item].revision
        /\ items[a.item].revision <= a.revision =>
             items[a.item].data = run.listed[a.row].data
    BY DEF Kept, AnswerKept
  <2>4. CASE ~rows[a.row].stored
    BY <2>1, <2>2, <2>4
       DEF Bases, SaveOrder, ListedIsPast, BaseOfRow, BaseOfItem, BaseAsListed
  <2>5. CASE rows[a.row].stored
    <3>1. SaveOrder'
      BY <2>1, <2>2, <2>3, <2>5, Nats DEF Bases, SaveOrder
    <3>2. ListedIsPast'
      BY <2>1, <2>2, <2>5 DEF Bases, ListedIsPast
    <3>3. BaseOfRow'
      <4>1. ASSUME a.row \notin late,
                   rows[a.row].updated <= run.listed[a.row].updated
            PROVE  rows[a.row].data = run.listed[a.row].data
        <5>1. rows[a.row].updated >= run.listed[a.row].updated
          BY <2>2, <2>3, <2>5, <4>1 DEF Bases, ListedIsPast
        <5>2. rows[a.row].updated = run.listed[a.row].updated
          BY <2>2, <4>1, <5>1, Nats
        <5> QED BY <2>2, <2>3, <2>5, <4>1, <5>2 DEF Bases, ListedIsPast
      <4> QED BY <2>1, <2>2, <2>5, <4>1 DEF Bases, BaseOfRow
    <3>4. BaseOfItem'
      BY <2>1, <2>2, <2>3, <2>5 DEF Bases, BaseOfItem
    <3>5. BaseAsListed'
      BY <2>1, <2>2, <2>3, Links DEF Bases, BaseAsListed
    <3> QED BY <3>1, <3>2, <3>3, <3>4, <3>5 DEF Bases
  <2> QED BY <2>4, <2>5
<1>13. ASSUME NEW r \in Servers, NEW i \in Items, Link(r, i)
      PROVE  Bases'
  <2>1. SaveOrder'
    BY <1>13, LinkDoes, Nats
       DEF RunKept, ThereKept, OthersKeep, Turn, SaveOrder, Bases, Stamps,
            HerePassed, RunPassed, Tick
  <2>2. ListedIsPast'
    BY <1>13, LinkDoes, Nats
       DEF RunKept, ThereKept, OthersKeep, Turn, ListedIsPast, SaveOrder,
            Bases, Stamps, HerePassed, RunPassed, RowShape, Tick
  <2>3. BaseOfRow'
    BY <1>13, LinkDoes, Nats
       DEF RunKept, ThereKept, OthersKeep, Turn, BaseOfRow, SaveOrder, Bases,
            Stamps, RowShape
  <2>4. BaseOfItem'
    BY <1>13, LinkDoes, Nats, Links, NamesApart
       DEF RunKept, ThereKept, OthersKeep, Turn, BaseOfItem, Bases, Stamps,
            HerePassed, ItemsPassed, Tick
  <2>5. BaseAsListed'
    BY <1>13, LinkDoes, Nats, Links, NamesApart
       DEF RunKept, ThereKept, OthersKeep, Turn, BaseAsListed, BaseOfItem,
            Bases, Stamps, RunPassed, Tick
  <2> QED BY <2>1, <2>2, <2>3, <2>4, <2>5 DEF Bases
<1>14. ASSUME NEW change \in pending, NEW c \in Cats \cup {NoCat},
             PullStart(change, c)
      PROVE  Bases'
  <2>1. SaveOrder'
    BY <1>14, PullStartDoes, Nats
       DEF ThereKept, SaveOrder, Bases, Stamps, HerePassed, RunPassed, Tick
  <2>2. ListedIsPast'
    BY <1>14, PullStartDoes, Nats
       DEF ThereKept, ListedIsPast, SaveOrder, Bases, Stamps, HerePassed,
            RunPassed, RowShape, Tick
  <2>3. BaseOfRow'
    BY <1>14, PullStartDoes, Nats
       DEF ThereKept, BaseOfRow, SaveOrder, Bases, Stamps, RowShape
  <2>4. BaseOfItem'
    BY <1>14, PullStartDoes, Nats, Links, NamesApart
       DEF ThereKept, BaseOfItem, Bases, Stamps, HerePassed, ItemsPassed, Tick
  <2>5. BaseAsListed'
    BY <1>14, PullStartDoes, Nats, Links, NamesApart
       DEF ThereKept, BaseAsListed, BaseOfItem, Bases, Stamps, RunPassed, Tick
  <2> QED BY <2>1, <2>2, <2>3, <2>4, <2>5 DEF Bases
<1>15. ASSUME NEW p \in pulling, Replaces(p)
      PROVE  Bases'
  <2>1. /\ Ends(p) /\ Writes(p, p.change.row) /\ pc = "apply"
        /\ p.change.row \in Servers
    BY <1>15 DEF Replaces
  <2>2. ChangeOf(p.change)
    BY <2>1 DEF Kept, ChangesKept
  <2>3. rows'[p.change.row].link = p.change.item
    BY <1>15, <2>2, NamesApart DEF Replaces, ChangeOf, Untouched
  <2> QED BY <2>1, <2>2, <2>3, BasesPull
<1>16. ASSUME NEW p \in pulling, NEW r \in Servers, Imports(p, r)
      PROVE  Bases'
  <2>1. /\ Ends(p) /\ Writes(p, r) /\ pc = "apply"
        /\ r \in Servers
    BY <1>16 DEF Imports
  <2>2. ChangeOf(p.change)
    BY <2>1 DEF Kept, ChangesKept
  <2>3. rows'[r].link = p.change.item
    BY <1>16 DEF Imports
  <2> QED BY <2>1, <2>2, <2>3, BasesPull
<1>17. ASSUME Crash
      PROVE  Bases'
  <2>1. SaveOrder'
    BY <1>17, CrashDoes, Nats, ZeroFields
       DEF RunOver, RunGone, NothingServed, ThereKept, SaveOrder, Bases,
            Stamps, HerePassed, RunPassed, Tick
  <2>2. ListedIsPast'
    BY <1>17, CrashDoes, Nats, ZeroFields
       DEF RunOver, RunGone, NothingServed, ThereKept, ListedIsPast,
            SaveOrder, Bases, Stamps, HerePassed, RunPassed, RowShape, Tick
  <2>3. BaseOfRow'
    BY <1>17, CrashDoes, Nats
       DEF RunOver, RunGone, NothingServed, ThereKept, BaseOfRow, SaveOrder,
            Bases, Stamps, RowShape
  <2>4. BaseOfItem'
    BY <1>17, CrashDoes, Nats, Links, NamesApart
       DEF RunOver, RunGone, NothingServed, ThereKept, BaseOfItem, Bases,
            Stamps, HerePassed, ItemsPassed, Tick
  <2>5. BaseAsListed'
    BY <1>17, CrashDoes, Nats, Links, NamesApart
       DEF RunOver, RunGone, NothingServed, ThereKept, BaseAsListed,
            BaseOfItem, Bases, Stamps, RunPassed, Tick
  <2> QED BY <2>1, <2>2, <2>3, <2>4, <2>5 DEF Bases
<1> QED BY <1>1, <1>2, <1>3, <1>4, <1>5, <1>6, <1>7, <1>8, <1>9, <1>10, <1>11,
     <1>12, <1>13, <1>14, <1>15, <1>16, <1>17, NextIs

-----------------------------------------------------------------------------
(* Edits survive, category changes go up alone. *)

\* A pull finds the row it replaces as it was when row and item last agreed.
LEMMA SurviveStep ==
  ASSUME TypeOK, Kept, Bases, [Next]_vars, NEW r \in Servers, Pulled(r),
         rows[r].stored, r \notin late
  PROVE  rows[r].data = base[r]
<1>1. PICK p \in pulling : Replaces(p) /\ p.change.row = r
  BY OnlyPulls DEF Imports, Fresh
<1>2. p.change \in pending /\ pc = "apply" /\ p.change.row # NoServer
  BY <1>1, NamesApart DEF Replaces, Kept, ChangesKept
<1>3. ChangeOf(p.change)
  BY <1>2 DEF Kept, ChangesKept
<1>4. /\ run.listed[r].updated <= run.listed[r].synced
      /\ rows[r].synced = run.listed[r].synced
  BY <1>1, <1>2, <1>3 DEF ChangeOf, Untouched
<1>5. rows[r].updated = run.listed[r].updated
  BY <1>1 DEF Replaces
<1> QED BY <1>4, <1>5 DEF Bases, BaseOfRow

\* Only an upload awaits an answer.
LEMMA OnlyUploads ==
  ASSUME TypeOK, TypeOK', [Next]_vars, NEW a \in answer' \ answer
  PROVE  \E r \in Servers, i \in Items :
           /\ Create(r, i) \/ Update(r, i)
           /\ Uploads(r, i) /\ a.row = r /\ a.item = i
<1>1. ASSUME NEW r \in Servers, NEW i \in Items,
             Create(r, i) \/ Update(r, i)
      PROVE  Uploads(r, i) /\ a.row = r /\ a.item = i
  <2>1. Uploads(r, i)
    BY <1>1, CreateDoes, UpdateDoes
  <2> QED BY <2>1 DEF Uploads
<1>2. ASSUME NEW r \in Servers, NEW i \in Items, Link(r, i) PROVE FALSE
  BY <1>2, LinkDoes
<1>3. ASSUME Record PROVE FALSE
  BY <1>3, RecordDoes
<1>4. ASSUME Crash PROVE FALSE
  BY <1>4, CrashDoes
<1>5. ASSUME answer' = answer PROVE FALSE
  BY <1>5
<1>6. ASSUME NEW p \in pulling, Ends(p) PROVE FALSE
  BY <1>6 DEF Ends
<1>7. ASSUME \E r \in Servers : \/ SaveWrite(r) \/ ServerDelete(r)
                                \/ \E c \in Cats \cup {NoCat} :
                                     SaveStart(r, c)
      PROVE  FALSE
  BY <1>5, <1>7, SaveWriteDoes, ServerDeleteDoes, SaveStartDoes
     DEF RunAsWas
<1>8. ASSUME \/ \E c \in Cats : CategoryChanges(c)
             \/ \E i \in Items : Remote(i)
      PROVE  FALSE
  BY <1>5, <1>8 DEF RunAsWas, CategoryChanges, Remote
<1>9. ASSUME \/ ListServers \/ CategoryMarks
             \/ \E b \in SUBSET Change : Fetch(b)
             \/ \E change \in pending, c \in Cats \cup {NoCat} :
                  PullStart(change, c)
      PROVE  FALSE
  BY <1>5, <1>9, ListServersDoes, CategoryMarksDoes, FetchDoes, PullStartDoes
<1>10. ASSUME QuietStep PROVE FALSE
  BY <1>10 DEF QuietStep
<1> QED BY <1>1, <1>2, <1>3, <1>4, <1>6, <1>7, <1>8, <1>9, <1>10, NextIs
        DEF Replaces, Imports

\* A row that is uploaded for its category alone meets an item that has not
\* moved since row and item last agreed.
LEMMA AloneStep ==
  ASSUME TypeOK, TypeOK', Stamps, Kept, Bases, [Next]_vars,
         NEW a \in answer' \ answer,
         items[a.item].state = "live", items[a.item] = run.served[a.item],
         run.listed[a.row].updated <= run.listed[a.row].synced
  PROVE  items[a.item].data = base[a.row]
<1>1. PICK r \in Servers, i \in Items :
           /\ Create(r, i) \/ Update(r, i)
           /\ Uploads(r, i) /\ a.row = r /\ a.item = i
  BY OnlyUploads
<1>2. CASE Create(r, i)
  BY <1>1, <1>2, CreateDoes
<1>3. CASE Update(r, i)
  <2>1. /\ r \in run.todo /\ run.listed[r].link = i
        /\ \/ run.listed[r].updated > run.listed[r].synced
           \/ run.served[i].revision <= run.listed[r].revision
    BY <1>3, UpdateDoes DEF Uploads, Turn
  <2>2. run.listed[r].updated > 0
    BY <2>1 DEF Kept, TodoUntouched, Untouched, Stamps, RowShape
  <2>3. run.listed[r].synced > 0
    BY <1>1, <2>2, Nats
  <2>4. items[i].revision <= run.listed[r].revision
    BY <1>1, <2>1, Nats
  <2> QED BY <1>1, <2>1, <2>3, <2>4, NamesApart DEF Bases, BaseAsListed
<1> QED BY <1>1, <1>2, <1>3

-----------------------------------------------------------------------------
(* Categories. *)

\* The category an item names, if any, is the one the row is filed in.
Agrees(r, item) ==
  item.path # 0 => /\ Filed(r)
                   /\ \/ item.cat = rows[r].cat
                      \/ item.path = PathOf(rows[r].cat)

\* A row and an item that count as equal agree.
CategoryAgrees ==
  \A r \in Servers :
    /\ r \notin late /\ r \notin astray
    /\ rows[r].stored /\ rows[r].link # NoItem
    /\ rows[r].updated <= rows[r].synced /\ rows[r].mark = 0
    /\ items[rows[r].link].revision <= rows[r].revision
    => Agrees(r, items[rows[r].link])

\* So will they when the answer to an upload is recorded.
CategoryOfAnswer ==
  \A a \in answer :
    /\ a.row \notin late /\ rows[a.row].stored
    /\ rows[a.row].updated = run.listed[a.row].updated
    /\ rows[a.row].mark <= run.marks[a.row]
    /\ items[a.item].revision <= a.revision
    => Agrees(a.row, items[a.item])

\* A row whose category has moved since it was listed has a newer mark, or
\* a newer stamp.
CategoryAsListed ==
  \A r \in run.todo :
    /\ r \notin late
    /\ rows[r].stored /\ rows[r].updated = run.listed[r].updated
    /\ pc = "marks" \/ rows[r].mark <= run.marks[r]
    => \/ rows[r].cat = run.listed[r].cat
       \/ PathOf(run.listed[r].cat) = 0

\* A pull settles on the category its item means.
CategoryOfPull ==
  \A p \in pulling :
    /\ p.change.row # NoServer =>
         rows[p.change.row].stored /\ rows[p.change.row].mark = 0
    /\ p.change.served.path # 0
    => /\ p.path # 0
       /\ p.cat = p.change.served.cat \/ p.path = p.change.served.path

Categories ==
  CategoryAgrees /\ CategoryOfAnswer /\ CategoryAsListed /\ CategoryOfPull

LEMMA CategoriesInit ==
  ASSUME Init PROVE Categories
<1>1. \A r \in Servers : rows[r].link = NoItem
  BY NamesApart DEF Init, NoRow
<1>2. run.todo = {} /\ answer = {} /\ pulling = {}
  BY NoRunFields DEF Init
<1> QED BY <1>1, <1>2 DEF Categories, CategoryAgrees, CategoryOfAnswer,
        CategoryAsListed, CategoryOfPull

LEMMA CatFields ==
  ASSUME TypeOK
  PROVE  /\ \A r \in Servers : /\ rows[r].cat \in Cats \cup {NoCat}
                               /\ run.listed[r].cat \in Cats \cup {NoCat}
         /\ \A c \in Cats : cats[c] \in Nat
<1>1. run \in Run
  BY DEF TypeOK
<1>2. \A r \in Servers : rows[r] \in Row /\ run.listed[r] \in Row
  BY <1>1 DEF TypeOK, Run
<1>3. cats \in [Cats -> Nat]
  BY DEF TypeOK
<1> QED BY <1>2, <1>3 DEF Row

LEMMA TypedRowsNext ==
  ASSUME TypeOK'
  PROVE  \A r \in Servers : rows'[r].updated \in Nat /\ rows'[r].synced \in Nat
<1>1. \A r \in Servers : rows'[r] \in Row
  BY DEF TypeOK
<1> QED BY <1>1 DEF Row


LEMMA CategoriesQuiet ==
  ASSUME TypeOK, TypeOK', Categories, QuietStep
  PROVE  Categories'
<1>1. /\ HereKept /\ ThereKept /\ answer' \subseteq answer
      /\ pulling' \subseteq pulling
  BY DEF QuietStep
<1>2. CategoryAgrees'
  BY <1>1 DEF Categories, CategoryAgrees, HereKept, ThereKept, Agrees, Filed,
     Exists, PathOf
<1>3. CategoryOfPull'
  BY <1>1 DEF Categories, CategoryOfPull, HereKept
<1>4. CategoryOfAnswer'
  <2>1. answer' = {} \/ RunKept
    BY AloneNext DEF QuietStep, Narrows, Applies, Stops, Lists, RunKept
  <2> QED BY <1>1, <2>1 DEF Categories, CategoryOfAnswer, HereKept, ThereKept,
      Agrees, Filed, Exists, PathOf, RunKept
<1>5. CategoryAsListed'
  <2>1. \/ /\ RunKept /\ run'.todo \subseteq run.todo
           /\ pc' = "marks" => pc = "marks"
        \/ run'.todo = {}
    BY DEF QuietStep, Narrows, Applies, Stops, Lists, RunKept, RunOver,
       RunGone
  <2> QED BY <1>1, <2>1 DEF Categories, CategoryAsListed, HereKept,
          PathOf, RunKept
<1> QED BY <1>2, <1>3, <1>4, <1>5 DEF Categories


\* A pull files the row as its item says.
LEMMA CategoriesPull ==
  ASSUME TypeOK, TypeOK', Stamps, Kept, Categories, NEW p \in pulling,
         NEW r \in Servers, Ends(p), Writes(p, r), pc = "apply",
         ChangeOf(p.change), rows'[r].link = p.change.item,
         p.change.row # NoServer /\ rows'[r].mark = 0 =>
           rows[p.change.row].stored /\ rows[p.change.row].mark = 0
  PROVE  Categories'
<1>1. /\ UNCHANGED <<items, cats, answer>> /\ pulling' = {}
      /\ \A s \in Servers \ {r} : /\ rows'[s] = rows[s]
                                  /\ s \in late' <=> s \in late
                                  /\ s \in astray' <=> s \in astray
      /\ rows'[r].cat = p.cat
      /\ rows'[r].revision = p.change.served.revision
      /\ r \notin astray' => PathOf(p.cat) = p.path
  BY DEF Ends, Writes
<1>2. run'.todo = {} /\ answer = {}
  BY Alone DEF Ends, RunOver, RunGone, Kept, ChangesKept
<1>3. CategoryOfAnswer' /\ CategoryAsListed' /\ CategoryOfPull'
  BY <1>1, <1>2 DEF CategoryOfAnswer, CategoryAsListed, CategoryOfPull
<1>4. ASSUME r \notin astray', rows'[r].mark = 0,
             items[p.change.item].revision <= p.change.served.revision,
             items[p.change.item].path # 0
      PROVE  /\ PathOf(p.cat) # 0
             /\ \/ items[p.change.item].cat = p.cat
                \/ items[p.change.item].path = PathOf(p.cat)
  <2> DEFINE i == p.change.item
  <2>1. i \in Items /\ p.change.served = run.served[i]
    BY Nats DEF ChangeOf
  <2>2. /\ run.served[i].revision <= items[i].revision
        /\ run.served[i].revision = items[i].revision =>
             items[i] = run.served[i]
    BY <2>1 DEF Stamps, ServedIsPast
  <2>3. run.served[i].revision \in Nat /\ items[i].revision \in Nat
    BY <2>1, Nats
  <2>4. items[i] = p.change.served
    BY <1>4, <2>1, <2>2, <2>3
  <2>5. /\ p.path # 0
        /\ p.cat = p.change.served.cat \/ p.path = p.change.served.path
    BY <1>4, <2>4 DEF Categories, CategoryOfPull
  <2> QED BY <1>1, <1>4, <2>4, <2>5
<1>5. \A s \in Servers \ {r}, i \in Items :
        Agrees(s, items[i]) => Agrees(s, items[i])'
  BY <1>1 DEF Agrees, Filed, Exists, PathOf
<1>6. CategoryAgrees'
  <2> SUFFICES ASSUME NEW s \in Servers, s \notin late', s \notin astray',
                      rows'[s].stored, rows'[s].link # NoItem,
                      rows'[s].updated <= rows'[s].synced,
                      rows'[s].mark = 0,
                      items[rows'[s].link].revision <= rows'[s].revision
               PROVE  Agrees(s, items[rows[s].link])'
    BY <1>1 DEF CategoryAgrees
  <2>1. CASE s = r
    BY <1>1, <1>4, <2>1 DEF Agrees, Filed, Exists, PathOf
  <2>2. CASE s # r
    <3>1. /\ rows[s].link \in Items /\ rows'[s] = rows[s]
          /\ s \notin late /\ s \notin astray
      BY <1>1, <2>2, Links
    <3> QED BY <1>1, <1>5, <2>2, <3>1 DEF Categories, CategoryAgrees
  <2> QED BY <2>1, <2>2
<1> QED BY <1>3, <1>6 DEF Categories

\* Categories is inductive, given the parts before it.
LEMMA CategoriesNext ==
  ASSUME TypeOK, TypeOK', Stamps, Kept, Bases, Categories, [Next]_vars
  PROVE  Categories'
<1>1. ASSUME NEW r \in Servers, NEW c \in Cats \cup {NoCat},
             SaveStart(r, c)
      PROVE  Categories'
  <2>1. CategoryAgrees'
    BY <1>1, SaveStartDoes, Nats, Links, NamesApart
       DEF RunAsWas, CategoryAgrees, Categories, Stamps, HerePassed, Tick,
            Agrees, Filed, Exists, PathOf
  <2>2. CategoryOfAnswer'
    BY <1>1, SaveStartDoes, Nats, AloneNext
       DEF RunAsWas, CategoryOfAnswer, Categories, Stamps, ItemsPassed,
            RunPassed, Tick, Agrees, Filed, Exists, PathOf
  <2>3. CategoryAsListed'
    BY <1>1, SaveStartDoes, Nats, Links
       DEF RunAsWas, CategoryAsListed, Categories, Stamps, RunPassed, PathOf,
            Tick
  <2>4. CategoryOfPull'
    BY <1>1, SaveStartDoes, Nats, AloneNext
       DEF RunAsWas, CategoryOfPull, Categories
  <2> QED BY <2>1, <2>2, <2>3, <2>4 DEF Categories
<1>2. ASSUME NEW r \in Servers, SaveWrite(r)
      PROVE  Categories'

  <2>1. CASE ~rows[r].stored
    BY <1>2, <2>1, SaveWriteDoes
       DEF RunAsWas, Categories, CategoryAgrees, CategoryOfAnswer,
           CategoryAsListed, CategoryOfPull, Agrees, Filed, Exists, PathOf
  <2>2. CASE rows[r].stored
    <3>1. /\ UNCHANGED <<cats, astray, items, pc, run, answer, pulling>>
          /\ \A s \in Servers \ {r} : rows'[s] = rows[s]
          /\ rows'[r].stored /\ rows'[r].updated = saving[r].at
          /\ rows'[r].synced = rows[r].synced /\ rows'[r].mark = rows[r].mark
          /\ saving[r] # NoSave
          /\ late' = IF saving[r].at < rows[r].updated
                       THEN late \cup {r} ELSE late \ {r}
      BY <1>2, <2>2, SaveWriteDoes DEF RunAsWas, OthersKeep
    <3>2. r \notin late' =>
            /\ rows'[r].updated > rows'[r].synced
            /\ run.listed[r].stored => rows'[r].updated # run.listed[r].updated
      BY <2>2, <3>1, Nats DEF Bases, SaveOrder
    <3>3. \A s \in Servers \ {r} : s \in late' <=> s \in late
      BY <3>1
    <3>4. CategoryAgrees'
      BY <3>1, <3>2, <3>3, Nats
         DEF Categories, CategoryAgrees, Agrees, Filed, Exists, PathOf
    <3>5. CategoryOfAnswer'
      BY <3>1, <3>2, <3>3, Nats
         DEF Kept, AnswerKept, Categories, CategoryOfAnswer, Agrees, Filed,
             Exists, PathOf
    <3>6. CategoryAsListed'
      BY <3>1, <3>2, <3>3, Links
         DEF Kept, TodoUntouched, Untouched, Categories, CategoryAsListed,
             PathOf
    <3>7. CategoryOfPull'
      BY <2>2, <3>1, Nats DEF Categories, CategoryOfPull
    <3> QED BY <3>4, <3>5, <3>6, <3>7 DEF Categories
  <2> QED BY <2>1, <2>2
<1>3. ASSUME NEW r \in Servers, ServerDelete(r)
      PROVE  Categories'

  <2>1. /\ UNCHANGED <<cats, items, pc, run, answer, pulling>>
        /\ \A s \in Servers \ {r} : /\ rows'[s] = rows[s]
                                    /\ s \in late' <=> s \in late
                                    /\ s \in astray' <=> s \in astray
        /\ ~rows'[r].stored
    BY <1>3, ServerDeleteDoes, ZeroFields DEF RunAsWas, OthersKeep
  <2>2. CategoryAgrees'
    BY <2>1 DEF Categories, CategoryAgrees, Agrees, Filed, Exists, PathOf
  <2>3. CategoryOfAnswer'
    BY <2>1, Nats
       DEF Categories, CategoryOfAnswer, Agrees, Filed, Exists, PathOf
  <2>4. CategoryAsListed'
    BY <2>1, Links DEF Categories, CategoryAsListed, PathOf
  <2>5. CategoryOfPull'
    BY <2>1, Nats DEF Categories, CategoryOfPull
  <2> QED BY <2>2, <2>3, <2>4, <2>5 DEF Categories
<1>4. ASSUME NEW c \in Cats, CategoryChanges(c)
      PROVE  Categories'

  <2>1. /\ UNCHANGED <<items, late, astray, pc, run, answer, pulling>>
        /\ \A d \in Cats \ {c} : cats'[d] = cats[d]
        /\ cats[c] # 0 /\ c # NoCat
        /\ \A r \in Servers : rows'[r].stored = rows[r].stored
    BY <1>4, NamesApart DEF CategoryChanges, RunAsWas
  <2>2. \A r \in Servers : rows'[r].mark # Tick =>
          rows'[r] = rows[r] /\ rows[r].cat # c
    BY <1>4 DEF CategoryChanges
  <2>3. \A r \in Servers :
          /\ rows'[r].updated = rows[r].updated
          /\ rows'[r].mark # Tick \/ rows[r].cat = c
          /\ \/ rows'[r].cat = rows[r].cat
             \/ /\ rows[r].cat = c /\ rows'[r].cat = NoCat /\ cats'[c] = 0
    <3> SUFFICES ASSUME NEW r \in Servers
                 PROVE  /\ rows'[r].updated = rows[r].updated
                        /\ rows'[r].mark # Tick \/ rows[r].cat = c
                        /\ \/ rows'[r].cat = rows[r].cat
                           \/ /\ rows[r].cat = c /\ rows'[r].cat = NoCat
                              /\ cats'[c] = 0
      OBVIOUS
    <3>1. rows[r].mark <= clock /\ rows[r].mark \in Nat /\ clock \in Nat
      BY Nats DEF Stamps, HerePassed
    <3> QED BY <1>4, <3>1 DEF CategoryChanges, Tick
  <2>4. Tick # 0 /\ \A r \in Servers : ~(Tick <= run.marks[r])
    BY Nats DEF Stamps, RunPassed, Tick
  <2>5. \A d \in Cats \cup {NoCat} : d # c => PathOf(d)' = PathOf(d)
    BY <2>1 DEF PathOf
  <2>6. \A r \in Servers : rows'[r].mark # Tick => Filed(r)' = Filed(r)
    BY <2>2, <2>5, CatFields DEF Filed, Exists
  <2>7. CategoryAgrees'
    <3> SUFFICES ASSUME NEW r \in Servers, r \notin late, r \notin astray,
                        rows'[r].stored, rows'[r].link # NoItem,
                        rows'[r].updated <= rows'[r].synced,
                        rows'[r].mark = 0,
                        items[rows'[r].link].revision <= rows'[r].revision
                 PROVE  Agrees(r, items[rows[r].link])'
      BY <2>1 DEF CategoryAgrees
    <3>1. rows'[r] = rows[r] /\ rows[r].cat # c /\ Filed(r)' = Filed(r)
      BY <2>2, <2>4, <2>6
    <3>2. PathOf(rows[r].cat)' = PathOf(rows[r].cat)
      BY <2>5, <3>1, CatFields
    <3>3. Agrees(r, items[rows[r].link])
      BY <3>1 DEF Categories, CategoryAgrees
    <3> QED BY <2>1, <3>1, <3>2, <3>3 DEF Agrees
  <2>8. CategoryOfAnswer'
    <3> SUFFICES ASSUME NEW a \in answer, a.row \notin late,
                        rows'[a.row].stored,
                        rows'[a.row].updated = run.listed[a.row].updated,
                        rows'[a.row].mark <= run.marks[a.row],
                        items[a.item].revision <= a.revision
                 PROVE  Agrees(a.row, items[a.item])'
      BY <2>1 DEF CategoryOfAnswer
    <3>0. a.row \in Servers
      BY Nats
    <3>1. /\ rows'[a.row] = rows[a.row] /\ rows[a.row].cat # c
          /\ Filed(a.row)' = Filed(a.row)
      BY <2>2, <2>4, <2>6, <3>0
    <3>2. PathOf(rows[a.row].cat)' = PathOf(rows[a.row].cat)
      BY <2>5, <3>0, <3>1, CatFields
    <3>3. Agrees(a.row, items[a.item])
      BY <3>1 DEF Categories, CategoryOfAnswer
    <3> QED BY <2>1, <3>1, <3>2, <3>3 DEF Agrees
  <2>9. CategoryAsListed'
    <3> SUFFICES ASSUME NEW r \in run.todo, r \notin late,
                        rows'[r].stored,
                        rows'[r].updated = run.listed[r].updated,
                        pc = "marks" \/ rows'[r].mark <= run.marks[r]
                 PROVE  \/ rows'[r].cat = run.listed[r].cat
                        \/ PathOf(run.listed[r].cat)' = 0
      BY <2>1 DEF CategoryAsListed, PathOf
    <3>0. r \in Servers
      BY Links
    <3>1. \/ rows[r].cat = run.listed[r].cat
          \/ PathOf(run.listed[r].cat) = 0
      <4>1. pc = "marks" \/ rows[r].mark <= run.marks[r]
        BY <2>2, <2>4, <3>0
      <4> QED BY <2>1, <2>3, <3>0, <4>1 DEF Categories, CategoryAsListed
    <3>2. PathOf(c)' = cats'[c] /\ PathOf(c) # 0
      BY <2>1 DEF PathOf
    <3>3. CASE rows[r].cat = run.listed[r].cat
      BY <2>1, <2>3, <3>0, <3>2, <3>3
    <3>4. CASE PathOf(run.listed[r].cat) = 0
      <4>1. run.listed[r].cat # c
        BY <3>2, <3>4
      <4>2. PathOf(run.listed[r].cat)' = PathOf(run.listed[r].cat)
        BY <2>1, <2>5, <3>0, <4>1, CatFields
      <4> QED BY <3>4, <4>2
    <3> QED BY <3>1, <3>3, <3>4
  <2>10. CategoryOfPull'
    BY <2>1, <2>2, <2>4, Nats DEF Categories, CategoryOfPull
  <2> QED BY <2>7, <2>8, <2>9, <2>10 DEF Categories
<1>5. ASSUME NEW i \in Items, Remote(i)
      PROVE  Categories'
  <2>1. CategoryAgrees'
    BY <1>5, Nats, Links, NamesApart
       DEF Remote, Moves, HereKept, RunAsWas, CategoryAgrees, Categories,
            Stamps, HerePassed, Tick, Agrees, Filed, Exists, PathOf
  <2>2. CategoryOfAnswer'
    BY <1>5, Nats, AloneNext
       DEF Remote, Moves, HereKept, RunAsWas, CategoryOfAnswer, Categories,
            Stamps, ItemsPassed, RunPassed, Tick, Agrees, Filed, Exists, PathOf
  <2>3. CategoryAsListed'
    BY <1>5, Nats, Links
       DEF Remote, Moves, HereKept, RunAsWas, CategoryAsListed, Categories,
            Stamps, RunPassed, PathOf, Tick
  <2>4. CategoryOfPull'
    BY <1>5, Nats, AloneNext
       DEF Remote, Moves, HereKept, RunAsWas, CategoryOfPull, Categories
  <2> QED BY <2>1, <2>2, <2>3, <2>4 DEF Categories
<1>6. ASSUME pc \in {"idle", "asked"}, NEW a \in SUBSET Change,
             Fetch(a)
      PROVE  Categories'
  <2>1. CategoryAgrees'
    BY <1>6, FetchDoes, Nats, Links, NamesApart
       DEF RunGone, HereKept, ThereKept, CategoryAgrees, Categories, Stamps,
            HerePassed, Tick, Agrees, Filed, Exists, PathOf
  <2>2. CategoryOfAnswer'
    BY <1>6, FetchDoes, Nats, AloneNext
       DEF RunGone, HereKept, ThereKept, CategoryOfAnswer, Categories, Stamps,
            ItemsPassed, RunPassed, Tick, Agrees, Filed, Exists, PathOf
  <2>3. CategoryAsListed'
    BY <1>6, FetchDoes, Nats, Links
       DEF RunGone, HereKept, ThereKept, CategoryAsListed, Categories, Stamps,
            RunPassed, PathOf, Tick
  <2>4. CategoryOfPull'
    BY <1>6, FetchDoes, Nats, AloneNext
       DEF RunGone, HereKept, ThereKept, CategoryOfPull, Categories
  <2> QED BY <2>1, <2>2, <2>3, <2>4 DEF Categories
<1>7. ASSUME ListServers
      PROVE  Categories'
  <2>1. CategoryAgrees'
    BY <1>7, ListServersDoes, Nats, Links, NamesApart
       DEF HereKept, ThereKept, CategoryAgrees, Categories, Stamps,
            HerePassed, Tick, Agrees, Filed, Exists, PathOf
  <2>2. CategoryOfAnswer'
    BY <1>7, ListServersDoes, Nats, AloneNext
       DEF HereKept, ThereKept, CategoryOfAnswer, Categories, Stamps,
            ItemsPassed, RunPassed, Tick, Agrees, Filed, Exists, PathOf
  <2>3. CategoryAsListed'
    BY <1>7, ListServersDoes, Nats, Links
       DEF HereKept, ThereKept, CategoryAsListed, Categories, Stamps,
            RunPassed, PathOf, Tick
  <2>4. CategoryOfPull'
    BY <1>7, ListServersDoes, Nats, AloneNext
       DEF HereKept, ThereKept, CategoryOfPull, Categories
  <2> QED BY <2>1, <2>2, <2>3, <2>4 DEF Categories
<1>8. ASSUME CategoryMarks
      PROVE  Categories'
  <2>1. CategoryAgrees'
    BY <1>8, CategoryMarksDoes, Nats, Links, NamesApart
       DEF HereKept, ThereKept, CategoryAgrees, Categories, Stamps,
            HerePassed, Tick, Agrees, Filed, Exists, PathOf
  <2>2. CategoryOfAnswer'
    BY <1>8, CategoryMarksDoes, Nats, AloneNext
       DEF HereKept, ThereKept, CategoryOfAnswer, Categories, Stamps,
            ItemsPassed, RunPassed, Tick, Agrees, Filed, Exists, PathOf
  <2>3. CategoryAsListed'
    BY <1>8, CategoryMarksDoes, Nats, Links
       DEF HereKept, ThereKept, CategoryAsListed, Categories, Stamps,
            RunPassed, PathOf, Tick
  <2>4. CategoryOfPull'
    BY <1>8, CategoryMarksDoes, Nats, AloneNext
       DEF HereKept, ThereKept, CategoryOfPull, Categories
  <2> QED BY <2>1, <2>2, <2>3, <2>4 DEF Categories
<1>9. ASSUME QuietStep
      PROVE  Categories'
  BY <1>9, CategoriesQuiet
<1>10. ASSUME NEW r \in Servers, NEW i \in Items, Create(r, i)
      PROVE  Categories'
  <2>1. CategoryAgrees'
    BY <1>10, CreateDoes, Nats, Links, NamesApart
       DEF Uploads, Moves, RunKept, HereKept, Turn, CategoryAgrees,
            Categories, Stamps, HerePassed, Tick, Agrees, Filed, Exists, PathOf
  <2>2. CategoryOfAnswer'

    <3>1. /\ Uploads(r, i) /\ r \in run.todo /\ pc = "rows"
      BY <1>10, CreateDoes DEF Uploads, Turn
    <3>2. PICK a \in Answer : answer' = {a} /\ a.row = r /\ a.item = i
      BY <3>1 DEF Uploads
    <3>3. /\ UNCHANGED <<rows, cats, late>> /\ run'.listed = run.listed
          /\ run'.marks = run.marks
      BY <3>1 DEF Uploads, HereKept, RunKept
    <3>4. ASSUME r \notin late, rows[r].stored,
                 rows[r].updated = run.listed[r].updated,
                 rows[r].mark <= run.marks[r], items'[i].path # 0
          PROVE  /\ PathOf(rows[r].cat) # 0
                 /\ items'[i].cat = rows[r].cat
      <4>1. /\ items'[i].path = PathOf(run.listed[r].cat)
            /\ items'[i].cat = run.listed[r].cat
        BY <3>1, <3>4 DEF Uploads
      <4>2. rows[r].cat = run.listed[r].cat
        BY <3>1, <3>4, <4>1 DEF Categories, CategoryAsListed
      <4> QED BY <3>4, <4>1, <4>2
    <3> QED BY <3>2, <3>3, <3>4
            DEF CategoryOfAnswer, Agrees, Filed, Exists, PathOf
  <2>3. CategoryAsListed'
    BY <1>10, CreateDoes, Nats, Links
       DEF Uploads, Moves, RunKept, HereKept, Turn, CategoryAsListed,
            Categories, Stamps, RunPassed, PathOf, Tick
  <2>4. CategoryOfPull'
    BY <1>10, CreateDoes, Nats, AloneNext
       DEF Uploads, Moves, RunKept, HereKept, Turn, CategoryOfPull, Categories
  <2> QED BY <2>1, <2>2, <2>3, <2>4 DEF Categories
<1>11. ASSUME NEW r \in Servers, NEW i \in Items, Update(r, i)
      PROVE  Categories'
  <2>1. CategoryAgrees'
    BY <1>11, UpdateDoes, Nats, Links, NamesApart
       DEF Uploads, Moves, RunKept, HereKept, Turn, CategoryAgrees,
            Categories, Stamps, HerePassed, Tick, Agrees, Filed, Exists, PathOf
  <2>2. CategoryOfAnswer'

    <3>1. /\ Uploads(r, i) /\ r \in run.todo /\ pc = "rows"
      BY <1>11, UpdateDoes DEF Uploads, Turn
    <3>2. PICK a \in Answer : answer' = {a} /\ a.row = r /\ a.item = i
      BY <3>1 DEF Uploads
    <3>3. /\ UNCHANGED <<rows, cats, late>> /\ run'.listed = run.listed
          /\ run'.marks = run.marks
      BY <3>1 DEF Uploads, HereKept, RunKept
    <3>4. ASSUME r \notin late, rows[r].stored,
                 rows[r].updated = run.listed[r].updated,
                 rows[r].mark <= run.marks[r], items'[i].path # 0
          PROVE  /\ PathOf(rows[r].cat) # 0
                 /\ items'[i].cat = rows[r].cat
      <4>1. /\ items'[i].path = PathOf(run.listed[r].cat)
            /\ items'[i].cat = run.listed[r].cat
        BY <3>1, <3>4 DEF Uploads
      <4>2. rows[r].cat = run.listed[r].cat
        BY <3>1, <3>4, <4>1 DEF Categories, CategoryAsListed
      <4> QED BY <3>4, <4>1, <4>2
    <3> QED BY <3>2, <3>3, <3>4
            DEF CategoryOfAnswer, Agrees, Filed, Exists, PathOf
  <2>3. CategoryAsListed'
    BY <1>11, UpdateDoes, Nats, Links
       DEF Uploads, Moves, RunKept, HereKept, Turn, CategoryAsListed,
            Categories, Stamps, RunPassed, PathOf, Tick
  <2>4. CategoryOfPull'
    BY <1>11, UpdateDoes, Nats, AloneNext
       DEF Uploads, Moves, RunKept, HereKept, Turn, CategoryOfPull, Categories
  <2> QED BY <2>1, <2>2, <2>3, <2>4 DEF Categories
<1>12. ASSUME Record
      PROVE  Categories'

  <2>1. PICK a \in answer :
          /\ \A s \in Servers \ {a.row} : rows'[s] = rows[s]
          /\ rows[a.row].stored =>
               /\ rows'[a.row].stored
               /\ rows'[a.row].cat = rows[a.row].cat
               /\ rows'[a.row].updated = rows[a.row].updated
               /\ rows'[a.row].link = a.item
               /\ rows'[a.row].revision = a.revision
               /\ rows'[a.row].synced = run.listed[a.row].updated
               /\ rows'[a.row].mark = IF rows[a.row].mark <=
                    run.marks[a.row] THEN 0 ELSE rows[a.row].mark
               /\ astray' = astray \ {a.row}
          /\ ~rows[a.row].stored => UNCHANGED <<rows, base, astray>>
    BY <1>12, RecordDoes
  <2>2. /\ UNCHANGED <<cats, late, items, pc, run, pulling>>
        /\ answer' = {} /\ a.row \in Servers
    BY <1>12, RecordDoes, Nats
  <2>3. CategoryOfAnswer' /\ CategoryOfPull'
    <3>1. pulling = {}
      BY <2>1, Alone
    <3> QED BY <2>2, <3>1 DEF CategoryOfAnswer, CategoryOfPull
  <2>4. CASE ~rows[a.row].stored
    BY <2>1, <2>2, <2>3, <2>4
       DEF Categories, CategoryAgrees, CategoryAsListed, Agrees, Filed, Exists,
           PathOf
  <2>5. CASE rows[a.row].stored
    <3>1. CategoryAsListed'
      BY <2>1, <2>2, <2>5, Links
         DEF Kept, AnswerKept, Categories, CategoryAsListed, PathOf
    <3>0. a.row \notin late =>
            rows[a.row].updated >= run.listed[a.row].updated
      <4>1. run.listed[a.row].stored
        BY DEF Kept, AnswerKept
      <4> QED BY <2>2, <2>5, <4>1 DEF Bases, ListedIsPast
    <3>2. ASSUME a.row \notin late, rows[a.row].updated <=
                   run.listed[a.row].updated,
                 rows'[a.row].mark = 0,
                 items[a.item].revision <= a.revision
          PROVE  Agrees(a.row, items[a.item])
      <4>4. rows[a.row].updated = run.listed[a.row].updated
        <5>1. /\ rows[a.row].updated \in Nat
              /\ run.listed[a.row].updated \in Nat
          BY <2>2, Nats
        <5> QED BY <3>0, <3>2, <5>1
      <4>3. rows[a.row].mark <= run.marks[a.row]
        BY <2>1, <2>2, <2>5, <3>2, Nats
      <4> QED BY <2>5, <3>2, <4>3, <4>4 DEF Categories, CategoryOfAnswer
    <3>3. Agrees(a.row, items[a.item]) => Agrees(a.row, items[a.item])'
      BY <2>1, <2>2, <2>5 DEF Agrees, Filed, Exists, PathOf
    <3>4. \A s \in Servers \ {a.row} :
            /\ rows'[s] = rows[s] /\ s \in astray' <=> s \in astray
            /\ \A i \in Items : Agrees(s, items[i]) => Agrees(s, items[i])'
      BY <2>1, <2>2, <2>5 DEF Agrees, Filed, Exists, PathOf
    <3>5. CategoryAgrees'
      BY <2>1, <2>2, <2>5, <3>2, <3>3, <3>4, Links
         DEF Categories, CategoryAgrees
    <3> QED BY <2>3, <3>1, <3>5 DEF Categories
  <2> QED BY <2>4, <2>5
<1>13. ASSUME NEW r \in Servers, NEW i \in Items, Link(r, i)
      PROVE  Categories'
  <2>1. CategoryAgrees'

    <3>1. /\ UNCHANGED <<cats, late, astray, items>>
          /\ \A s \in Servers \ {r} : rows'[s] = rows[s]
          /\ rows' = rows \/ rows'[r].updated > rows'[r].synced
      BY <1>13, LinkDoes, Nats DEF ThereKept, OthersKeep, Stamps, RowShape
    <3>2. CASE rows' = rows
      BY <3>1, <3>2 DEF Categories, CategoryAgrees, Agrees, Filed, Exists,
         PathOf
    <3>3. CASE rows'[r].updated > rows'[r].synced
      BY <3>1, <3>3, TypedRowsNext, Nats
         DEF Categories, CategoryAgrees, Agrees, Filed, Exists, PathOf
    <3> QED BY <3>1, <3>2, <3>3
  <2>2. CategoryOfAnswer'
    BY <1>13, LinkDoes, Nats, AloneNext
       DEF RunKept, ThereKept, OthersKeep, Turn, CategoryOfAnswer, Categories,
            Stamps, ItemsPassed, RunPassed, Tick, Agrees, Filed, Exists, PathOf
  <2>3. CategoryAsListed'
    BY <1>13, LinkDoes, Nats, Links
       DEF RunKept, ThereKept, OthersKeep, Turn, CategoryAsListed, Categories,
            Stamps, RunPassed, PathOf, Tick
  <2>4. CategoryOfPull'
    BY <1>13, LinkDoes, Nats, AloneNext
       DEF RunKept, ThereKept, OthersKeep, Turn, CategoryOfPull, Categories
  <2> QED BY <2>1, <2>2, <2>3, <2>4 DEF Categories
<1>14. ASSUME NEW change \in pending, NEW c \in Cats \cup {NoCat},
             PullStart(change, c)
      PROVE  Categories'

  <2>1. PICK p \in Pull :
          /\ pulling' = {p} /\ p.change = change /\ p.cat = c
          /\ p.path = IF c = NoCat THEN 0 ELSE cats'[c]
    BY <1>14, PullStartDoes
  <2>2. /\ UNCHANGED <<rows, late, astray, items, pc, run, answer>>
        /\ pc = "apply" /\ Refiled(change, c) /\ change \in Change
    BY <1>14, PullStartDoes DEF ThereKept
  <2>3. \A d \in Cats : cats[d] # 0 => cats'[d] = cats[d]
    BY <2>2 DEF TypeOK, Refiled, FiledAs
  <2>4. \A r \in Servers : Filed(r) =>
          Filed(r)' /\ PathOf(rows[r].cat)' = PathOf(rows[r].cat)
    BY <2>2, <2>3, CatFields DEF Filed, Exists, PathOf
  <2>5. \A r \in Servers, i \in Items :
          Agrees(r, items[i]) => Agrees(r, items[i])'
    BY <2>2, <2>4 DEF Agrees
  <2>6. CategoryAgrees'
    BY <2>2, <2>5, Links DEF Categories, CategoryAgrees
  <2>7. CategoryOfAnswer' /\ CategoryAsListed'
    <3>1. answer = {} /\ run.todo = {}
      BY <2>2, Alone DEF Kept, ChangesKept
    <3> QED BY <2>2, <3>1 DEF CategoryOfAnswer, CategoryAsListed
  <2>8. ASSUME change.row # NoServer =>
                 rows[change.row].stored /\ rows[change.row].mark = 0,
               change.served.path # 0
        PROVE  p.path # 0 /\ (p.cat = change.served.cat
                              \/ p.path = change.served.path)
    <3>1. FiledAs(change.served, c)
      BY <2>2, <2>8 DEF Refiled
    <3>2. CASE Meant(change.served, cats) # {}
      <4>1. c \in Meant(change.served, cats) /\ cats' = cats
        BY <3>1, <3>2 DEF FiledAs
      <4>2. \/ c = change.served.cat /\ c # NoCat /\ cats[c] # 0
            \/ c \in Cats /\ cats[c] = change.served.path
        BY <2>8, <4>1 DEF Meant
      <4> QED BY <2>1, <2>8, <4>1, <4>2, NamesApart
    <3>3. CASE Meant(change.served, cats) = {}
      <4>1. c \in Cats /\ cats'[c] = change.served.path
        BY <3>1, <3>3 DEF FiledAs, TypeOK
      <4> QED BY <2>1, <2>8, <4>1, NamesApart
    <3> QED BY <3>2, <3>3
  <2>9. CategoryOfPull'
    BY <2>1, <2>2, <2>8 DEF CategoryOfPull
  <2> QED BY <2>6, <2>7, <2>9 DEF Categories
<1>15. ASSUME NEW p \in pulling, Replaces(p)
      PROVE  Categories'

  <2>1. /\ Ends(p) /\ Writes(p, p.change.row) /\ pc = "apply"
        /\ p.change.row \in Servers
    BY <1>15 DEF Replaces
  <2>2. ChangeOf(p.change)
    BY <2>1 DEF Kept, ChangesKept
  <2>3. rows'[p.change.row].link = p.change.item
    BY <1>15, <2>2, NamesApart DEF Replaces, ChangeOf, Untouched
  <2>4. rows'[p.change.row].mark = 0 =>
          rows[p.change.row].stored /\ rows[p.change.row].mark = 0
    BY <1>15 DEF Replaces
  <2> QED BY <2>1, <2>2, <2>3, <2>4, CategoriesPull
<1>16. ASSUME NEW p \in pulling, NEW r \in Servers, Imports(p, r)
      PROVE  Categories'

  <2>1. Ends(p) /\ Writes(p, r) /\ pc = "apply" /\ p.change.row = NoServer
    BY <1>16 DEF Imports
  <2>2. ChangeOf(p.change)
    BY <2>1 DEF Kept, ChangesKept
  <2>3. rows'[r].link = p.change.item
    BY <1>16 DEF Imports
  <2> QED BY <2>1, <2>2, <2>3, CategoriesPull
<1>17. ASSUME Crash
      PROVE  Categories'
  <2>1. CategoryAgrees'
    BY <1>17, CrashDoes, Nats, Links, NamesApart
       DEF RunOver, RunGone, NothingServed, ThereKept, CategoryAgrees,
            Categories, Stamps, HerePassed, Tick, Agrees, Filed, Exists, PathOf
  <2>2. CategoryOfAnswer'
    BY <1>17, CrashDoes, Nats, AloneNext
       DEF RunOver, RunGone, NothingServed, ThereKept, CategoryOfAnswer,
            Categories, Stamps, ItemsPassed, RunPassed, Tick, Agrees, Filed,
            Exists, PathOf
  <2>3. CategoryAsListed'
    BY <1>17, CrashDoes, Nats, Links
       DEF RunOver, RunGone, NothingServed, ThereKept, CategoryAsListed,
            Categories, Stamps, RunPassed, PathOf, Tick
  <2>4. CategoryOfPull'
    BY <1>17, CrashDoes, Nats, AloneNext
       DEF RunOver, RunGone, NothingServed, ThereKept, CategoryOfPull,
            Categories
  <2> QED BY <2>1, <2>2, <2>3, <2>4 DEF Categories
<1> QED BY <1>1, <1>2, <1>3, <1>4, <1>5, <1>6, <1>7, <1>8, <1>9, <1>10, <1>11,
     <1>12, <1>13, <1>14, <1>15, <1>16, <1>17, NextIs

\* What counts as equal is equal.
LEMMA EqualWhenInSync ==
  ASSUME TypeOK, Stamps, Bases, Categories
  PROVE  InSyncIsEqual
<1> SUFFICES ASSUME NEW r \in Servers \ late, InSync(r)
             PROVE  LET item == items[rows[r].link]
                    IN  /\ rows[r].data = item.data
                        /\ r \notin astray => SameCategory(r, item)
  BY DEF InSyncIsEqual
<1> DEFINE i == rows[r].link
<1>1. /\ rows[r].stored /\ i # NoItem
      /\ Compared(rows[r], rows[r].mark, i, items[i]) = "InSync"
  BY DEF InSync
<1>2. i \in Items /\ rows[r] \in Row /\ rows[r].mark \in Nat
  BY <1>1, Links, Nats DEF TypeOK
<1>3. items[i] \in Item
  BY <1>2 DEF TypeOK
<1>4. /\ rows[r].updated <= rows[r].synced /\ rows[r].mark = 0
      /\ items[i].revision <= rows[r].revision
  BY <1>1, <1>2, <1>3, ComparedIs
<1>5. rows[r].updated > 0
  BY <1>1 DEF Stamps, RowShape
<1>6. rows[r].synced > 0
  BY <1>4, <1>5, Nats
<1>7. rows[r].data = base[r]
  BY <1>1, <1>4 DEF Bases, BaseOfRow
<1>8. items[i].data = base[r]
  BY <1>1, <1>4, <1>6 DEF Bases, BaseOfItem
<1>9. r \notin astray => SameCategory(r, items[i])
  BY <1>1, <1>4 DEF Categories, CategoryAgrees, Agrees, SameCategory
<1> QED BY <1>7, <1>8, <1>9

-----------------------------------------------------------------------------
(* One item each. *)

\* A link is to an item that was there once.
LinkShape ==
  \A r \in Servers :
    /\ rows[r].link # NoItem => items[rows[r].link].state # "none"
    /\ run.listed[r].link # NoItem =>
         items[run.listed[r].link].state # "none"

OursAreLive ==
  \A i \in ours : /\ items[i].state = "live" /\ items[i].folder
                  /\ items[i].names \in Servers

\* Whoever is linked to an item the sync created is the one it names.
LinkedByOwner ==
  \A i \in ours, r \in Servers :
    rows[r].link = i \/ run.listed[r].link = i => items[i].names = r

\* A run knows every item the sync created for a server before its turn.
SeenByRun ==
  \A i \in ours :
    \/ pc \in {"list", "marks", "index"}
    \/ pc = "rows" /\ items[i].names \in run.todo
    => /\ run.served[i].state = "live" /\ run.served[i].folder
       /\ run.served[i].names = items[i].names

\* An item that names another server than it did is the link of the server
\* it names now.
NamesChange ==
  \A i \in Items :
    run.served[i].state # "none" /\ items[i].names # run.served[i].names =>
      \E r \in Servers : /\ items[i].names = r /\ run.listed[r].link = i
                         /\ pc \in {"rows", "apply"}

Owned ==
  /\ LinkShape /\ OursAreLive /\ LinkedByOwner /\ SeenByRun /\ NamesChange
  /\ OneItemEach

LEMMA OwnedInit ==
  ASSUME Init PROVE Owned
<1>1. \A r \in Servers : rows[r].link = NoItem
  BY NamesApart DEF Init, NoRow
<1>2. /\ ours = {} /\ run = NoRun
      /\ \A r \in Servers : run.listed[r].link = NoItem
      /\ \A i \in Items : run.served[i].state = "none"
  BY NoRunFields, ZeroFields DEF Init
<1> QED BY <1>1, <1>2 DEF Owned, LinkShape, OursAreLive, LinkedByOwner,
        SeenByRun, NamesChange, OneItemEach

\* Where items stay as they are, and links and what is read stay or go.
LEMMA OwnedStays ==
  ASSUME TypeOK, Owned, items' = items, ours' \subseteq ours,
         \A r \in Servers :
           /\ \/ rows'[r].link \in {rows[r].link, NoItem}
              \/ /\ items[rows'[r].link].state # "none"
                 /\ rows'[r].link \in ours' =>
                      items[rows'[r].link].names = r
           /\ run'.listed[r].link \in
                {run.listed[r].link, rows[r].link, NoItem},
         \/ run'.served = run.served
         \/ \A i \in Items : run'.served[i] = Unused,
         pc' \in {"list", "marks", "index", "rows"} =>
           /\ run'.served = run.served
           /\ \/ pc \in {"list", "marks", "index"}
              \/ pc = "rows" /\ pc' = "rows" /\ run'.todo \subseteq run.todo,
         pc \in {"rows", "apply"} =>
           \/ \A i \in Items : run'.served[i] = Unused
           \/ /\ pc' \in {"rows", "apply"}
              /\ \A r \in Servers : run'.listed[r].link = run.listed[r].link
  PROVE  Owned'
<1>1. ours \subseteq Items /\ NoItem \notin Items
  BY NamesApart DEF TypeOK
<1>2. LinkShape'
  BY DEF Owned, LinkShape
<1>3. OursAreLive' /\ OneItemEach'
  BY DEF Owned, OursAreLive, OneItemEach
<1>4. LinkedByOwner'
  BY <1>1 DEF Owned, LinkedByOwner
<1>5. SeenByRun'
  BY DEF Owned, SeenByRun
<1>6. NamesChange'
  BY ZeroFields DEF Owned, NamesChange
<1> QED BY <1>2, <1>3, <1>4, <1>5, <1>6 DEF Owned

LEMMA OwnedQuiet ==
  ASSUME TypeOK, TypeOK', Owned, Kept, QuietStep
  PROVE  Owned'
<1>1. items' = items /\ ours' = ours /\ rows' = rows
  BY DEF QuietStep, HereKept, ThereKept
<1>2. \/ /\ run'.listed = run.listed /\ run'.served = run.served
         /\ run'.todo \subseteq run.todo
         /\ \/ pc' = pc
            \/ pc = "index" /\ pc' = "rows"
            \/ pc = "rows" /\ pc' = "apply"
      \/ /\ pc' \in {"idle", "asked"}
         /\ \A r \in Servers : run'.listed[r].link = NoItem
         /\ \A i \in Items : run'.served[i] = Unused
  BY ZeroFields DEF QuietStep, Narrows, Applies, Stops, Lists, RunKept,
     RunOver, RunGone, NothingServed
<1> QED BY <1>1, <1>2, OwnedStays

\* A step that moves an item.
LEMMA OwnedMoves ==
  ASSUME TypeOK, Stamps, Owned, NEW i \in Items, Moves(i), HereKept,
         RunKept, pc' = pc, run'.todo \subseteq run.todo,
         items[i].state # "none" => items'[i].names = items[i].names,
         ours' \subseteq ours,
         i \in ours' => items'[i].state = "live" /\ items'[i].folder
  PROVE  Owned'
<1>1. /\ \A j \in Items \ {i} : items'[j] = items[j]
      /\ items'[i].state # "none" /\ rows' = rows
      /\ run'.listed = run.listed /\ run'.served = run.served
  BY DEF Moves, HereKept, RunKept
<1>2. \A j \in ours' : /\ j \in Items /\ j \in ours
                       /\ items'[j].names = items[j].names
                       /\ items'[j].state = "live" /\ items'[j].folder
  BY <1>1 DEF Owned, OursAreLive, TypeOK
<1>3. LinkShape'
  BY <1>1, Links DEF Owned, LinkShape
<1>4. OursAreLive' /\ OneItemEach'
  BY <1>2 DEF Owned, OursAreLive, OneItemEach
<1>5. LinkedByOwner' /\ SeenByRun'
  BY <1>1, <1>2 DEF Owned, LinkedByOwner, SeenByRun
<1>6. NamesChange'
  <2>1. \A j \in Items : run.served[j].state # "none" =>
          items'[j].names = items[j].names
    BY <1>1 DEF Stamps, ServedIsPast
  <2> QED BY <1>1, <2>1 DEF Owned, NamesChange
<1> QED BY <1>3, <1>4, <1>5, <1>6 DEF Owned

\* Owned is inductive, given Stamps and Kept.
LEMMA OwnedNext ==
  ASSUME TypeOK, TypeOK', Stamps, Kept, Owned, [Next]_vars
  PROVE  Owned'
<1>1. ASSUME \/ \E r \in Servers, c \in Cats \cup {NoCat} : SaveStart(r, c)
             \/ \E r \in Servers : SaveWrite(r) \/ ServerDelete(r)
             \/ \E c \in Cats : CategoryChanges(c)
      PROVE  Owned'
  <2>1. /\ UNCHANGED <<items, ours>> /\ RunAsWas
        /\ \A r \in Servers : rows'[r].link \in {rows[r].link, NoItem}
    BY <1>1, SaveStartDoes, SaveWriteDoes, ServerDeleteDoes, ZeroFields
       DEF CategoryChanges, OthersKeep
  <2> QED BY <2>1, OwnedStays DEF RunAsWas
<1>2. ASSUME NEW i \in Items, Remote(i) PROVE Owned'
  <2>1. i \in ours' => items'[i].state = "live" /\ items'[i].folder
    BY <1>2 DEF Remote, Owned, OursAreLive
  <2> QED BY <1>2, <2>1, OwnedMoves DEF Remote, RunAsWas, RunKept
<1>3. ASSUME NEW a \in SUBSET Change, Fetch(a) PROVE Owned'
  <2>1. /\ UNCHANGED <<rows, items, ours>> /\ run'.served = items
        /\ \A r \in Servers : run'.listed[r].link = NoItem
    BY <1>3, FetchDoes, ZeroFields DEF RunGone, HereKept, ThereKept
  <2>2. LinkShape' /\ OursAreLive' /\ OneItemEach' /\ SeenByRun'
    BY <2>1 DEF Owned, LinkShape, OursAreLive, OneItemEach, SeenByRun
  <2>3. LinkedByOwner'
    BY <2>1, NamesApart DEF Owned, LinkedByOwner, TypeOK
  <2>4. NamesChange'
    BY <2>1 DEF NamesChange
  <2> QED BY <2>2, <2>3, <2>4 DEF Owned
<1>4. ASSUME ListServers \/ CategoryMarks PROVE Owned'
  <2>1. /\ UNCHANGED <<items, ours, rows>> /\ run'.served = run.served
        /\ \A r \in Servers : run'.listed[r].link \in
                                {run.listed[r].link, rows[r].link}
        /\ pc \in {"list", "marks"} /\ pc' \in {"marks", "index"}
    BY <1>4, ListServersDoes, CategoryMarksDoes DEF HereKept, ThereKept
  <2> QED BY <2>1, OwnedStays
<1>5. ASSUME QuietStep PROVE Owned'
  BY <1>5, OwnedQuiet
<1>6. ASSUME NEW r \in Servers, NEW i \in Items, Create(r, i) PROVE Owned'
  <2>1. /\ r \in run.todo /\ pc = "rows" /\ pc' = pc
        /\ items[i].state = "none" /\ PlannedCreate(r)
        /\ \A j \in Items \ {i} : items'[j] = items[j]
        /\ items'[i].state = "live" /\ items'[i].names = r
        /\ items'[i].folder /\ ours' = ours \cup {i}
        /\ rows' = rows /\ run'.listed = run.listed
        /\ run'.served = run.served /\ run'.todo = run.todo \ {r}
    BY <1>6, CreateDoes DEF Uploads, Moves, Turn, HereKept, RunKept
  <2>2. \A j \in ours : j \in Items /\ j # i /\ items'[j] = items[j]
    BY <2>1 DEF Owned, OursAreLive, TypeOK
  <2>3. ASSUME NEW j \in ours, items[j].names = r PROVE FALSE
    <3>1. /\ run.served[j].state = "live" /\ run.served[j].folder
          /\ run.served[j].names = r
      BY <2>1, <2>3 DEF Owned, SeenByRun
    <3>2. j \in Logins
      BY <2>2, <3>1 DEF Logins, Personal
    <3>3. OwnItems(r) = {}
      BY <2>1 DEF PlannedCreate
    <3>4. PICK o \in Servers \ {r} : run.listed[o].link = j
      BY <3>1, <3>2, <3>3 DEF OwnItems
    <3> QED BY <2>3, <3>4 DEF Owned, LinkedByOwner
  <2>4. \A s \in Servers : rows[s].link # i /\ run.listed[s].link # i
    BY <2>1, NamesApart DEF Owned, LinkShape
  <2>5. LinkShape'
    BY <2>1, <2>4, Links DEF Owned, LinkShape
  <2>6. OursAreLive' /\ OneItemEach'
    BY <2>1, <2>2, <2>3 DEF Owned, OursAreLive, OneItemEach
  <2>7. LinkedByOwner'
    BY <2>1, <2>2, <2>4 DEF Owned, LinkedByOwner
  <2>8. SeenByRun'
    BY <2>1, <2>2 DEF Owned, SeenByRun
  <2>9. NamesChange'
    <3>1. run.served[i].state = "none"
      BY <2>1 DEF Stamps, ServedIsPast
    <3> QED BY <2>1, <3>1 DEF Owned, NamesChange
  <2> QED BY <2>5, <2>6, <2>7, <2>8, <2>9 DEF Owned
<1>7. ASSUME NEW r \in Servers, NEW i \in Items, Update(r, i) PROVE Owned'
  <2>1. /\ r \in run.todo /\ pc = "rows" /\ pc' = pc
        /\ \A j \in Items \ {i} : items'[j] = items[j]
        /\ items'[i].state = "live" /\ items'[i].names = r
        /\ items'[i].folder = run.served[i].folder
        /\ run.listed[r].link = i
        /\ ours' = ours /\ rows' = rows /\ run'.listed = run.listed
        /\ run'.served = run.served /\ run'.todo = run.todo \ {r}
    BY <1>7, UpdateDoes DEF Uploads, Moves, Turn, HereKept, RunKept
  <2>2. i \in ours => items[i].names = r /\ run.served[i].folder
    BY <2>1 DEF Owned, LinkedByOwner, SeenByRun
  <2>3. \A j \in ours : /\ j \in Items
                        /\ items'[j].names = items[j].names
                        /\ items'[j].state = "live" /\ items'[j].folder
    BY <2>1, <2>2 DEF Owned, OursAreLive, TypeOK
  <2>4. LinkShape'
    BY <2>1, Links DEF Owned, LinkShape
  <2>5. OursAreLive' /\ OneItemEach' /\ LinkedByOwner' /\ SeenByRun'
    BY <2>1, <2>3
       DEF Owned, OursAreLive, OneItemEach, LinkedByOwner, SeenByRun
  <2>6. NamesChange'
    BY <2>1 DEF Owned, NamesChange
  <2> QED BY <2>4, <2>5, <2>6 DEF Owned
<1>8. ASSUME Record PROVE Owned'
  <2>1. PICK a \in answer :
          \A r \in Servers : \/ rows'[r].link = rows[r].link
                             \/ r = a.row /\ rows'[r].link = a.item
    BY <1>8, RecordDoes
  <2>2. UNCHANGED <<items, ours, pc, run>>
    BY <1>8, RecordDoes
  <2>3. items[a.item].names = a.row /\ items[a.item].state # "none"
    BY DEF Kept, AnswerKept
  <2> QED BY <2>1, <2>2, <2>3, OwnedStays
<1>9. ASSUME NEW r \in Servers, NEW i \in Items, Link(r, i) PROVE Owned'
  <2>1. /\ pc = "rows" /\ pc' = pc /\ UNCHANGED <<items, ours>>
        /\ run'.listed = run.listed /\ run'.served = run.served
        /\ run'.todo \subseteq run.todo /\ i \in OwnItems(r)
        /\ \A s \in Servers : \/ rows'[s].link = rows[s].link
                              \/ s = r /\ rows'[s].link = i
    BY <1>9, LinkDoes DEF ThereKept, OthersKeep, RunKept, Turn
  <2>2. /\ run.served[i].state = "live" /\ run.served[i].names = r
        /\ \A o \in Servers \ {r} : run.listed[o].link # i
    BY <2>1, OwnLive
  <2>3. items[i].state # "none"
    BY <2>2 DEF Stamps, ServedIsPast
  <2>4. items[i].names = r
    BY <2>2 DEF Owned, NamesChange
  <2> QED BY <2>1, <2>3, <2>4, OwnedStays
<1>10. ASSUME NEW change \in pending, NEW c \in Cats \cup {NoCat},
              PullStart(change, c)
       PROVE  Owned'
  <2>1. UNCHANGED <<items, ours, rows, pc, run>>
    BY <1>10, PullStartDoes DEF ThereKept
  <2> QED BY <2>1, OwnedStays
<1>11. ASSUME NEW p \in pulling, Ends(p), pc = "apply", ours' \subseteq ours,
              \A r \in Servers :
                \/ rows'[r].link = rows[r].link
                \/ rows'[r].link = p.change.item /\ p.change.item \notin ours'
       PROVE  Owned'
  <2>1. /\ items' = items
        /\ \/ run' = run /\ pc' = pc
           \/ RunOver /\ pc' = "idle"
    BY <1>11 DEF Ends
  <2>2. items[p.change.item].state # "none"
    <3>1. p.change.item \in Items /\ ChangeOf(p.change)
      BY <1>11, Nats DEF Kept, ChangesKept
    <3> QED BY <3>1 DEF ChangeOf, Stamps, ServedIsPast
  <2>3. CASE run' = run /\ pc' = pc
    BY <1>11, <2>1, <2>2, <2>3, OwnedStays
  <2>4. CASE RunOver /\ pc' = "idle"
    <3>1. /\ \A r \in Servers : run'.listed[r].link = NoItem
          /\ \A i \in Items : run'.served[i] = Unused
      BY <2>4, ZeroFields DEF RunOver, RunGone, NothingServed
    <3> QED BY <1>11, <2>1, <2>2, <2>4, <3>1, OwnedStays
  <2> QED BY <2>1, <2>3, <2>4
<1>12. ASSUME NEW p \in pulling, Replaces(p) PROVE Owned'
  <2>1. \A r \in Servers : rows'[r].link = rows[r].link
    BY <1>12 DEF Replaces, Writes
  <2>2. Ends(p) /\ pc = "apply" /\ ours' = ours
    BY <1>12 DEF Replaces
  <2> QED BY <1>11, <2>1, <2>2
<1>13. ASSUME NEW p \in pulling, NEW r \in Servers, Imports(p, r)
       PROVE  Owned'
  <2>1. \A s \in Servers : \/ rows'[s].link = rows[s].link
                           \/ rows'[s].link = p.change.item
    BY <1>13 DEF Imports, Writes
  <2>2. Ends(p) /\ pc = "apply" /\ ours' = ours \ {p.change.item}
    BY <1>13 DEF Imports
  <2> QED BY <1>11, <2>1, <2>2
<1>14. ASSUME Crash PROVE Owned'
  <2>1. /\ UNCHANGED <<items, ours>> /\ pc' = "idle"
        /\ \A r \in Servers : /\ rows'[r].link = rows[r].link
                              /\ run'.listed[r].link = NoItem
        /\ \A i \in Items : run'.served[i] = Unused
    BY <1>14, CrashDoes, ZeroFields
       DEF ThereKept, RunOver, RunGone, NothingServed
  <2> QED BY <2>1, OwnedStays
<1> QED BY <1>1, <1>2, <1>3, <1>4, <1>5, <1>6, <1>7, <1>8, <1>9, <1>10,
           <1>12, <1>13, <1>14, NextIs

-----------------------------------------------------------------------------
(* The theorems. *)

Inv == TypeOK /\ Stamps /\ Kept /\ Bases /\ Categories /\ Owned

\* The inductive invariant the results below rest on: what the sync may rely on
\* at each of its steps (sync.rs).
THEOREM Invariant == Spec => []Inv
<1>1. Init => Inv
  BY InitTyped, StampsInit, KeptInit, BasesInit, CategoriesInit, OwnedInit
     DEF Inv
<1>2. Inv /\ [Next]_vars => Inv'
  <2> SUFFICES ASSUME Inv, [Next]_vars PROVE Inv'
    OBVIOUS
  <2>1. TypeOK'
    BY NextTyped DEF Inv
  <2>2. Stamps' /\ Kept'
    BY <2>1, StampsNext, KeptNext DEF Inv
  <2>3. Bases' /\ Categories' /\ Owned'
    BY <2>1, BasesNext, CategoriesNext, OwnedNext DEF Inv
  <2> QED BY <2>1, <2>2, <2>3 DEF Inv
<1> QED BY <1>1, <1>2, PTL DEF Spec

\* No server is uploaded twice, whatever answers are lost and wherever the
\* program ends (own_item_of, own_item_candidates).
THEOREM Ownership == Spec => []OneItemEach
<1>1. Inv => OneItemEach
  BY DEF Inv, Owned
<1> QED BY <1>1, Invariant, PTL

\* What the next run would leave alone is equal: no edit is forgotten
\* (plan_matched).
THEOREM Agreement == Spec => []InSyncIsEqual
<1>1. Inv => InSyncIsEqual
  BY EqualWhenInSync DEF Inv
<1> QED BY <1>1, Invariant, PTL

\* Nothing comes into a row but what the user approved (approval_token).
THEOREM Approval == Spec => AsApproved
<1> DEFINE A == \A r \in Servers : Pulled(r) =>
                  \E c \in run.approve :
                    /\ c.row = IF rows[r].stored THEN r ELSE NoServer
                    /\ c.item = rows'[r].link /\ c.served.data = rows'[r].data
<1>1. Inv /\ [Next]_vars => A
  BY ApprovedStep DEF Inv
<1>2. Inv /\ [Next]_vars => [A]_vars
  BY <1>1
<1> QED BY <1>2, Invariant, PTL DEF Spec, AsApproved

\* No edit made here is overwritten by a pull (apply_pulled_server).
THEOREM Survival == Spec => EditsSurvive
<1> DEFINE A == \A r \in Servers :
                  Pulled(r) /\ rows[r].stored /\ r \notin late
                    => rows[r].data = base[r]
<1>1. Inv /\ [Next]_vars => A
  BY SurviveStep DEF Inv
<1>2. Inv /\ [Next]_vars => [A]_vars
  BY <1>1
<1> QED BY <1>2, Invariant, PTL DEF Spec, EditsSurvive

\* A category that goes up takes no edit made in Bitwarden with it
\* (plan_matched).
THEOREM Solitude == Spec => CategoryGoesUpAlone
<1> DEFINE A == \A a \in answer' \ answer : LosesNothing(a)
<1>1. Inv /\ [Next]_vars => A
  <2> SUFFICES ASSUME Inv, [Next]_vars PROVE A
    OBVIOUS
  <2>1. TypeOK'
    BY NextTyped DEF Inv
  <2> QED BY <2>1, AloneStep DEF Inv, LosesNothing
<1>2. Inv /\ [Next]_vars => [A]_vars
  BY <1>1
<1> QED BY <1>2, Invariant, PTL DEF Spec, CategoryGoesUpAlone

-----------------------------------------------------------------------------
(* Where a server is filed, when no category goes that something under way *)
(* still remembers.                                                        *)

\* A save, the run or a pull still holds the category, and may write it.
Remembered(c) ==
  \/ \E r \in Servers : saving[r].cat = c \/ run.listed[r].cat = c
  \/ \E p \in pulling : p.cat = c

\* What delete_category does not check: a category goes only when nothing
\* under way remembers it.
GoesUnremembered ==
  \A c \in Cats : cats[c] # 0 /\ cats'[c] = 0 => ~Remembered(c)

FiledAll ==
  /\ \A r \in Servers : /\ Filed(r) /\ Exists(saving[r].cat)
                        /\ Exists(run.listed[r].cat)
  /\ \A p \in pulling : Exists(p.cat)

LEMMA CatsTyped ==
  ASSUME TypeOK
  PROVE  /\ \A r \in Servers : /\ rows[r].cat \in Cats \cup {NoCat}
                               /\ saving[r].cat \in Cats \cup {NoCat}
                               /\ run.listed[r].cat \in Cats \cup {NoCat}
         /\ \A p \in pulling : p.cat \in Cats \cup {NoCat}
<1>1. \A r \in Servers : saving[r] \in Saving
  BY DEF TypeOK
<1>2. \A p \in pulling : p \in Pull
  BY DEF TypeOK
<1> QED BY <1>1, <1>2, CatFields DEF Saving, Pull

LEMMA CatsTypedNext ==
  ASSUME TypeOK'
  PROVE  \A r \in Servers : /\ rows'[r].cat \in Cats \cup {NoCat}
                            /\ saving'[r].cat \in Cats \cup {NoCat}
                            /\ run'.listed[r].cat \in Cats \cup {NoCat}
<1>1. \A r \in Servers : saving'[r] \in Saving /\ rows'[r] \in Row
  BY DEF TypeOK
<1>2. run' \in Run
  BY DEF TypeOK
<1>3. \A r \in Servers : run'.listed[r] \in Row
  BY <1>2 DEF Run
<1> QED BY <1>1, <1>3 DEF Saving, Row

LEMMA FiledInit ==
  ASSUME Init PROVE FiledAll
<1>1. \A r \in Servers : saving[r].cat = NoCat /\ run.listed[r].cat = NoCat
  BY NoRunFields, ZeroFields DEF Init, NoSave
<1>2. \A r \in Servers : rows[r].cat \in {Home, NoCat}
  BY DEF Init, NoRow
<1>3. cats[Home] = 1 /\ pulling = {}
  BY NamesApart DEF Init
<1> QED BY <1>1, <1>2, <1>3 DEF FiledAll, Filed, Exists, PathOf

\* No category goes, and whatever is filed or remembered is as before, or
\* there.
LEMMA FiledStays ==
  ASSUME TypeOK, TypeOK', FiledAll,
         \A c \in Cats : cats[c] # 0 => cats'[c] # 0,
         \A r \in Servers :
           /\ rows'[r].cat = rows[r].cat \/ Exists(rows'[r].cat)
           /\ saving'[r].cat = saving[r].cat \/ Exists(saving'[r].cat)
           /\ \/ run'.listed[r].cat = run.listed[r].cat
              \/ Exists(run'.listed[r].cat),
         pulling' \subseteq pulling
  PROVE  FiledAll'
<1>1. \A c \in Cats \cup {NoCat} : Exists(c) => c = NoCat \/ cats'[c] # 0
  BY DEF Exists, PathOf
<1>2. \A r \in Servers : /\ Exists(rows'[r].cat)
                         /\ Exists(saving'[r].cat)
                         /\ Exists(run'.listed[r].cat)
  BY DEF FiledAll, Filed
<1>3. \A p \in pulling' : Exists(p.cat)
  BY DEF FiledAll
<1>4. /\ \A r \in Servers : /\ rows'[r].cat \in Cats \cup {NoCat}
                            /\ saving'[r].cat \in Cats \cup {NoCat}
                            /\ run'.listed[r].cat \in Cats \cup {NoCat}
      /\ \A p \in pulling : p.cat \in Cats \cup {NoCat}
  BY CatsTyped, CatsTypedNext
<1> QED BY <1>1, <1>2, <1>3, <1>4 DEF FiledAll, Filed, Exists, PathOf

\* A category changes, and is gone only if nothing remembers it.
LEMMA FiledCategory ==
  ASSUME TypeOK, TypeOK', FiledAll, GoesUnremembered, NEW c \in Cats,
         CategoryChanges(c)
  PROVE  FiledAll'
<1>1. /\ UNCHANGED <<saving, run, pulling>> /\ cats[c] # 0
      /\ \A d \in Cats \ {c} : cats'[d] = cats[d]
      /\ \A r \in Servers : \/ rows'[r].cat = rows[r].cat
                            \/ rows'[r].cat = NoCat
      /\ cats'[c] = 0 => \A r \in Servers : rows'[r].cat # c
  BY DEF CategoryChanges, RunAsWas
<1>2. CASE cats'[c] # 0
  <2>1. \A d \in Cats : cats[d] # 0 => cats'[d] # 0
    BY <1>1, <1>2
  <2>2. Exists(NoCat)
    BY DEF Exists
  <2> QED BY <1>1, <2>1, <2>2, FiledStays
<1>3. CASE cats'[c] = 0
  <2>1. ~Remembered(c)
    BY <1>1, <1>3 DEF GoesUnremembered
  <2>2. /\ \A r \in Servers : /\ rows'[r].cat # c /\ saving'[r].cat # c
                              /\ run'.listed[r].cat # c
        /\ \A p \in pulling' : p.cat # c
    BY <1>1, <1>3, <2>1 DEF Remembered
  <2>3. \A d \in Cats \cup {NoCat} : d # c /\ Exists(d) => Exists(d)'
    BY <1>1 DEF Exists, PathOf
  <2>4. \A r \in Servers : Exists(rows'[r].cat) /\ Exists(saving'[r].cat)
                           /\ Exists(run'.listed[r].cat)
    <3>1. Exists(NoCat)
      BY DEF Exists
    <3> QED BY <1>1, <3>1 DEF FiledAll, Filed
  <2>5. \A p \in pulling' : Exists(p.cat) /\ p.cat \in Cats \cup {NoCat}
    BY <1>1, CatsTyped DEF FiledAll
  <2> QED BY <2>2, <2>3, <2>4, <2>5, CatsTypedNext DEF FiledAll, Filed, Exists, PathOf
<1> QED BY <1>2, <1>3

\* A pull settles on a category that is there, or makes it.
LEMMA FiledPullStart ==
  ASSUME TypeOK, TypeOK', FiledAll, NEW change \in pending,
         NEW c \in Cats \cup {NoCat}, PullStart(change, c)
  PROVE  FiledAll'
<1>1. /\ UNCHANGED <<rows, saving, run>> /\ Refiled(change, c)
      /\ change \in Change
      /\ \A p \in pulling' : p.cat = c
  BY PullStartDoes
<1>2. change.served.path \in Nat /\ change.row \in Servers \cup {NoServer}
  BY <1>1 DEF Change, Item
<1>3. cats \in [Cats -> Nat]
  BY DEF TypeOK
<1>4. (\A d \in Cats : cats[d] # 0 => cats'[d] # 0)
      /\ (c = NoCat \/ cats'[c] # 0)
  <2>1. CASE change.served.path = 0
             \/ (change.row # NoServer /\ rows[change.row].mark # 0)
    <3>1. cats' = cats /\ c = IF change.row = NoServer THEN NoCat
                               ELSE run.listed[change.row].cat
      BY <1>1, <2>1 DEF Refiled
    <3> QED BY <1>2, <3>1 DEF FiledAll, Exists, PathOf
  <2>2. CASE ~(change.served.path = 0
             \/ (change.row # NoServer /\ rows[change.row].mark # 0))
    <3>1. FiledAs(change.served, c) /\ change.served.path # 0
      BY <1>1, <2>2 DEF Refiled
    <3>2. CASE Meant(change.served, cats) # {}
      <4>1. c \in Meant(change.served, cats) /\ cats' = cats
        BY <3>1, <3>2 DEF FiledAs
      <4>2. cats[c] # 0
        BY <3>1, <4>1 DEF Meant
      <4> QED BY <4>1, <4>2
    <3>3. CASE Meant(change.served, cats) = {}
      <4>1. /\ c \in Cats /\ cats[c] = 0
            /\ cats' = [cats EXCEPT ![c] = change.served.path]
        BY <3>1, <3>3 DEF FiledAs
      <4> QED BY <1>3, <3>1, <4>1
    <3> QED BY <3>2, <3>3
  <2> QED BY <2>1, <2>2
<1>5. \A d \in Cats \cup {NoCat} : Exists(d) => d = NoCat \/ cats'[d] # 0
  BY <1>4 DEF Exists, PathOf
<1> QED BY <1>1, <1>4, <1>5, CatsTyped DEF FiledAll, Filed, Exists, PathOf

\* FiledAll is inductive when no category goes that is remembered.
LEMMA FiledNext ==
  ASSUME TypeOK, TypeOK', FiledAll, [Next]_vars, GoesUnremembered
  PROVE  FiledAll'
<1> USE DEF HereKept, RunAsWas
<1>1. ASSUME NEW r \in Servers, NEW c \in Cats \cup {NoCat}, SaveStart(r, c)
      PROVE  FiledAll'
  <2>1. /\ UNCHANGED <<rows, cats, run, pulling>>
        /\ \A s \in Servers \ {r} : saving'[s] = saving[s]
    BY <1>1, SaveStartDoes
  <2>2. saving'[r] = [at |-> Tick, cat |-> c] /\ Exists(c)
    BY <1>1 DEF SaveStart, TypeOK
  <2>3. saving'[r].cat = c
    BY <2>2
  <2> QED BY <2>1, <2>2, <2>3, FiledStays
<1>2. ASSUME NEW r \in Servers, SaveWrite(r) PROVE FiledAll'
  <2>1. /\ UNCHANGED <<cats, run, pulling>> /\ OthersKeep(r)
        /\ saving'[r] = NoSave
        /\ rows[r].stored => rows'[r].cat = saving[r].cat
        /\ ~rows[r].stored => rows' = rows
    BY <1>2, SaveWriteDoes
  <2>2. NoSave.cat = NoCat /\ Exists(NoCat)
    BY DEF NoSave, Exists
  <2>3. Exists(saving[r].cat)
    BY DEF FiledAll
  <2>4. \A s \in Servers :
          /\ rows'[s].cat = rows[s].cat \/ Exists(rows'[s].cat)
          /\ saving'[s].cat = saving[s].cat \/ Exists(saving'[s].cat)
    BY <2>1, <2>2, <2>3 DEF OthersKeep
  <2> QED BY <2>1, <2>4, FiledStays
<1>3. ASSUME NEW r \in Servers, ServerDelete(r) PROVE FiledAll'
  <2>1. UNCHANGED <<cats, saving, run, pulling>> /\ OthersKeep(r)
        /\ rows'[r].cat = NoCat /\ Exists(NoCat)
    BY <1>3, ServerDeleteDoes, ZeroFields DEF Exists
  <2>2. \A s \in Servers :
          rows'[s].cat = rows[s].cat \/ Exists(rows'[s].cat)
    BY <2>1 DEF OthersKeep
  <2> QED BY <2>1, <2>2, FiledStays
<1>4. ASSUME NEW i \in Items, Remote(i) PROVE FiledAll'
  BY <1>4, FiledStays DEF Remote
<1>5. ASSUME HereKept, pulling' \subseteq pulling,
             RunGone \/ run'.listed = run.listed \/ run'.listed = rows
      PROVE  FiledAll'
  <2>1. \A r \in Servers : \/ run'.listed[r].cat = run.listed[r].cat
                           \/ Exists(run'.listed[r].cat)
    BY <1>5, ZeroFields DEF RunGone, FiledAll, Filed, Exists
  <2> QED BY <1>5, <2>1, FiledStays
<1>6. ASSUME NEW a \in SUBSET Change, Fetch(a) PROVE FiledAll'
  BY <1>5, <1>6, FetchDoes
<1>7. CASE ListServers
  BY <1>5, <1>7, ListServersDoes
<1>8. CASE CategoryMarks
  BY <1>5, <1>8, CategoryMarksDoes
<1>9. CASE QuietStep
  <2>1. RunGone \/ run'.listed = run.listed
    BY <1>9 DEF QuietStep, Narrows, Applies, Stops, Lists, RunKept, RunOver
  <2> QED BY <1>5, <1>9, <2>1 DEF QuietStep
<1>10. ASSUME NEW r \in Servers, NEW i \in Items, Create(r, i) \/ Update(r, i)
       PROVE  FiledAll'
  <2>1. HereKept /\ RunKept /\ pulling' = pulling
    BY <1>10, CreateDoes, UpdateDoes DEF Uploads
  <2> QED BY <1>5, <2>1 DEF RunKept
<1>11. CASE Record
  <2>1. /\ UNCHANGED <<cats, saving, run, pulling>>
        /\ \A r \in Servers : rows'[r].cat = rows[r].cat
    BY <1>11, RecordDoes
  <2> QED BY <2>1, FiledStays
<1>12. ASSUME NEW r \in Servers, NEW i \in Items, Link(r, i) PROVE FiledAll'
  <2>1. /\ UNCHANGED <<cats, saving, pulling>> /\ run'.listed = run.listed
        /\ \A s \in Servers : rows'[s].cat = rows[s].cat
    BY <1>12, LinkDoes DEF OthersKeep, RunKept
  <2> QED BY <2>1, FiledStays
<1>13. ASSUME NEW p \in pulling, NEW r \in Servers, Ends(p), Writes(p, r)
       PROVE  FiledAll'
  <2>1. /\ UNCHANGED <<cats, saving>> /\ pulling' = {}
        /\ RunGone \/ run' = run
        /\ rows'[r].cat = p.cat
        /\ \A s \in Servers \ {r} : rows'[s] = rows[s]
    BY <1>13 DEF Ends, Writes, RunOver
  <2>2. Exists(p.cat)
    BY <1>13 DEF FiledAll
  <2>3. \A s \in Servers :
          /\ rows'[s].cat = rows[s].cat \/ Exists(rows'[s].cat)
          /\ \/ run'.listed[s].cat = run.listed[s].cat
             \/ Exists(run'.listed[s].cat)
    BY <2>1, <2>2, ZeroFields DEF RunGone, Exists
  <2> QED BY <2>1, <2>3, FiledStays
<1>14. ASSUME Crash PROVE FiledAll'
  <2>1. /\ cats' = cats /\ pulling' = {}
        /\ \A r \in Servers : /\ rows'[r] = rows[r] /\ saving'[r] = NoSave
                              /\ run'.listed[r].cat = NoCat
    BY <1>14, CrashDoes, ZeroFields DEF FiledAll, RunOver, RunGone
  <2>2. NoSave.cat = NoCat /\ Exists(NoCat)
    BY DEF NoSave, Exists
  <2> QED BY <2>1, <2>2, FiledStays
<1> QED BY <1>1, <1>2, <1>3, <1>4, <1>6, <1>7, <1>8, <1>9, <1>10, <1>11,
           <1>12, <1>13, <1>14, FiledCategory, FiledPullStart, NextIs
        DEF Replaces, Imports

\* Every server is filed in a category that exists as long as no category is
\* deleted while a save, the run or a pull still remembers it: what
\* delete_category would have to wait for, and what breaks when it does not
\* (delete_category, store_server, pull_remote_server).
THEOREM FiledWhenUnremembered ==
  Spec /\ [][GoesUnremembered]_vars => []FiledSomewhere
<1>1. Init => FiledAll
  BY FiledInit
<1>2. TypeOK /\ TypeOK' /\ FiledAll /\ [Next]_vars /\ [GoesUnremembered]_vars
        => FiledAll'
  <2> SUFFICES ASSUME TypeOK, TypeOK', FiledAll, [Next]_vars,
                      [GoesUnremembered]_vars
               PROVE  FiledAll'
    OBVIOUS
  <2>1. CASE GoesUnremembered
    BY <2>1, FiledNext
  <2>2. CASE UNCHANGED vars
    <3>1. GoesUnremembered
      BY <2>2 DEF GoesUnremembered, vars
    <3> QED BY <3>1, FiledNext
  <2> QED BY <2>1, <2>2
<1>3. FiledAll => FiledSomewhere
  BY DEF FiledAll, FiledSomewhere
<1> QED BY <1>1, <1>2, <1>3, Typing, PTL DEF Spec

=============================================================================
