----------------------- MODULE BitwardenSync_typing -----------------------
(***************************************************************************)
(* Type correctness of BitwardenSync, for any rows, items, categories and  *)
(* bounds: one lemma for each step, over the parts of TypeOK it can        *)
(* disturb.                                                                *)
(***************************************************************************)
EXTENDS BitwardenSync, TLAPS, FiniteSetTheorems

\* The parts of TypeOK, by who changes them.
RowsTyped == rows \in [Servers -> Row]
HereTyped ==
  /\ cats \in [Cats -> Nat] /\ saving \in [Servers -> Saving]
  /\ base \in [Servers -> Nat] /\ late \subseteq Servers
  /\ astray \subseteq Servers
ItemsTyped == items \in [Items -> Item] /\ ours \subseteq Items
ClockTyped ==
  /\ clock \in Nat
  /\ spent \in [save : Nat, remote : Nat, category : Nat, fault : Nat]
RunTyped ==
  /\ pc \in {"idle", "list", "marks", "index", "rows", "apply", "asked"}
  /\ run \in Run
ListTyped == pending \subseteq Change
AnswerTyped ==
  /\ answer \subseteq Answer
  /\ answer # {} => pc = "rows" /\ Cardinality(answer) = 1
PullTyped ==
  /\ pulling \subseteq Pull
  /\ pulling # {} => pc = "apply" /\ Cardinality(pulling) = 1

LEMMA TypeParts ==
  TypeOK <=> /\ RowsTyped /\ HereTyped /\ ItemsTyped /\ ClockTyped
             /\ RunTyped /\ ListTyped /\ AnswerTyped /\ PullTyped
BY DEF TypeOK, RowsTyped, HereTyped, ItemsTyped, ClockTyped, RunTyped,
       ListTyped, AnswerTyped, PullTyped

LEMMA TypePartsNext ==
  ASSUME RowsTyped', HereTyped', ItemsTyped', ClockTyped',
         RunTyped', ListTyped', AnswerTyped', PullTyped'
  PROVE  TypeOK'
BY DEF TypeOK, RowsTyped, HereTyped, ItemsTyped, ClockTyped, RunTyped,
       ListTyped, AnswerTyped, PullTyped

LEMMA SpentTyped ==
  ASSUME ClockTyped, NEW k \in {"save", "remote", "category", "fault"},
         Spend(k)
  PROVE  spent' \in [save : Nat, remote : Nat, category : Nat, fault : Nat]
BY DEF ClockTyped, Spend

LEMMA Zeroes ==
  /\ NoRow \in Row /\ Unused \in Item /\ NoSave \in Saving
BY NamesApart DEF NoRow, Row, Unused, Item, NoSave, Saving

LEMMA NoRunTyped == NoRun \in Run
<1>1. [i \in Items |-> Unused] \in [Items -> Item]
  BY Zeroes
<1>2. [r \in Servers |-> NoRow] \in [Servers -> Row]
  BY Zeroes
<1> QED BY <1>1, <1>2 DEF NoRun, Run

\* Init, then one lemma for each step.
LEMMA InitTyped == Init => TypeOK
<1> SUFFICES ASSUME Init PROVE TypeOK
  OBVIOUS
<1>1. RowsTyped
  BY Zeroes, NamesApart DEF Init, RowsTyped, Row, NoRow
<1>2. HereTyped
  BY Zeroes, NamesApart DEF Init, HereTyped
<1>3. ItemsTyped
  BY Zeroes DEF Init, ItemsTyped
<1>4. ClockTyped
  BY DEF Init, ClockTyped
<1>5. RunTyped
  BY NoRunTyped DEF Init, RunTyped
<1>6. ListTyped /\ AnswerTyped /\ PullTyped
  BY DEF Init, ListTyped, AnswerTyped, PullTyped
<1> QED BY <1>1, <1>2, <1>3, <1>4, <1>5, <1>6, TypeParts

-----------------------------------------------------------------------------
(* Steps that only move the run on. *)

LEMMA SomeUnchanged ==
  ASSUME TypeOK
  PROVE  /\ rows' = rows => RowsTyped'
         /\ UNCHANGED <<cats, saving, base, late, astray>> => HereTyped'
         /\ UNCHANGED provider => ItemsTyped'
         /\ UNCHANGED <<clock, spent>> => ClockTyped'
         /\ UNCHANGED <<pc, run>> => RunTyped'
         /\ pending' = pending => ListTyped'
         /\ UNCHANGED <<pc, answer>> => AnswerTyped'
         /\ UNCHANGED <<pc, pulling>> => PullTyped'
BY TypeParts DEF RowsTyped, HereTyped, ItemsTyped, ClockTyped, RunTyped,
     ListTyped, AnswerTyped, PullTyped, provider

LEMMA FetchTyped ==
  ASSUME TypeOK, pc \in {"idle", "asked"}, NEW a \in SUBSET Change, Fetch(a)
  PROVE  TypeOK'
<1>1. run' \in Run
  <2>1. items \in [Items -> Item]
    BY DEF TypeOK
  <2>2. [NoRun EXCEPT !.approve = a, !.served = items] \in Run
    BY NoRunTyped, <2>1 DEF Run
  <2> QED BY <2>2 DEF Fetch
<1>2. RunTyped' /\ ListTyped'
  BY <1>1 DEF Fetch, RunTyped, ListTyped
<1>3. answer = {} /\ pulling = {}
  BY DEF TypeOK
<1>4. AnswerTyped' /\ PullTyped'
  BY <1>3 DEF Fetch, AnswerTyped, PullTyped
<1> QED BY <1>2, <1>4, SomeUnchanged, TypePartsNext DEF Fetch, local, provider

LEMMA ListServersTyped ==
  ASSUME TypeOK, ListServers PROVE TypeOK'
<1>1. run' \in Run
  <2>1. run \in Run /\ rows \in [Servers -> Row]
    BY DEF TypeOK
  <2>2. {r \in Servers : rows[r].stored} \in SUBSET Servers
    OBVIOUS
  <2>3. [run EXCEPT !.listed = rows,
                    !.todo = {r \in Servers : rows[r].stored}] \in Run
    BY <2>1, <2>2 DEF Run
  <2> QED BY <2>3 DEF ListServers
<1>2. RunTyped'
  BY <1>1 DEF ListServers, RunTyped
<1>3. answer = {} /\ pulling = {}
  BY DEF TypeOK, ListServers
<1>4. AnswerTyped' /\ PullTyped'
  BY <1>3 DEF ListServers, AnswerTyped, PullTyped
<1> QED BY <1>2, <1>4, SomeUnchanged, TypePartsNext DEF ListServers, local,
          provider

LEMMA CategoryMarksTyped ==
  ASSUME TypeOK, CategoryMarks PROVE TypeOK'
<1>1. run' \in Run
  <2>1. run \in Run /\ rows \in [Servers -> Row]
    BY DEF TypeOK
  <2>2. [r \in Servers |-> rows[r].mark] \in [Servers -> Nat]
    BY <2>1 DEF Row
  <2>3. [run EXCEPT !.marks = [r \in Servers |-> rows[r].mark]] \in Run
    BY <2>1, <2>2 DEF Run
  <2> QED BY <2>3 DEF CategoryMarks
<1>2. RunTyped'
  BY <1>1 DEF CategoryMarks, RunTyped
<1>3. answer = {} /\ pulling = {}
  BY DEF TypeOK, CategoryMarks
<1>4. AnswerTyped' /\ PullTyped'
  BY <1>3 DEF CategoryMarks, AnswerTyped, PullTyped
<1> QED BY <1>2, <1>4, SomeUnchanged, TypePartsNext DEF CategoryMarks, local,
          provider

LEMMA LoadIndexTyped ==
  ASSUME TypeOK, LoadIndex PROVE TypeOK'
<1>1. run' \in Run
  BY DEF TypeOK, LoadIndex, Run
<1>2. RunTyped'
  BY <1>1 DEF LoadIndex, RunTyped
<1>3. answer = {} /\ pulling = {}
  BY DEF TypeOK, LoadIndex
<1>4. AnswerTyped' /\ PullTyped'
  BY <1>3 DEF LoadIndex, AnswerTyped, PullTyped
<1> QED BY <1>2, <1>4, SomeUnchanged, TypePartsNext DEF LoadIndex, local,
          provider

-----------------------------------------------------------------------------
(* What the user does here. *)

LEMMA TickTyped == ASSUME TypeOK PROVE Tick \in Nat
BY DEF TypeOK, Tick

LEMMA SaveStartTyped ==
  ASSUME TypeOK, NEW r \in Servers, NEW c \in Cats \cup {NoCat},
         SaveStart(r, c)
  PROVE  TypeOK'
<1>1. [at |-> Tick, cat |-> c] \in Saving
  BY TickTyped DEF Saving
<1>2. HereTyped'
  BY <1>1, TypeParts DEF SaveStart, HereTyped, provider, syncRun
<1>3. ClockTyped'
  BY TickTyped, SpentTyped, TypeParts DEF SaveStart, ClockTyped
<1> QED BY <1>2, <1>3, SomeUnchanged, TypePartsNext
        DEF SaveStart, provider, syncRun

LEMMA SaveWriteTyped ==
  ASSUME TypeOK, NEW r \in Servers, SaveWrite(r)
  PROVE  TypeOK'
<1>1. rows[r] \in Row /\ saving[r] \in Saving
  BY DEF TypeOK
<1>2. Saved(rows[r], saving[r]) \in Row
  BY <1>1, TickTyped DEF Saved, Row, Saving
<1>3. RowsTyped'
  BY <1>2, TypeParts DEF SaveWrite, RowsTyped
<1>4. HereTyped'
  BY Zeroes, TypeParts DEF SaveWrite, HereTyped
<1>5. ClockTyped'
  BY TickTyped, TypeParts DEF SaveWrite, ClockTyped
<1> QED BY <1>3, <1>4, <1>5, SomeUnchanged, TypePartsNext
        DEF SaveWrite, provider, syncRun

LEMMA ServerDeleteTyped ==
  ASSUME TypeOK, NEW r \in Servers, ServerDelete(r)
  PROVE  TypeOK'
<1>3. RowsTyped'
  BY Zeroes, TypeParts DEF ServerDelete, RowsTyped
<1>4. HereTyped'
  BY TypeParts DEF ServerDelete, HereTyped
<1>5. ClockTyped'
  BY SpentTyped, TypeParts DEF ServerDelete, ClockTyped
<1> QED BY <1>3, <1>4, <1>5, SomeUnchanged, TypePartsNext
        DEF ServerDelete, provider, syncRun

LEMMA RenameCategoryTyped ==
  ASSUME TypeOK, NEW c \in Cats, RenameCategory(c)
  PROVE  TypeOK'
<1>1. \A r \in Servers : rows[r] \in Row
  BY DEF TypeOK
<1>2. \A r \in Servers : [rows[r] EXCEPT !.mark = Tick] \in Row
  BY <1>1, TickTyped DEF Row
<1>3. RowsTyped'
  BY <1>1, <1>2 DEF RenameCategory, RowsTyped, Marked
<1>4. HereTyped'
  BY TickTyped, TypeParts DEF RenameCategory, HereTyped
<1>5. ClockTyped'
  BY TickTyped, SpentTyped, TypeParts DEF RenameCategory, ClockTyped
<1> QED BY <1>3, <1>4, <1>5, SomeUnchanged, TypePartsNext
        DEF RenameCategory, provider, syncRun

LEMMA DeleteCategoryTyped ==
  ASSUME TypeOK, NEW c \in Cats, DeleteCategory(c)
  PROVE  TypeOK'
<1>1. \A r \in Servers : rows[r] \in Row
  BY DEF TypeOK
<1>2. \A r \in Servers :
        [rows[r] EXCEPT !.mark = Tick, !.cat = NoCat] \in Row
  BY <1>1, TickTyped DEF Row
<1>3. RowsTyped'
  BY <1>1, <1>2 DEF DeleteCategory, RowsTyped
<1>4. HereTyped'
  BY TypeParts DEF DeleteCategory, HereTyped
<1>5. ClockTyped'
  BY TickTyped, SpentTyped, TypeParts DEF DeleteCategory, ClockTyped
<1> QED BY <1>3, <1>4, <1>5, SomeUnchanged, TypePartsNext
        DEF DeleteCategory, provider, syncRun

-----------------------------------------------------------------------------
(* What happens at the provider. *)

LEMMA BecomesTyped ==
  ASSUME TypeOK, NEW i \in Items, NEW item \in Item, Becomes(i, item),
         ours' \subseteq ours
  PROVE  ItemsTyped'
<1>1. [item EXCEPT !.revision = Tick] \in Item
  BY TickTyped DEF Item
<1> QED BY <1>1, TypeParts DEF Becomes, ItemsTyped

LEMMA InBitwardenTyped ==
  ASSUME TypeOK, InBitwarden, ItemsTyped'
  PROVE  TypeOK'
<1>1. ClockTyped'
  BY TickTyped, SpentTyped, TypeParts DEF InBitwarden, ClockTyped
<1> QED BY <1>1, SomeUnchanged, TypePartsNext DEF InBitwarden, local, syncRun

LEMMA ThereTyped ==
  ASSUME TypeOK, There
  PROVE  TypeOK'
<1>0. \A i \in Items : items[i] \in Item
  BY DEF TypeOK
<1>1. ASSUME NEW i \in Items, ItemEdited(i) PROVE TypeOK'
  <2>1. [items[i] EXCEPT !.data = Tick] \in Item
    BY <1>0, TickTyped DEF Item
  <2> QED BY <1>1, <2>1, BecomesTyped, InBitwardenTyped DEF ItemEdited, Stays
<1>2. ASSUME NEW i \in Items, ItemTrashed(i) PROVE TypeOK'
  <2>1. [items[i] EXCEPT !.state = "trash"] \in Item
    BY <1>0 DEF Item
  <2> QED BY <1>2, <2>1, BecomesTyped, InBitwardenTyped
          DEF ItemTrashed, Leaves
<1>3. ASSUME NEW i \in Items, ItemRestored(i) PROVE TypeOK'
  <2>1. [items[i] EXCEPT !.state = "live"] \in Item
    BY <1>0 DEF Item
  <2> QED BY <1>3, <2>1, BecomesTyped, InBitwardenTyped
          DEF ItemRestored, Stays
<1>4. ASSUME NEW i \in Items, ItemGivenAway(i) PROVE TypeOK'
  <2>1. [items[i] EXCEPT !.state = "org"] \in Item
    BY <1>0 DEF Item
  <2> QED BY <1>4, <2>1, BecomesTyped, InBitwardenTyped
          DEF ItemGivenAway, Leaves
<1>5. ASSUME NEW i \in Items, ItemMoved(i) PROVE TypeOK'
  <2>1. [items[i] EXCEPT !.folder = FALSE] \in Item
    BY <1>0 DEF Item
  <2> QED BY <1>5, <2>1, BecomesTyped, InBitwardenTyped
          DEF ItemMoved, Leaves
<1>6. ASSUME NEW i \in Items, ItemAdded(i) PROVE TypeOK'
  <2> DEFINE item == [Unused EXCEPT !.state = "live", !.folder = TRUE,
                                    !.data = Tick, !.created = Tick]
  <2>1. item \in Item
    BY Zeroes, TickTyped DEF Item
  <2> QED BY <1>6, <2>1, BecomesTyped, InBitwardenTyped
          DEF ItemAdded, Stays
<1>7. ASSUME NEW i \in Items, NEW j \in Items, ItemCloned(i, j) PROVE TypeOK'
  <2>1. [items[i] EXCEPT !.created = Tick] \in Item
    BY <1>0, TickTyped DEF Item
  <2> QED BY <1>7, <2>1, BecomesTyped, InBitwardenTyped
          DEF ItemCloned, Stays
<1> QED BY <1>1, <1>2, <1>3, <1>4, <1>5, <1>6, <1>7 DEF There

-----------------------------------------------------------------------------
(* The pass over the rows. *)

LEMMA LinkedItem ==
  ASSUME TypeOK, NEW r \in Servers
  PROVE  /\ run.listed[r] \in Row
         /\ Linked(r) = "Personal" => LinkOf(r) \in Items
         /\ Counterparts(r) \subseteq Items
<1>1. run.listed \in [Servers -> Row]
  BY DEF TypeOK, Run
<1>2. run.listed[r] \in Row
  BY <1>1
<1>3. Linked(r) = "Personal" => LinkOf(r) \in Items
  BY DEF Linked, LinkOf, Personal
<1>4. OwnItems(r) \subseteq Items
  BY DEF OwnItems, Logins, Personal
<1> QED BY <1>2, <1>3, <1>4 DEF Counterparts

LEMMA DoneTyped ==
  ASSUME TypeOK, NEW r \in Servers, NEW found \in SUBSET Items,
         Done(r, found)
  PROVE  run' \in Run
<1> DEFINE m == run.matched \cup found
                  \cup (IF Linked(r) = "Personal" THEN {LinkOf(r)} ELSE {})
           t == run.todo \ {r}
<1>1. run \in Run
  BY DEF TypeOK
<1>2. run' = [run EXCEPT !.todo = t, !.matched = m]
  BY DEF Done
<1>3. m \in SUBSET Items
  BY <1>1, LinkedItem DEF Run
<1>4. t \in SUBSET Servers
  BY <1>1 DEF Run
<1> HIDE DEF m, t
<1> QED BY <1>1, <1>2, <1>3, <1>4 DEF Run

LEMMA UploadTyped ==
  ASSUME TypeOK, NEW r \in Servers, NEW item \in Item
  PROVE  Upload(r, item) \in Item
<1>1. run.listed[r] \in Row
  BY LinkedItem
<1>2. run.listed[r].cat \in Cats \cup {NoCat} /\ run.listed[r].data \in Nat
  BY <1>1 DEF Row
<1>3. PathOf(run.listed[r].cat) \in Nat
  BY <1>2, TypeParts DEF PathOf, HereTyped
<1> DEFINE c == run.listed[r].cat
           k == IF PathOf(c) = 0 THEN NoCat ELSE c
           p == PathOf(c)
           d == run.listed[r].data
<1>4. k \in Cats \cup {NoCat} /\ p \in Nat /\ d \in Nat
  BY <1>2, <1>3
<1>5. Upload(r, item) = [item EXCEPT !.data = d, !.names = r, !.cat = k,
                                     !.path = p, !.revision = Tick]
  BY DEF Upload
<1> HIDE DEF c, k, p, d
<1> QED BY <1>4, <1>5, TickTyped DEF Item

LEMMA SendTyped ==
  ASSUME TypeOK, pc = "rows", NEW r \in Servers, NEW i \in Items,
         NEW item \in Item, Send(r, i, item), run' \in Run,
         ours' \subseteq ours \cup {i}
  PROVE  TypeOK'
<1>1. ItemsTyped'
  BY UploadTyped, TypeParts DEF Send, ItemsTyped
<1>2. ClockTyped'
  BY TickTyped, TypeParts DEF Send, ClockTyped
<1>3. RunTyped'
  BY TypeParts DEF Send, RunTyped
<1>4. AnswerTyped'
  <2> DEFINE a == [row |-> r, item |-> i, revision |-> Tick]
  <2>1. a \in Answer
    BY TickTyped DEF Answer
  <2>2. Cardinality({a}) = 1
    BY FS_Singleton
  <2> HIDE DEF a
  <2>3. answer' = {a} /\ pc' = "rows"
    BY DEF Send, a
  <2> QED BY <2>1, <2>2, <2>3 DEF AnswerTyped
<1> QED BY <1>1, <1>2, <1>3, <1>4, SomeUnchanged, TypePartsNext
        DEF Send, local

\* A step that moves the run on, with no upload and no pull under way.
LEMMA RunMovesTyped ==
  ASSUME TypeOK, UNCHANGED <<local, provider, clock, spent>>,
         answer' = answer, pulling' = pulling,
         RunTyped', ListTyped',
         pc' = pc \/ (answer = {} /\ pulling = {})
  PROVE  TypeOK'
<1>1. AnswerTyped' /\ PullTyped'
  BY TypeParts DEF AnswerTyped, PullTyped
<1> QED BY <1>1, SomeUnchanged, TypePartsNext DEF local, provider

LEMMA LeaveAmbiguousTyped ==
  ASSUME TypeOK, NEW r \in Servers, LeaveAmbiguous(r)
  PROVE  TypeOK'
<1> DEFINE t == run.todo \ {r}
           a == run.ambiguous \cup {r}
<1>1. run \in Run
  BY DEF TypeOK
<1>2. run' = [run EXCEPT !.todo = t, !.ambiguous = a]
  BY DEF LeaveAmbiguous
<1>3. t \in SUBSET Servers /\ a \in SUBSET Servers
  BY <1>1 DEF Run
<1>4. run' \in Run
  <2> HIDE DEF t, a
  <2> QED BY <1>1, <1>2, <1>3 DEF Run
<1> QED BY <1>4, RunMovesTyped, TypeParts DEF LeaveAmbiguous, RunTyped,
        ListTyped

LEMMA LeaveAloneTyped ==
  ASSUME TypeOK, NEW r \in Servers, LeaveAlone(r) \/ UploadFails(r)
  PROVE  TypeOK'
<1>1. \E found \in SUBSET Items : Done(r, found)
  BY DEF LeaveAlone, UploadFails
<1>2. run' \in Run
  BY <1>1, DoneTyped
<1> QED BY <1>2, RunMovesTyped, TypeParts DEF LeaveAlone, UploadFails,
        RunTyped, ListTyped

LEMMA CreateTyped ==
  ASSUME TypeOK, NEW r \in Servers, NEW i \in Items, Create(r, i)
  PROVE  TypeOK'
<1> DEFINE item == [Unused EXCEPT !.state = "live", !.folder = TRUE,
                                  !.created = Tick]
<1>1. item \in Item
  BY Zeroes, TickTyped DEF Item
<1>2. run' \in Run
  BY DoneTyped DEF Create
<1> HIDE DEF item
<1>3. Send(r, i, item) /\ pc = "rows" /\ ours' = ours \cup {i}
  BY DEF Create, Turn, item
<1> QED BY <1>1, <1>2, <1>3, SendTyped

LEMMA UpdateTyped ==
  ASSUME TypeOK, NEW r \in Servers, NEW i \in Items, Update(r, i)
  PROVE  TypeOK'
<1> DEFINE f == run.served[i].folder
           item == [items[i] EXCEPT !.folder = f]
<1>1. item \in Item
  <2>1. items[i] \in Item /\ run.served[i] \in Item
    BY DEF TypeOK, Run
  <2>2. f \in BOOLEAN
    BY <2>1 DEF Item
  <2> HIDE DEF f
  <2> QED BY <2>1, <2>2 DEF Item
<1>2. run' \in Run
  BY DoneTyped DEF Update
<1> HIDE DEF item
<1>3. Send(r, i, item) /\ pc = "rows" /\ ours' = ours
  BY DEF Update, Turn, item
<1> QED BY <1>1, <1>2, <1>3, SendTyped

LEMMA RecordTyped ==
  ASSUME TypeOK, Record
  PROVE  TypeOK'
<1>1. PICK a \in answer :
        IF rows[a.row].stored
         THEN /\ rows' = [rows EXCEPT ![a.row] = Recorded(@, a)]
              /\ base' = [base EXCEPT ![a.row] = run.listed[a.row].data]
              /\ astray' = astray \ {a.row}
         ELSE UNCHANGED <<rows, base, astray>>
  BY DEF Record
<1>2. a.row \in Servers /\ a.item \in Items /\ a.revision \in Nat
  BY DEF TypeOK, Answer
<1>3. rows[a.row] \in Row /\ run.listed[a.row] \in Row
  BY <1>2, LinkedItem DEF TypeOK
<1>4. Recorded(rows[a.row], a) \in Row
  <2> DEFINE m == IF rows[a.row].mark <= run.marks[a.row]
                    THEN 0 ELSE rows[a.row].mark
  <2>1. m \in Nat
    BY <1>3 DEF Row
  <2>2. Recorded(rows[a.row], a) =
          [rows[a.row] EXCEPT !.link = a.item, !.revision = a.revision,
             !.synced = run.listed[a.row].updated, !.mark = m]
    BY DEF Recorded
  <2> HIDE DEF m
  <2> QED BY <2>1, <2>2, <1>2, <1>3 DEF Row
<1>5. RowsTyped'
  BY <1>1, <1>2, <1>4, TypeParts DEF RowsTyped
<1>6. run.listed[a.row].data \in Nat
  BY <1>3 DEF Row
<1>7. HereTyped'
  BY <1>1, <1>2, <1>6, TypeParts DEF HereTyped, Record
<1>8. AnswerTyped'
  BY DEF Record, AnswerTyped
<1> QED BY <1>5, <1>7, <1>8, SomeUnchanged, TypePartsNext
        DEF Record, provider

LEMMA AnswerLostTyped ==
  ASSUME TypeOK, AnswerLost
  PROVE  TypeOK'
<1>1. ClockTyped'
  BY SpentTyped, TypeParts DEF AnswerLost, ClockTyped
<1>2. AnswerTyped'
  BY DEF AnswerLost, AnswerTyped
<1> QED BY <1>1, <1>2, SomeUnchanged, TypePartsNext
        DEF AnswerLost, local, provider

LEMMA LinkTyped ==
  ASSUME TypeOK, NEW r \in Servers, NEW i \in Items, Link(r, i)
  PROVE  TypeOK'
<1>1. run' \in Run
  BY DoneTyped DEF Link
<1>2. rows[r] \in Row /\ run.served[i].revision \in Nat
  BY DEF TypeOK, Run, Item
<1>3. [rows[r] EXCEPT !.link = i, !.synced = 0,
                      !.revision = run.served[i].revision] \in Row
  BY <1>2 DEF Row
<1>4. RowsTyped'
  <2>1. CASE rows[r].stored
    <3> DEFINE row == [rows[r] EXCEPT !.link = i, !.synced = 0,
                         !.revision = run.served[i].revision]
    <3>1. rows' = [rows EXCEPT ![r] = row]
      BY <2>1, TypeParts DEF Link, RowsTyped
    <3> HIDE DEF row
    <3>2. row \in Row
      BY <1>3 DEF row
    <3> QED BY <3>1, <3>2, TypeParts DEF RowsTyped
  <2>2. CASE ~rows[r].stored
    BY <2>2, TypeParts DEF Link, RowsTyped
  <2> QED BY <2>1, <2>2
<1>5. RunTyped'
  BY <1>1, TypeParts DEF Link, RunTyped
<1> QED BY <1>4, <1>5, SomeUnchanged, TypePartsNext DEF Link, provider

LEMMA ListChangeTyped ==
  ASSUME TypeOK, NEW r \in Servers, NEW i \in Items, ListChange(r, i)
  PROVE  TypeOK'
<1>1. run' \in Run
  BY DoneTyped DEF ListChange
<1> DEFINE c == [row |-> r, item |-> i, served |-> run.served[i],
                 changes |-> Changes(r, run.served[i])]
<1>2. c \in Change
  <2>1. run.served[i] \in Item
    BY DEF TypeOK, Run
  <2>2. Changes(r, run.served[i]) \in SUBSET {"data", "category"}
    BY DEF Changes
  <2> QED BY <2>1, <2>2 DEF Change
<1> HIDE DEF c
<1>3. pending' = pending \cup {c}
  BY DEF ListChange, c
<1>4. RunTyped' /\ ListTyped'
  BY <1>1, <1>2, <1>3, TypeParts DEF ListChange, RunTyped, ListTyped
<1> QED BY <1>4, RunMovesTyped DEF ListChange

LEMMA NewItemsTyped ==
  ASSUME TypeOK PROVE NewItems \in SUBSET Change
<1>1. \A i \in Items : run.served[i] \in Item
  BY DEF TypeOK, Run
<1>2. Logins \subseteq Items
  BY DEF Logins, Personal
<1> QED BY <1>1, <1>2 DEF NewItems, Change

LEMMA SettleTyped ==
  ASSUME TypeOK, Settle
  PROVE  TypeOK'
<1> DEFINE found == pending \cup NewItems
<1>1. found \in SUBSET Change
  BY NewItemsTyped, TypeParts DEF ListTyped
<1>2. pending' = found /\ (run' = run \/ run' = NoRun)
      /\ pc' \in {"apply", "idle", "asked"}
  BY DEF Settle
<1>3. RunTyped' /\ ListTyped'
  BY <1>1, <1>2, NoRunTyped, TypeParts DEF RunTyped, ListTyped
<1>4. answer = {} /\ pulling = {}
  BY DEF Settle, TypeOK
<1> QED BY <1>3, <1>4, RunMovesTyped DEF Settle

LEMMA DeclineTyped ==
  ASSUME TypeOK, Decline \/ Abort
  PROVE  TypeOK'
<1>1. answer = {} /\ pulling = {}
  BY DEF Decline, Abort, TypeOK
<1>2. RunTyped' /\ ListTyped'
  BY NoRunTyped DEF Decline, Abort, RunTyped, ListTyped
<1> QED BY <1>1, <1>2, RunMovesTyped DEF Decline, Abort

-----------------------------------------------------------------------------
(* Pulls, and the end of the program. *)

LEMMA RefiledTyped ==
  ASSUME TypeOK, NEW change \in Change, NEW c \in Cats \cup {NoCat},
         Refiled(change, c)
  PROVE  cats' \in [Cats -> Nat]
<1>1. cats \in [Cats -> Nat] /\ change.served.path \in Nat
  BY DEF TypeOK, Change, Item
<1> QED BY <1>1 DEF Refiled, FiledAs

LEMMA PullStartTyped ==
  ASSUME TypeOK, NEW change \in pending, NEW c \in Cats \cup {NoCat},
         PullStart(change, c)
  PROVE  TypeOK'
<1>1. change \in Change
  BY DEF TypeOK
<1>2. cats' \in [Cats -> Nat]
  BY <1>1, RefiledTyped DEF PullStart
<1>3. HereTyped'
  BY <1>2, TypeParts DEF PullStart, HereTyped
<1>4. PullTyped'
  <2> DEFINE p == [change |-> change, cat |-> c,
                   path |-> IF c = NoCat THEN 0 ELSE cats'[c]]
  <2>1. p \in Pull
    BY <1>1, <1>2 DEF Pull
  <2> HIDE DEF p
  <2>2. Cardinality({p}) = 1
    BY FS_Singleton
  <2>3. pulling' = {p} /\ pc' = "apply"
    BY DEF PullStart, p
  <2> QED BY <2>1, <2>2, <2>3 DEF PullTyped
<1> QED BY <1>3, <1>4, SomeUnchanged, TypePartsNext
        DEF PullStart, provider

LEMMA EndPullTyped ==
  ASSUME TypeOK, NEW p \in pulling, EndPull(p), RowsTyped',
         base' \in [Servers -> Nat], late' \subseteq Servers,
         astray' \subseteq Servers, clock' \in Nat, ours' \subseteq ours
  PROVE  TypeOK'
<1>1. RunTyped' /\ ListTyped'
  BY NoRunTyped, TypeParts DEF EndPull, RunTyped, ListTyped
<1>2. pc = "apply" /\ answer = {}
  BY DEF TypeOK
<1>3. AnswerTyped' /\ PullTyped'
  BY <1>2 DEF EndPull, AnswerTyped, PullTyped
<1>4. ItemsTyped' /\ HereTyped' /\ ClockTyped'
  BY TypeParts DEF EndPull, ItemsTyped, HereTyped, ClockTyped
<1> QED BY <1>1, <1>3, <1>4, TypePartsNext

LEMMA PullsTyped ==
  ASSUME TypeOK, NEW p \in pulling, NEW r \in Servers, NEW row \in Row,
         Pulls(p, r, row)
  PROVE  /\ RowsTyped' /\ base' \in [Servers -> Nat]
         /\ late' \subseteq Servers /\ astray' \subseteq Servers
         /\ clock' \in Nat
<1>1. p \in Pull
  BY DEF TypeOK
<1>2. p.change.served \in Item /\ p.cat \in Cats \cup {NoCat}
  BY <1>1 DEF Pull, Change
<1>3. p.change.served.data \in Nat /\ p.change.served.revision \in Nat
  BY <1>2 DEF Item
<1>4. PulledRow(row, p) \in Row
  BY <1>2, <1>3, TickTyped DEF PulledRow, Row
<1>5. RowsTyped'
  BY <1>4, TypeParts DEF Pulls, RowsTyped
<1>6. base' \in [Servers -> Nat]
  BY <1>3, TypeParts DEF Pulls, HereTyped
<1>7. late' \subseteq Servers /\ astray' \subseteq Servers /\ clock' \in Nat
  BY TickTyped, TypeParts DEF Pulls, HereTyped
<1> QED BY <1>5, <1>6, <1>7

LEMMA PullServerTyped ==
  ASSUME TypeOK, PullServer
  PROVE  TypeOK'
<1>1. PICK p \in pulling :
        /\ p.change.row # NoServer
        /\ IF StillTheOne(p.change.row)
             THEN Pulls(p, p.change.row, rows[p.change.row])
             ELSE UNCHANGED <<clock, rows, base, late, astray>>
        /\ EndPull(p) /\ ours' = ours
  BY DEF PullServer
<1>2. p.change.row \in Servers
  BY <1>1 DEF TypeOK, Pull, Change
<1>3. CASE StillTheOne(p.change.row)
  <2>1. rows[p.change.row] \in Row
    BY <1>2 DEF TypeOK
  <2> QED BY <1>1, <1>2, <1>3, <2>1, PullsTyped, EndPullTyped
<1>4. CASE ~StillTheOne(p.change.row)
  <2>1. /\ RowsTyped' /\ base' \in [Servers -> Nat]
        /\ late' \subseteq Servers /\ astray' \subseteq Servers
        /\ clock' \in Nat
    BY <1>1, <1>4, TypeParts DEF RowsTyped, HereTyped, ClockTyped
  <2> QED BY <1>1, <2>1, EndPullTyped
<1> QED BY <1>3, <1>4

LEMMA PullNewServerTyped ==
  ASSUME TypeOK, NEW r \in Servers, PullNewServer(r)
  PROVE  TypeOK'
<1>1. PICK p \in pulling :
        /\ p.change.row = NoServer /\ Fresh(r)
        /\ Pulls(p, r, [NoRow EXCEPT !.stored = TRUE,
                                     !.link = p.change.item])
        /\ EndPull(p) /\ ours' = ours \ {p.change.item}
  BY DEF PullNewServer
<1>2. p.change.item \in Items
  BY <1>1 DEF TypeOK, Pull, Change
<1>3. [NoRow EXCEPT !.stored = TRUE, !.link = p.change.item] \in Row
  BY <1>2, Zeroes DEF Row
<1> QED BY <1>1, <1>3, PullsTyped, EndPullTyped

LEMMA PullFailsTyped ==
  ASSUME TypeOK, PullFails
  PROVE  TypeOK'
<1>1. PICK p \in pulling :
        EndPull(p) /\ UNCHANGED <<rows, ours, clock, base, late, astray>>
  BY DEF PullFails
<1>2. /\ RowsTyped' /\ base' \in [Servers -> Nat]
      /\ late' \subseteq Servers /\ astray' \subseteq Servers
      /\ clock' \in Nat
  BY <1>1, TypeParts DEF RowsTyped, HereTyped, ClockTyped
<1> QED BY <1>1, <1>2, EndPullTyped

LEMMA CrashTyped ==
  ASSUME TypeOK, Crash
  PROVE  TypeOK'
<1>1. \A r \in Servers : rows[r] \in Row
  BY DEF TypeOK
<1>2. \A r \in Servers : [rows[r] EXCEPT !.cat = NoCat] \in Row
  BY <1>1 DEF Row
<1>3. RowsTyped'
  BY <1>1, <1>2 DEF Crash, RowsTyped
<1>4. HereTyped'
  BY Zeroes, TypeParts DEF Crash, HereTyped
<1>5. ClockTyped'
  BY SpentTyped, TypeParts DEF Crash, ClockTyped
<1>6. RunTyped' /\ ListTyped' /\ AnswerTyped' /\ PullTyped'
  BY NoRunTyped DEF Crash, RunTyped, ListTyped, AnswerTyped, PullTyped
<1> QED BY <1>3, <1>4, <1>5, <1>6, SomeUnchanged, TypePartsNext
        DEF Crash, provider

LEMMA StutterTyped ==
  ASSUME TypeOK, UNCHANGED vars
  PROVE  TypeOK'
BY SomeUnchanged, TypePartsNext DEF vars, provider

LEMMA NextTyped ==
  ASSUME TypeOK, [Next]_vars
  PROVE  TypeOK'
<1>1. ASSUME Here PROVE TypeOK'
  BY <1>1, SaveWriteTyped, ServerDeleteTyped, SaveStartTyped,
     RenameCategoryTyped, DeleteCategoryTyped DEF Here
<1>2. ASSUME Pass PROVE TypeOK'
  BY <1>2, ListServersTyped, CategoryMarksTyped, LoadIndexTyped, SettleTyped,
     LeaveAmbiguousTyped, LeaveAloneTyped, CreateTyped, UpdateTyped,
     LinkTyped, ListChangeTyped, RecordTyped, AnswerLostTyped DEF Pass
<1>3. ASSUME Applying PROVE TypeOK'
  BY <1>3, PullStartTyped, PullServerTyped, PullNewServerTyped,
     PullFailsTyped DEF Applying
<1>4. ASSUME StartAsking PROVE TypeOK'
  BY <1>4, FetchTyped DEF StartAsking
<1>5. ASSUME Approve PROVE TypeOK'
  BY <1>5, FetchTyped, TypeParts DEF Approve, ListTyped
<1> QED BY <1>1, <1>2, <1>3, <1>4, <1>5, ThereTyped, DeclineTyped, CrashTyped,
           StutterTyped DEF Next

\* The state keeps its shape, and an upload or a pull under way belongs to the
\* run that began it (run_sync, server_pass).
THEOREM Typing == Spec => []TypeOK
BY InitTyped, NextTyped, PTL DEF Spec

=============================================================================
