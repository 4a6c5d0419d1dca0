----------------------- MODULE BitwardenSync_steps ------------------------
(***************************************************************************)
(* What each step of BitwardenSync does to each field, and the few kinds   *)
(* of step that are left of Next when only that is asked (NextIs).  What   *)
(* is proved about the sync splits on these kinds.                         *)
(***************************************************************************)
EXTENDS BitwardenSync_typing

(* What each step does, field by field. *)

RunKept ==
  /\ run'.listed = run.listed /\ run'.served = run.served
  /\ run'.marks = run.marks /\ run'.approve = run.approve
RunGone ==
  /\ \A r \in Servers : run'.listed[r] = NoRow /\ run'.marks[r] = 0
  /\ run'.todo = {}
NothingServed == \A i \in Items : run'.served[i] = Unused
RunOver == run' = NoRun /\ RunGone /\ NothingServed
HereKept == UNCHANGED <<rows, cats, saving, base, late, astray>>
ThereKept == UNCHANGED <<items, ours, clock>>
OthersKeep(r) ==
  \A s \in Servers \ {r} : rows'[s] = rows[s] /\ saving'[s] = saving[s]

LEMMA NoRunFields ==
  /\ \A r \in Servers : NoRun.listed[r] = NoRow /\ NoRun.marks[r] = 0
  /\ NoRun.todo = {} /\ NoRun.approve = {}
  /\ \A i \in Items : NoRun.served[i] = Unused
BY DEF NoRun

LEMMA NoRunIsGone ==
  ASSUME run' = NoRun PROVE RunOver
BY NoRunFields DEF RunOver, RunGone, NothingServed

LEMMA ZeroFields ==
  /\ NoRow.stored = FALSE /\ NoRow.link = NoItem /\ NoRow.updated = 0
  /\ NoRow.synced = 0 /\ NoRow.revision = 0 /\ NoRow.mark = 0
  /\ NoRow.cat = NoCat
  /\ Unused.state = "none" /\ Unused.revision = 0
  /\ NoSave.at = 0
BY DEF NoRow, Unused, NoSave

LEMMA FetchDoes ==
  ASSUME NEW a \in SUBSET Change, Fetch(a)
  PROVE  /\ RunGone /\ run'.served = items /\ run'.approve = a
         /\ HereKept /\ ThereKept
         /\ pc' = "list" /\ pending' = {} /\ answer' = answer
         /\ pulling' = pulling
<1>1. run' = [NoRun EXCEPT !.approve = a, !.served = items]
  BY DEF Fetch
<1>2. run'.listed = NoRun.listed /\ run'.marks = NoRun.marks
      /\ run'.todo = NoRun.todo /\ run'.served = items /\ run'.approve = a
  BY <1>1 DEF NoRun
<1>3. RunGone
  BY <1>2, NoRunFields DEF RunGone
<1> QED BY <1>2, <1>3 DEF Fetch, HereKept, ThereKept, local, provider

LEMMA ListServersDoes ==
  ASSUME TypeOK, ListServers
  PROVE  /\ run'.listed = rows /\ run'.served = run.served
         /\ run'.todo = {r \in Servers : rows[r].stored}
         /\ run'.marks = run.marks /\ run'.approve = run.approve
         /\ HereKept /\ ThereKept
         /\ pc = "list" /\ pc' = "marks" /\ pending' = pending
         /\ answer' = answer /\ pulling' = pulling
BY DEF TypeOK, Run, ListServers, HereKept, ThereKept, local, provider

LEMMA CategoryMarksDoes ==
  ASSUME TypeOK, CategoryMarks
  PROVE  /\ run'.listed = run.listed /\ run'.served = run.served
         /\ run'.todo = run.todo /\ run'.approve = run.approve
         /\ \A r \in Servers : run'.marks[r] = rows[r].mark
         /\ HereKept /\ ThereKept
         /\ pc = "marks" /\ pc' = "index" /\ pending' = pending
         /\ answer' = answer /\ pulling' = pulling
BY DEF TypeOK, Run, CategoryMarks, HereKept, ThereKept, local, provider

LEMMA LoadIndexDoes ==
  ASSUME TypeOK, LoadIndex
  PROVE  /\ RunKept /\ run'.todo = run.todo
         /\ HereKept /\ ThereKept
         /\ pc = "index" /\ pc' = "rows" /\ pending' = pending
         /\ answer' = answer /\ pulling' = pulling
BY DEF TypeOK, Run, LoadIndex, HereKept, ThereKept, local, provider, RunKept

LEMMA DoneDoes ==
  ASSUME TypeOK, NEW r, NEW found, Done(r, found)
  PROVE  RunKept /\ run'.todo = run.todo \ {r}
<1> DEFINE m == run.matched \cup found
                  \cup (IF Linked(r) = "Personal" THEN {LinkOf(r)} ELSE {})
<1>1. run' = [run EXCEPT !.todo = @ \ {r}, !.matched = m]
  BY DEF Done
<1> HIDE DEF m
<1> QED BY <1>1 DEF TypeOK, Run, RunKept

\* A row that is left without an upload or a link.
LEMMA LeaveDoes ==
  ASSUME TypeOK, NEW r,
         LeaveAmbiguous(r) \/ LeaveAlone(r) \/ UploadFails(r)
  PROVE  /\ Turn(r) /\ RunKept /\ run'.todo = run.todo \ {r}
         /\ HereKept /\ ThereKept
         /\ pc' = pc /\ pending' = pending
         /\ answer' = answer /\ pulling' = pulling
<1>1. RunKept /\ run'.todo = run.todo \ {r}
  <2>1. CASE LeaveAmbiguous(r)
    BY <2>1 DEF LeaveAmbiguous, TypeOK, Run, RunKept
  <2>2. CASE LeaveAlone(r) \/ UploadFails(r)
    BY <2>2, DoneDoes DEF LeaveAlone, UploadFails
  <2> QED BY <2>1, <2>2
<1> QED BY <1>1 DEF LeaveAmbiguous, LeaveAlone, UploadFails, HereKept,
        ThereKept, local, provider

LEMMA LinkedLive ==
  ASSUME NEW r \in Servers, Linked(r) = "Personal"
  PROVE  LinkOf(r) \in Items /\ run.served[LinkOf(r)].state = "live"
BY DEF Linked, LinkOf, Personal

LEMMA OwnLive ==
  ASSUME NEW r \in Servers, NEW i \in OwnItems(r)
  PROVE  /\ i \in Items /\ run.served[i].state = "live"
         /\ run.served[i].folder /\ run.served[i].names = r
         /\ \A o \in Servers \ {r} : run.listed[o].link # i
BY DEF OwnItems, Logins, Personal

\* What the row is compared with is a live item: its link, or its own.
LEMMA CounterpartLive ==
  ASSUME NEW r \in Servers, NEW i \in Counterparts(r)
  PROVE  /\ i \in Items /\ run.served[i].state = "live"
         /\ i = LinkOf(r) \/ i \in OwnItems(r)
BY LinkedLive, OwnLive DEF Counterparts

LEMMA ComparedIs ==
  ASSUME NEW row \in Row, NEW mark \in Nat, NEW i \in Items,
         NEW item \in Item
  PROVE  /\ Compared(row, mark, i, item) = "Link" => row.link # i
         /\ Compared(row, mark, i, item) \in
              {"Update", "SkipRemoteChange", "InSync"} => row.link = i
         /\ Compared(row, mark, i, item) \in {"SkipRemoteChange", "InSync"}
              => row.updated <= row.synced
         /\ Compared(row, mark, i, item) = "Update"
              => row.updated > row.synced \/ item.revision <= row.revision
         /\ Compared(row, mark, i, item) = "InSync"
              => mark = 0 /\ item.revision <= row.revision
<1>1. /\ row.updated \in Nat /\ row.synced \in Nat /\ row.revision \in Nat
      /\ item.revision \in Nat
  BY DEF Row, Item
<1>2. CASE row.link # i
  BY <1>2 DEF Compared
<1>3. CASE row.link = i /\ row.updated > row.synced
  BY <1>1, <1>3 DEF Compared
<1>4. CASE /\ row.link = i /\ ~(row.updated > row.synced)
           /\ item.revision > row.revision
  BY <1>1, <1>4 DEF Compared
<1>5. CASE /\ row.link = i /\ ~(row.updated > row.synced)
           /\ ~(item.revision > row.revision) /\ mark # 0
  BY <1>1, <1>5 DEF Compared
<1>6. CASE /\ row.link = i /\ ~(row.updated > row.synced)
           /\ ~(item.revision > row.revision) /\ mark = 0
  BY <1>1, <1>6 DEF Compared
<1> QED BY <1>2, <1>3, <1>4, <1>5, <1>6

LEMMA PlannedIs ==
  ASSUME TypeOK, NEW r \in Servers, NEW i, NEW plan, Planned(r, i, plan)
  PROVE  /\ i \in Items /\ run.served[i].state = "live"
         /\ plan = "Link" => i \in OwnItems(r)
         /\ plan \in {"Update", "SkipRemoteChange"} => run.listed[r].link = i
         /\ plan = "SkipRemoteChange"
              => run.listed[r].updated <= run.listed[r].synced
         /\ plan = "Update"
              => \/ run.listed[r].updated > run.listed[r].synced
                 \/ run.served[i].revision <= run.listed[r].revision
<1>1. i \in Counterparts(r)
  BY DEF Planned
<1>2. /\ i \in Items /\ run.served[i].state = "live"
      /\ i = LinkOf(r) \/ i \in OwnItems(r)
  BY <1>1, CounterpartLive
<1>3. /\ run.listed[r] \in Row /\ run.marks[r] \in Nat
      /\ run.served[i] \in Item
  BY <1>2 DEF TypeOK, Run
<1>4. Compared(run.listed[r], run.marks[r], i, run.served[i]) = plan
  BY DEF Planned
<1>5. plan = "Link" => run.listed[r].link # i
  BY <1>2, <1>3, <1>4, ComparedIs
<1>6. plan = "Link" => i \in OwnItems(r)
  BY <1>2, <1>5 DEF LinkOf
<1> QED BY <1>2, <1>3, <1>4, <1>6, ComparedIs

LEMMA ListChangeDoes ==
  ASSUME TypeOK, NEW r \in Servers, NEW i \in Items, ListChange(r, i)
  PROVE  /\ Turn(r) /\ RunKept /\ run'.todo = run.todo \ {r}
         /\ HereKept /\ ThereKept
         /\ pc' = pc /\ answer' = answer /\ pulling' = pulling
         /\ \E c \in Change : /\ pending' = pending \cup {c}
                              /\ c.row = r /\ c.item = i
                              /\ c.served = run.served[i]
         /\ run.served[i].state = "live" /\ run.listed[r].link = i
         /\ run.listed[r].updated <= run.listed[r].synced
<1>1. RunKept /\ run'.todo = run.todo \ {r}
  BY DoneDoes DEF ListChange
<1>2. /\ run.served[i].state = "live" /\ run.listed[r].link = i
      /\ run.listed[r].updated <= run.listed[r].synced
  BY PlannedIs DEF ListChange
<1> DEFINE c == [row |-> r, item |-> i, served |-> run.served[i],
                 changes |-> Changes(r, run.served[i])]
<1>3. c \in Change
  <2>1. run.served[i] \in Item
    BY DEF TypeOK, Run
  <2>2. Changes(r, run.served[i]) \in SUBSET {"data", "category"}
    BY DEF Changes
  <2> QED BY <2>1, <2>2 DEF Change
<1>4. c.row = r /\ c.item = i /\ c.served = run.served[i]
  OBVIOUS
<1>5. pending' = pending \cup {c}
  BY DEF ListChange
<1> HIDE DEF c
<1>6. \E d \in Change : /\ pending' = pending \cup {d}
                        /\ d.row = r /\ d.item = i
                        /\ d.served = run.served[i]
  BY <1>3, <1>4, <1>5
<1> QED BY <1>1, <1>2, <1>6 DEF ListChange, HereKept, ThereKept, local,
        provider

LEMMA NewItemsAre ==
  ASSUME TypeOK, NEW c \in NewItems
  PROVE  /\ c.row = NoServer /\ c.item \in Items
         /\ c.served = run.served[c.item] /\ c.served.state = "live"
BY DEF NewItems, Logins, Personal

LEMMA SettleDoes ==
  ASSUME TypeOK, Settle
  PROVE  /\ HereKept /\ ThereKept /\ answer' = answer /\ pulling' = pulling
         /\ pc = "rows" /\ run.todo = {} /\ answer = {}
         /\ pending' = pending \cup NewItems
         /\ \/ /\ pc' = "apply" /\ run' = run
               /\ run.approve = pending'
            \/ /\ pc' \in {"idle", "asked"} /\ RunOver
               /\ pc' = "idle" => pending' = {}
BY NoRunIsGone DEF Settle, Approved, HereKept, ThereKept, local, provider

LEMMA StopDoes ==
  ASSUME Decline \/ Abort
  PROVE  /\ RunOver /\ pending' = {} /\ pc' = "idle"
         /\ HereKept /\ ThereKept /\ answer' = answer /\ pulling' = pulling
BY NoRunIsGone DEF Decline, Abort, HereKept, ThereKept, local, provider

RunAsWas == UNCHANGED <<pc, run, pending, answer, pulling>>

LEMMA SaveStartDoes ==
  ASSUME TypeOK, NEW r \in Servers, NEW c, SaveStart(r, c)
  PROVE  /\ UNCHANGED <<rows, cats, base, late, astray, items, ours>>
         /\ RunAsWas
         /\ clock' = Tick /\ saving'[r].at = Tick
         /\ \A s \in Servers \ {r} : saving'[s] = saving[s]
BY DEF TypeOK, SaveStart, RunAsWas, syncRun, provider

LEMMA SaveWriteDoes ==
  ASSUME TypeOK, NEW r \in Servers, SaveWrite(r)
  PROVE  /\ UNCHANGED <<cats, base, astray, items, ours>> /\ RunAsWas
         /\ OthersKeep(r) /\ saving[r] # NoSave /\ saving'[r] = NoSave
         /\ rows[r].stored =>
              /\ clock' = Tick /\ rows'[r].stored
              /\ rows'[r].cat = saving[r].cat
              /\ rows'[r].updated = saving[r].at
              /\ rows'[r].link = rows[r].link
              /\ rows'[r].synced = rows[r].synced
              /\ rows'[r].revision = rows[r].revision
              /\ rows'[r].mark = rows[r].mark
              /\ late' = IF saving[r].at < rows[r].updated
                           THEN late \cup {r} ELSE late \ {r}
         /\ ~rows[r].stored => UNCHANGED <<clock, rows, late>>
<1>1. /\ UNCHANGED <<cats, base, astray, items, ours>> /\ RunAsWas
      /\ saving[r] # NoSave /\ saving' = [saving EXCEPT ![r] = NoSave]
  BY DEF SaveWrite, RunAsWas, syncRun, provider
<1>2. CASE rows[r].stored
  <2>1. rows' = [rows EXCEPT ![r] = Saved(rows[r], saving[r])]
    BY <1>2 DEF SaveWrite
  <2>2. rows'[r] = Saved(rows[r], saving[r])
    BY <2>1 DEF TypeOK
  <2>3. \A s \in Servers \ {r} : rows'[s] = rows[s]
    BY <2>1 DEF TypeOK
  <2>4. rows[r] \in Row
    BY DEF TypeOK
  <2>5. /\ rows'[r].stored /\ rows'[r].updated = saving[r].at
        /\ rows'[r].cat = saving[r].cat
        /\ rows'[r].link = rows[r].link /\ rows'[r].synced = rows[r].synced
        /\ rows'[r].revision = rows[r].revision
        /\ rows'[r].mark = rows[r].mark
    BY <1>2, <2>2, <2>4 DEF Saved, Row
  <2> QED BY <1>1, <1>2, <2>3, <2>5 DEF SaveWrite, OthersKeep, TypeOK
<1>3. CASE ~rows[r].stored
  BY <1>1, <1>3 DEF SaveWrite, OthersKeep, TypeOK
<1> QED BY <1>2, <1>3

LEMMA ServerDeleteDoes ==
  ASSUME TypeOK, NEW r \in Servers, ServerDelete(r)
  PROVE  /\ UNCHANGED <<cats, saving, base, items, ours, clock>>
         /\ RunAsWas
         /\ OthersKeep(r) /\ rows'[r] = NoRow /\ late' = late \ {r}
         /\ astray' = astray \ {r}
BY DEF TypeOK, ServerDelete, RunAsWas, syncRun, provider, OthersKeep

\* A category is renamed or deleted: a row outside it stays as it is, a row in
\* it is marked and perhaps filed elsewhere.
CategoryChanges(c) ==
  /\ UNCHANGED <<saving, base, late, astray, items, ours>> /\ RunAsWas
  /\ clock' = Tick
  /\ cats[c] # 0 /\ \A d \in Cats \ {c} : cats'[d] = cats[d]
  /\ \A r \in Servers :
       \/ rows[r].cat # c /\ rows'[r] = rows[r]
       \/ /\ rows[r].cat = c
          /\ rows'[r].stored = rows[r].stored
          /\ rows'[r].data = rows[r].data
          /\ rows'[r].updated = rows[r].updated
          /\ rows'[r].link = rows[r].link
          /\ rows'[r].synced = rows[r].synced
          /\ rows'[r].revision = rows[r].revision
          /\ rows'[r].mark = Tick
          /\ rows'[r].cat = c \/ (rows'[r].cat = NoCat /\ cats'[c] = 0)
  /\ cats'[c] = 0 => \A r \in Servers : rows'[r].cat # c

LEMMA CategoryDoes ==
  ASSUME TypeOK, NEW c \in Cats, RenameCategory(c) \/ DeleteCategory(c)
  PROVE  CategoryChanges(c)
<1>0. \A r \in Servers : rows[r] \in Row
  BY DEF TypeOK
<1>1. CASE RenameCategory(c)
  <2>1. \A r \in Servers : rows'[r] = IF rows[r].cat = c
            THEN [rows[r] EXCEPT !.mark = Tick] ELSE rows[r]
    BY <1>1 DEF RenameCategory, Marked
  <2>2. ASSUME NEW r \in Servers, rows[r].cat = c
        PROVE  LET row == rows'[r] IN
               /\ row.stored = rows[r].stored /\ row.data = rows[r].data
               /\ row.updated = rows[r].updated /\ row.link = rows[r].link
               /\ row.synced = rows[r].synced
               /\ row.revision = rows[r].revision
               /\ row.mark = Tick /\ row.cat = c
    BY <1>0, <2>1, <2>2 DEF Row
  <2>3. \A d \in Cats \ {c} : cats'[d] = cats[d]
    BY <1>1 DEF RenameCategory, TypeOK
  <2>4. \A r \in Servers :
       \/ rows[r].cat # c /\ rows'[r] = rows[r]
       \/ /\ rows[r].cat = c
          /\ rows'[r].stored = rows[r].stored
          /\ rows'[r].data = rows[r].data
          /\ rows'[r].updated = rows[r].updated
          /\ rows'[r].link = rows[r].link
          /\ rows'[r].synced = rows[r].synced
          /\ rows'[r].revision = rows[r].revision
          /\ rows'[r].mark = Tick
          /\ rows'[r].cat = c
    BY <2>1, <2>2
  <2>5. cats'[c] = Tick /\ clock \in Nat
    BY <1>1 DEF RenameCategory, TypeOK
  <2>6. cats'[c] # 0
    BY <2>5 DEF Tick
  <2> QED BY <1>1, <2>3, <2>4, <2>6
          DEF RenameCategory, CategoryChanges, RunAsWas, syncRun, provider
<1>2. CASE DeleteCategory(c)
  <2>1. \A r \in Servers : rows'[r] = IF rows[r].cat = c
            THEN [rows[r] EXCEPT !.mark = Tick, !.cat = NoCat] ELSE rows[r]
    BY <1>2 DEF DeleteCategory
  <2>2. ASSUME NEW r \in Servers, rows[r].cat = c
        PROVE  LET row == rows'[r] IN
               /\ row.stored = rows[r].stored /\ row.data = rows[r].data
               /\ row.updated = rows[r].updated /\ row.link = rows[r].link
               /\ row.synced = rows[r].synced
               /\ row.revision = rows[r].revision
               /\ row.mark = Tick /\ row.cat = NoCat
    BY <1>0, <2>1, <2>2 DEF Row
  <2>3. (\A d \in Cats \ {c} : cats'[d] = cats[d]) /\ cats'[c] = 0
    BY <1>2 DEF DeleteCategory, TypeOK
  <2>4. \A r \in Servers :
       \/ rows[r].cat # c /\ rows'[r] = rows[r]
       \/ /\ rows[r].cat = c
          /\ rows'[r].stored = rows[r].stored
          /\ rows'[r].data = rows[r].data
          /\ rows'[r].updated = rows[r].updated
          /\ rows'[r].link = rows[r].link
          /\ rows'[r].synced = rows[r].synced
          /\ rows'[r].revision = rows[r].revision
          /\ rows'[r].mark = Tick
          /\ rows'[r].cat = NoCat /\ cats'[c] = 0
    BY <2>1, <2>2, <2>3
  <2>5. \A r \in Servers : rows'[r].cat # c
    BY <2>4, NamesApart
  <2> QED BY <1>2, <2>3, <2>4, <2>5
          DEF DeleteCategory, CategoryChanges, RunAsWas, syncRun, provider
<1> QED BY <1>1, <1>2

\* An item changes, is new, or goes: only it, and with a revision of its own.
Moves(i) ==
  /\ clock' = Tick
  /\ \A j \in Items \ {i} : items'[j] = items[j]
  /\ items'[i].revision = Tick /\ items'[i].state # "none"

Remote(i) ==
  /\ Moves(i) /\ HereKept /\ RunAsWas
  /\ items[i].state # "none" => items'[i].names = items[i].names
  /\ ours' \subseteq ours
  /\ i \in ours' =>
       \/ items[i].state \in {"none", "trash"}
       \/ items'[i].state = "live" /\ items'[i].folder = items[i].folder

LEMMA BecomesDoes ==
  ASSUME TypeOK, NEW i \in Items, NEW item \in Item, Becomes(i, item),
         InBitwarden, item.state # "none"
  PROVE  /\ Moves(i) /\ HereKept /\ RunAsWas
         /\ items'[i].names = item.names /\ items'[i].state = item.state
         /\ items'[i].folder = item.folder
<1>1. items' = [items EXCEPT ![i] = [item EXCEPT !.revision = Tick]]
  BY DEF Becomes
<1>2. items'[i] = [item EXCEPT !.revision = Tick]
  BY <1>1 DEF TypeOK
<1>3. /\ items'[i].names = item.names /\ items'[i].state = item.state
      /\ items'[i].folder = item.folder /\ items'[i].revision = Tick
  BY <1>2 DEF Item
<1>4. \A j \in Items \ {i} : items'[j] = items[j]
  BY <1>1 DEF TypeOK
<1> QED BY <1>3, <1>4 DEF Moves, HereKept, RunAsWas, InBitwarden, local,
        syncRun

LEMMA ThereDoes ==
  ASSUME TypeOK, There
  PROVE  \E i \in Items : Remote(i)
<1>0. \A i \in Items : items[i] \in Item
  BY DEF TypeOK
<1>1. ASSUME NEW i \in Items, ItemEdited(i) PROVE Remote(i)
  <2> DEFINE item == [items[i] EXCEPT !.data = Tick]
  <2>1. /\ item \in Item /\ item.state = "live"
        /\ item.names = items[i].names /\ item.folder = items[i].folder
    BY <1>0, <1>1, TickTyped DEF Item, ItemEdited
  <2>2. Becomes(i, item) /\ InBitwarden /\ ours' = ours
    BY <1>1 DEF ItemEdited, Stays
  <2> HIDE DEF item
  <2> QED BY <2>1, <2>2, BecomesDoes DEF Remote
<1>2. ASSUME NEW i \in Items, ItemTrashed(i) PROVE Remote(i)
  <2> DEFINE item == [items[i] EXCEPT !.state = "trash"]
  <2>1. /\ item \in Item /\ item.state = "trash"
        /\ item.names = items[i].names
    BY <1>0, <1>2 DEF Item, ItemTrashed
  <2>2. Becomes(i, item) /\ InBitwarden /\ ours' = ours \ {i}
    BY <1>2 DEF ItemTrashed, Leaves
  <2> HIDE DEF item
  <2> QED BY <2>1, <2>2, BecomesDoes DEF Remote
<1>3. ASSUME NEW i \in Items, ItemRestored(i) PROVE Remote(i)
  <2> DEFINE item == [items[i] EXCEPT !.state = "live"]
  <2>1. /\ item \in Item /\ item.state = "live"
        /\ item.names = items[i].names /\ items[i].state = "trash"
    BY <1>0, <1>3 DEF Item, ItemRestored
  <2>2. Becomes(i, item) /\ InBitwarden /\ ours' = ours
    BY <1>3 DEF ItemRestored, Stays
  <2> HIDE DEF item
  <2> QED BY <2>1, <2>2, BecomesDoes DEF Remote
<1>4. ASSUME NEW i \in Items, ItemGivenAway(i) PROVE Remote(i)
  <2> DEFINE item == [items[i] EXCEPT !.state = "org"]
  <2>1. /\ item \in Item /\ item.state = "org"
        /\ item.names = items[i].names
    BY <1>0, <1>4 DEF Item, ItemGivenAway
  <2>2. Becomes(i, item) /\ InBitwarden /\ ours' = ours \ {i}
    BY <1>4 DEF ItemGivenAway, Leaves
  <2> HIDE DEF item
  <2> QED BY <2>1, <2>2, BecomesDoes DEF Remote
<1>5. ASSUME NEW i \in Items, ItemMoved(i) PROVE Remote(i)
  <2> DEFINE item == [items[i] EXCEPT !.folder = FALSE]
  <2>1. /\ item \in Item /\ item.state = "live"
        /\ item.names = items[i].names
    BY <1>0, <1>5 DEF Item, ItemMoved
  <2>2. Becomes(i, item) /\ InBitwarden /\ ours' = ours \ {i}
    BY <1>5 DEF ItemMoved, Leaves
  <2> HIDE DEF item
  <2> QED BY <2>1, <2>2, BecomesDoes DEF Remote
<1>6. ASSUME NEW i \in Items, ItemAdded(i) PROVE Remote(i)
  <2> DEFINE item == [Unused EXCEPT !.state = "live", !.folder = TRUE,
                                    !.data = Tick, !.created = Tick]
  <2>1. item \in Item /\ item.state = "live" /\ items[i].state = "none"
    BY <1>6, Zeroes, TickTyped DEF Item, ItemAdded, NewItem
  <2>2. Becomes(i, item) /\ InBitwarden /\ ours' = ours
    BY <1>6 DEF ItemAdded, Stays
  <2> HIDE DEF item
  <2> QED BY <2>1, <2>2, BecomesDoes DEF Remote
<1>7. ASSUME NEW i \in Items, NEW j \in Items, ItemCloned(i, j)
      PROVE  Remote(j)
  <2> DEFINE item == [items[i] EXCEPT !.created = Tick]
  <2>1. item \in Item /\ item.state = "live" /\ items[j].state = "none"
    BY <1>0, <1>7, TickTyped DEF Item, ItemCloned, NewItem
  <2>2. Becomes(j, item) /\ InBitwarden /\ ours' = ours
    BY <1>7 DEF ItemCloned, Stays
  <2> HIDE DEF item
  <2> QED BY <2>1, <2>2, BecomesDoes DEF Remote
<1> QED BY <1>1, <1>2, <1>3, <1>4, <1>5, <1>6, <1>7 DEF There

LEMMA UploadIs ==
  ASSUME TypeOK, NEW r \in Servers, NEW item \in Item
  PROVE  LET up == Upload(r, item) IN
         /\ up.state = item.state /\ up.folder = item.folder
         /\ up.names = r /\ up.data = run.listed[r].data
         /\ up.revision = Tick /\ up.path = PathOf(run.listed[r].cat)
         /\ up.path # 0 => up.cat = run.listed[r].cat
<1> DEFINE c == run.listed[r].cat
           k == IF PathOf(c) = 0 THEN NoCat ELSE c
           p == PathOf(c)
           d == run.listed[r].data
<1>1. Upload(r, item) = [item EXCEPT !.data = d, !.names = r, !.cat = k,
                                     !.path = p, !.revision = Tick]
  BY DEF Upload
<1>2. p # 0 => k = c
  OBVIOUS
<1>3. LET up == Upload(r, item) IN
         /\ up.state = item.state /\ up.folder = item.folder
         /\ up.names = r /\ up.data = d
         /\ up.revision = Tick /\ up.path = p /\ up.cat = k
  <2> HIDE DEF k, p, d
  <2> QED BY <1>1 DEF Item
<1> QED BY <1>2, <1>3

\* An upload that is answered: the item holds what was listed of the row.
Uploads(r, i) ==
  /\ Turn(r) /\ Moves(i)
  /\ items'[i].state = "live" /\ items'[i].names = r
  /\ items'[i].data = run.listed[r].data
  /\ items'[i].path = PathOf(run.listed[r].cat)
  /\ items'[i].path # 0 => items'[i].cat = run.listed[r].cat
  /\ HereKept /\ pc' = pc /\ pending' = pending /\ pulling' = pulling
  /\ RunKept /\ run'.todo = run.todo \ {r}
  /\ \E a \in Answer : /\ answer' = {a} /\ a.row = r /\ a.item = i
                       /\ a.revision = Tick

LEMMA SendDoes ==
  ASSUME TypeOK, NEW r \in Servers, NEW i \in Items, NEW item \in Item,
         Turn(r), Send(r, i, item), item.state = "live", NEW found,
         Done(r, found)
  PROVE  Uploads(r, i) /\ items'[i].folder = item.folder
<1>1. items' = [items EXCEPT ![i] = Upload(r, item)]
  BY DEF Send
<1>2. items'[i] = Upload(r, item)
  BY <1>1 DEF TypeOK
<1>3. \A j \in Items \ {i} : items'[j] = items[j]
  BY <1>1 DEF TypeOK
<1>4. /\ items'[i].state = "live" /\ items'[i].folder = item.folder
      /\ items'[i].names = r /\ items'[i].data = run.listed[r].data
      /\ items'[i].revision = Tick
      /\ items'[i].path = PathOf(run.listed[r].cat)
      /\ items'[i].path # 0 => items'[i].cat = run.listed[r].cat
  BY <1>2, UploadIs
<1>5. Moves(i)
  BY <1>3, <1>4 DEF Moves, Send
<1>6. \E a \in Answer : /\ answer' = {a} /\ a.row = r /\ a.item = i
                        /\ a.revision = Tick
  <2> DEFINE a == [row |-> r, item |-> i, revision |-> Tick]
  <2>1. a \in Answer /\ a.row = r /\ a.item = i /\ a.revision = Tick
    BY TickTyped DEF Answer
  <2>2. answer' = {a}
    BY DEF Send
  <2> HIDE DEF a
  <2> QED BY <2>1, <2>2
<1>7. RunKept /\ run'.todo = run.todo \ {r}
  BY DoneDoes
<1> QED BY <1>4, <1>5, <1>6, <1>7 DEF Send, HereKept, local, Uploads

LEMMA CreateDoes ==
  ASSUME TypeOK, NEW r \in Servers, NEW i \in Items, Create(r, i)
  PROVE  /\ Uploads(r, i) /\ items[i].state = "none" /\ PlannedCreate(r)
         /\ items'[i].folder /\ ours' = ours \cup {i}
<1> DEFINE item == [Unused EXCEPT !.state = "live", !.folder = TRUE,
                                  !.created = Tick]
<1>1. item \in Item /\ item.state = "live" /\ item.folder = TRUE
  BY Zeroes, TickTyped DEF Item
<1>2. Send(r, i, item) /\ Done(r, {}) /\ Turn(r)
  BY DEF Create
<1>3. /\ items[i].state = "none" /\ PlannedCreate(r)
      /\ ours' = ours \cup {i}
  BY DEF Create, NewItem
<1> HIDE DEF item
<1> QED BY <1>1, <1>2, <1>3, SendDoes

LEMMA UpdateDoes ==
  ASSUME TypeOK, NEW r \in Servers, NEW i \in Items, Update(r, i)
  PROVE  /\ Uploads(r, i) /\ items[i].state = "live"
         /\ items'[i].folder = run.served[i].folder /\ ours' = ours
         /\ run.listed[r].link = i
         /\ \/ run.listed[r].updated > run.listed[r].synced
            \/ run.served[i].revision <= run.listed[r].revision
<1> DEFINE f == run.served[i].folder
           item == [items[i] EXCEPT !.folder = f]
<1>1. item \in Item /\ item.state = items[i].state /\ item.folder = f
  <2>1. items[i] \in Item /\ run.served[i] \in Item
    BY DEF TypeOK, Run
  <2>2. f \in BOOLEAN
    BY <2>1 DEF Item
  <2> HIDE DEF f
  <2> QED BY <2>1, <2>2 DEF Item
<1>2. Send(r, i, item) /\ Done(r, {i}) /\ Turn(r)
  BY DEF Update
<1>3. items[i].state = "live" /\ ours' = ours /\ Planned(r, i, "Update")
  BY DEF Update
<1> HIDE DEF item
<1>4. Uploads(r, i) /\ items'[i].folder = f
  BY <1>1, <1>2, <1>3, SendDoes
<1> QED BY <1>3, <1>4, PlannedIs

LEMMA RecordDoes ==
  ASSUME TypeOK, Record
  PROVE  /\ UNCHANGED <<cats, saving, late, items, ours, clock>>
         /\ UNCHANGED <<pc, run, pending, pulling>> /\ answer' = {}
         /\ \E a \in answer :
              /\ \A s \in Servers \ {a.row} :
                   rows'[s] = rows[s] /\ base'[s] = base[s]
              /\ rows[a.row].stored =>
                   /\ rows'[a.row].stored
                   /\ rows'[a.row].data = rows[a.row].data
                   /\ rows'[a.row].cat = rows[a.row].cat
                   /\ rows'[a.row].updated = rows[a.row].updated
                   /\ rows'[a.row].link = a.item
                   /\ rows'[a.row].revision = a.revision
                   /\ rows'[a.row].synced = run.listed[a.row].updated
                   /\ rows'[a.row].mark = IF rows[a.row].mark <=
                        run.marks[a.row] THEN 0 ELSE rows[a.row].mark
                   /\ base'[a.row] = run.listed[a.row].data
                   /\ astray' = astray \ {a.row}
              /\ ~rows[a.row].stored => UNCHANGED <<rows, base, astray>>
<1>1. PICK a \in answer :
        IF rows[a.row].stored
         THEN /\ rows' = [rows EXCEPT ![a.row] = Recorded(@, a)]
              /\ base' = [base EXCEPT ![a.row] = run.listed[a.row].data]
              /\ astray' = astray \ {a.row}
         ELSE UNCHANGED <<rows, base, astray>>
  BY DEF Record
<1>2. a.row \in Servers
  BY DEF TypeOK, Answer
<1>3. rows[a.row] \in Row
  BY <1>2 DEF TypeOK
<1>4. CASE rows[a.row].stored
  <2>1. rows'[a.row] = Recorded(rows[a.row], a)
        /\ base'[a.row] = run.listed[a.row].data
    BY <1>1, <1>2, <1>4 DEF TypeOK
  <2>2. \A s \in Servers \ {a.row} :
                   rows'[s] = rows[s] /\ base'[s] = base[s]
    BY <1>1, <1>4 DEF TypeOK
  <2> DEFINE m == IF rows[a.row].mark <= run.marks[a.row]
                    THEN 0 ELSE rows[a.row].mark
             u == run.listed[a.row].updated
  <2>3. rows'[a.row] = [rows[a.row] EXCEPT !.link = a.item,
            !.revision = a.revision, !.synced = u, !.mark = m]
    BY <2>1 DEF Recorded
  <2>4. /\ rows'[a.row].stored = rows[a.row].stored
        /\ rows'[a.row].data = rows[a.row].data
        /\ rows'[a.row].cat = rows[a.row].cat
        /\ rows'[a.row].updated = rows[a.row].updated
        /\ rows'[a.row].link = a.item
        /\ rows'[a.row].revision = a.revision
        /\ rows'[a.row].synced = u
        /\ rows'[a.row].mark = m
    <3> HIDE DEF m, u
    <3> QED BY <1>3, <2>3 DEF Row
  <2> QED BY <1>1, <1>4, <2>1, <2>2, <2>4 DEF Record, provider
<1>5. CASE ~rows[a.row].stored
  BY <1>1, <1>5 DEF Record, provider
<1> QED BY <1>4, <1>5

LEMMA AnswerLostDoes ==
  ASSUME AnswerLost
  PROVE  /\ HereKept /\ ThereKept /\ UNCHANGED <<pc, run, pending, pulling>>
         /\ answer' = {}
BY DEF AnswerLost, HereKept, ThereKept, local, provider

LEMMA LinkDoes ==
  ASSUME TypeOK, NEW r \in Servers, NEW i \in Items, Link(r, i)
  PROVE  /\ UNCHANGED <<cats, saving, base, late, astray>> /\ ThereKept
         /\ pc' = pc /\ pending' = pending
         /\ answer' = answer /\ pulling' = pulling
         /\ Turn(r) /\ RunKept /\ run'.todo = run.todo \ {r}
         /\ i \in OwnItems(r)
         /\ OthersKeep(r)
         /\ ~rows[r].stored => rows' = rows
         /\ rows[r].stored =>
              /\ rows'[r].stored /\ rows'[r].data = rows[r].data
              /\ rows'[r].cat = rows[r].cat
              /\ rows'[r].updated = rows[r].updated
              /\ rows'[r].mark = rows[r].mark
              /\ rows'[r].link = i /\ rows'[r].synced = 0
              /\ rows'[r].revision = run.served[i].revision
<1>1. RunKept /\ run'.todo = run.todo \ {r} /\ i \in OwnItems(r)
  BY DoneDoes, PlannedIs DEF Link
<1>2. rows[r] \in Row
  BY DEF TypeOK
<1>3. CASE rows[r].stored
  <2> DEFINE v == run.served[i].revision
             row == [rows[r] EXCEPT !.link = i, !.synced = 0,
                                    !.revision = v]
  <2>1. rows' = [rows EXCEPT ![r] = row]
    BY <1>3, TypeParts DEF Link, RowsTyped
  <2>2. rows'[r] = row /\ \A s \in Servers \ {r} : rows'[s] = rows[s]
    <3> HIDE DEF row
    <3> QED BY <2>1 DEF TypeOK
  <2>3. /\ rows'[r].stored /\ rows'[r].data = rows[r].data
        /\ rows'[r].cat = rows[r].cat
        /\ rows'[r].updated = rows[r].updated
        /\ rows'[r].mark = rows[r].mark
        /\ rows'[r].link = i /\ rows'[r].synced = 0
        /\ rows'[r].revision = v
    <3> HIDE DEF v
    <3> QED BY <1>2, <1>3, <2>2 DEF Row
  <2> QED BY <1>1, <1>3, <2>2, <2>3 DEF Link, OthersKeep, ThereKept, provider
<1>4. CASE ~rows[r].stored
  BY <1>1, <1>4 DEF Link, OthersKeep, ThereKept, provider
<1> QED BY <1>3, <1>4

LEMMA PullStartDoes ==
  ASSUME TypeOK, NEW change \in pending, NEW c \in Cats \cup {NoCat},
         PullStart(change, c)
  PROVE  /\ UNCHANGED <<rows, saving, base, late, astray>> /\ ThereKept
         /\ UNCHANGED <<pc, run, pending, answer>> /\ pc = "apply"
         /\ change \in Change /\ Refiled(change, c)
         /\ \E p \in Pull :
              /\ pulling' = {p} /\ p.change = change /\ p.cat = c
              /\ p.path = IF c = NoCat THEN 0 ELSE cats'[c]
<1>1. change \in Change
  BY DEF TypeOK
<1>2. Refiled(change, c)
  BY DEF PullStart
<1>3. cats' \in [Cats -> Nat]
  BY <1>1, <1>2, RefiledTyped
<1> DEFINE p == [change |-> change, cat |-> c,
                 path |-> IF c = NoCat THEN 0 ELSE cats'[c]]
<1>4. /\ p \in Pull /\ p.change = change /\ p.cat = c
      /\ p.path = IF c = NoCat THEN 0 ELSE cats'[c]
  BY <1>1, <1>3 DEF Pull
<1>5. pulling' = {p}
  BY DEF PullStart
<1> HIDE DEF p
<1> QED BY <1>1, <1>2, <1>4, <1>5 DEF PullStart, ThereKept, provider

\* A pull that is over: the list is shorter, the run goes on or ends.
Ends(p) ==
  /\ UNCHANGED <<cats, saving, items, answer>>
  /\ pulling' = {} /\ pending' = pending \ {p.change}
  /\ \/ pc' = "idle" /\ RunOver /\ pending' = {}
     \/ pc' = pc /\ run' = run

LEMMA EndPullDoes ==
  ASSUME NEW p, EndPull(p)
  PROVE  Ends(p)
BY NoRunIsGone DEF EndPull, Ends

\* A pull that writes into row r.
Writes(p, r) ==
  /\ clock' = Tick
  /\ \A s \in Servers \ {r} : rows'[s] = rows[s] /\ base'[s] = base[s]
  /\ rows'[r].stored
  /\ rows'[r].data = p.change.served.data
  /\ rows'[r].cat = p.cat
  /\ rows'[r].updated = Tick /\ rows'[r].synced = Tick
  /\ rows'[r].revision = p.change.served.revision
  /\ base'[r] = p.change.served.data
  /\ late' = late \ {r}
  /\ astray' = IF PathOf(p.cat) # p.path THEN astray \cup {r}
                                         ELSE astray \ {r}

LEMMA PullsDoes ==
  ASSUME TypeOK, NEW p \in pulling, NEW r \in Servers, NEW row \in Row,
         row.stored, Pulls(p, r, row)
  PROVE  /\ Writes(p, r) /\ rows'[r].link = row.link
         /\ rows'[r].mark = row.mark
<1> DEFINE d == p.change.served.data
           v == p.change.served.revision
           k == p.cat
<1>1. rows' = [rows EXCEPT ![r] = PulledRow(row, p)]
  BY DEF Pulls
<1>2. rows'[r] = PulledRow(row, p)
      /\ \A s \in Servers \ {r} : rows'[s] = rows[s]
  BY <1>1 DEF TypeOK
<1>3. base'[r] = d /\ \A s \in Servers \ {r} : base'[s] = base[s]
  BY DEF Pulls, TypeOK
<1>4. rows'[r] = [row EXCEPT !.data = d, !.cat = k, !.updated = Tick,
                             !.synced = Tick, !.revision = v]
  BY <1>2 DEF PulledRow
<1>5. /\ rows'[r].stored /\ rows'[r].data = d /\ rows'[r].cat = k
      /\ rows'[r].updated = Tick /\ rows'[r].synced = Tick
      /\ rows'[r].revision = v /\ rows'[r].link = row.link
      /\ rows'[r].mark = row.mark
  <2> HIDE DEF d, v, k
  <2> QED BY <1>4 DEF Row
<1> QED BY <1>2, <1>3, <1>5 DEF Pulls, Writes

\* An approved change of a row is written into it.
Replaces(p) ==
  /\ pc = "apply" /\ UNCHANGED <<ours>>
  /\ Ends(p) /\ p.change.row \in Servers /\ Writes(p, p.change.row)
  /\ rows[p.change.row].stored
  /\ rows[p.change.row].updated = run.listed[p.change.row].updated
  /\ rows'[p.change.row].link = rows[p.change.row].link
  /\ rows'[p.change.row].mark = rows[p.change.row].mark

LEMMA PullServerDoes ==
  ASSUME TypeOK, PullServer
  PROVE  \E p \in pulling :
           \/ Replaces(p)
           \/ pc = "apply" /\ HereKept /\ ThereKept /\ Ends(p)
<1>1. PICK p \in pulling :
        /\ p.change.row # NoServer
        /\ IF StillTheOne(p.change.row)
             THEN Pulls(p, p.change.row, rows[p.change.row])
             ELSE UNCHANGED <<clock, rows, base, late, astray>>
        /\ EndPull(p) /\ ours' = ours
  BY DEF PullServer
<1>2. p.change.row \in Servers /\ pc = "apply"
  BY <1>1 DEF TypeOK, Pull, Change
<1>3. Ends(p)
  BY <1>1, EndPullDoes
<1>4. CASE StillTheOne(p.change.row)
  <2>1. /\ rows[p.change.row] \in Row /\ rows[p.change.row].stored
        /\ rows[p.change.row].updated = run.listed[p.change.row].updated
    BY <1>2, <1>4 DEF TypeOK, StillTheOne
  <2>2. Replaces(p)
    BY <1>1, <1>2, <1>3, <1>4, <2>1, PullsDoes DEF Replaces
  <2> QED BY <2>2
<1>5. CASE ~StillTheOne(p.change.row)
  <2>1. pc = "apply" /\ HereKept /\ ThereKept /\ Ends(p)
    BY <1>1, <1>2, <1>3, <1>5 DEF HereKept, ThereKept, Ends
  <2> QED BY <2>1
<1> QED BY <1>4, <1>5

\* An approved item becomes a row of its own.
Imports(p, r) ==
  /\ pc = "apply" /\ Fresh(r)
  /\ Ends(p) /\ p.change.row = NoServer /\ Writes(p, r)
  /\ ours' = ours \ {p.change.item}
  /\ rows'[r].link = p.change.item /\ rows'[r].mark = 0

LEMMA PullNewServerDoes ==
  ASSUME TypeOK, NEW r \in Servers, PullNewServer(r)
  PROVE  \E p \in pulling : Imports(p, r)
<1>1. PICK p \in pulling :
        /\ p.change.row = NoServer /\ Fresh(r)
        /\ Pulls(p, r, [NoRow EXCEPT !.stored = TRUE,
                                     !.link = p.change.item])
        /\ EndPull(p) /\ ours' = ours \ {p.change.item}
  BY DEF PullNewServer
<1>2. p.change.item \in Items /\ pc = "apply"
  BY <1>1 DEF TypeOK, Pull, Change
<1> DEFINE row == [NoRow EXCEPT !.stored = TRUE, !.link = p.change.item]
<1>3. row \in Row /\ row.stored /\ row.link = p.change.item /\ row.mark = 0
  BY <1>2, Zeroes, ZeroFields DEF Row
<1>4. Pulls(p, r, row)
  BY <1>1
<1> HIDE DEF row
<1>5. Writes(p, r) /\ rows'[r].link = p.change.item /\ rows'[r].mark = 0
  BY <1>3, <1>4, PullsDoes
<1>6. Imports(p, r)
  BY <1>1, <1>2, <1>5, EndPullDoes DEF Imports
<1> QED BY <1>6

LEMMA PullFailsDoes ==
  ASSUME TypeOK, PullFails
  PROVE  /\ HereKept /\ ThereKept /\ pc = "apply"
         /\ \E p \in pulling : Ends(p)
<1>1. PICK p \in pulling :
        EndPull(p) /\ UNCHANGED <<rows, ours, clock, base, late, astray>>
  BY DEF PullFails
<1>2. Ends(p) /\ pc = "apply"
  BY <1>1, EndPullDoes DEF TypeOK
<1> QED BY <1>1, <1>2 DEF Ends, HereKept, ThereKept

LEMMA CrashDoes ==
  ASSUME TypeOK, Crash
  PROVE  /\ UNCHANGED <<cats, base, late, astray>> /\ ThereKept
         /\ \A r \in Servers :
              /\ saving'[r] = NoSave
              /\ rows'[r].stored = rows[r].stored
              /\ rows'[r].data = rows[r].data
              /\ rows'[r].updated = rows[r].updated
              /\ rows'[r].link = rows[r].link
              /\ rows'[r].synced = rows[r].synced
              /\ rows'[r].revision = rows[r].revision
              /\ rows'[r].mark = rows[r].mark
              /\ Filed(r) => rows'[r] = rows[r]
              /\ ~Filed(r) => rows'[r].cat = NoCat
         /\ pc' = "idle" /\ RunOver /\ pending' = {}
         /\ answer' = {} /\ pulling' = {}
<1>1. \A r \in Servers : saving'[r] = NoSave
  BY DEF Crash
<1>2. ASSUME NEW r \in Servers
      PROVE  /\ rows'[r].stored = rows[r].stored
             /\ rows'[r].data = rows[r].data
             /\ rows'[r].updated = rows[r].updated
             /\ rows'[r].link = rows[r].link
             /\ rows'[r].synced = rows[r].synced
             /\ rows'[r].revision = rows[r].revision
             /\ rows'[r].mark = rows[r].mark
             /\ Filed(r) => rows'[r] = rows[r]
             /\ ~Filed(r) => rows'[r].cat = NoCat
  <2>1. rows[r] \in Row
    BY DEF TypeOK
  <2>2. rows'[r] = IF Filed(r) THEN rows[r] ELSE [rows[r] EXCEPT !.cat = NoCat]
    BY DEF Crash
  <2>3. CASE Filed(r)
    BY <2>2, <2>3
  <2>4. CASE ~Filed(r)
    BY <2>1, <2>2, <2>4 DEF Row
  <2> QED BY <2>3, <2>4
<1> QED BY <1>1, <1>2, NoRunIsGone DEF Crash, ThereKept, provider

\* The run goes on with what it has read; its list may lose an entry.
Narrows ==
  /\ RunKept /\ run'.todo \subseteq run.todo
  /\ \/ pc' = pc /\ (run' = run \/ pc = "rows")
     \/ pc = "index" /\ pc' = "rows"
  /\ pending' \subseteq pending /\ (pending' = pending \/ pulling' = {})

\* A change of a row is listed.
Lists(r, c) ==
  /\ Turn(r) /\ RunKept /\ run'.todo = run.todo \ {r} /\ pc' = pc
  /\ c \in Change /\ pending' = pending \cup {c}
  /\ c.row = r /\ c.item = run.listed[r].link
  /\ c.served = run.served[c.item] /\ c.served.state = "live"
  /\ run.listed[r].updated <= run.listed[r].synced

\* The list is the approved one.
Applies ==
  /\ pc = "rows" /\ pc' = "apply" /\ run' = run
  /\ run.todo = {} /\ answer = {}
  /\ pending' = pending \cup NewItems /\ run.approve = pending'

\* The run is over, with its list for the user or with none.
Stops ==
  /\ RunOver /\ pc' \in {"idle", "asked"}
  /\ pc' = "idle" => pending' = {}
  /\ pending' \subseteq pending \cup NewItems

\* Nothing moves but the run.
QuietStep ==
  /\ HereKept /\ ThereKept
  /\ answer' \subseteq answer /\ pulling' \subseteq pulling
  /\ \/ Narrows \/ Applies \/ Stops
     \/ \E r \in Servers, c \in Change : Lists(r, c)

LEMMA QuietSteps ==
  ASSUME TypeOK,
         \/ LoadIndex \/ Settle \/ AnswerLost \/ PullFails
         \/ \E p \in pulling : HereKept /\ ThereKept /\ Ends(p)
         \/ Decline \/ Abort \/ UNCHANGED vars
         \/ \E r \in Servers : \/ LeaveAmbiguous(r) \/ LeaveAlone(r)
                               \/ UploadFails(r)
                               \/ \E i \in Items : ListChange(r, i)
  PROVE  QuietStep
<1>1. CASE LoadIndex
  <2>1. Narrows
    BY <1>1, LoadIndexDoes DEF Narrows
  <2> QED BY <1>1, <2>1, LoadIndexDoes DEF QuietStep
<1>2. CASE Settle
  <2>1. Applies \/ Stops
    BY <1>2, SettleDoes DEF Applies, Stops
  <2> QED BY <1>2, <2>1, SettleDoes DEF QuietStep
<1>3. CASE AnswerLost
  <2>1. Narrows
    BY <1>3, AnswerLostDoes DEF Narrows, RunKept
  <2> QED BY <1>3, <2>1, AnswerLostDoes DEF QuietStep
<1>4. ASSUME NEW p \in pulling, HereKept, ThereKept, Ends(p)
      PROVE  QuietStep
  <2>1. Narrows \/ Stops
    BY <1>4 DEF Ends, Narrows, Stops, RunKept
  <2> QED BY <1>4, <2>1 DEF Ends, QuietStep
<1>5. CASE Decline \/ Abort
  <2>1. Stops
    BY <1>5, StopDoes DEF Stops
  <2> QED BY <1>5, <2>1, StopDoes DEF QuietStep
<1>6. CASE UNCHANGED vars
  <2>1. Narrows
    BY <1>6 DEF Narrows, vars, RunKept
  <2> QED BY <1>6, <2>1 DEF QuietStep, vars, HereKept, ThereKept
<1>7. ASSUME NEW r \in Servers,
             LeaveAmbiguous(r) \/ LeaveAlone(r) \/ UploadFails(r)
      PROVE  QuietStep
  <2>1. Narrows
    BY <1>7, LeaveDoes DEF Narrows, Turn
  <2> QED BY <1>7, <2>1, LeaveDoes DEF QuietStep
<1>8. ASSUME NEW r \in Servers, NEW i \in Items, ListChange(r, i)
      PROVE  QuietStep
  <2>1. \E c \in Change : Lists(r, c)
    BY <1>8, ListChangeDoes DEF Lists
  <2> QED BY <1>8, <2>1, ListChangeDoes DEF QuietStep
<1> QED BY <1>1, <1>2, <1>3, <1>4, <1>5, <1>6, <1>7, <1>8, PullFailsDoes

LEMMA NextIs ==
  ASSUME TypeOK, [Next]_vars
  PROVE  \/ \E r \in Servers, c \in Cats \cup {NoCat} : SaveStart(r, c)
         \/ \E r \in Servers : SaveWrite(r)
         \/ \E r \in Servers : ServerDelete(r)
         \/ \E c \in Cats : CategoryChanges(c)
         \/ \E i \in Items : Remote(i)
         \/ pc \in {"idle", "asked"} /\ \E a \in SUBSET Change : Fetch(a)
         \/ ListServers
         \/ CategoryMarks
         \/ QuietStep
         \/ \E r \in Servers, i \in Items : Create(r, i)
         \/ \E r \in Servers, i \in Items : Update(r, i)
         \/ Record
         \/ \E r \in Servers, i \in Items : Link(r, i)
         \/ \E change \in pending, c \in Cats \cup {NoCat} :
              PullStart(change, c)
         \/ \E p \in pulling : Replaces(p)
         \/ \E p \in pulling, r \in Servers : Imports(p, r)
         \/ Crash
<1>1. StartAsking \/ Approve =>
        pc \in {"idle", "asked"} /\ \E a \in SUBSET Change : Fetch(a)
  BY DEF TypeOK, StartAsking, Approve
<1>2. Pass => \/ ListServers \/ CategoryMarks \/ Record \/ QuietStep
              \/ \E r \in Servers, i \in Items :
                   Create(r, i) \/ Update(r, i) \/ Link(r, i)
  BY QuietSteps DEF Pass
<1>3. Applying => \/ \E change \in pending, c \in Cats \cup {NoCat} :
                       PullStart(change, c)
                  \/ QuietStep
                  \/ \E p \in pulling : Replaces(p)
                  \/ \E p \in pulling, r \in Servers : Imports(p, r)
  BY QuietSteps, PullServerDoes, PullNewServerDoes DEF Applying
<1> QED BY <1>1, <1>2, <1>3, QuietSteps, CategoryDoes, ThereDoes
        DEF Next, Here

=============================================================================
