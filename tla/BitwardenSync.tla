--------------------------- MODULE BitwardenSync ---------------------------
(***************************************************************************)
(* The server half of the Bitwarden sync (bitwarden/sync.rs): one run      *)
(* fetches the vault, reads the rows, plans each row, uploads, lists what  *)
(* changed at the provider and applies it once the user has approved that  *)
(* list.  Around it: saves and deletions of servers, changes of their      *)
(* categories, edits in Bitwarden, a lost answer, a lock, a crash.         *)
(*                                                                         *)
(* One clock stamps both sides; stamps of the two sides are never          *)
(* compared.  "data" is everything a row and an item hold but the          *)
(* category: each save and each edit gives it a value not seen before.     *)
(***************************************************************************)
EXTENDS Naturals, FiniteSets

CONSTANTS
  Servers,        \* ids of local rows
  Items,          \* ids of items at the provider
  Cats,           \* ids of host categories
  NoServer, NoItem, NoCat,
  First,          \* the row there is at the start, never synced
  Home,           \* the category it is filed in
  MaxSaves,       \* saves and deletions of rows
  MaxRemote,      \* changes made in Bitwarden itself
  MaxCategories,  \* renames and deletions of categories
  MaxFaults,      \* lost answers and crashes
  MaxInAll        \* all of these together

ASSUME NamesApart ==
  /\ NoServer \notin Servers /\ NoItem \notin Items /\ NoCat \notin Cats
  /\ First \in Servers /\ Home \in Cats
ASSUME Bounds == {MaxSaves, MaxRemote, MaxCategories, MaxFaults,
                   MaxInAll} \subseteq Nat

VARIABLES
  rows,       \* servers, with their mark in sync_category_marks
  cats,       \* categories: the path of each, 0 when there is none
  saving,     \* a save under way: its stamp, 0 when none, and its category
  items,      \* the provider's items
  ours,       \* items the sync created that nobody took out of its sight since
  clock,
  spent,      \* what the bounds have left
  base,       \* what row and item last agreed on
  late,       \* rows whose last save wrote a stamp older than the row's
  astray,     \* rows pulled into a category that changed while they sealed
  pc,         \* where the run is
  run,        \* SyncRun: what it has read and still has to do
  pending,    \* report.pending_servers
  answer,     \* an upload that is answered and not yet recorded
  pulling     \* the pull under way

local == <<rows, cats, saving, base, late, astray>>
provider == <<items, ours>>
syncRun == <<pc, run, pending, answer, pulling>>
vars == <<rows, cats, saving, items, ours, clock, spent, base, late, astray,
          pc, run, pending, answer, pulling>>

Row == [stored : BOOLEAN, data : Nat, cat : Cats \cup {NoCat},
        updated : Nat, link : Items \cup {NoItem}, synced : Nat,
        revision : Nat, mark : Nat]
NoRow == [stored |-> FALSE, data |-> 0, cat |-> NoCat, updated |-> 0,
          link |-> NoItem, synced |-> 0, revision |-> 0, mark |-> 0]
Item == [state : {"none", "live", "org", "trash"}, folder : BOOLEAN,
         names : Servers \cup {NoServer}, data : Nat,
         cat : Cats \cup {NoCat}, path : Nat, revision : Nat,
         created : Nat]
Unused == [state |-> "none", folder |-> FALSE, names |-> NoServer,
           data |-> 0, cat |-> NoCat, path |-> 0, revision |-> 0,
           created |-> 0]

Saving == [at : Nat, cat : Cats \cup {NoCat}]
NoSave == [at |-> 0, cat |-> NoCat]

(* One entry of the list the user approves, with all the token binds: the  *)
(* item as the vault served it and what the pull would change.  NoServer   *)
(* stands for an item that is to be imported.                              *)
Change == [row : Servers \cup {NoServer}, item : Items, served : Item,
           changes : SUBSET {"data", "category"}]
Run == [approve : SUBSET Change, served : [Items -> Item],
        listed : [Servers -> Row], marks : [Servers -> Nat],
        index : [Cats -> Nat], todo : SUBSET Servers, matched : SUBSET Items,
        ambiguous : SUBSET Servers]
NoRun == [approve |-> {}, served |-> [i \in Items |-> Unused],
          listed |-> [r \in Servers |-> NoRow],
          marks |-> [r \in Servers |-> 0], index |-> [c \in Cats |-> 0],
          todo |-> {}, matched |-> {}, ambiguous |-> {}]

Tick == clock + 1
Total == spent.save + spent.remote + spent.category + spent.fault
Can(kind, most) == spent[kind] < most /\ Total < MaxInAll
Spend(kind) == spent' = [spent EXCEPT ![kind] = @ + 1]
(* The provider gives ids it never gave before; which ones does not matter. *)
NewItem(i) == /\ items[i].state = "none"
              /\ i = CHOOSE j \in Items : items[j].state = "none"
PathOf(c) == IF c = NoCat THEN 0 ELSE cats[c]
(* The category the notes of an item mean in the table t: by its id, else  *)
(* by its path.                                                            *)
Meant(item, t) ==
  IF item.path = 0 THEN {}
  ELSE IF item.cat # NoCat /\ t[item.cat] # 0 THEN {item.cat}
       ELSE {c \in Cats : t[c] = item.path}
Exists(c) == c = NoCat \/ PathOf(c) # 0
Filed(r) == Exists(rows[r].cat)

Init ==
  /\ rows = [r \in Servers |-> IF r = First
       THEN [NoRow EXCEPT !.stored = TRUE, !.data = 1, !.cat = Home,
                          !.updated = 1]
       ELSE NoRow]
  /\ cats = [c \in Cats |-> IF c = Home THEN 1 ELSE 0]
  /\ saving = [r \in Servers |-> NoSave]
  /\ items = [i \in Items |-> Unused] /\ ours = {}
  /\ clock = 1
  /\ spent = [save |-> 0, remote |-> 0, category |-> 0, fault |-> 0]
  /\ base = [r \in Servers |-> 0]
  /\ late = {} /\ astray = {}
  /\ pc = "idle" /\ run = NoRun
  /\ pending = {} /\ answer = {} /\ pulling = {}

-----------------------------------------------------------------------------
(* What the user does here while a run is under way.                       *)

(* store_server checks the category, takes its stamp, then seals.          *)
SaveStart(r, c) ==
  /\ rows[r].stored /\ saving[r] = NoSave /\ Exists(c)
  /\ Can("save", MaxSaves) /\ Spend("save")
  /\ clock' = Tick
  /\ saving' = [saving EXCEPT ![r] = [at |-> Tick, cat |-> c]]
  /\ UNCHANGED <<rows, cats, base, late, astray, provider, syncRun>>

(* modify_server writes into the row as it is now what the user entered,   *)
(* with the stamp taken before.                                            *)
Saved(row, save) == [row EXCEPT !.data = Tick, !.cat = save.cat,
                                !.updated = save.at]

SaveWrite(r) ==
  /\ saving[r] # NoSave
  /\ saving' = [saving EXCEPT ![r] = NoSave]
  /\ IF rows[r].stored
       THEN /\ clock' = Tick
            /\ rows' = [rows EXCEPT ![r] = Saved(@, saving[r])]
            /\ late' = IF saving[r].at < rows[r].updated
                         THEN late \cup {r} ELSE late \ {r}
       ELSE UNCHANGED <<clock, rows, late>>
  /\ UNCHANGED <<cats, base, astray, provider, spent, syncRun>>

ServerDelete(r) ==
  /\ rows[r].stored
  /\ Can("save", MaxSaves) /\ Spend("save")
  /\ rows' = [rows EXCEPT ![r] = NoRow]
  /\ late' = late \ {r} /\ astray' = astray \ {r}
  /\ UNCHANGED <<cats, saving, base, provider, clock, syncRun>>

(* A category gets another path: its servers are marked, their updated_at  *)
(* stays.                                                                  *)
Marked(c) == [r \in Servers |-> IF rows[r].cat = c
                THEN [rows[r] EXCEPT !.mark = Tick] ELSE rows[r]]

RenameCategory(c) ==
  /\ cats[c] # 0
  /\ Can("category", MaxCategories) /\ Spend("category")
  /\ clock' = Tick
  /\ cats' = [cats EXCEPT ![c] = Tick]
  /\ rows' = Marked(c)
  /\ UNCHANGED <<saving, base, late, astray, provider, syncRun>>

(* Its servers move up: here to no category.                               *)
DeleteCategory(c) ==
  /\ cats[c] # 0
  /\ Can("category", MaxCategories) /\ Spend("category")
  /\ clock' = Tick
  /\ cats' = [cats EXCEPT ![c] = 0]
  /\ rows' = [r \in Servers |-> IF rows[r].cat = c
                THEN [rows[r] EXCEPT !.mark = Tick, !.cat = NoCat]
                ELSE rows[r]]
  /\ UNCHANGED <<saving, base, late, astray, provider, syncRun>>

-----------------------------------------------------------------------------
(* What the user does in Bitwarden.  Every change moves the revision.      *)
InBitwarden ==
  /\ Can("remote", MaxRemote) /\ Spend("remote")
  /\ clock' = Tick
  /\ UNCHANGED <<local, syncRun>>

Becomes(i, item) ==
  items' = [items EXCEPT ![i] = [item EXCEPT !.revision = Tick]]
Stays == ours' = ours
(* Out of the sync's sight: what it creates next is no second copy.        *)
Leaves(i) == ours' = ours \ {i}

ItemEdited(i) ==
  /\ items[i].state = "live"
  /\ InBitwarden /\ Becomes(i, [items[i] EXCEPT !.data = Tick]) /\ Stays

ItemTrashed(i) ==
  /\ items[i].state = "live"
  /\ InBitwarden
  /\ Becomes(i, [items[i] EXCEPT !.state = "trash"]) /\ Leaves(i)

ItemRestored(i) ==
  /\ items[i].state = "trash"
  /\ InBitwarden /\ Becomes(i, [items[i] EXCEPT !.state = "live"]) /\ Stays

ItemGivenAway(i) ==
  /\ items[i].state = "live"
  /\ InBitwarden
  /\ Becomes(i, [items[i] EXCEPT !.state = "org"]) /\ Leaves(i)

ItemMoved(i) ==
  /\ items[i].state = "live" /\ items[i].folder
  /\ InBitwarden
  /\ Becomes(i, [items[i] EXCEPT !.folder = FALSE]) /\ Leaves(i)

(* A clone copies the notes, and so the server they name.                  *)
ItemCloned(i, j) ==
  /\ items[i].state = "live" /\ NewItem(j)
  /\ InBitwarden
  /\ Becomes(j, [items[i] EXCEPT !.created = Tick]) /\ Stays

ItemAdded(i) ==
  /\ NewItem(i)
  /\ InBitwarden
  /\ Becomes(i, [Unused EXCEPT !.state = "live", !.folder = TRUE,
                               !.data = Tick, !.created = Tick])
  /\ Stays

-----------------------------------------------------------------------------
(* What a run makes of the snapshots it holds.                             *)
Live == {i \in Items : run.served[i].state \in {"live", "org"}}
Personal == {i \in Items : run.served[i].state = "live"}
Logins == {i \in Personal : run.served[i].folder}

(* linked_item                                                             *)
Linked(r) ==
  LET link == run.listed[r].link
  IN  IF link = NoItem THEN "Unlinked"
      ELSE IF link \notin Live THEN "Gone"
      ELSE IF link \in Personal THEN "Personal" ELSE "OrgOwned"

(* Fault: a server whose link was lost is not looked for in the notes.     *)
OwnItemsByLink(r) == {i \in Logins : i = run.listed[r].link}

(* own_item_candidates: the items that name it, but those another server   *)
(* is linked to.                                                           *)
OwnItems(r) ==
  {i \in Logins : /\ run.served[i].names = r
                  /\ \A o \in Servers \ {r} : run.listed[o].link # i}

Unowned(r) == Linked(r) \in {"Unlinked", "Gone"}
Ambiguous(r) == Unowned(r) /\ Cardinality(OwnItems(r)) > 1
LinkOf(r) == run.listed[r].link

(* The item the row is compared with: its link's, else its own item.       *)
Counterparts(r) ==
  CASE Linked(r) = "Personal" -> {LinkOf(r)}
    [] Linked(r) = "OrgOwned" -> {}
    [] OTHER -> OwnItems(r)

(* Fault: a category change counts as an edit of the row.                  *)
ComparedAsEdited(row, mark, i, item) ==
  LET here == row.updated > row.synced \/ mark # 0
      there == item.revision > row.revision
  IN  CASE row.link # i -> "Link"
        [] row.link = i /\ here -> "Update"
        [] row.link = i /\ ~here /\ there -> "SkipRemoteChange"
        [] OTHER -> "InSync"

(* plan_matched: what row and item, compared with their marks, call for.   *)
Compared(row, mark, i, item) ==
  LET here == row.updated > row.synced
      there == item.revision > row.revision
  IN  CASE row.link # i -> "Link"
        [] row.link = i /\ here -> "Update"
        [] row.link = i /\ ~here /\ there -> "SkipRemoteChange"
        [] row.link = i /\ ~here /\ ~there /\ mark # 0 -> "Update"
        [] OTHER -> "InSync"

Planned(r, i, plan) ==
  /\ ~Ambiguous(r) /\ i \in Counterparts(r)
  /\ Compared(run.listed[r], run.marks[r], i, run.served[i]) = plan

(* plan_row without a live copy                                            *)
PlannedCreate(r) == Unowned(r) /\ OwnItems(r) = {}

(* server_notes: the category the row was listed in, with the path it has  *)
(* now - none when it is gone.                                             *)
Upload(r, item) ==
  LET c == run.listed[r].cat
  IN  [item EXCEPT !.data = run.listed[r].data, !.names = r,
                   !.cat = IF PathOf(c) = 0 THEN NoCat ELSE c,
                   !.path = PathOf(c), !.revision = Tick]

(* server_changes                                                          *)
Changes(r, item) ==
  (IF item.data # run.listed[r].data THEN {"data"} ELSE {})
  \cup (IF /\ run.marks[r] = 0 /\ item.path # 0
           /\ Meant(item, run.index) # {run.listed[r].cat}
          THEN {"category"} ELSE {})

-----------------------------------------------------------------------------
(* run_sync, server_pass, settle_remote_changes                            *)

Fetch(approve) ==
  /\ clock' = clock
  /\ run' = [NoRun EXCEPT !.approve = approve, !.served = items]
  /\ pc' = "list" /\ pending' = {}
  /\ UNCHANGED <<local, provider, spent, answer, pulling>>

(* The renderer runs one sync at a time.  A plain run asks for nothing; a  *)
(* list the user approved comes back as the token it was issued with.      *)
StartAsking == pc = "idle" /\ Fetch({})
Approve == pc = "asked" /\ Fetch(pending)
Decline ==
  /\ pc = "asked"
  /\ pc' = "idle" /\ run' = NoRun /\ pending' = {}
  /\ UNCHANGED <<local, provider, clock, spent, answer, pulling>>

ListServers ==
  /\ pc = "list" /\ pc' = "marks"
  /\ run' = [run EXCEPT !.listed = rows,
                        !.todo = {r \in Servers : rows[r].stored}]
  /\ UNCHANGED <<local, provider, clock, spent, pending, answer, pulling>>

CategoryMarks ==
  /\ pc = "marks" /\ pc' = "index"
  /\ run' = [run EXCEPT !.marks = [r \in Servers |-> rows[r].mark]]
  /\ UNCHANGED <<local, provider, clock, spent, pending, answer, pulling>>

LoadIndex ==
  /\ pc = "index" /\ pc' = "rows"
  /\ run' = [run EXCEPT !.index = cats]
  /\ UNCHANGED <<local, provider, clock, spent, pending, answer, pulling>>

Turn(r) == pc = "rows" /\ answer = {} /\ r \in run.todo
(* matched: what the row is linked to or was found to be is not new.       *)
Done(r, found) ==
  run' = [run EXCEPT !.todo = @ \ {r},
            !.matched = @ \cup found
                          \cup (IF Linked(r) = "Personal"
                                  THEN {LinkOf(r)} ELSE {})]

LeaveAmbiguous(r) ==
  /\ Turn(r) /\ Ambiguous(r)
  /\ run' = [run EXCEPT !.todo = @ \ {r}, !.ambiguous = @ \cup {r}]
  /\ UNCHANGED <<local, provider, clock, spent, pc, pending, answer, pulling>>

LeaveAlone(r) ==
  /\ Turn(r)
  /\ \/ Linked(r) = "OrgOwned"
     \/ \E i \in Items : Planned(r, i, "InSync")
  /\ Done(r, {})
  /\ UNCHANGED <<local, provider, clock, spent, pc, pending, answer, pulling>>

(* push_local_server: the provider has it, the answer is under way.        *)
Send(r, i, item) ==
  /\ clock' = Tick
  /\ items' = [items EXCEPT ![i] = Upload(r, item)]
  /\ answer' = {[row |-> r, item |-> i, revision |-> Tick]}
  /\ UNCHANGED <<local, spent, pc, pending, pulling>>

Create(r, i) ==
  /\ Turn(r) /\ PlannedCreate(r)
  /\ NewItem(i)
  /\ Done(r, {})
  /\ Send(r, i, [Unused EXCEPT !.state = "live", !.folder = TRUE,
                               !.created = Tick])
  /\ ours' = ours \cup {i}

(* The folder of the snapshot goes along, so a move since is undone.       *)
Update(r, i) ==
  /\ Turn(r) /\ Planned(r, i, "Update")
  /\ items[i].state = "live"
  /\ Done(r, {i})
  /\ Send(r, i, [items[i] EXCEPT !.folder = run.served[i].folder])
  /\ ours' = ours

(* A record that does not unseal, a request that fails or is refused.      *)
UploadFails(r) ==
  /\ Turn(r)
  /\ \/ PlannedCreate(r) /\ Done(r, {})
     \/ \E i \in Items : Planned(r, i, "Update") /\ Done(r, {i})
  /\ UNCHANGED <<local, provider, clock, spent, pc, pending, answer, pulling>>

(* Fault: what is in the row by then counts as uploaded.                   *)
RecordedAsNow(row, a) ==
  [row EXCEPT !.link = a.item, !.revision = a.revision,
              !.synced = row.updated,
              !.mark = IF @ <= run.marks[a.row] THEN 0 ELSE @]

(* record_pushed_server, category_uploaded; an answer without a date, which *)
(* leaves the row without a revision, is not modelled.                     *)
Recorded(row, a) ==
  [row EXCEPT !.link = a.item, !.revision = a.revision,
              !.synced = run.listed[a.row].updated,
              !.mark = IF @ <= run.marks[a.row] THEN 0 ELSE @]

Record ==
  /\ \E a \in answer :
       IF rows[a.row].stored
         THEN /\ rows' = [rows EXCEPT ![a.row] = Recorded(@, a)]
              /\ base' = [base EXCEPT ![a.row] = run.listed[a.row].data]
              /\ astray' = astray \ {a.row}
         ELSE UNCHANGED <<rows, base, astray>>
  /\ answer' = {}
  /\ UNCHANGED <<cats, saving, late, provider, clock, spent, pc, run, pending,
                 pulling>>

AnswerLost ==
  /\ answer # {}
  /\ Can("fault", MaxFaults) /\ Spend("fault")
  /\ answer' = {}
  /\ UNCHANGED <<local, provider, clock, pc, run, pending, pulling>>

(* The row may have been edited since the upload whose link was lost: no   *)
(* marker, so the next run takes it as changed.                            *)
Link(r, i) ==
  /\ Turn(r) /\ Planned(r, i, "Link")
  /\ Done(r, {i})
  /\ rows' = IF rows[r].stored
       THEN [rows EXCEPT ![r].link = i, ![r].synced = 0,
                         ![r].revision = run.served[i].revision]
       ELSE rows
  /\ UNCHANGED <<cats, saving, base, late, astray, provider, clock, spent, pc,
                 pending, answer, pulling>>

ListChange(r, i) ==
  /\ Turn(r) /\ Planned(r, i, "SkipRemoteChange")
  /\ Done(r, {i})
  /\ pending' = pending \cup
       {[row |-> r, item |-> i, served |-> run.served[i],
         changes |-> Changes(r, run.served[i])]}
  /\ UNCHANGED <<local, provider, clock, spent, pc, answer, pulling>>

-----------------------------------------------------------------------------
(* The item that is the server's own, for the copies that name it too.     *)
Reference(n) == IF Linked(n) = "Personal" THEN {LinkOf(n)}
                ELSE IF Unowned(n) /\ Cardinality(OwnItems(n)) = 1
                     THEN OwnItems(n) ELSE {}

(* classify_named_item: created after the server's own item.               *)
Clone(i, n) ==
  \E own \in Reference(n) :
    own # i /\ run.served[i].created > run.served[own].created

IsNew(i) ==
  LET n == run.served[i].names
      named == n # NoServer /\ run.listed[n].stored
  IN  named => n \notin run.ambiguous /\ Clone(i, n)

NewItems ==
  {[row |-> NoServer, item |-> i, served |-> run.served[i],
    changes |-> {}] : i \in {j \in Logins \ run.matched : IsNew(j)}}

(* Fault: an approval counts for whatever is found.                        *)
ApprovedAnything(found) == found # {} /\ run.approve # {}

(* The token covers every change, with the item as it was served, and the  *)
(* row by its name, host and port; here by its id, which tells apart two   *)
(* rows that show the same.                                                *)
Approved(found) == found # {} /\ run.approve = found

Settle ==
  LET found == pending \cup NewItems
  IN  /\ pc = "rows" /\ answer = {} /\ run.todo = {}
      /\ IF Approved(found)
           THEN pc' = "apply" /\ pending' = found /\ run' = run
           ELSE /\ pc' = IF found = {} THEN "idle" ELSE "asked"
                /\ pending' = found /\ run' = NoRun
      /\ UNCHANGED <<local, provider, clock, spent, answer, pulling>>

(* parse_server_notes: the category the item means, made from its path     *)
(* when there is none.                                                     *)
FiledAs(item, c) ==
  /\ IF Meant(item, cats) # {} THEN c \in Meant(item, cats)
                              ELSE c \in Cats /\ cats[c] = 0
  /\ cats' = IF Meant(item, cats) # {} THEN cats
             ELSE [cats EXCEPT ![c] = item.path]

(* Where the item says nothing, or a category change of the row is still   *)
(* to be uploaded, the pull writes back the category as it was listed.     *)
Refiled(change, c) ==
  IF change.served.path = 0
     \/ (change.row # NoServer /\ rows[change.row].mark # 0)
    THEN /\ c = IF change.row = NoServer THEN NoCat
                 ELSE run.listed[change.row].cat
         /\ cats' = cats
    ELSE FiledAs(change.served, c)

(* apply_pull: the category is settled first, then the pull seals, then it *)
(* writes. That the category's path can always be made is assumed.         *)
PullStart(change, c) ==
  /\ pc = "apply" /\ pulling = {} /\ change \in pending
  /\ Refiled(change, c)
  /\ pulling' = {[change |-> change, cat |-> c,
                  path |-> IF c = NoCat THEN 0 ELSE cats'[c]]}
  /\ UNCHANGED <<rows, saving, base, late, astray, provider, clock, spent, pc,
                 run, pending, answer>>

PulledRow(row, p) ==
  [row EXCEPT !.data = p.change.served.data, !.cat = p.cat,
              !.updated = Tick, !.synced = Tick,
              !.revision = p.change.served.revision]

EndPull(p) ==
  /\ pulling' = {} /\ pending' = pending \ {p.change}
  /\ IF pending = {p.change} THEN pc' = "idle" /\ run' = NoRun
                             ELSE UNCHANGED <<pc, run>>
  /\ UNCHANGED <<cats, items, spent, saving, answer>>

Pulls(p, r, row) ==
  /\ clock' = Tick
  /\ rows' = [rows EXCEPT ![r] = PulledRow(row, p)]
  /\ base' = [base EXCEPT ![r] = p.change.served.data]
  /\ late' = late \ {r}
  /\ astray' = IF PathOf(p.cat) # p.path THEN astray \cup {r}
                                         ELSE astray \ {r}

(* Fault: the pull writes over whatever the row holds by then.             *)
StillThere(r) == rows[r].stored

(* apply_pulled_server: only while the row is the one the sync read.       *)
StillTheOne(r) ==
  rows[r].stored /\ rows[r].updated = run.listed[r].updated

PullServer ==
  \E p \in pulling :
    LET r == p.change.row
    IN  /\ r # NoServer
        /\ IF StillTheOne(r) THEN Pulls(p, r, rows[r])
           ELSE UNCHANGED <<clock, rows, base, late, astray>>
        /\ EndPull(p) /\ ours' = ours

(* An id that was never given.                                             *)
Fresh(r) ==
  /\ ~rows[r].stored /\ ~run.listed[r].stored /\ saving[r] = NoSave
  /\ \A i \in Items : items[i].names # r

(* pull_new_server: a row of its own; the item is its item from now on.    *)
PullNewServer(r) ==
  \E p \in pulling :
    /\ p.change.row = NoServer /\ Fresh(r)
    /\ Pulls(p, r, [NoRow EXCEPT !.stored = TRUE, !.link = p.change.item])
    /\ EndPull(p) /\ ours' = ours \ {p.change.item}

(* A field that does not decrypt, a seal that fails.                       *)
PullFails ==
  \E p \in pulling :
    EndPull(p) /\ UNCHANGED <<rows, ours, clock, base, late, astray>>

(* Fault: the run stops with an upload under way.                          *)
AbortAtOnce ==
  /\ pc \in {"list", "marks", "index", "rows", "apply"}
  /\ pc' = "idle" /\ run' = NoRun /\ pending' = {}
  /\ UNCHANGED <<local, provider, clock, spent, answer, pulling>>

(* The vault was locked: noticed before the next row, item or pull.        *)
Abort ==
  /\ pc \in {"list", "marks", "index", "rows", "apply"}
  /\ answer = {} /\ pulling = {}
  /\ pc' = "idle" /\ run' = NoRun /\ pending' = {}
  /\ UNCHANGED <<local, provider, clock, spent, answer, pulling>>

(* The program ends, and is started again: a server filed in a category    *)
(* that is gone is filed in none.                                          *)
Crash ==
  /\ Can("fault", MaxFaults) /\ Spend("fault")
  /\ rows' = [r \in Servers |-> IF Filed(r) THEN rows[r]
                ELSE [rows[r] EXCEPT !.cat = NoCat]]
  /\ saving' = [r \in Servers |-> NoSave]
  /\ pc' = "idle" /\ run' = NoRun
  /\ pending' = {} /\ answer' = {} /\ pulling' = {}
  /\ UNCHANGED <<cats, base, late, astray, provider, clock>>

-----------------------------------------------------------------------------
Here ==
  \/ \E r \in Servers : SaveWrite(r) \/ ServerDelete(r)
  \/ \E r \in Servers, c \in Cats \cup {NoCat} : SaveStart(r, c)
  \/ \E c \in Cats : RenameCategory(c) \/ DeleteCategory(c)
There ==
  \/ \E i \in Items : \/ ItemEdited(i) \/ ItemTrashed(i) \/ ItemRestored(i)
                      \/ ItemGivenAway(i) \/ ItemMoved(i) \/ ItemAdded(i)
  \/ \E i, j \in Items : ItemCloned(i, j)
Pass ==
  \/ ListServers \/ CategoryMarks \/ LoadIndex \/ Settle
  \/ \E r \in Servers : LeaveAmbiguous(r) \/ LeaveAlone(r) \/ UploadFails(r)
  \/ \E r \in Servers, i \in Items :
       Create(r, i) \/ Update(r, i) \/ Link(r, i) \/ ListChange(r, i)
  \/ Record \/ AnswerLost
Applying ==
  \/ \E change \in pending, c \in Cats \cup {NoCat} : PullStart(change, c)
  \/ PullServer \/ (\E r \in Servers : PullNewServer(r)) \/ PullFails
Next ==
  \/ Here \/ There \/ Pass \/ Applying
  \/ StartAsking \/ Approve \/ Decline \/ Abort \/ Crash
Spec == Init /\ [][Next]_vars

-----------------------------------------------------------------------------
(* Properties.                                                             *)

Answer == [row : Servers, item : Items, revision : Nat]
Pull == [change : Change, cat : Cats \cup {NoCat}, path : Nat]

\* The shape of the state, and that an upload or a pull under way belongs to
\* the run that began it.
TypeOK ==
  /\ rows \in [Servers -> Row] /\ cats \in [Cats -> Nat]
  /\ saving \in [Servers -> Saving] /\ items \in [Items -> Item]
  /\ ours \subseteq Items
  /\ clock \in Nat
  /\ spent \in [save : Nat, remote : Nat, category : Nat, fault : Nat]
  /\ base \in [Servers -> Nat] /\ late \subseteq Servers
  /\ astray \subseteq Servers
  /\ pc \in {"idle", "list", "marks", "index", "rows", "apply", "asked"}
  /\ run \in Run
  /\ pending \subseteq Change
  /\ answer \subseteq Answer /\ pulling \subseteq Pull
  /\ answer # {} => pc = "rows" /\ Cardinality(answer) = 1
  /\ pulling # {} => pc = "apply" /\ Cardinality(pulling) = 1

\* A server is never uploaded twice: of the items the sync created, and nobody
\* has imported or taken out of its sight since, no two are one server's -
\* whatever answers are lost, and wherever the program ends (own_item_of).
OneItemEach ==
  \A i, j \in ours : items[i].names = items[j].names => i = j

Pulled(r) == /\ rows'[r].stored /\ rows'[r].data # rows[r].data
             /\ saving' = saving

\* A pull replaces only what the provider has had: an edit made here before or
\* during the run, also while its upload or the pull's own seal runs, is never
\* overwritten.  Except in a row whose last save carried a stamp older than
\* the row's (record_pushed_server, apply_pulled_server, store_server).
EditsSurvive ==
  [][\A r \in Servers : Pulled(r) /\ rows[r].stored /\ r \notin late
       => rows[r].data = base[r]]_vars

\* What comes into a row from the provider is in the list the user approved,
\* for that row and as the item was served then (approval_token).
AsApproved ==
  [][\A r \in Servers : Pulled(r) =>
       \E c \in run.approve :
         /\ c.row = IF rows[r].stored THEN r ELSE NoServer
         /\ c.item = rows'[r].link /\ c.served.data = rows'[r].data]_vars

InSync(r) ==
  /\ rows[r].stored /\ rows[r].link # NoItem
  /\ items[rows[r].link].state = "live"
  /\ Compared(rows[r], rows[r].mark, rows[r].link, items[rows[r].link])
       = "InSync"

SameCategory(r, item) ==
  item.path # 0 => item.cat = rows[r].cat \/ item.path = PathOf(rows[r].cat)

\* A row the next run would leave alone holds what its item holds: no edit of
\* either side, and no category change, is forgotten while a run is under way
\* or fails half-way.  Except as in EditsSurvive, and for the category of a
\* row pulled into one that was changed while the pull sealed (plan_matched
\* and every writer of the marks it compares).
InSyncIsEqual ==
  \A r \in Servers \ late : InSync(r) =>
    LET item == items[rows[r].link]
    IN  rows[r].data = item.data /\ (r \notin astray => SameCategory(r, item))

(* Of an upload that only carries a category, as the item was served.     *)
LosesNothing(a) ==
  LET i == a.item
      row == run.listed[a.row]
  IN  /\ items[i].state = "live" /\ items[i] = run.served[i]
      /\ row.updated <= row.synced
      => items[i].data = base[a.row]

\* An upload that only carries a new category path replaces nothing at the
\* provider that has not been here, unless the item changed after the run had
\* fetched it: a password changed there is not lost to a category renamed
\* here (plan_matched).
CategoryGoesUpAlone == [][\A a \in answer' \ answer : LosesNothing(a)]_vars

\* Every server is filed in a category that exists, or in none
\* (delete_category).
FiledSomewhere == \A r \in Servers : rows[r].stored => Filed(r)

=============================================================================
