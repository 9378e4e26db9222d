----------------------------- MODULE LabAssets -----------------------------
(***************************************************************************)
(* The devices of the laboratory, the platforms they are mounted on, the   *)
(* requests of members to use them, the inventory, and the console through *)
(* which all of it is changed.  Every change but the inventory's runs in   *)
(* one transaction that starts by raising the module's revision from the   *)
(* value the caller expects, so such a transaction is one action, taken    *)
(* when the server takes the call; a call that finds another revision, or  *)
(* fails otherwise, changes nothing and is no action.  A console is        *)
(* several steps: it shows a snapshot, opens drawers and editors on it,    *)
(* makes a call, and reloads when the call has returned; the steps of      *)
(* other consoles fall between.                                            *)
(***************************************************************************)
EXTENDS Integers, Sequences, FiniteSets

CONSTANTS Assets,       \* device codes
          Platforms,    \* platform codes
          Members,      \* accounts, one open console each
          Managers,     \* accounts holding lab_assets.write
          Conditions,   \* the conditions of a device that are explored
          None,         \* the NULL of a reference
          MaxRevision,  \* bound: the revisions explored
          MaxRequests   \* bound: the usage requests explored

ASSUME ManagersAreMembers == Managers \subseteq Members
ASSUME ConditionsAreKnown ==
    {"normal"} \subseteq Conditions /\ Conditions \subseteq {"normal", "maintenance", "retired"}
ASSUME NoneIsNull == None \notin Platforms /\ None \notin Members
ASSUME BoundsAreNaturals == MaxRevision \in Nat /\ MaxRequests \in Nat

VARIABLES asset,      \* code -> its row of lab_assets
          requests,   \* the rows of lab_asset_usage_requests, oldest first
          platforms,  \* the codes of the rows of lab_platforms
          catalog,    \* types, slots, texts and notes, as one value
          revision,   \* site_content_revisions.revision of 'lab-assets'
          inventory,  \* one inventory batch and its items
          snapshot,   \* member -> what the console shows
          drawer,     \* member -> the device whose drawer is open
          editor,     \* member -> the dialog that is open
          parked,     \* member -> the editor behind the dialog of a new type
          call        \* member -> the accepted call whose answer is under way

content == <<asset, requests, platforms, catalog>>
screens == <<snapshot, drawer, editor, parked>>
vars == <<content, revision, inventory, screens, call>>

----------------------------------------------------------------------------
(* Values *)

Rows == [status : {"absent", "idle", "in_use", "mounted", "lend"},
         condition : Conditions,
         platform : Platforms \cup {None},
         user : Members \cup {None}]
Absent == [status |-> "absent", condition |-> "normal",
           platform |-> None, user |-> None]
Blank == [Absent EXCEPT !.status = "idle"]
Exists(a) == asset[a].status # "absent"

Requests == [asset : Assets, requester : Members,
             status : {"pending", "approved", "rejected", "deleted"}]

\* assetDisplayState: the condition comes before the allocation.
Display(row) ==
    IF row.condition # "normal" THEN row.condition ELSE row.status

\* lab_assets_allocation_fields_check; a row stands for a borrower by "lend".
RowAllowed(row) == (row.status = "in_use") <=> (row.user # None)

NoDrawer == [asset |-> None, row |-> Absent]
NoEditor == [kind |-> "none", asset |-> None, base |-> Absent]
NoCall == [op |-> "none", back |-> NoEditor]

Content == [asset |-> asset, requests |-> requests,
            platforms |-> platforms, catalog |-> catalog]

Init ==
    /\ asset \in [Assets -> {Absent, Blank}]
    /\ requests = <<>>
    /\ platforms = Platforms
    /\ catalog = 0
    /\ revision = 1
    /\ inventory = [status |-> "none", items |-> {}, scanned |-> {}]
    /\ snapshot = [m \in Members |-> [version |-> 0, content |-> Content]]
    /\ drawer = [m \in Members |-> NoDrawer]
    /\ editor = [m \in Members |-> NoEditor]
    /\ parked = [m \in Members |-> NoEditor]
    /\ call = [m \in Members |-> NoCall]

----------------------------------------------------------------------------
(* The console: reading, drawers and editors *)

Loaded(m) == snapshot[m].version > 0
Shown(m) == snapshot[m].content
NoModal(m) == drawer[m] = NoDrawer /\ editor[m] = NoEditor

\* Mutant: the reload takes the new revision and keeps the rows on screen.
KeepRows(m) ==
    snapshot' = [snapshot EXCEPT ![m].version = revision]

\* getSnapshot reads rows and revision in one REPEATABLE READ transaction.
Snapshot(m) ==
    snapshot' = [snapshot EXCEPT ![m] = [version |-> revision, content |-> Content]]

\* load: the page is opened, or opened again, or read again by the button a
\* conflict offers; none of these leaves a dialog open.
Load(m) ==
    /\ call[m] = NoCall
    /\ Snapshot(m)
    /\ drawer' = [drawer EXCEPT ![m] = NoDrawer]
    /\ editor' = [editor EXCEPT ![m] = NoEditor]
    /\ parked' = [parked EXCEPT ![m] = NoEditor]
    /\ UNCHANGED <<content, revision, inventory, call>>

\* The drawer keeps its own copy of the row; a reload does not change it.
OpenDrawer(m, a) ==
    /\ Loaded(m) /\ NoModal(m)
    /\ Shown(m).asset[a].status # "absent"
    /\ drawer' = [drawer EXCEPT ![m] = [asset |-> a, row |-> Shown(m).asset[a]]]
    /\ UNCHANGED <<content, revision, inventory, snapshot, editor, parked, call>>

CloseDrawer(m) ==
    /\ drawer[m] # NoDrawer
    /\ drawer' = [drawer EXCEPT ![m] = NoDrawer]
    /\ UNCHANGED <<content, revision, inventory, snapshot, editor, parked, call>>

\* The editor starts from the drawer's row.  No button of this path waits
\* for a call that is under way.
EditAsset(m) ==
    /\ m \in Managers
    /\ drawer[m] # NoDrawer
    /\ editor' = [editor EXCEPT ![m] = [kind |-> "asset", asset |-> drawer[m].asset,
                                        base |-> drawer[m].row]]
    /\ drawer' = [drawer EXCEPT ![m] = NoDrawer]
    /\ UNCHANGED <<content, revision, inventory, snapshot, parked, call>>

NewAsset(m) ==
    /\ m \in Managers /\ Loaded(m) /\ NoModal(m)
    /\ editor' = [editor EXCEPT ![m] = [kind |-> "new", asset |-> None, base |-> Blank]]
    /\ UNCHANGED <<content, revision, inventory, snapshot, drawer, parked, call>>

\* "New device type" inside an editor puts the editor aside.
NewType(m) ==
    /\ m \in Managers /\ Loaded(m) /\ drawer[m] = NoDrawer
    /\ editor[m].kind # "type"
    /\ parked' = [parked EXCEPT ![m] = editor[m]]
    /\ editor' = [editor EXCEPT ![m] = [NoEditor EXCEPT !.kind = "type"]]
    /\ UNCHANGED <<content, revision, inventory, snapshot, drawer, call>>

CancelEditor(m) ==
    /\ editor[m] # NoEditor
    /\ editor' = [editor EXCEPT ![m] = parked[m]]
    /\ parked' = [parked EXCEPT ![m] = NoEditor]
    /\ UNCHANGED <<content, revision, inventory, snapshot, drawer, call>>

----------------------------------------------------------------------------
(* The console: the calls it can send as it stands *)

\* The choice of an allocation is disabled while the device is mounted.
FormRows(base) ==
    IF base.platform # None
    THEN {[base EXCEPT !.condition = k] : k \in Conditions}
    ELSE {[status |-> s, condition |-> k, platform |-> None, user |-> u] :
              s \in {"idle", "in_use", "lend"}, k \in Conditions,
              u \in Members \cup {None}}

\* validateAssetState, and the fields saveEditor blanks out.
FormValid(row) == /\ (row.status = "in_use") <=> (row.user # None)
                  /\ row.status = "mounted" => row.platform # None

\* The form of a device, opened on a row or on a blank one.
AssetEditorCalls(m) ==
    IF editor[m].kind = "asset"
    THEN {[op |-> "update", asset |-> editor[m].asset, row |-> r] :
             r \in {f \in FormRows(editor[m].base) : FormValid(f)}}
    ELSE {[op |-> "create", asset |-> a, row |-> r] :
             a \in Assets, r \in {f \in FormRows(Blank) : FormValid(f)}}

\* The form of a type of devices or platforms.
TypeEditorCalls(m) == {[op |-> "type", back |-> parked[m]]}

EditorCalls(m) ==
    CASE editor[m].kind \in {"asset", "new"} -> AssetEditorCalls(m)
      [] editor[m].kind = "type" -> TypeEditorCalls(m)
      [] OTHER -> {}

\* The request button is disabled for the holder the drawer shows.
DrawerCalls(m) ==
    IF drawer[m] = NoDrawer THEN {}
    ELSE {[op |-> "request", asset |-> a] :
             a \in {b \in {drawer[m].asset} : drawer[m].row.user # m}}

Blocked(row) == Display(row) \in {"in_use", "lend"} \/ row.condition = "retired"

\* The panel adds free devices, transfers those of another platform, and
\* changes the role of its own or takes them off.
PanelCalls(m) ==
    UNION {LET row == Shown(m).asset[a]
               elsewhere == {p \in Shown(m).platforms : p # row.platform}
               panel(op, ps) == {[op |-> op, asset |-> a, platform |-> p] : p \in ps}
           IN  CASE row.status = "absent" -> {}
                 [] Blocked(row) /\ row.platform = None -> {}
                 [] row.platform = None -> panel("add", elsewhere)
                 [] OTHER -> panel("remove", {row.platform}) \cup panel("role", {row.platform})
                               \cup panel("transfer", IF Blocked(row) THEN {} ELSE elsewhere)
           : a \in Assets}

ReviewCalls(m) ==
    {[op |-> "review", request |-> i, approve |-> ok] :
        i \in {j \in DOMAIN Shown(m).requests : Shown(m).requests[j].status = "pending"},
        ok \in BOOLEAN}

Listed(m) == {a \in Assets : Shown(m).asset[a].status # "absent"}

\* The bar over a selection: a condition, or a type or location.
BatchCalls(m) ==
    {[op |-> "batch", assets |-> s, condition |-> k] :
        s \in (SUBSET Listed(m)) \ {{}}, k \in Conditions}
      \cup {[op |-> "batch_text", assets |-> s] : s \in (SUBSET Listed(m)) \ {{}}}

\* The import of a file.  It is offered only for rows that a check against the
\* server found free of errors.
ImportCalls(m) ==
    {[op |-> "import", assets |-> s, platform |-> p] :
        s \in (SUBSET (Assets \ Listed(m))) \ {{}},
        p \in Shown(m).platforms \cup {None}}

\* The form of a platform, new or with fields of its own that are changed.
PlatformCalls(m) ==
    {[op |-> "create_platform", platform |-> p] : p \in Platforms \ Shown(m).platforms}
      \cup {[op |-> "text"]}

\* What the confirmation of a deletion sends.
DeletionCalls(m) ==
    {[op |-> "delete", asset |-> a] : a \in Listed(m)}
      \cup {[op |-> "delete_platform", platform |-> p] : p \in Shown(m).platforms}

WorkbenchCalls(m) ==
    BatchCalls(m) \cup ImportCalls(m) \cup PlatformCalls(m) \cup DeletionCalls(m)

Offers(m) ==
    IF ~NoModal(m)
    THEN EditorCalls(m) \cup DrawerCalls(m)
    ELSE IF m \notin Managers THEN {}
    ELSE PanelCalls(m) \cup ReviewCalls(m) \cup WorkbenchCalls(m)

----------------------------------------------------------------------------
(* The server: one action per method, each one transaction *)

KeepsEditor == {"add", "transfer", "role", "remove", "text", "batch", "batch_text", "import"}

\* What the console does when the answer comes: mutate closes the editor it
\* finds, the panels and the workbench leave it, and a new type brings back
\* the editor it was opened from.
Pending(q) == [op   |-> CASE q.op = "type" -> "return"
                          [] q.op \in KeepsEditor -> "keep"
                          [] OTHER -> "close",
               back |-> IF q.op = "type" THEN q.back ELSE NoEditor]

\* Mutant: the revision is raised without being compared.
ClaimAny(m, q) ==
    /\ Loaded(m) /\ call[m] = NoCall /\ revision < MaxRevision
    /\ revision' = revision + 1
    /\ call' = [call EXCEPT ![m] = Pending(q)]
    /\ UNCHANGED <<inventory, screens>>

\* A call carries the revision on screen, and claimRevision compares it:
\* UPDATE ... SET revision = revision + 1 WHERE revision = $1.
Claim(m, q) ==
    /\ Loaded(m) /\ call[m] = NoCall /\ revision < MaxRevision
    /\ snapshot[m].version = revision
    /\ revision' = revision + 1
    /\ call' = [call EXCEPT ![m] = Pending(q)]
    /\ UNCHANGED <<inventory, screens>>

Asked(m, q, op) == q.op = op /\ Claim(m, q)

\* Mutant: the status is stored as it was sent.
WrittenAsSent(row) == [row EXCEPT !.user = IF row.status = "in_use" THEN row.user ELSE None]

\* writeAsset: the status follows from who or what holds the device.
Written(row) ==
    LET user == IF row.status = "in_use" THEN row.user ELSE None
    IN  [status    |-> IF user # None THEN "in_use"
                       ELSE IF row.status = "lend" THEN "lend"
                       ELSE IF row.platform # None THEN "mounted" ELSE "idle",
         condition |-> row.condition,
         platform  |-> row.platform,
         user      |-> user]

\* findId of the platform, and the schema of the row.
Writable(row) == row \in Rows /\ row.platform \in platforms \cup {None}

UpdateAsset(m, q) ==
    /\ Asked(m, q, "update")
    /\ Exists(q.asset) /\ Writable(q.row)
    /\ asset' = [asset EXCEPT ![q.asset] = Written(q.row)]
    /\ UNCHANGED <<requests, platforms, catalog>>

CreateAsset(m, q) ==
    /\ Asked(m, q, "create")
    /\ ~Exists(q.asset) /\ Writable(q.row)
    /\ asset' = [asset EXCEPT ![q.asset] = Written(q.row)]
    /\ UNCHANGED <<requests, platforms, catalog>>

\* commitAssetImport validates every row again and writes all or none.
ImportAssets(m, q) ==
    /\ Asked(m, q, "import")
    /\ \A a \in q.assets : ~Exists(a)
    /\ q.platform \in platforms \cup {None}
    /\ LET row == [Blank EXCEPT !.platform = q.platform]
       IN  asset' = [a \in Assets |-> IF a \in q.assets THEN Written(row)
                                      ELSE asset[a]]
    /\ UNCHANGED <<requests, platforms, catalog>>

\* The foreign key of the inventory items holds a device, that of the usage
\* requests cascades.
DeleteAsset(m, q) ==
    /\ Asked(m, q, "delete")
    /\ Exists(q.asset)
    /\ q.asset \notin inventory.items
    /\ asset' = [asset EXCEPT ![q.asset] = Absent]
    /\ requests' = [i \in DOMAIN requests |->
                       IF requests[i].asset = q.asset
                       THEN [requests[i] EXCEPT !.status = "deleted"] ELSE requests[i]]
    /\ UNCHANGED <<platforms, catalog>>

\* set_status writes the condition only; every code must exist.
BatchCondition(m, q) ==
    /\ Asked(m, q, "batch")
    /\ \A a \in q.assets : Exists(a)
    /\ asset' = [a \in Assets |-> IF a \in q.assets
                                  THEN [asset[a] EXCEPT !.condition = q.condition]
                                  ELSE asset[a]]
    /\ UNCHANGED <<requests, platforms, catalog>>

\* set_device_type and set_location write texts of the rows.
BatchText(m, q) ==
    /\ Asked(m, q, "batch_text")
    /\ \A a \in q.assets : Exists(a)
    /\ catalog' = 1 - catalog
    /\ UNCHANGED <<asset, requests, platforms>>

\* Types, slots, definitions, the page, notes, and a platform's own fields.
EditCatalog(m, q) ==
    /\ Asked(m, q, "text") \/ Asked(m, q, "type")
    /\ catalog' = 1 - catalog
    /\ UNCHANGED <<asset, requests, platforms>>

CreatePlatform(m, q) ==
    /\ Asked(m, q, "create_platform")
    /\ q.platform \notin platforms
    /\ platforms' = platforms \cup {q.platform}
    /\ UNCHANGED <<asset, requests, catalog>>

DeletePlatform(m, q) ==
    /\ Asked(m, q, "delete_platform")
    /\ q.platform \in platforms
    /\ \A a \in Assets : asset[a].platform # q.platform
    /\ platforms' = platforms \ {q.platform}
    /\ UNCHANGED <<asset, requests, catalog>>

MountedOn(a, p) == [asset EXCEPT ![a].platform = p, ![a].status = "mounted"]

\* A device that is on the platform already is left as it is.
AddComponent(m, q) ==
    LET a == q.asset
        p == q.platform
    IN  /\ Asked(m, q, "add")
        /\ p \in platforms /\ Exists(a)
        /\ asset[a].platform # p =>
              /\ asset[a].platform = None
              /\ asset[a].status \notin {"in_use", "lend"}
              /\ asset[a].condition # "retired"
        /\ asset' = IF asset[a].platform = p THEN asset ELSE MountedOn(a, p)
        /\ UNCHANGED <<requests, platforms, catalog>>

TransferComponent(m, q) ==
    LET a == q.asset
        p == q.platform
    IN  /\ Asked(m, q, "transfer")
        /\ p \in platforms /\ Exists(a)
        /\ asset[a].platform \notin {None, p}
        /\ asset[a].status \notin {"in_use", "lend"}
        /\ asset[a].condition # "retired"
        /\ asset' = MountedOn(a, p)
        /\ UNCHANGED <<requests, platforms, catalog>>

UpdateComponent(m, q) ==
    /\ Asked(m, q, "role")
    /\ asset[q.asset].platform = q.platform
    /\ catalog' = 1 - catalog
    /\ UNCHANGED <<asset, requests, platforms>>

\* The row becomes idle whatever it was; the check of the table refuses
\* that for a device somebody holds.
RemoveComponent(m, q) ==
    LET a == q.asset
        row == [asset[a] EXCEPT !.platform = None, !.status = "idle"]
    IN  /\ Asked(m, q, "remove")
        /\ asset[a].platform = q.platform
        /\ RowAllowed(row)
        /\ asset' = [asset EXCEPT ![a] = row]
        /\ UNCHANGED <<requests, platforms, catalog>>

\* What an approval writes: the requester has the device, whoever had it.
HandedTo(a, u) ==
    [asset EXCEPT ![a] = [status |-> "in_use", condition |-> @.condition,
                          platform |-> None, user |-> u]]

\* An idle device is handed over at once; its condition is not looked at.
SubmitUsageRequest(m, q) ==
    LET a == q.asset
        own == [asset |-> a, requester |-> m, status |-> "pending"]
        idle == asset[a].status = "idle"
    IN  /\ Asked(m, q, "request")
        /\ Len(requests) < MaxRequests
        /\ Exists(a)
        /\ \A i \in DOMAIN requests : requests[i] # own
        /\ requests' = Append(requests,
                          IF idle THEN [own EXCEPT !.status = "approved"] ELSE own)
        /\ asset' = IF idle THEN HandedTo(a, m) ELSE asset
        /\ UNCHANGED <<platforms, catalog>>

\* An approval hands the device over and rejects the other requests for it.
ReviewUsageRequest(m, q) ==
    LET i == q.request
        a == requests[i].asset
        decided(j) == IF j = i
                      THEN IF q.approve THEN "approved" ELSE "rejected"
                      ELSE IF /\ q.approve
                              /\ requests[j].asset = a
                              /\ requests[j].status = "pending"
                           THEN "rejected" ELSE requests[j].status
    IN  /\ Asked(m, q, "review")
        /\ requests[i].status = "pending"
        /\ requests' = [j \in DOMAIN requests |-> [requests[j] EXCEPT !.status = decided(j)]]
        /\ asset' = IF q.approve THEN HandedTo(a, requests[i].requester) ELSE asset
        /\ UNCHANGED <<platforms, catalog>>

----------------------------------------------------------------------------
(* The answer *)

\* The answer does not arrive, and the console stays as it was.
AnswerLost(m) ==
    /\ call[m] # NoCall
    /\ call' = [call EXCEPT ![m] = NoCall]
    /\ UNCHANGED <<content, revision, inventory, screens>>

\* The answer arrives and the snapshot is read again.
Finish(m) ==
    /\ call[m] # NoCall
    /\ Snapshot(m)
    /\ editor' = [editor EXCEPT ![m] = IF call[m].op = "keep" THEN @ ELSE call[m].back]
    /\ parked' = [parked EXCEPT ![m] = IF call[m].op = "keep" THEN @ ELSE NoEditor]
    /\ call' = [call EXCEPT ![m] = NoCall]
    /\ UNCHANGED <<content, revision, inventory, drawer>>

----------------------------------------------------------------------------
(* The inventory, which no revision guards *)

\* Every device whose status is not 'retired'.
CreateInventory ==
    /\ inventory.status = "none"
    /\ inventory' = [status |-> "open", scanned |-> {},
                     items |-> {a \in Assets : asset[a].status \notin {"absent", "retired"}}]
    /\ UNCHANGED <<content, revision, screens, call>>

\* Mutant: the status of the batch is not looked at.
ScanAnyTime(a) ==
    /\ a \in inventory.items
    /\ inventory' = [inventory EXCEPT !.scanned = @ \cup {a}]
    /\ UNCHANGED <<content, revision, screens, call>>

\* The batch row is locked first, so a scan and a completion do not overlap.
ScanInventoryAsset(a) ==
    /\ inventory.status = "open"
    /\ a \in inventory.items
    /\ inventory' = [inventory EXCEPT !.scanned = @ \cup {a}]
    /\ UNCHANGED <<content, revision, screens, call>>

CompleteInventory ==
    /\ inventory.status # "none"
    /\ inventory' = [inventory EXCEPT !.status = "completed"]
    /\ UNCHANGED <<content, revision, screens, call>>

----------------------------------------------------------------------------

Console(m) ==
    \/ Load(m) \/ AnswerLost(m) \/ Finish(m)
    \/ \E a \in Assets : OpenDrawer(m, a)
    \/ CloseDrawer(m) \/ EditAsset(m) \/ NewAsset(m) \/ NewType(m) \/ CancelEditor(m)

Server(m, q) ==
    \/ UpdateAsset(m, q) \/ CreateAsset(m, q) \/ ImportAssets(m, q) \/ DeleteAsset(m, q)
    \/ BatchCondition(m, q) \/ BatchText(m, q) \/ EditCatalog(m, q)
    \/ CreatePlatform(m, q) \/ DeletePlatform(m, q)
    \/ AddComponent(m, q) \/ TransferComponent(m, q)
    \/ UpdateComponent(m, q) \/ RemoveComponent(m, q)
    \/ SubmitUsageRequest(m, q) \/ ReviewUsageRequest(m, q)

Inventory ==
    \/ CreateInventory
    \/ \E a \in Assets : ScanInventoryAsset(a)
    \/ CompleteInventory

Next == \/ \E m \in Members : Console(m) \/ \E q \in Offers(m) : Server(m, q)
        \/ Inventory

Spec == Init /\ [][Next]_vars

----------------------------------------------------------------------------
(* Properties *)

TypeOK ==
    /\ asset \in [Assets -> Rows]
    /\ requests \in Seq(Requests)
    /\ platforms \subseteq Platforms
    /\ catalog \in {0, 1}
    /\ revision \in 1..MaxRevision \cup {1}
    /\ inventory \in [status : {"none", "open", "completed"},
                      items : SUBSET Assets, scanned : SUBSET Assets]
    /\ \A m \in Members : /\ snapshot[m].version \in Nat
                          /\ drawer[m].row \in Rows
                          /\ editor[m].base \in Rows
                          /\ call[m].op \in {"none", "keep", "close", "return"}

\* A change is made only from a console that shows the rows as they are:
\* no decision on a request, a component, a selection or a deletion is
\* taken on data that another member has changed since (claimRevision, the
\* one-transaction snapshot, and the expectedRevision of every call).
Store == INSTANCE VersionedStore WITH Clients <- Members, content <- Content,
                                      version <- revision, copy <- snapshot
ImplementsVersionedStore == Store!Spec

\* A device the table calls idle, which submitUsageRequest hands over without
\* asking anyone, is on no platform and in nobody's hands, and a device in
\* use names its user.
IdleIsFree ==
    \A a \in Assets :
        /\ asset[a].status = "idle" => asset[a].platform = None
        /\ asset[a].status = "mounted" => asset[a].platform # None
        /\ RowAllowed(asset[a])

\* A device stays in the table, and a batch keeps finding it, once an
\* inventory counts it; what is scanned is part of the batch.
InventoryKeepsItsDevices ==
    /\ \A a \in inventory.items : Exists(a)
    /\ inventory.scanned \subseteq inventory.items

\* The result of a completed inventory does not change any more.
CompletedInventoryIsFinal ==
    [][inventory.status = "completed" => inventory' = inventory]_vars
=============================================================================
