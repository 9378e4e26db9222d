-------------------------- MODULE LabAssetsProofs --------------------------
(***************************************************************************)
(* Proofs about LabAssets for any devices, platforms, members and bounds.   *)
(***************************************************************************)
EXTENDS LabAssets, SequenceTheorems, TLAPS

----------------------------------------------------------------------------
(* The console implements the versioned store *)

\* What a console shows is older than the revision, or is what there is.
CopiesAreDated ==
    /\ revision \in Nat
    /\ DOMAIN snapshot = Members
    /\ \A m \in Members :
          /\ snapshot[m].version \in Nat
          /\ \/ snapshot[m].version < revision
             \/ snapshot[m] = [version |-> revision, content |-> Content]

\* Whatever method a call reaches, it has claimed the revision on screen.
LEMMA ServerClaims ==
  ASSUME NEW m \in Members, NEW q, Server(m, q)
  PROVE  Claim(m, q)
BY DEF Server, UpdateAsset, CreateAsset, ImportAssets, DeleteAsset, BatchCondition,
       BatchText, EditCatalog, CreatePlatform, DeletePlatform, AddComponent,
       TransferComponent, UpdateComponent, RemoveComponent, SubmitUsageRequest,
       ReviewUsageRequest, Asked

\* The steps of a console alone change neither content nor revision, and
\* read either everything or nothing.
LEMMA ConsoleReads ==
  ASSUME NEW m \in Members, Console(m)
  PROVE  /\ UNCHANGED <<content, revision, inventory>>
         /\ Snapshot(m) \/ UNCHANGED snapshot
BY DEF Console, Load, AnswerLost, Finish, OpenDrawer, CloseDrawer, EditAsset, NewAsset,
       NewType, CancelEditor, screens

LEMMA InventoryApart ==
  ASSUME Inventory
  PROVE  UNCHANGED <<content, revision, screens, call>>
BY DEF Inventory, CreateInventory, ScanInventoryAsset, CompleteInventory

LEMMA DatedStep ==
  ASSUME CopiesAreDated, [Next]_vars
  PROVE  CopiesAreDated' /\ [Store!Next]_(Store!vars)
<1> USE DEF CopiesAreDated, Content
<1>1. ASSUME NEW m \in Members, Console(m)
      PROVE  CopiesAreDated' /\ [Store!Next]_(Store!vars)
  <2>1. UNCHANGED <<content, revision>> /\ Content' = Content
    BY <1>1, ConsoleReads DEF content
  <2>2. CASE UNCHANGED snapshot
    BY <2>1, <2>2 DEF Store!vars
  <2>3. CASE Snapshot(m)
    <3>1. CopiesAreDated'
      BY <2>1, <2>3 DEF Snapshot
    <3>2. Store!Read(m)
      BY <2>1, <2>3 DEF Snapshot, Store!Read
    <3>3. QED  BY <3>1, <3>2 DEF Store!Next
  <2>4. QED  BY <1>1, <2>2, <2>3, ConsoleReads
<1>2. ASSUME NEW m \in Members, NEW q, Server(m, q)
      PROVE  CopiesAreDated' /\ [Store!Next]_(Store!vars)
  <2>1. Claim(m, q)
    BY <1>2, ServerClaims
  <2>2. /\ snapshot[m].version = revision
        /\ revision' = revision + 1
        /\ snapshot' = snapshot
    BY <2>1 DEF Claim, screens
  <2>3. CopiesAreDated'
    BY <2>2
  <2>4. Store!Change(m)
    BY <2>2 DEF Store!Change
  <2>5. QED  BY <2>3, <2>4 DEF Store!Next
<1>3. ASSUME Inventory
      PROVE  CopiesAreDated' /\ [Store!Next]_(Store!vars)
  BY <1>3, InventoryApart DEF content, screens, Store!vars
<1>4. CASE UNCHANGED vars
  BY <1>4 DEF vars, content, screens, Store!vars
<1>5. QED  BY <1>1, <1>2, <1>3, <1>4 DEF Next

\* Every change of the laboratory's data is made by a console that shows it
\* as it is (claimRevision and getSnapshot).
THEOREM ConsoleIsVersionedStore == Spec => ImplementsVersionedStore
<1>1. Init => CopiesAreDated /\ Store!Init
  BY DEF Init, CopiesAreDated, Store!Init
<1>2. CopiesAreDated /\ [Next]_vars => CopiesAreDated' /\ [Store!Next]_(Store!vars)
  BY DatedStep
<1>3. QED  BY <1>1, <1>2, PTL DEF Spec, ImplementsVersionedStore, Store!Spec

\* The invariant on its own, for the proofs below.
LEMMA AlwaysDated == Spec => []CopiesAreDated
<1>1. Init => CopiesAreDated
  BY DEF Init, CopiesAreDated
<1>2. CopiesAreDated /\ [Next]_vars => CopiesAreDated'
  BY DatedStep
<1>3. QED  BY <1>1, <1>2, PTL DEF Spec

----------------------------------------------------------------------------
(* Type correctness *)

Contents == [asset : [Assets -> Rows], requests : Seq(Requests),
             platforms : SUBSET Platforms, catalog : {0, 1}]
Drawers == {NoDrawer} \cup [asset : Assets, row : Rows]
Editors == [kind : {"none", "asset", "new", "type"}, asset : Assets \cup {None}, base : Rows]
Calls == [op : {"none", "keep", "close", "return"}, back : Editors]
Batches == [status : {"none", "open", "completed"}, items : SUBSET Assets, scanned : SUBSET Assets]

ScreensTyped ==
    /\ snapshot \in [Members -> [version : Nat, content : Contents]]
    /\ drawer \in [Members -> Drawers]
    /\ editor \in [Members -> Editors]
    /\ parked \in [Members -> Editors]
    /\ call \in [Members -> Calls]

\* Rows come back from what a console has shown, and a review names a
\* request by its place: both need the types and the age of what is shown.
Typed ==
    /\ Content \in Contents
    /\ revision \in 1..MaxRevision \cup {1}
    /\ inventory \in Batches
    /\ ScreensTyped
    /\ CopiesAreDated

LEMMA BlankRows == Absent \in Rows /\ Blank \in Rows
BY ConditionsAreKnown DEF Absent, Blank, Rows

\* A device that is handed over is still a row.
LEMMA HandedToIsTyped ==
  ASSUME asset \in [Assets -> Rows], NEW a \in Assets, NEW u \in Members
  PROVE  HandedTo(a, u) \in [Assets -> Rows]
BY DEF HandedTo, Rows

LEMMA NothingOpen == NoDrawer \in Drawers /\ NoEditor \in Editors /\ NoCall \in Calls
BY BlankRows DEF NoDrawer, NoEditor, NoCall, Drawers, Editors, Calls

\* What the server stores is a row, whatever row it is sent.
LEMMA WrittenIsARow ==
  ASSUME NEW row \in Rows
  PROVE  /\ Written(row) \in Rows
         /\ RowAllowed(Written(row))
         /\ Written(row).status # "absent"
         /\ Written(row).status = "idle" => Written(row).platform = None
         /\ Written(row).status = "mounted" => Written(row).platform # None
BY DEF Written, Rows, RowAllowed

\* What a console can send, as far as the server does not check it again.
LEMMA OffersAreTyped ==
  ASSUME Typed, NEW m \in Members, NEW q \in Offers(m)
  PROVE  /\ q.op = "batch" => q.condition \in Conditions
         /\ q.op = "type" => q.back \in Editors
         /\ q.op = "review" => q.request \in DOMAIN Shown(m).requests
         /\ q.op = "request" => q.asset \in Assets
<1>1. CASE q \in EditorCalls(m)
  <2>1. CASE editor[m].kind = "type"
    BY <1>1, <2>1 DEF EditorCalls, TypeEditorCalls, Typed, ScreensTyped
  <2>2. CASE editor[m].kind # "type"
    BY <1>1, <2>2 DEF EditorCalls, AssetEditorCalls
  <2>3. QED  BY <2>1, <2>2
<1>2. CASE q \in DrawerCalls(m)
  <2>1. drawer[m] # NoDrawer
    BY <1>2 DEF DrawerCalls
  <2>2. drawer[m] \in [asset : Assets, row : Rows]
    BY <2>1 DEF Typed, ScreensTyped, Drawers
  <2>3. q = [op |-> "request", asset |-> drawer[m].asset]
    BY <1>2, <2>1 DEF DrawerCalls
  <2>4. QED  BY <2>2, <2>3
<1>3. CASE q \in PanelCalls(m)
  <2>1. q.op \in {"add", "remove", "role", "transfer"}
    BY <1>3 DEF PanelCalls
  <2>2. QED  BY <2>1
<1>4. CASE q \in ReviewCalls(m)
  BY <1>4 DEF ReviewCalls
<1>5. CASE q \in WorkbenchCalls(m)
  BY <1>5 DEF WorkbenchCalls, BatchCalls, ImportCalls, PlatformCalls, DeletionCalls
<1>6. QED  BY <1>1, <1>2, <1>3, <1>4, <1>5 DEF Offers

LEMMA ContentTypes ==
  Content \in Contents <=> /\ asset \in [Assets -> Rows]
                           /\ requests \in Seq(Requests)
                           /\ platforms \subseteq Platforms
                           /\ catalog \in {0, 1}
BY DEF Content, Contents

\* A sequence whose elements are rewritten in place keeps its type.
LEMMA RewrittenRequests ==
  ASSUME NEW s \in Seq(Requests), NEW t,
         DOMAIN t = DOMAIN s, t = [i \in DOMAIN s |-> t[i]],
         \A i \in DOMAIN s : t[i] \in Requests
  PROVE  t \in Seq(Requests)
<1>1. DOMAIN s = 1..Len(s) /\ Len(s) \in Nat
  OBVIOUS
<1>2. t \in [1..Len(s) -> Requests]
  BY <1>1
<1>3. QED  BY <1>1, <1>2, SeqDef

\* A review that is accepted names a request there is: its console shows the
\* requests as they are.
LEMMA ReviewNamesARequest ==
  ASSUME Typed, NEW m \in Members, NEW q \in Offers(m), Asked(m, q, "review")
  PROVE  q.request \in DOMAIN requests /\ requests[q.request] \in Requests
<1>1. q.request \in DOMAIN Shown(m).requests
  BY OffersAreTyped DEF Asked
<1>2. snapshot[m] = [version |-> revision, content |-> Content]
  BY DEF Asked, Claim, Typed, CopiesAreDated
<1>3. q.request \in DOMAIN requests
  BY <1>1, <1>2 DEF Shown, Content
<1>4. requests \in Seq(Requests)
  BY ContentTypes DEF Typed
<1>5. QED  BY <1>3, <1>4

LEMMA ServerKeepsContent ==
  ASSUME Typed, NEW m \in Members, NEW q \in Offers(m), Server(m, q)
  PROVE  Content' \in Contents
<1> USE ContentTypes DEF Typed
<1>0. /\ asset \in [Assets -> Rows] /\ requests \in Seq(Requests)
      /\ platforms \subseteq Platforms /\ catalog \in {0, 1}
  OBVIOUS
<1>1. CASE UpdateAsset(m, q)
  <2>1. Written(q.row) \in Rows
    BY <1>1, WrittenIsARow DEF UpdateAsset, Writable
  <2>2. QED  BY <1>0, <1>1, <2>1 DEF UpdateAsset, Content, Contents
<1>2. CASE CreateAsset(m, q)
  <2>1. Written(q.row) \in Rows
    BY <1>2, WrittenIsARow DEF CreateAsset, Writable
  <2>2. QED  BY <1>0, <1>2, <2>1 DEF CreateAsset, Content, Contents
<1>3. CASE ImportAssets(m, q)
  <2>1. [Blank EXCEPT !.platform = q.platform] \in Rows
    BY <1>0, <1>3, BlankRows DEF ImportAssets, Rows
  <2>2. Written([Blank EXCEPT !.platform = q.platform]) \in Rows
    BY <2>1, WrittenIsARow
  <2>3. QED  BY <1>0, <1>3, <2>2 DEF ImportAssets, Content, Contents
<1>4. CASE DeleteAsset(m, q)
  <2>1. requests' \in Seq(Requests)
    <3>1. \A i \in DOMAIN requests : requests[i] \in Requests
      BY <1>0
    <3>2. \A i \in DOMAIN requests' : requests'[i] \in Requests
      BY <1>4, <3>1 DEF DeleteAsset, Requests
    <3>3. QED  BY <1>0, <1>4, <3>2, RewrittenRequests DEF DeleteAsset
  <2>2. QED  BY <1>0, <1>4, <2>1, BlankRows DEF DeleteAsset, Content, Contents
<1>5. CASE BatchCondition(m, q)
  <2>1. q.condition \in Conditions
    BY <1>5, OffersAreTyped DEF BatchCondition, Asked
  <2>2. asset' \in [Assets -> Rows]
    BY <1>0, <1>5, <2>1 DEF BatchCondition, Rows
  <2>3. QED  BY <1>0, <1>5, <2>2 DEF BatchCondition, Content, Contents
<1>6. CASE BatchText(m, q) \/ EditCatalog(m, q) \/ UpdateComponent(m, q)
  BY <1>0, <1>6 DEF BatchText, EditCatalog, UpdateComponent, Content, Contents
<1>7. CASE CreatePlatform(m, q)
  <2>1. q.platform \in Platforms
    BY <1>7 DEF CreatePlatform, Asked, Offers, EditorCalls, DrawerCalls, PanelCalls,
                ReviewCalls, WorkbenchCalls,
                AssetEditorCalls, TypeEditorCalls, BatchCalls, ImportCalls,
                PlatformCalls, DeletionCalls
  <2>2. QED  BY <1>0, <1>7, <2>1 DEF CreatePlatform, Content, Contents
<1>8. CASE DeletePlatform(m, q)
  BY <1>0, <1>8 DEF DeletePlatform, Content, Contents
<1>9. CASE AddComponent(m, q) \/ TransferComponent(m, q)
  <2>1. /\ q.platform \in Platforms
        /\ asset' = asset \/ asset' = MountedOn(q.asset, q.platform)
        /\ UNCHANGED <<requests, platforms, catalog>>
    BY <1>0, <1>9 DEF AddComponent, TransferComponent
  <2>2. asset' \in [Assets -> Rows]
    BY <1>0, <2>1 DEF MountedOn, Rows
  <2>3. QED  BY <1>0, <2>1, <2>2 DEF Content, Contents
<1>10. CASE RemoveComponent(m, q)
  <2>1. asset' \in [Assets -> Rows]
    BY <1>0, <1>10 DEF RemoveComponent, Rows
  <2>2. QED  BY <1>0, <1>10, <2>1 DEF RemoveComponent, Content, Contents
<1>11. CASE SubmitUsageRequest(m, q)
  <2>1. q.asset \in Assets
    BY <1>11, OffersAreTyped DEF SubmitUsageRequest, Asked
  <2>2. asset' \in [Assets -> Rows]
    BY <1>0, <1>11, <2>1, HandedToIsTyped DEF SubmitUsageRequest
  <2>3. requests' \in Seq(Requests)
    BY <1>0, <1>11, <2>1 DEF SubmitUsageRequest, Requests
  <2>4. QED  BY <1>0, <1>11, <2>2, <2>3 DEF SubmitUsageRequest, Content, Contents
<1>12. CASE ReviewUsageRequest(m, q)
  <2>1. q.request \in DOMAIN requests
    BY <1>12, ReviewNamesARequest DEF ReviewUsageRequest
  <2>2. \A i \in DOMAIN requests : requests[i] \in Requests
    BY <1>0
  <2>3. asset' \in [Assets -> Rows]
    <3>1. requests[q.request].requester \in Members
      BY <2>1, <2>2 DEF Requests
    <3>2. requests[q.request].asset \in Assets
      BY <2>1, <2>2 DEF Requests
    <3>3. QED  BY <1>0, <1>12, <3>1, <3>2, HandedToIsTyped DEF ReviewUsageRequest
  <2>4. \A i \in DOMAIN requests' : requests'[i] \in Requests
    BY <1>12, <2>2 DEF ReviewUsageRequest, Requests
  <2>5. requests' \in Seq(Requests)
    BY <1>0, <1>12, <2>4, RewrittenRequests DEF ReviewUsageRequest
  <2>6. QED  BY <1>0, <1>12, <2>3, <2>5 DEF ReviewUsageRequest, Content, Contents
<1>13. QED
  BY <1>1, <1>2, <1>3, <1>4, <1>5, <1>6, <1>7, <1>8, <1>9, <1>10, <1>11, <1>12 DEF Server

LEMMA ConsoleKeepsTypes ==
  ASSUME Typed, NEW m \in Members, Console(m)
  PROVE  Typed'
<1> USE NothingOpen DEF Typed
<1>1. UNCHANGED <<content, revision, inventory>> /\ Content' = Content
  BY ConsoleReads DEF content, Content
<1>2. CopiesAreDated'
  <2>1. [Next]_vars
    BY DEF Next
  <2>2. QED  BY <2>1, DatedStep
<1>3. snapshot' \in [Members -> [version : Nat, content : Contents]]
  <2>1. CASE UNCHANGED snapshot
    BY <2>1 DEF ScreensTyped
  <2>2. CASE Snapshot(m)
    <3>1. revision \in Nat
      BY DEF CopiesAreDated
    <3>2. QED  BY <2>2, <3>1 DEF Snapshot, ScreensTyped
  <2>3. QED  BY <2>1, <2>2, ConsoleReads
<1>4. /\ drawer' \in [Members -> Drawers]
      /\ editor' \in [Members -> Editors]
      /\ parked' \in [Members -> Editors]
      /\ call' \in [Members -> Calls]
  <2>0. /\ drawer \in [Members -> Drawers]
        /\ editor \in [Members -> Editors]
        /\ parked \in [Members -> Editors]
        /\ call \in [Members -> Calls]
        /\ Shown(m).asset \in [Assets -> Rows]
    BY DEF ScreensTyped, Shown, Contents
  <2>1. CASE Load(m)
    BY <2>0, <2>1 DEF Load
  <2>2. CASE AnswerLost(m)
    BY <2>0, <2>2 DEF AnswerLost, screens
  <2>3. CASE Finish(m)
    BY <2>0, <2>3 DEF Finish, Calls
  <2>4. ASSUME NEW a \in Assets, OpenDrawer(m, a)
        PROVE  /\ drawer' \in [Members -> Drawers]
               /\ editor' \in [Members -> Editors]
               /\ parked' \in [Members -> Editors]
               /\ call' \in [Members -> Calls]
    BY <2>0, <2>4 DEF OpenDrawer, Drawers
  <2>5. CASE CloseDrawer(m)
    BY <2>0, <2>5 DEF CloseDrawer
  <2>6. CASE EditAsset(m)
    <3>1. drawer[m] \in [asset : Assets, row : Rows]
      BY <2>0, <2>6 DEF EditAsset, Drawers
    <3>2. [kind |-> "asset", asset |-> drawer[m].asset, base |-> drawer[m].row] \in Editors
      BY <3>1 DEF Editors
    <3>3. QED  BY <2>0, <2>6, <3>2 DEF EditAsset
  <2>7. CASE NewAsset(m)
    BY <2>0, <2>7, BlankRows DEF NewAsset, Editors
  <2>8. CASE NewType(m)
    <3>1. [NoEditor EXCEPT !.kind = "type"] \in Editors
      BY BlankRows DEF NoEditor, Editors
    <3>2. QED  BY <2>0, <2>8, <3>1 DEF NewType
  <2>9. CASE CancelEditor(m)
    BY <2>0, <2>9 DEF CancelEditor
  <2>10. QED
    BY <2>1, <2>2, <2>3, <2>4, <2>5, <2>6, <2>7, <2>8, <2>9 DEF Console
<1>5. QED  BY <1>1, <1>2, <1>3, <1>4 DEF ScreensTyped, content

LEMMA ServerKeepsTypes ==
  ASSUME Typed, NEW m \in Members, NEW q \in Offers(m), Server(m, q)
  PROVE  Typed'
<1> USE DEF Typed
<1>1. Content' \in Contents
  BY ServerKeepsContent
<1>2. Claim(m, q)
  BY ServerClaims
<1>3. CopiesAreDated'
  <2>1. [Next]_vars
    BY DEF Next
  <2>2. QED  BY <2>1, DatedStep
<1>4. revision' \in 1..MaxRevision \cup {1}
  BY <1>2, BoundsAreNaturals DEF Claim
<1>5. Pending(q) \in Calls
  <2>1. q.op = "type" => q.back \in Editors
    BY OffersAreTyped
  <2>2. QED  BY <2>1, NothingOpen DEF Pending, Calls
<1>6. QED  BY <1>1, <1>2, <1>3, <1>4, <1>5 DEF Claim, screens, ScreensTyped

LEMMA InventoryKeepsTypes ==
  ASSUME Typed, Inventory
  PROVE  Typed'
<1> USE DEF Typed
<1>1. UNCHANGED <<content, revision, screens, call>>
  BY InventoryApart
<1>2. inventory' \in Batches
  BY DEF Inventory, CreateInventory, ScanInventoryAsset, CompleteInventory, Batches
<1>3. QED
  BY <1>1, <1>2 DEF content, Content, screens, ScreensTyped, CopiesAreDated

LEMMA AlwaysTyped == Spec => []Typed
<1>1. Init => Typed
  <2> SUFFICES ASSUME Init PROVE Typed
    OBVIOUS
  <2>1. asset \in [Assets -> Rows]
    BY BlankRows DEF Init
  <2>2. Content \in Contents
    BY <2>1, ContentTypes DEF Init
  <2>3. CopiesAreDated
    BY DEF Init, CopiesAreDated
  <2>4. QED  BY <2>2, <2>3, NothingOpen DEF Init, Typed, ScreensTyped, Batches
<1>2. Typed /\ [Next]_vars => Typed'
  <2> SUFFICES ASSUME Typed, [Next]_vars PROVE Typed'
    OBVIOUS
  <2>1. CASE UNCHANGED vars
    BY <2>1 DEF vars, content, screens, Typed, Content, ScreensTyped, CopiesAreDated
  <2>2. QED
    BY <2>1, ConsoleKeepsTypes, ServerKeepsTypes, InventoryKeepsTypes DEF Next
<1>3. QED  BY <1>1, <1>2, PTL DEF Spec

\* Every variable stays within its type, whatever rows, texts and requests
\* the consoles send.
THEOREM LabAssetsTypes == Spec => []TypeOK
<1>1. Typed => TypeOK
  <2> SUFFICES ASSUME Typed PROVE TypeOK
    OBVIOUS
  <2>1. /\ asset \in [Assets -> Rows] /\ requests \in Seq(Requests)
        /\ platforms \subseteq Platforms /\ catalog \in {0, 1}
    BY ContentTypes DEF Typed
  <2>2. ASSUME NEW m \in Members
        PROVE  drawer[m].row \in Rows
    BY BlankRows DEF Typed, ScreensTyped, Drawers, NoDrawer
  <2>3. QED  BY <2>1, <2>2 DEF Typed, TypeOK, ScreensTyped, Editors, Calls, Batches
<1>2. QED  BY <1>1, AlwaysTyped, PTL

----------------------------------------------------------------------------
(* Who has a device *)

\* What IdleIsFree says of one row.
Accounted(row) ==
    /\ row.status = "idle" => row.platform = None
    /\ row.status = "mounted" => row.platform # None
    /\ RowAllowed(row)

\* Putting a device on a platform takes it from nobody.
LEMMA MountedIsAccounted ==
  ASSUME asset \in [Assets -> Rows], \A b \in Assets : Accounted(asset[b]),
         NEW a \in Assets, NEW p \in Platforms,
         asset[a].status \notin {"in_use", "lend"}
  PROVE  \A b \in Assets : Accounted(MountedOn(a, p)[b])
<1>1. p # None
  BY NoneIsNull
<1>2. asset[a].user = None
  BY DEF Accounted, RowAllowed
<1>3. /\ MountedOn(a, p)[a].status = "mounted"
      /\ MountedOn(a, p)[a].platform = p
      /\ MountedOn(a, p)[a].user = None
  BY <1>2 DEF MountedOn, Rows
<1>4. Accounted(MountedOn(a, p)[a])
  BY <1>1, <1>3 DEF Accounted, RowAllowed
<1>5. \A b \in Assets \ {a} : MountedOn(a, p)[b] = asset[b]
  BY DEF MountedOn
<1>6. QED  BY <1>4, <1>5

LEMMA HandedIsAccounted ==
  ASSUME asset \in [Assets -> Rows], \A b \in Assets : Accounted(asset[b]),
         NEW a \in Assets, NEW u \in Members
  PROVE  \A b \in Assets : Accounted(HandedTo(a, u)[b])
BY NoneIsNull DEF HandedTo, Accounted, RowAllowed

LEMMA ServerAccounts ==
  ASSUME Typed, \A a \in Assets : Accounted(asset[a]),
         NEW m \in Members, NEW q \in Offers(m), Server(m, q)
  PROVE  \A a \in Assets : Accounted(asset'[a])
<1>0. /\ asset \in [Assets -> Rows] /\ requests \in Seq(Requests)
      /\ platforms \subseteq Platforms
  BY ContentTypes DEF Typed
<1>1. CASE UpdateAsset(m, q) \/ CreateAsset(m, q)
  <2>1. q.row \in Rows /\ asset' = [asset EXCEPT ![q.asset] = Written(q.row)]
    BY <1>1 DEF UpdateAsset, CreateAsset, Writable
  <2>2. Accounted(Written(q.row))
    BY <2>1, WrittenIsARow DEF Accounted
  <2>3. QED  BY <1>0, <2>1, <2>2
<1>2. CASE ImportAssets(m, q)
  <2> DEFINE row == [Blank EXCEPT !.platform = q.platform]
  <2>1. q.platform \in Platforms \cup {None}
    BY <1>0, <1>2 DEF ImportAssets
  <2>2. row \in Rows
    BY <2>1, BlankRows DEF Rows
  <2>3. Accounted(Written(row))
    BY <2>2, WrittenIsARow DEF Accounted
  <2>4. \A a \in Assets : asset'[a] = IF a \in q.assets THEN Written(row) ELSE asset[a]
    BY <1>2 DEF ImportAssets
  <2> HIDE DEF row
  <2>5. QED  BY <2>3, <2>4
<1>3. CASE DeleteAsset(m, q)
  <2>1. Accounted(Absent)
    BY DEF Accounted, Absent, RowAllowed
  <2>2. QED  BY <1>0, <1>3, <2>1 DEF DeleteAsset
<1>4. CASE BatchCondition(m, q)
  <2>1. \A a \in Assets : /\ asset'[a].status = asset[a].status
                          /\ asset'[a].platform = asset[a].platform
                          /\ asset'[a].user = asset[a].user
    BY <1>0, <1>4 DEF BatchCondition, Rows
  <2>2. QED  BY <2>1 DEF Accounted, RowAllowed
<1>5. CASE AddComponent(m, q)
  <2>1. q.platform \in Platforms /\ q.asset \in Assets
    BY <1>0, <1>5 DEF AddComponent, Asked, Exists, Offers, EditorCalls, DrawerCalls,
                      PanelCalls, ReviewCalls, WorkbenchCalls,
                      AssetEditorCalls, TypeEditorCalls, BatchCalls, ImportCalls,
                      PlatformCalls, DeletionCalls
  <2>2. CASE asset' = asset
    BY <2>2
  <2>3. CASE asset[q.asset].platform # q.platform
    <3>1. /\ asset[q.asset].status \notin {"in_use", "lend"}
          /\ asset' = MountedOn(q.asset, q.platform)
      BY <1>5, <2>3 DEF AddComponent
    <3>2. QED  BY <1>0, <2>1, <3>1, MountedIsAccounted
  <2>4. QED  BY <1>5, <2>2, <2>3 DEF AddComponent
<1>6. CASE TransferComponent(m, q)
  <2>1. q.platform \in Platforms /\ q.asset \in Assets
    BY <1>0, <1>6 DEF TransferComponent, Asked, Exists, Offers, EditorCalls, DrawerCalls,
                      PanelCalls, ReviewCalls, WorkbenchCalls,
                      AssetEditorCalls, TypeEditorCalls, BatchCalls, ImportCalls,
                      PlatformCalls, DeletionCalls
  <2>2. /\ asset[q.asset].status \notin {"in_use", "lend"}
        /\ asset' = MountedOn(q.asset, q.platform)
    BY <1>6 DEF TransferComponent
  <2>3. QED  BY <1>0, <2>1, <2>2, MountedIsAccounted
<1>7. CASE RemoveComponent(m, q)
  <2> DEFINE row == [asset[q.asset] EXCEPT !.platform = None, !.status = "idle"]
  <2>1. RowAllowed(row) /\ asset' = [asset EXCEPT ![q.asset] = row]
    BY <1>7 DEF RemoveComponent
  <2>2. ASSUME q.asset \in Assets
        PROVE  Accounted(row)
    <3>1. row.status = "idle" /\ row.platform = None
      BY <1>0, <2>2 DEF Rows
    <3>2. QED  BY <2>1, <3>1 DEF Accounted
  <2> HIDE DEF row
  <2>3. QED  BY <1>0, <2>1, <2>2
<1>8. CASE SubmitUsageRequest(m, q)
  <2>1. q.asset \in Assets
    BY <1>8, OffersAreTyped DEF SubmitUsageRequest, Asked
  <2>2. asset' = HandedTo(q.asset, m) \/ asset' = asset
    BY <1>8 DEF SubmitUsageRequest
  <2>3. QED  BY <1>0, <2>1, <2>2, HandedIsAccounted
<1>9. CASE ReviewUsageRequest(m, q)
  <2>1. requests[q.request] \in Requests
    BY <1>9, ReviewNamesARequest DEF ReviewUsageRequest
  <2>2. requests[q.request].asset \in Assets /\ requests[q.request].requester \in Members
    BY <2>1 DEF Requests
  <2>3. asset' = HandedTo(requests[q.request].asset, requests[q.request].requester)
        \/ asset' = asset
    BY <1>9 DEF ReviewUsageRequest
  <2>4. QED  BY <1>0, <2>2, <2>3, HandedIsAccounted
<1>10. CASE UNCHANGED asset
  BY <1>10
<1>11. QED
  BY <1>1, <1>2, <1>3, <1>4, <1>5, <1>6, <1>7, <1>8, <1>9, <1>10
  DEF Server, BatchText, EditCatalog, CreatePlatform, DeletePlatform, UpdateComponent

\* A device called idle, which submitUsageRequest hands over unasked, is on
\* no platform and in nobody's hands, for any devices, members and requests.
THEOREM IdleDevicesAreFree == Spec => []IdleIsFree
<1> DEFINE Free == \A a \in Assets : Accounted(asset[a])
<1>1. Init => Free
  BY DEF Init, Absent, Blank, Accounted, RowAllowed
<1>2. Typed /\ Free /\ [Next]_vars => Free'
  <2> SUFFICES ASSUME Typed, Free, [Next]_vars PROVE Free'
    OBVIOUS
  <2>1. CASE UNCHANGED vars
    BY <2>1 DEF vars, content
  <2>2. ASSUME NEW m \in Members, Console(m) PROVE Free'
    BY <2>2, ConsoleReads DEF content
  <2>3. ASSUME NEW m \in Members, NEW q \in Offers(m), Server(m, q) PROVE Free'
    BY <2>3, ServerAccounts
  <2>4. CASE Inventory
    BY <2>4, InventoryApart DEF content
  <2>5. QED  BY <2>1, <2>2, <2>3, <2>4 DEF Next
<1>3. Free => IdleIsFree
  BY DEF IdleIsFree, Accounted
<1>4. QED  BY <1>1, <1>2, <1>3, AlwaysTyped, PTL DEF Spec

----------------------------------------------------------------------------
(* The inventory *)

LEMMA ServerKeepsCounted ==
  ASSUME Typed, InventoryKeepsItsDevices,
         NEW m \in Members, NEW q \in Offers(m), Server(m, q)
  PROVE  InventoryKeepsItsDevices'
<1>1. inventory' = inventory
  BY ServerClaims DEF Claim
<1>2. asset \in [Assets -> Rows] /\ inventory.items \subseteq Assets
  BY ContentTypes DEF Typed, Batches
<1>3. \A a \in inventory.items : asset[a].status # "absent"
  BY DEF InventoryKeepsItsDevices, Exists
<1>4. SUFFICES ASSUME NEW a \in inventory.items
               PROVE  asset'[a].status # "absent"
  BY <1>1 DEF InventoryKeepsItsDevices, Exists
<1>5. a \in Assets /\ asset[a].status # "absent"
  BY <1>2, <1>3
<1>6. CASE UpdateAsset(m, q) \/ CreateAsset(m, q)
  <2>1. Written(q.row).status # "absent" /\ asset' = [asset EXCEPT ![q.asset] = Written(q.row)]
    BY <1>6, WrittenIsARow DEF UpdateAsset, CreateAsset, Writable
  <2>2. QED  BY <1>2, <1>5, <2>1
<1>7. CASE ImportAssets(m, q)
  <2>1. a \notin q.assets
    BY <1>5, <1>7 DEF ImportAssets, Exists
  <2>2. QED  BY <1>5, <1>7, <2>1 DEF ImportAssets
<1>8. CASE DeleteAsset(m, q)
  BY <1>2, <1>5, <1>8 DEF DeleteAsset
<1>9. CASE BatchCondition(m, q)
  <2>1. asset'[a].status = asset[a].status
    BY <1>2, <1>5, <1>9 DEF BatchCondition, Rows
  <2>2. QED  BY <1>5, <2>1
<1>10. CASE AddComponent(m, q) \/ TransferComponent(m, q)
  BY <1>2, <1>5, <1>10 DEF AddComponent, TransferComponent, MountedOn, Rows
<1>11. CASE RemoveComponent(m, q)
  BY <1>2, <1>5, <1>11 DEF RemoveComponent, Rows
<1>12. CASE SubmitUsageRequest(m, q) \/ ReviewUsageRequest(m, q)
  BY <1>2, <1>5, <1>12 DEF SubmitUsageRequest, ReviewUsageRequest, HandedTo
<1>13. CASE UNCHANGED asset
  BY <1>5, <1>13
<1>14. QED
  BY <1>6, <1>7, <1>8, <1>9, <1>10, <1>11, <1>12, <1>13
  DEF Server, BatchText, EditCatalog, CreatePlatform, DeletePlatform, UpdateComponent

\* A device that an inventory counts stays in the table, whatever is
\* written, imported or deleted meanwhile.
THEOREM InventoryKeeps == Spec => []InventoryKeepsItsDevices
<1>1. Init => InventoryKeepsItsDevices
  BY DEF Init, InventoryKeepsItsDevices
<1>2. Typed /\ InventoryKeepsItsDevices /\ [Next]_vars => InventoryKeepsItsDevices'
  <2> SUFFICES ASSUME Typed, InventoryKeepsItsDevices, [Next]_vars
               PROVE  InventoryKeepsItsDevices'
    OBVIOUS
  <2>1. CASE UNCHANGED vars
    BY <2>1 DEF vars, content, InventoryKeepsItsDevices, Exists
  <2>2. ASSUME NEW m \in Members, Console(m)
        PROVE  InventoryKeepsItsDevices'
    BY <2>2, ConsoleReads DEF content, InventoryKeepsItsDevices, Exists
  <2>3. ASSUME NEW m \in Members, NEW q \in Offers(m), Server(m, q)
        PROVE  InventoryKeepsItsDevices'
    BY <2>3, ServerKeepsCounted
  <2>4. CASE Inventory
    <3>1. UNCHANGED asset
      BY <2>4, InventoryApart DEF content
    <3>2. inventory \in Batches
      BY DEF Typed
    <3>3. CASE CreateInventory
      BY <3>1, <3>3 DEF CreateInventory, InventoryKeepsItsDevices, Exists
    <3>4. CASE CompleteInventory \/ \E a \in Assets : ScanInventoryAsset(a)
      BY <3>1, <3>2, <3>4 DEF CompleteInventory, ScanInventoryAsset, Batches,
                              InventoryKeepsItsDevices, Exists
    <3>5. QED  BY <2>4, <3>3, <3>4 DEF Inventory
  <2>5. QED  BY <2>1, <2>2, <2>3, <2>4 DEF Next
<1>3. QED  BY <1>1, <1>2, AlwaysTyped, PTL DEF Spec

\* A batch that is completed is never scanned, completed or made anew.
THEOREM InventoryIsFinal == Spec => CompletedInventoryIsFinal
<1>1. Typed /\ [Next]_vars
        => [inventory.status = "completed" => inventory' = inventory]_vars
  <2> SUFFICES ASSUME Typed, [Next]_vars, inventory.status = "completed"
               PROVE  inventory' = inventory
    OBVIOUS
  <2>1. CASE UNCHANGED vars
    BY <2>1 DEF vars
  <2>2. ASSUME NEW m \in Members, Console(m)
        PROVE  inventory' = inventory
    BY <2>2, ConsoleReads
  <2>3. ASSUME NEW m \in Members, NEW q \in Offers(m), Server(m, q)
        PROVE  inventory' = inventory
    BY <2>3, ServerClaims DEF Claim
  <2>4. CASE Inventory
    <3>1. inventory \in Batches
      BY DEF Typed
    <3>2. [inventory EXCEPT !.status = "completed"] = inventory
      BY <3>1 DEF Batches
    <3>3. QED
      BY <2>4, <3>2 DEF Inventory, CreateInventory, ScanInventoryAsset, CompleteInventory
  <2>5. QED  BY <2>1, <2>2, <2>3, <2>4 DEF Next
<1>2. QED  BY <1>1, AlwaysTyped, PTL DEF Spec, CompletedInventoryIsFinal
=============================================================================
