------------------------- MODULE ProcurementCatalog -------------------------
(***************************************************************************)
(* The catalog of standard parts and the requests that order from it:      *)
(* server/services/procurement/procurementService.ts and the catalog half  *)
(* of server/routes/procurements.ts.                                       *)
(*                                                                         *)
(* An item stands in a category and in a subcategory, which has a category *)
(* of its own. A write of an item is two statements on the pool, so the    *)
(* row it has checked may be another one when it writes.  A request is one *)
(* transaction that reads its items one after the other FOR SHARE; whoever *)
(* changes a row of them waits until it ends.  The status of a request is  *)
(* the business of module Procurement: what matters here is whether it may *)
(* be revised or bought again.                                             *)
(***************************************************************************)
EXTENDS Naturals

CONSTANTS Categories, Subcategories, CatalogItems,  \* ids
          Contents,     \* what an item is called, costs and is bought from
          Members,      \* who orders
          Managers,     \* requests of purchasers to write an item, one at a time each
          Requests,
          None,         \* no row, no id, no call
          MaxEdits      \* bound on the changes to the catalog

SubcategoryRow == [category : Categories, active : BOOLEAN]
ItemRow == [category : Categories, subcategory : Subcategories,
            content : Contents, active : BOOLEAN]

ASSUME CatalogAssumption ==
    /\ MaxEdits \in Nat
    /\ None \notin Categories \cup Subcategories \cup CatalogItems \cup Requests
    /\ None \notin SubcategoryRow \cup ItemRow

VARIABLES
    category,       \* "absent", "off" (is_active false) or "on"
    subcategory,    \* None or the row: its category, is_active
    item,           \* None or the row: its category, subcategory, content, is_active
    call,           \* the write of an item between its check and its statement
    transaction,    \* the request a member's transaction is about to insert
    request,        \* None or owner, status and lines
    edits

catalogVars == <<category, subcategory, item>>
vars == <<category, subcategory, item, call, transaction, request, edits>>

\* What a member asks for: an item of the catalog as shown, or a part of the member's own,
\* of which one stands for all.
Entries == [item : CatalogItems \cup {None}, content : Contents \cup {None}]
OwnEntry == [item |-> None, content |-> None]

\* What is inserted: for an item of the catalog with the snapshot of its row.
Lines == [item : CatalogItems \cup {None}, content : Contents \cup {None},
          category : Categories \cup {None}, subcategory : Subcategories \cup {None}]

TypeOK ==
    /\ category \in [Categories -> {"absent", "off", "on"}]
    /\ subcategory \in [Subcategories -> SubcategoryRow \cup {None}]
    /\ item \in [CatalogItems -> ItemRow \cup {None}]
    /\ call \in [Managers -> [item : CatalogItems \cup {None}, row : ItemRow] \cup {None}]
    /\ transaction \in [Members -> [request : Requests, todo : SUBSET Entries,
                                    lines : SUBSET Lines] \cup {None}]
    /\ request \in [Requests -> [owner : Members, lines : SUBSET Lines,
                     status : {"submitted", "revision_requested", "purchased"}] \cup {None}]
    /\ edits \in 0..MaxEdits

-----------------------------------------------------------------------------
(* Rows and locks.                                                          *)

Filed(row) ==
    /\ subcategory[row.subcategory] # None
    /\ subcategory[row.subcategory].category = row.category

OnOffer(i) ==
    /\ item[i] # None
    /\ item[i].active
    /\ category[item[i].category] = "on"
    /\ subcategory[item[i].subcategory] # None
    /\ subcategory[item[i].subcategory].active

LineOf(i) == [item |-> i, content |-> item[i].content,
              category |-> item[i].category, subcategory |-> item[i].subcategory]

OwnLine(e) == [item |-> None, content |-> e.content, category |-> None, subcategory |-> None]

LockedLines == UNION {transaction[p].lines : p \in {q \in Members : transaction[q] # None}}
ItemLocked(i) == \E l \in LockedLines : l.item = i
\* Mutant: FOR SHARE OF items.
NobodyLocks(c) == FALSE

CategoryLocked(c) == \E l \in LockedLines : l.category = c
SubcategoryLocked(s) == \E l \in LockedLines : l.subcategory = s

Edit ==
    /\ edits < MaxEdits
    /\ edits' = edits + 1
    /\ UNCHANGED <<call, transaction>>

-----------------------------------------------------------------------------
(* The catalog's own operations: each is one statement or one transaction,  *)
(* refused without effect where its guard fails.                            *)

CreateCategory(c, s, on) ==
    /\ Edit
    /\ category[c] = "absent"
    /\ subcategory[s] = None
    /\ category' = [category EXCEPT ![c] = on]
    /\ subcategory' = [subcategory EXCEPT ![s] = [category |-> c, active |-> TRUE]]
    /\ UNCHANGED <<item, request>>

UpdateCategory(c, on) ==
    /\ Edit
    /\ category[c] # "absent"
    /\ ~CategoryLocked(c)
    /\ category' = [category EXCEPT ![c] = on]
    /\ UNCHANGED <<subcategory, item, request>>

DeleteCategory(c) ==
    /\ Edit
    /\ category[c] # "absent"
    /\ \A i \in CatalogItems : item[i] # None => item[i].category # c
    /\ \A s \in Subcategories : subcategory[s] # None => subcategory[s].category # c
    /\ category' = [category EXCEPT ![c] = "absent"]
    /\ UNCHANGED <<subcategory, item, request>>

CreateSubcategory(s, row) ==
    /\ Edit
    /\ subcategory[s] = None
    /\ category[row.category] # "absent"
    /\ subcategory' = [subcategory EXCEPT ![s] = row]
    /\ UNCHANGED <<category, item, request>>

\* Mutant: only the items that are on offer are looked at.
ActiveItemsFollow(s, c) ==
    \A i \in CatalogItems :
        item[i] # None /\ item[i].subcategory = s /\ item[i].active => item[i].category = c

\* The items are looked at after the row is written; one of another category rolls back.
ItemsFollow(s, c) ==
    \A i \in CatalogItems :
        item[i] # None /\ item[i].subcategory = s => item[i].category = c

UpdateSubcategory(s, row) ==
    /\ Edit
    /\ subcategory[s] # None
    /\ category[row.category] # "absent"
    /\ ItemsFollow(s, row.category)
    /\ ~SubcategoryLocked(s)
    /\ subcategory' = [subcategory EXCEPT ![s] = row]
    /\ UNCHANGED <<category, item, request>>

DeleteSubcategory(s) ==
    /\ Edit
    /\ subcategory[s] # None
    /\ \A i \in CatalogItems : item[i] # None => item[i].subcategory # s
    /\ subcategory' = [subcategory EXCEPT ![s] = None]
    /\ UNCHANGED <<category, item, request>>

\* The requests that ordered the item keep their lines and lose the reference.
Unlinked(lines, i) ==
    {[l EXCEPT !.item = IF l.item = i THEN None ELSE l.item] : l \in lines}

DeleteItem(i) ==
    /\ Edit
    /\ item[i] # None
    /\ ~ItemLocked(i)
    /\ item' = [item EXCEPT ![i] = None]
    /\ request' = [r \in Requests |->
                     IF request[r] = None THEN None
                     ELSE [request[r] EXCEPT !.lines = Unlinked(request[r].lines, i)]]
    /\ UNCHANGED <<category, subcategory>>

-----------------------------------------------------------------------------
(* Creating and changing an item: the check, then the write.                *)

CheckItem(m, i, row) ==
    /\ call[m] = None
    /\ edits < MaxEdits
    /\ Filed(row)
    /\ i # None => item[i] # None
    /\ call' = [call EXCEPT ![m] = [item |-> i, row |-> row]]
    /\ edits' = edits + 1
    /\ UNCHANGED <<category, subcategory, item, transaction, request>>

\* The foreign keys of the row.
HasHomes(row) ==
    /\ category[row.category] # "absent"
    /\ subcategory[row.subcategory] # None

WriteItem(m) ==
    /\ call[m] # None
    /\ HasHomes(call[m].row)
    /\ \E i \in CatalogItems :
          /\ IF call[m].item = None
               THEN item[i] = None
               ELSE i = call[m].item /\ item[i] # None /\ ~ItemLocked(i)
          /\ item' = [item EXCEPT ![i] = call[m].row]
    /\ call' = [call EXCEPT ![m] = None]
    /\ UNCHANGED <<category, subcategory, transaction, request, edits>>

\* The item is gone, a key is refused or taken, the connection is lost.
WriteFails(m) ==
    /\ call[m] # None
    /\ call' = [call EXCEPT ![m] = None]
    /\ UNCHANGED <<category, subcategory, item, transaction, request, edits>>

-----------------------------------------------------------------------------
(* Ordering.                                                                *)

Begin(p, r, entries) ==
    /\ transaction[p] = None
    /\ transaction' = [transaction EXCEPT
                         ![p] = [request |-> r, todo |-> entries, lines |-> {}]]
    /\ UNCHANGED <<category, subcategory, item, call, request, edits>>

CreateRequest(p, r, entries) ==
    /\ request[r] = None
    /\ \A q \in Members : transaction[q] # None => transaction[q].request # r
    /\ Begin(p, r, entries)

Revisable(p, r) ==
    request[r] # None /\ request[r].owner = p /\ request[r].status = "revision_requested"

ReviseRequest(p, r, entries) ==
    /\ Revisable(p, r)
    /\ Begin(p, r, entries)

Resolve(p, e) ==
    /\ transaction[p] # None
    /\ e \in transaction[p].todo
    /\ e.item # None => OnOffer(e.item)
    /\ transaction' = [transaction EXCEPT ![p] =
          [request |-> @.request, todo |-> @.todo \ {e},
           lines |-> @.lines \cup {IF e.item = None THEN OwnLine(e) ELSE LineOf(e.item)}]]
    /\ UNCHANGED <<category, subcategory, item, call, request, edits>>

InsertRequest(p) ==
    /\ transaction[p] # None
    /\ transaction[p].todo = {}
    /\ request' = [request EXCEPT ![transaction[p].request] =
                     [owner |-> p, status |-> "submitted", lines |-> transaction[p].lines]]
    /\ transaction' = [transaction EXCEPT ![p] = None]
    /\ UNCHANGED <<category, subcategory, item, call, edits>>

\* An item is not on offer, the total is out of range, the connection is lost.
RollBack(p) ==
    /\ transaction[p] # None
    /\ transaction' = [transaction EXCEPT ![p] = None]
    /\ UNCHANGED <<category, subcategory, item, call, request, edits>>

\* What reviewers and purchasers do to a request that is not being revised.
Process(r) ==
    /\ request[r] # None
    /\ request[r].status = "submitted"
    /\ \E status \in {"revision_requested", "purchased"} :
          request' = [request EXCEPT ![r].status = status]
    /\ UNCHANGED <<category, subcategory, item, call, transaction, edits>>

-----------------------------------------------------------------------------

Init ==
    /\ category \in [Categories -> {"absent", "on"}]
    /\ subcategory \in [Subcategories -> SubcategoryRow \cup {None}]
    /\ \A s \in Subcategories : subcategory[s] # None =>
          subcategory[s].active /\ category[subcategory[s].category] # "absent"
    /\ item \in [CatalogItems -> ItemRow \cup {None}]
    /\ \A i \in CatalogItems : item[i] # None => item[i].active /\ Filed(item[i])
    /\ call = [m \in Managers |-> None]
    /\ transaction = [p \in Members |-> None]
    /\ request = [r \in Requests |-> None]
    /\ edits = 0

Maintain ==
    \/ \E c \in Categories, s \in Subcategories, on \in {"off", "on"} : CreateCategory(c, s, on)
    \/ \E c \in Categories, on \in {"off", "on"} : UpdateCategory(c, on)
    \/ \E c \in Categories : DeleteCategory(c)
    \/ \E s \in Subcategories, row \in SubcategoryRow : CreateSubcategory(s, row)
    \/ \E s \in Subcategories, row \in SubcategoryRow : UpdateSubcategory(s, row)
    \/ \E s \in Subcategories : DeleteSubcategory(s)
    \/ \E i \in CatalogItems : DeleteItem(i)
    \/ \E m \in Managers, i \in CatalogItems \cup {None}, row \in ItemRow : CheckItem(m, i, row)
    \/ \E m \in Managers : WriteItem(m)
    \/ \E m \in Managers : WriteFails(m)

Order ==
    \/ \E p \in Members, r \in Requests, entries \in SUBSET Entries :
          entries # {} /\ (CreateRequest(p, r, entries) \/ ReviseRequest(p, r, entries))
    \/ \E p \in Members, e \in Entries : Resolve(p, e)
    \/ \E p \in Members : InsertRequest(p)
    \/ \E p \in Members : RollBack(p)
    \/ \E r \in Requests : Process(r)

Next == Maintain \/ Order

Spec == Init /\ [][Next]_vars

-----------------------------------------------------------------------------
(* Properties.                                                              *)

\* A transaction reads its items one after the other, and purchasers go on changing the
\* catalog: when it inserts, every line is the item's row of that moment, and every item is
\* on offer with its category and its subcategory. One request is never made of two states
\* of the catalog (procurementService.ts resolveRequestItems, FOR SHARE OF all three).
LinesAreCurrent ==
    \A p \in Members :
        transaction[p] # None =>
            \A l \in transaction[p].lines :
                l.item # None => OnOffer(l.item) /\ l = LineOf(l.item)

\* Whatever is deleted between the check and the write of an item, no item and no
\* subcategory is left without the category and the subcategory it names.
HomesExist ==
    /\ \A s \in Subcategories :
          subcategory[s] # None => category[subcategory[s].category] # "absent"
    /\ \A i \in CatalogItems :
          item[i] # None => /\ category[item[i].category] # "absent"
                            /\ subcategory[item[i].subcategory] # None

\* Items may be misfiled by a write whose check is out of date (see the README), and by
\* nothing else: a change of a subcategory never parts it from items that are filed in it.
ChangesKeepItemsFiled ==
    [][\A i \in CatalogItems :
          item[i] # None /\ item'[i] = item[i] /\ Filed(item[i]) => Filed(item[i])']_vars
=============================================================================
