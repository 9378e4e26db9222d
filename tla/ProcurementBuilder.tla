------------------------- MODULE ProcurementBuilder -------------------------
(***************************************************************************)
(* The page a request is put together on, over the service it calls:       *)
(* web/features/procurement/ProcurementOrderBuilder.tsx and the parts of   *)
(* ProcurementConsole.tsx that open it, hand it a draft and submit.        *)
(*                                                                         *)
(* The console holds the draft; the builder takes the draft's lines into   *)
(* its cart when React mounts it, which is when its key changes.  Each     *)
(* choice of a filter starts a load of its own and gives up the one under  *)
(* way, whose answer still arrives.                                        *)
(***************************************************************************)
EXTENDS ProcurementCatalog, FiniteSets

CONSTANTS MaxChoices,   \* bound on the filters chosen while one builder is open
          MaxCart       \* bound on the entries of a cart that the member adds to

ASSUME BuilderAssumption == MaxChoices \in Nat /\ MaxCart \in Nat

VARIABLES page

builderVars == <<vars, page>>

Filters == [category : Categories \cup {None}, subcategory : Subcategories \cup {None}]
NoFilter == [category |-> None, subcategory |-> None]

\* What the service answers to a load. It may be old when it arrives, but no older than what
\* the page shows later on, so that it is read when it arrives.
Listing(f) ==
    [for |-> f,
     items |-> {[item |-> i, content |-> item[i].content] :
                  i \in {j \in CatalogItems :
                           /\ OnOffer(j)
                           /\ f.category \in {None, item[j].category}
                           /\ f.subcategory \in {None, item[j].subcategory}}}]

NothingShown == [for |-> NoFilter, items |-> {}]

\* What the console hands over: of which request, and whether it is to replace it.
Drafts == [mode : {"create", "copy", "revise"}, source : Requests \cup {None}]
NewDraft == [mode |-> "create", source |-> None]
Key(d) == [mode |-> d.mode, request |-> IF d.mode = "revise" THEN d.source ELSE None]

\* A line without its item, deleted since, becomes a part of the member's own.
CartOf(d) ==
    IF d.source = None THEN {}
    ELSE {[item |-> l.item, content |-> l.content] : l \in request[d.source].lines}

Closed ==
    [open |-> FALSE, draft |-> NewDraft, cart |-> {}, cartOf |-> None, busy |-> FALSE,
     filter |-> NoFilter, load |-> "done", choices |-> 0, old |-> {}, shown |-> NothingShown]

Pages == [open : BOOLEAN, draft : Drafts, cart : SUBSET Entries,
          cartOf : Requests \cup {None},    \* the request whose lines the cart began with
          busy : BOOLEAN, filter : Filters, load : {"timer", "asked", "failed", "done"},
          choices : 0..MaxChoices,
          old : SUBSET Filters,             \* loads given up whose answers are to come
          shown : [for : Filters, items : SUBSET Entries]]

BuilderTypeOK == TypeOK /\ page \in [Members -> Pages]

BuilderInit == Init /\ page = [p \in Members |-> Closed]

Show(p, new) == page' = [page EXCEPT ![p] = new] /\ UNCHANGED vars

-----------------------------------------------------------------------------
(* Opening.                                                                 *)

Mounted(pg, d) ==
    [Closed EXCEPT !.open = TRUE, !.draft = d, !.cart = CartOf(d), !.cartOf = d.source,
                   !.load = "timer", !.busy = pg.busy]

\* Mutant: the builder has no key.
OpenedInPlace(pg, d) ==
    IF pg.open THEN [pg EXCEPT !.draft = d] ELSE Mounted(pg, d)

\* The key is the mode and the request that is replaced: the copy of another request
\* does not change it (see the README).
Opened(pg, d) ==
    IF pg.open /\ Key(d) = Key(pg.draft)
      THEN [pg EXCEPT !.draft = d]
      ELSE Mounted(pg, d)

OpenNew(p) == Show(p, Opened(page[p], NewDraft))

\* The member's own request, as the page has loaded it. It may have been loaded long ago;
\* a builder may stay open as long, so that its cart is as old as any.
Reuse(p, r) ==
    /\ request[r] # None
    /\ request[r].owner = p
    /\ request[r].status # "submitted"
    /\ Show(p, Opened(page[p],
          [mode |-> IF request[r].status = "purchased" THEN "copy" ELSE "revise", source |-> r]))

Cancel(p) ==
    /\ page[p].open
    /\ Show(p, [Closed EXCEPT !.busy = page[p].busy])

-----------------------------------------------------------------------------
(* Looking for items.                                                       *)

\* The navigation is as old as the last answer: any id may be on it.
Choose(p, f) ==
    /\ page[p].open
    /\ page[p].choices < MaxChoices
    /\ Show(p, [page[p] EXCEPT
          !.filter = f, !.choices = @ + 1, !.load = "timer",
          !.old = @ \cup {g \in {page[p].filter} : page[p].load = "asked"}])

ChooseCategory(p, c) == Choose(p, [category |-> c, subcategory |-> None])

ChooseSubcategory(p, s) == Choose(p, [page[p].filter EXCEPT !.subcategory = s])

\* The timer fires: the page asks for the items of the filter.
Ask(p) ==
    /\ page[p].load = "timer"
    /\ Show(p, [page[p] EXCEPT !.load = "asked"])

Receive(p) ==
    /\ page[p].load = "asked"
    /\ Show(p, [page[p] EXCEPT !.load = "done", !.shown = Listing(page[p].filter)])

LoadFails(p) ==
    /\ page[p].load = "asked"
    /\ Show(p, [page[p] EXCEPT !.load = "failed"])

\* Mutant: the answer is shown whatever became of its effect.
ReceiveAny(p, f) ==
    /\ f \in page[p].old
    /\ Show(p, [page[p] EXCEPT !.old = @ \ {f}, !.shown = Listing(f)])

\* Its effect has been cleaned up: the answer is dropped.
ReceiveOld(p, f) ==
    /\ f \in page[p].old
    /\ Show(p, [page[p] EXCEPT !.old = @ \ {f}])

-----------------------------------------------------------------------------
(* The cart.  Quantities are not modelled but for the zero that removes.    *)

HasEntry(cart, i) == \E e \in cart : e.item = i

\* Mutant: the cart is not searched for the item.
AddAnother(p, e) ==
    /\ page[p].open
    /\ e \in page[p].shown.items
    /\ Cardinality(page[p].cart) < MaxCart
    /\ Show(p, [page[p] EXCEPT !.cart = @ \cup {e}])

AddCatalogItem(p, e) ==
    /\ page[p].open
    /\ e \in page[p].shown.items
    /\ ~HasEntry(page[p].cart, e.item)      \* otherwise only the quantity grows
    /\ Cardinality(page[p].cart) < MaxCart
    /\ Show(p, [page[p] EXCEPT !.cart = @ \cup {e}])

AddCustom(p) ==
    /\ page[p].open
    /\ Cardinality(page[p].cart) < MaxCart
    /\ Show(p, [page[p] EXCEPT !.cart = @ \cup {OwnEntry}])

RemoveEntry(p, e) ==
    /\ e \in page[p].cart
    /\ Show(p, [page[p] EXCEPT !.cart = @ \ {e}])

-----------------------------------------------------------------------------
(* Submitting.                                                              *)

Submit(p, r) ==
    /\ page[p].open
    /\ ~page[p].busy
    /\ page[p].cart # {}
    /\ IF page[p].draft.mode = "revise"
         THEN r = page[p].draft.source /\ ReviseRequest(p, r, page[p].cart)
         ELSE CreateRequest(p, r, page[p].cart)
    /\ page' = [page EXCEPT ![p].busy = TRUE]

\* The builder closes when it is told of the success; an answer that is lost is a failure.
Inserted(p) ==
    /\ InsertRequest(p)
    /\ \/ page' = [page EXCEPT ![p] = Closed]
       \/ page' = [page EXCEPT ![p].busy = FALSE]

RolledBack(p) ==
    /\ RollBack(p)
    /\ page' = [page EXCEPT ![p].busy = FALSE]

-----------------------------------------------------------------------------

Look(p) ==
    \/ OpenNew(p) \/ Cancel(p)
    \/ \E r \in Requests : Reuse(p, r)
    \/ \E c \in Categories \cup {None} : ChooseCategory(p, c)
    \/ \E s \in Subcategories \cup {None} : ChooseSubcategory(p, s)
    \/ Ask(p) \/ Receive(p) \/ LoadFails(p)
    \/ \E f \in page[p].old : ReceiveOld(p, f)
    \/ \E e \in page[p].shown.items : AddCatalogItem(p, e)
    \/ AddCustom(p)
    \/ \E e \in page[p].cart : RemoveEntry(p, e)

Place(p) ==
    \/ \E r \in Requests : Submit(p, r)
    \/ Inserted(p) \/ RolledBack(p)

BuilderNext ==
    \/ Maintain /\ UNCHANGED page
    \/ \E r \in Requests : Process(r) /\ UNCHANGED page
    \/ \E p \in Members, e \in Entries : Resolve(p, e) /\ UNCHANGED page
    \/ \E p \in Members : Look(p) \/ Place(p)

BuilderSpec == BuilderInit /\ [][BuilderNext]_builderVars

-----------------------------------------------------------------------------
(* Properties.                                                              *)

\* A slow answer to an earlier choice never takes the place of a later one: when the last
\* load is done, the items on the page are those of the filter the page shows as chosen.
BuilderShowsItsFilter ==
    \A p \in Members :
        page[p].open /\ page[p].load = "done" => page[p].shown.for = page[p].filter

\* The console knows which request is to be replaced and the builder has the cart; whatever
\* the order in which drafts are opened, a request is revised with a cart that began as its own.
RevisionsCarryTheirCart ==
    \A p \in Members :
        page[p].open /\ page[p].draft.mode = "revise" => page[p].cartOf = page[p].draft.source

NamesItemsOnce(lines) ==
    \A k, l \in lines : k.item = l.item /\ k.item # None => k = l

\* An item is in a cart once, also when the cart was copied from a request and the item has
\* changed since: the cart finds its entries by the item, and changes all it finds.
ItemsAreNamedOnce ==
    /\ \A p \in Members : NamesItemsOnce(page[p].cart)
    /\ \A r \in Requests : request[r] # None => NamesItemsOnce(request[r].lines)
=============================================================================
