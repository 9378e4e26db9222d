---------------------- MODULE ProcurementBuilderProofs ----------------------
(***************************************************************************)
(* Proofs about the catalog, for any number of rows, members and writes    *)
(* under way, and about the builder pages over it.  The catalog is proved  *)
(* first; the pages' steps are steps of the catalog or leave it alone.     *)
(***************************************************************************)
EXTENDS ProcurementBuilder, TLAPS

-----------------------------------------------------------------------------
(* The catalog.                                                             *)

LEMMA CatalogTypesInit == Init => TypeOK
<1> SUFFICES ASSUME Init PROVE TypeOK
    OBVIOUS
<1>1. /\ category \in [Categories -> {"absent", "off", "on"}]
      /\ subcategory \in [Subcategories -> SubcategoryRow \cup {None}]
      /\ item \in [CatalogItems -> ItemRow \cup {None}]
      BY SMT DEF Init
<1>2. /\ call \in [Managers -> [item : CatalogItems \cup {None}, row : ItemRow] \cup {None}]
      /\ transaction \in [Members -> [request : Requests, todo : SUBSET Entries,
                                      lines : SUBSET Lines] \cup {None}]
      /\ request \in [Requests -> [owner : Members, lines : SUBSET Lines,
                       status : {"submitted", "revision_requested", "purchased"}] \cup {None}]
      BY SMT DEF Init
<1>3. edits \in 0..MaxEdits
      BY CatalogAssumption, SMT DEF Init
<1>4. QED BY <1>1, <1>2, <1>3 DEF TypeOK

\* Every operation of the service keeps the types.
LEMMA CatalogTypesStep == TypeOK /\ [Next]_vars => TypeOK'
<1> SUFFICES ASSUME TypeOK, [Next]_vars PROVE TypeOK'
    OBVIOUS
<1> USE CatalogAssumption
<1>1. ASSUME NEW c \in Categories, NEW s \in Subcategories, NEW on \in {"off", "on"},
             CreateCategory(c, s, on)
      PROVE  TypeOK'
      BY <1>1, SMT DEF TypeOK, CreateCategory, Edit, SubcategoryRow
<1>2. ASSUME NEW c \in Categories, NEW on \in {"off", "on"}, UpdateCategory(c, on)
      PROVE  TypeOK'
      BY <1>2, SMT DEF TypeOK, UpdateCategory, Edit
<1>3. ASSUME NEW c \in Categories, DeleteCategory(c) PROVE TypeOK'
      BY <1>3, SMT DEF TypeOK, DeleteCategory, Edit
<1>4. ASSUME NEW s \in Subcategories, NEW row \in SubcategoryRow,
             CreateSubcategory(s, row) \/ UpdateSubcategory(s, row)
      PROVE  TypeOK'
      BY <1>4, SMT DEF TypeOK, CreateSubcategory, UpdateSubcategory, Edit
<1>5. ASSUME NEW s \in Subcategories, DeleteSubcategory(s) PROVE TypeOK'
      BY <1>5, SMT DEF TypeOK, DeleteSubcategory, Edit
<1>6. ASSUME NEW i \in CatalogItems, DeleteItem(i) PROVE TypeOK'
  <2>1. \A lines \in SUBSET Lines : Unlinked(lines, i) \in SUBSET Lines
        BY SMT DEF Unlinked, Lines
  <2>2. item' \in [CatalogItems -> ItemRow \cup {None}]
        BY <1>6, SMT DEF TypeOK, DeleteItem
  <2>3. request' \in [Requests -> [owner : Members, lines : SUBSET Lines,
                       status : {"submitted", "revision_requested", "purchased"}] \cup {None}]
        BY <1>6, <2>1, SMT DEF TypeOK, DeleteItem
  <2>4. QED BY <1>6, <2>2, <2>3, SMT DEF TypeOK, DeleteItem, Edit
<1>7. ASSUME NEW m \in Managers, NEW i \in CatalogItems \cup {None}, NEW row \in ItemRow,
             CheckItem(m, i, row)
      PROVE  TypeOK'
      BY <1>7, SMT DEF TypeOK, CheckItem
<1>8. ASSUME NEW m \in Managers, WriteItem(m) PROVE TypeOK'
  <2>1. call[m].row \in ItemRow
        BY <1>8, SMT DEF TypeOK, WriteItem
  <2>2. QED BY <1>8, <2>1, SMT DEF TypeOK, WriteItem
<1>9. ASSUME NEW m \in Managers, WriteFails(m) PROVE TypeOK'
      BY <1>9, SMT DEF TypeOK, WriteFails
<1>10. ASSUME NEW p \in Members, NEW r \in Requests, NEW entries \in SUBSET Entries,
              CreateRequest(p, r, entries) \/ ReviseRequest(p, r, entries)
       PROVE  TypeOK'
       BY <1>10, SMT DEF TypeOK, CreateRequest, ReviseRequest, Begin
<1>11. ASSUME NEW p \in Members, NEW e \in Entries, Resolve(p, e) PROVE TypeOK'
  <2> DEFINE line == IF e.item = None THEN OwnLine(e) ELSE LineOf(e.item)
  <2>1. line \in Lines
    <3>1. CASE e.item = None
          BY <3>1, SMT DEF OwnLine, Lines, Entries
    <3>2. CASE e.item # None
      <4>1. e.item \in CatalogItems /\ item[e.item] \in ItemRow
            BY <1>11, <3>2, SMT DEF Resolve, OnOffer, TypeOK, Entries
      <4>2. QED BY <3>2, <4>1, SMT DEF LineOf, Lines, ItemRow
    <3>3. QED BY <3>1, <3>2
  <2>2. transaction' = [transaction EXCEPT ![p] =
           [request |-> @.request, todo |-> @.todo \ {e}, lines |-> @.lines \cup {line}]]
        BY <1>11 DEF Resolve
  <2>3. transaction[p] \in [request : Requests, todo : SUBSET Entries, lines : SUBSET Lines]
        BY <1>11, SMT DEF Resolve, TypeOK
  <2> HIDE DEF line
  <2>6. transaction' \in [Members -> [request : Requests, todo : SUBSET Entries,
                                      lines : SUBSET Lines] \cup {None}]
        BY <2>1, <2>2, <2>3, SMT DEF TypeOK
  <2>7. UNCHANGED <<category, subcategory, item, call, request, edits>>
        BY <1>11 DEF Resolve
  <2>8. QED BY <2>6, <2>7, SMT DEF TypeOK
<1>12. ASSUME NEW p \in Members, InsertRequest(p) PROVE TypeOK'
  <2>1. transaction[p] \in [request : Requests, todo : SUBSET Entries, lines : SUBSET Lines]
        BY <1>12, SMT DEF InsertRequest, TypeOK
  <2>2. QED BY <1>12, <2>1, SMT DEF TypeOK, InsertRequest
<1>13. ASSUME NEW p \in Members, RollBack(p) PROVE TypeOK'
       BY <1>13, SMT DEF TypeOK, RollBack
<1>14. ASSUME NEW r \in Requests, Process(r) PROVE TypeOK'
       BY <1>14, SMT DEF TypeOK, Process
<1>15. CASE UNCHANGED vars
       BY <1>15, SMT DEF TypeOK, vars
<1>16. QED
       BY <1>1, <1>2, <1>3, <1>4, <1>5, <1>6, <1>7, <1>8, <1>9, <1>10, <1>11, <1>12,
          <1>13, <1>14, <1>15 DEF Next, Maintain, Order

-----------------------------------------------------------------------------
(* The lines of an open transaction: what they were read from is locked.    *)

\* A line that is locked stays what it is when its rows stay.
LEMMA SameRows ==
    ASSUME TypeOK, NEW l, l.item # None, l.item \in CatalogItems,
           OnOffer(l.item), l = LineOf(l.item),
           item'[l.item] = item[l.item],
           category'[l.category] = category[l.category],
           subcategory'[l.subcategory] = subcategory[l.subcategory]
    PROVE  OnOffer(l.item)' /\ l = LineOf(l.item)'
BY SMT DEF OnOffer, LineOf

\* While a transaction holds lines, no step but its own changes a row they were read from.
LEMMA LinesAreLocked ==
    ASSUME TypeOK, LinesAreCurrent, Maintain,
           NEW p \in Members, transaction[p] # None,
           NEW l \in transaction[p].lines, l.item # None
    PROVE  /\ item'[l.item] = item[l.item]
           /\ category'[l.category] = category[l.category]
           /\ subcategory'[l.subcategory] = subcategory[l.subcategory]
<1> USE CatalogAssumption
<1>1. l \in LockedLines
      BY SMT DEF LockedLines
<1>2. ItemLocked(l.item) /\ CategoryLocked(l.category) /\ SubcategoryLocked(l.subcategory)
      BY <1>1, SMT DEF ItemLocked, CategoryLocked, SubcategoryLocked
<1>3. /\ l \in Lines /\ l.item \in CatalogItems
      /\ OnOffer(l.item) /\ l = LineOf(l.item)
      BY SMT DEF TypeOK, LinesAreCurrent, Lines
<1>4. /\ item[l.item] # None /\ item[l.item] \in ItemRow
      /\ l.category = item[l.item].category /\ l.subcategory = item[l.item].subcategory
      /\ category[l.category] = "on" /\ subcategory[l.subcategory] # None
      BY <1>3, SMT DEF OnOffer, LineOf, TypeOK
<1>5. l.category \in Categories /\ l.subcategory \in Subcategories
      BY <1>4, SMT DEF ItemRow
<1>6. ASSUME NEW c \in Categories, NEW s \in Subcategories, NEW on \in {"off", "on"},
             CreateCategory(c, s, on)
      PROVE  /\ item'[l.item] = item[l.item]
             /\ category'[l.category] = category[l.category]
             /\ subcategory'[l.subcategory] = subcategory[l.subcategory]
      BY <1>4, <1>5, <1>6, SMT DEF CreateCategory, TypeOK
<1>7. ASSUME NEW c \in Categories, NEW on \in {"off", "on"}, UpdateCategory(c, on)
      PROVE  /\ item'[l.item] = item[l.item]
             /\ category'[l.category] = category[l.category]
             /\ subcategory'[l.subcategory] = subcategory[l.subcategory]
      BY <1>2, <1>5, <1>7, SMT DEF UpdateCategory, TypeOK
<1>8. ASSUME NEW c \in Categories, DeleteCategory(c)
      PROVE  /\ item'[l.item] = item[l.item]
             /\ category'[l.category] = category[l.category]
             /\ subcategory'[l.subcategory] = subcategory[l.subcategory]
      BY <1>3, <1>4, <1>5, <1>8, SMT DEF DeleteCategory, TypeOK
<1>9. ASSUME NEW s \in Subcategories, NEW row \in SubcategoryRow,
             CreateSubcategory(s, row) \/ UpdateSubcategory(s, row)
      PROVE  /\ item'[l.item] = item[l.item]
             /\ category'[l.category] = category[l.category]
             /\ subcategory'[l.subcategory] = subcategory[l.subcategory]
      BY <1>2, <1>4, <1>5, <1>9, SMT DEF CreateSubcategory, UpdateSubcategory, TypeOK
<1>10. ASSUME NEW s \in Subcategories, DeleteSubcategory(s)
       PROVE  /\ item'[l.item] = item[l.item]
              /\ category'[l.category] = category[l.category]
              /\ subcategory'[l.subcategory] = subcategory[l.subcategory]
       BY <1>3, <1>4, <1>5, <1>10, SMT DEF DeleteSubcategory, TypeOK
<1>11. ASSUME NEW i \in CatalogItems, DeleteItem(i)
       PROVE  /\ item'[l.item] = item[l.item]
              /\ category'[l.category] = category[l.category]
              /\ subcategory'[l.subcategory] = subcategory[l.subcategory]
       BY <1>2, <1>3, <1>11, SMT DEF DeleteItem, TypeOK
<1>12. ASSUME NEW m \in Managers, WriteItem(m)
       PROVE  /\ item'[l.item] = item[l.item]
              /\ category'[l.category] = category[l.category]
              /\ subcategory'[l.subcategory] = subcategory[l.subcategory]
       BY <1>2, <1>3, <1>4, <1>12, SMT DEF WriteItem, TypeOK
<1>13. ASSUME UNCHANGED catalogVars
       PROVE  /\ item'[l.item] = item[l.item]
              /\ category'[l.category] = category[l.category]
              /\ subcategory'[l.subcategory] = subcategory[l.subcategory]
       BY <1>13 DEF catalogVars
<1>14. ASSUME NEW m \in Managers, WriteFails(m) PROVE UNCHANGED catalogVars
       BY <1>14 DEF WriteFails, catalogVars
<1>15. ASSUME NEW m \in Managers, NEW i \in CatalogItems \cup {None}, NEW row \in ItemRow,
              CheckItem(m, i, row)
       PROVE  UNCHANGED catalogVars
       BY <1>15 DEF CheckItem, catalogVars
<1>16. QED
       BY <1>6, <1>7, <1>8, <1>9, <1>10, <1>11, <1>12, <1>13, <1>14, <1>15 DEF Maintain

LEMMA LinesStep == TypeOK /\ LinesAreCurrent /\ [Next]_vars => LinesAreCurrent'
<1> SUFFICES ASSUME TypeOK, LinesAreCurrent, [Next]_vars,
                    NEW p \in Members, transaction'[p] # None,
                    NEW l \in transaction'[p].lines, l.item # None
             PROVE  OnOffer(l.item)' /\ l = LineOf(l.item)'
    BY DEF LinesAreCurrent
<1> USE CatalogAssumption
<1>1. CASE Maintain
  <2>1. transaction' = transaction
        BY <1>1 DEF Maintain, CreateCategory, UpdateCategory, DeleteCategory, CreateSubcategory,
           UpdateSubcategory, DeleteSubcategory, DeleteItem, Edit, CheckItem, WriteItem, WriteFails
  <2>2. /\ l.item \in CatalogItems
        /\ OnOffer(l.item) /\ l = LineOf(l.item)
        BY <2>1, SMT DEF TypeOK, LinesAreCurrent, Lines
  <2>3. /\ item'[l.item] = item[l.item]
        /\ category'[l.category] = category[l.category]
        /\ subcategory'[l.subcategory] = subcategory[l.subcategory]
        BY <1>1, <2>1, LinesAreLocked
  <2>4. QED BY <2>2, <2>3, SameRows
<1>2. ASSUME UNCHANGED catalogVars, OnOffer(l.item), l = LineOf(l.item)
      PROVE  OnOffer(l.item)' /\ l = LineOf(l.item)'
      BY <1>2 DEF catalogVars, OnOffer, LineOf
<1>3. CASE UNCHANGED vars
  <2>1. OnOffer(l.item) /\ l = LineOf(l.item)
        BY <1>3 DEF LinesAreCurrent, vars
  <2>2. QED BY <1>2, <1>3, <2>1 DEF vars, catalogVars
<1>4. ASSUME NEW q \in Members, NEW r \in Requests, NEW entries \in SUBSET Entries,
             CreateRequest(q, r, entries) \/ ReviseRequest(q, r, entries)
      PROVE  OnOffer(l.item)' /\ l = LineOf(l.item)'
  <2>1. UNCHANGED catalogVars
        BY <1>4 DEF CreateRequest, ReviseRequest, Begin, catalogVars
  <2>2. p # q /\ transaction[p] = transaction'[p]
        BY <1>4, SMT DEF CreateRequest, ReviseRequest, Begin, TypeOK
  <2>3. QED BY <1>2, <2>1, <2>2, SMT DEF LinesAreCurrent
<1>5. ASSUME NEW q \in Members, NEW e \in Entries, Resolve(q, e)
      PROVE  OnOffer(l.item)' /\ l = LineOf(l.item)'
  <2>1. UNCHANGED catalogVars
        BY <1>5 DEF Resolve, catalogVars
  <2>2. transaction[q] # None /\ transaction[q] \in [request : Requests, todo : SUBSET Entries, lines : SUBSET Lines]
        BY <1>5, SMT DEF Resolve, TypeOK
  <2>3. \/ transaction[p] # None /\ l \in transaction[p].lines
        \/ p = q /\ l = (IF e.item = None THEN OwnLine(e) ELSE LineOf(e.item))
        BY <1>5, <2>2, SMT DEF Resolve, TypeOK
  <2>4. CASE transaction[p] # None /\ l \in transaction[p].lines
        BY <1>2, <2>1, <2>4 DEF LinesAreCurrent
  <2>5. CASE l = (IF e.item = None THEN OwnLine(e) ELSE LineOf(e.item))
    <3>1. e.item # None
          BY <2>5, SMT DEF OwnLine
    <3>2. l = LineOf(e.item) /\ l.item = e.item /\ OnOffer(e.item)
          BY <1>5, <2>5, <3>1, SMT DEF Resolve, LineOf
    <3>3. QED BY <1>2, <2>1, <3>2
  <2>6. QED BY <2>3, <2>4, <2>5
<1>6. ASSUME NEW q \in Members, InsertRequest(q) \/ RollBack(q)
      PROVE  OnOffer(l.item)' /\ l = LineOf(l.item)'
  <2>1. UNCHANGED catalogVars
        BY <1>6 DEF InsertRequest, RollBack, catalogVars
  <2>2. transaction[p] = transaction'[p]
        BY <1>6, SMT DEF InsertRequest, RollBack, TypeOK
  <2>3. QED BY <1>2, <2>1, <2>2, SMT DEF LinesAreCurrent
<1>7. ASSUME NEW r \in Requests, Process(r)
      PROVE  OnOffer(l.item)' /\ l = LineOf(l.item)'
  <2>1. OnOffer(l.item) /\ l = LineOf(l.item)
        BY <1>7 DEF Process, LinesAreCurrent
  <2>2. QED BY <1>2, <1>7, <2>1 DEF Process, catalogVars
<1>8. QED BY <1>1, <1>3, <1>4, <1>5, <1>6, <1>7 DEF Next, Order

-----------------------------------------------------------------------------
(* Homes.                                                                   *)

LEMMA HomesStep == TypeOK /\ HomesExist /\ [Next]_vars => HomesExist'
<1> SUFFICES ASSUME TypeOK, HomesExist, [Next]_vars PROVE HomesExist'
    OBVIOUS
<1> USE CatalogAssumption
<1>1. ASSUME NEW c \in Categories, NEW s \in Subcategories, NEW on \in {"off", "on"},
             CreateCategory(c, s, on)
      PROVE  HomesExist'
      BY <1>1, SMT DEF TypeOK, HomesExist, CreateCategory, SubcategoryRow, ItemRow
<1>2. ASSUME NEW c \in Categories, NEW on \in {"off", "on"}, UpdateCategory(c, on)
      PROVE  HomesExist'
      BY <1>2, SMT DEF TypeOK, HomesExist, UpdateCategory, SubcategoryRow, ItemRow
<1>3. ASSUME NEW c \in Categories, DeleteCategory(c) PROVE HomesExist'
      BY <1>3, SMT DEF TypeOK, HomesExist, DeleteCategory, SubcategoryRow, ItemRow
<1>4. ASSUME NEW s \in Subcategories, NEW row \in SubcategoryRow,
             CreateSubcategory(s, row) \/ UpdateSubcategory(s, row)
      PROVE  HomesExist'
  <2>1. /\ subcategory' = [subcategory EXCEPT ![s] = row]
        /\ category[row.category] # "absent"
        /\ UNCHANGED <<category, item>>
        BY <1>4 DEF CreateSubcategory, UpdateSubcategory
  <2>2. row # None
        BY SMT DEF SubcategoryRow
  <2>3. \A t \in Subcategories : subcategory'[t] # None => category'[subcategory'[t].category] # "absent"
        BY <2>1, SMT DEF TypeOK, HomesExist
  <2>4. \A i \in CatalogItems : item[i] # None => item[i].subcategory \in Subcategories
        BY SMT DEF TypeOK, ItemRow
  <2>5. \A i \in CatalogItems : item'[i] # None => /\ category'[item'[i].category] # "absent"
                                                 /\ subcategory'[item'[i].subcategory] # None
        BY <2>1, <2>2, <2>4, SMT DEF TypeOK, HomesExist
  <2>6. QED BY <2>3, <2>5 DEF HomesExist
<1>5. ASSUME NEW s \in Subcategories, DeleteSubcategory(s) PROVE HomesExist'
      BY <1>5, SMT DEF TypeOK, HomesExist, DeleteSubcategory, ItemRow
<1>6. ASSUME NEW i \in CatalogItems, DeleteItem(i) PROVE HomesExist'
      BY <1>6, SMT DEF TypeOK, HomesExist, DeleteItem
<1>7. ASSUME NEW m \in Managers, WriteItem(m) PROVE HomesExist'
  <2>1. PICK i \in CatalogItems : item' = [item EXCEPT ![i] = call[m].row]
        BY <1>7 DEF WriteItem
  <2>2. HasHomes(call[m].row) /\ UNCHANGED <<category, subcategory>>
        BY <1>7 DEF WriteItem
  <2>3. QED BY <2>1, <2>2, SMT DEF TypeOK, HomesExist, HasHomes
<1>8. CASE UNCHANGED catalogVars
      BY <1>8 DEF HomesExist, catalogVars
<1>9. ASSUME NEW m \in Managers, WriteFails(m) PROVE UNCHANGED catalogVars
      BY <1>9 DEF WriteFails, catalogVars
<1>12. ASSUME NEW m \in Managers, NEW i \in CatalogItems \cup {None}, NEW row \in ItemRow,
              CheckItem(m, i, row)
       PROVE  UNCHANGED catalogVars
       BY <1>12 DEF CheckItem, catalogVars
<1>10. ASSUME Order \/ UNCHANGED vars PROVE UNCHANGED catalogVars
       BY <1>10 DEF Order, CreateRequest, ReviseRequest, Begin, Resolve, InsertRequest, RollBack,
          Process, catalogVars, vars
<1>11. QED
       BY <1>1, <1>2, <1>3, <1>4, <1>5, <1>6, <1>7, <1>8, <1>9, <1>10, <1>12 DEF Next, Maintain

LEMMA HomesInit == Init => HomesExist
<1> SUFFICES ASSUME Init PROVE HomesExist
    OBVIOUS
<1>1. \A s \in Subcategories : subcategory[s] # None => category[subcategory[s].category] # "absent"
      BY DEF Init
<1>2. \A i \in CatalogItems : item[i] # None =>
         item[i].subcategory \in Subcategories /\ Filed(item[i])
      BY SMT DEF Init, ItemRow
<1>3. QED BY <1>1, <1>2 DEF HomesExist, Filed

-----------------------------------------------------------------------------
(* Filing.                                                                  *)

LEMMA FilingStep ==
    ASSUME TypeOK, Next, NEW i \in CatalogItems,
           item[i] # None, item'[i] = item[i], Filed(item[i])
    PROVE  Filed(item[i])'
<1> USE CatalogAssumption
<1>1. /\ item[i].subcategory \in Subcategories
      /\ subcategory[item[i].subcategory] # None
      /\ subcategory[item[i].subcategory].category = item[i].category
      BY SMT DEF TypeOK, ItemRow, Filed
<1>2. SUFFICES /\ subcategory'[item[i].subcategory] # None
               /\ subcategory'[item[i].subcategory].category = item[i].category
      BY DEF Filed
<1>3. CASE UNCHANGED subcategory
      BY <1>1, <1>3
<1>4. ASSUME NEW c \in Categories, NEW s \in Subcategories, NEW on \in {"off", "on"},
             CreateCategory(c, s, on)
      PROVE  /\ subcategory'[item[i].subcategory] # None
             /\ subcategory'[item[i].subcategory].category = item[i].category
      BY <1>1, <1>4, SMT DEF CreateCategory, TypeOK
<1>5. ASSUME NEW s \in Subcategories, NEW row \in SubcategoryRow, CreateSubcategory(s, row)
      PROVE  /\ subcategory'[item[i].subcategory] # None
             /\ subcategory'[item[i].subcategory].category = item[i].category
      BY <1>1, <1>5, SMT DEF CreateSubcategory, TypeOK
<1>6. ASSUME NEW s \in Subcategories, NEW row \in SubcategoryRow, UpdateSubcategory(s, row)
      PROVE  /\ subcategory'[item[i].subcategory] # None
             /\ subcategory'[item[i].subcategory].category = item[i].category
      BY <1>1, <1>6, SMT DEF UpdateSubcategory, ItemsFollow, TypeOK
<1>7. ASSUME NEW s \in Subcategories, DeleteSubcategory(s)
      PROVE  /\ subcategory'[item[i].subcategory] # None
             /\ subcategory'[item[i].subcategory].category = item[i].category
      BY <1>1, <1>7, SMT DEF DeleteSubcategory, TypeOK
<1>8. ASSUME Order PROVE UNCHANGED subcategory
      BY <1>8 DEF Order, CreateRequest, ReviseRequest, Begin, Resolve, InsertRequest, RollBack, Process
<1>9. ASSUME Maintain,
             ~ \E c \in Categories, s \in Subcategories, on \in {"off", "on"} : CreateCategory(c, s, on),
             ~ \E s \in Subcategories, row \in SubcategoryRow : CreateSubcategory(s, row),
             ~ \E s \in Subcategories, row \in SubcategoryRow : UpdateSubcategory(s, row),
             ~ \E s \in Subcategories : DeleteSubcategory(s)
      PROVE  UNCHANGED subcategory
      BY <1>9 DEF Maintain, UpdateCategory, DeleteCategory, DeleteItem, CheckItem, WriteItem, WriteFails
<1>10. QED BY <1>3, <1>4, <1>5, <1>6, <1>7, <1>8, <1>9 DEF Next

-----------------------------------------------------------------------------
(* The catalog's theorems.                                                  *)

\* The rows, calls, transactions and requests stay of their types.
THEOREM CatalogTypes == Spec => []TypeOK
<1>1. QED BY CatalogTypesInit, CatalogTypesStep, PTL DEF Spec

\* A request is never made of two states of the catalog: while its transaction is open,
\* every line is the item's row as it is, on offer (resolveRequestItems).
THEOREM LinesCorrect == Spec => []LinesAreCurrent
<1>1. Init => LinesAreCurrent
      BY SMT DEF Init, LinesAreCurrent
<1>2. QED BY <1>1, CatalogTypes, LinesStep, PTL DEF Spec

\* No item and no subcategory outlives the category and the subcategory it names.
THEOREM HomesCorrect == Spec => []HomesExist
<1>1. QED BY HomesInit, CatalogTypes, HomesStep, PTL DEF Spec

\* No change of the catalog parts a subcategory from an item filed in it.
THEOREM FilingCorrect == Spec => ChangesKeepItemsFiled
<1> DEFINE Kept == \A i \in CatalogItems :
                      item[i] # None /\ item'[i] = item[i] /\ Filed(item[i]) => Filed(item[i])'
<1>1. TypeOK /\ [Next]_vars => [Kept]_vars
      BY FilingStep
<1>2. QED BY <1>1, CatalogTypes, PTL DEF Spec, ChangesKeepItemsFiled

-----------------------------------------------------------------------------
(* The pages' types.                                                        *)

PagesOK == page \in [Members -> Pages]

LEMMA ShowsPage ==
    ASSUME PagesOK, NEW p \in Members, NEW new \in Pages, Show(p, new)
    PROVE  PagesOK'
BY SMT DEF PagesOK, Show

\* One field of a page at a time.
LEMMA PageUpdates ==
    ASSUME NEW pg \in Pages
    PROVE  /\ \A b \in BOOLEAN : [pg EXCEPT !.open = b] \in Pages
           /\ \A b \in BOOLEAN : [pg EXCEPT !.busy = b] \in Pages
           /\ \A d \in Drafts : [pg EXCEPT !.draft = d] \in Pages
           /\ \A c \in SUBSET Entries : [pg EXCEPT !.cart = c] \in Pages
           /\ \A r \in Requests \cup {None} : [pg EXCEPT !.cartOf = r] \in Pages
           /\ \A f \in Filters : [pg EXCEPT !.filter = f] \in Pages
           /\ \A l \in {"timer", "asked", "failed", "done"} : [pg EXCEPT !.load = l] \in Pages
           /\ \A n \in 0..MaxChoices : [pg EXCEPT !.choices = n] \in Pages
           /\ \A o \in SUBSET Filters : [pg EXCEPT !.old = o] \in Pages
           /\ \A new \in [for : Filters, items : SUBSET Entries] : [pg EXCEPT !.shown = new] \in Pages
<1>1. \A b \in BOOLEAN : [pg EXCEPT !.open = b] \in Pages
      BY SMT DEF Pages
<1>2. \A b \in BOOLEAN : [pg EXCEPT !.busy = b] \in Pages
      BY SMT DEF Pages
<1>3. \A d \in Drafts : [pg EXCEPT !.draft = d] \in Pages
      BY SMT DEF Pages
<1>4. \A c \in SUBSET Entries : [pg EXCEPT !.cart = c] \in Pages
      BY SMT DEF Pages
<1>5. \A r \in Requests \cup {None} : [pg EXCEPT !.cartOf = r] \in Pages
      BY SMT DEF Pages
<1>6. \A f \in Filters : [pg EXCEPT !.filter = f] \in Pages
      BY SMT DEF Pages
<1>7. \A l \in {"timer", "asked", "failed", "done"} : [pg EXCEPT !.load = l] \in Pages
      BY SMT DEF Pages
<1>8. \A n \in 0..MaxChoices : [pg EXCEPT !.choices = n] \in Pages
      BY SMT DEF Pages
<1>9. \A o \in SUBSET Filters : [pg EXCEPT !.old = o] \in Pages
      BY SMT DEF Pages
<1>10. \A new \in [for : Filters, items : SUBSET Entries] : [pg EXCEPT !.shown = new] \in Pages
       BY SMT DEF Pages
<1>11. QED BY <1>1, <1>2, <1>3, <1>4, <1>5, <1>6, <1>7, <1>8, <1>9, <1>10

LEMMA ClosedIsPage == Closed \in Pages
<1>1. NoFilter \in Filters
      BY SMT DEF NoFilter, Filters
<1>2. NothingShown \in [for : Filters, items : SUBSET Entries]
      BY <1>1, SMT DEF NothingShown
<1>3. NewDraft \in Drafts
      BY SMT DEF NewDraft, Drafts
<1>4. 0 \in 0..MaxChoices
      BY BuilderAssumption, SMT
<1>5. QED BY <1>1, <1>2, <1>3, <1>4, SMT DEF Closed, Pages

LEMMA CartOfIsCart ==
    ASSUME TypeOK, NEW d \in Drafts, d.source # None => request[d.source] # None
    PROVE  CartOf(d) \in SUBSET Entries
<1>1. CASE d.source = None
      BY <1>1 DEF CartOf
<1>2. CASE d.source # None
  <2>1. d.source \in Requests
        BY <1>2, SMT DEF Drafts
  <2>2. request[d.source].lines \in SUBSET Lines
        BY <1>2, <2>1, SMT DEF TypeOK
  <2>3. \A l \in Lines : [item |-> l.item, content |-> l.content] \in Entries
        BY SMT DEF Lines, Entries
  <2>4. QED BY <1>2, <2>2, <2>3 DEF CartOf
<1>3. QED BY <1>1, <1>2

LEMMA OpenedIsPage ==
    ASSUME TypeOK, NEW pg \in Pages, NEW d \in Drafts, d.source # None => request[d.source] # None
    PROVE  Opened(pg, d) \in Pages
<1>1. [pg EXCEPT !.draft = d] \in Pages
      BY SMT DEF Pages
<1>2. CartOf(d) \in SUBSET Entries
      BY CartOfIsCart
<1>3. d.source \in Requests \cup {None} /\ pg.busy \in BOOLEAN
      BY SMT DEF Drafts, Pages
<1>4. Mounted(pg, d) \in Pages
  <2> DEFINE cart == CartOf(d)
             source == d.source
             busy == pg.busy
  <2>1. cart \in SUBSET Entries /\ source \in Requests \cup {None} /\ busy \in BOOLEAN
        BY <1>2, <1>3
  <2>2. Mounted(pg, d) = [Closed EXCEPT !.open = TRUE, !.draft = d, !.cart = cart,
                                        !.cartOf = source, !.load = "timer", !.busy = busy]
        BY DEF Mounted
  <2> HIDE DEF cart, source, busy
  <2>3. [Closed EXCEPT !.open = TRUE, !.draft = d, !.cart = cart,
                       !.cartOf = source, !.load = "timer", !.busy = busy] \in Pages
    <3> DEFINE a == [Closed EXCEPT !.open = TRUE]
               b == [a EXCEPT !.draft = d]
               c == [b EXCEPT !.cart = cart]
               e == [c EXCEPT !.cartOf = source]
               f == [e EXCEPT !.load = "timer"]
    <3>1. a \in Pages
          BY ClosedIsPage, PageUpdates
    <3>2. b \in Pages
          BY <3>1, PageUpdates
    <3>3. c \in Pages
          BY <2>1, <3>2, PageUpdates
    <3>4. e \in Pages
          BY <2>1, <3>3, PageUpdates
    <3>5. f \in Pages
          BY <3>4, PageUpdates
    <3>6. [f EXCEPT !.busy = busy] \in Pages
          BY <2>1, <3>5, PageUpdates
    <3>7. QED BY ClosedIsPage, <3>6, SMT DEF Pages
  <2>4. QED BY <2>2, <2>3
<1>5. QED BY <1>1, <1>4 DEF Opened

LEMMA ListingIsShown ==
    ASSUME TypeOK, NEW f \in Filters
    PROVE  Listing(f) \in [for : Filters, items : SUBSET Entries]
<1>1. \A i \in CatalogItems : OnOffer(i) => [item |-> i, content |-> item[i].content] \in Entries
      BY SMT DEF TypeOK, OnOffer, ItemRow, Entries
<1>2. QED BY <1>1, SMT DEF Listing

LEMMA LookStep ==
    ASSUME TypeOK, PagesOK, NEW p \in Members, Look(p)
    PROVE  PagesOK'
<1> USE CatalogAssumption, BuilderAssumption
<1>1. page[p] \in Pages
      BY SMT DEF PagesOK
<1>2. ASSUME OpenNew(p) PROVE PagesOK'
  <2>1. NewDraft \in Drafts /\ NewDraft.source = None
        BY SMT DEF NewDraft, Drafts
  <2>2. QED BY <1>1, <1>2, <2>1, OpenedIsPage, ShowsPage DEF OpenNew
<1>3. ASSUME Cancel(p) PROVE PagesOK'
  <2>1. [Closed EXCEPT !.busy = page[p].busy] \in Pages
        BY <1>1, ClosedIsPage, SMT DEF Pages
  <2>2. QED BY <1>3, <2>1, ShowsPage DEF Cancel
<1>4. ASSUME NEW r \in Requests, Reuse(p, r) PROVE PagesOK'
  <2> DEFINE d == [mode |-> IF request[r].status = "purchased" THEN "copy" ELSE "revise", source |-> r]
  <2>1. d \in Drafts /\ d.source = r
        BY SMT DEF Drafts
  <2>2. request[d.source] # None /\ Show(p, Opened(page[p], d))
        BY <1>4, <2>1 DEF Reuse
  <2> HIDE DEF d
  <2>3. QED BY <1>1, <2>1, <2>2, OpenedIsPage, ShowsPage
<1>5. ASSUME NEW f \in Filters, Choose(p, f) PROVE PagesOK'
  <2> DEFINE given == {g \in {page[p].filter} : page[p].load = "asked"}
  <2>0. page[p].filter \in Filters /\ page[p].choices \in 0..MaxChoices
        BY <1>1, SMT DEF Pages
  <2>1. given \in SUBSET Filters /\ page[p].choices + 1 \in 0..MaxChoices
        BY <2>0, <1>5, SMT DEF Choose
  <2>2. Show(p, [page[p] EXCEPT !.filter = f, !.choices = @ + 1, !.load = "timer",
                                !.old = @ \cup given])
        BY <1>5 DEF Choose
  <2> HIDE DEF given
  <2>3. [page[p] EXCEPT !.filter = f, !.choices = @ + 1, !.load = "timer",
                        !.old = @ \cup given] \in Pages
    <3> DEFINE a == [page[p] EXCEPT !.filter = f]
               b == [a EXCEPT !.choices = page[p].choices + 1]
               c == [b EXCEPT !.load = "timer"]
    <3>1. page[p].old \cup given \in SUBSET Filters
          BY <1>1, <2>1, SMT DEF Pages
    <3>2. a \in Pages
          BY <1>1, PageUpdates
    <3>3. b \in Pages
          BY <2>1, <3>2, PageUpdates
    <3>4. c \in Pages
          BY <3>3, PageUpdates
    <3>5. [c EXCEPT !.old = page[p].old \cup given] \in Pages
          BY <3>1, <3>4, PageUpdates
    <3>6. QED BY <1>1, <3>5, SMT DEF Pages
  <2>4. QED BY <2>2, <2>3, ShowsPage
<1>6. ASSUME NEW c \in Categories \cup {None}, ChooseCategory(p, c) PROVE PagesOK'
  <2>1. [category |-> c, subcategory |-> None] \in Filters
        BY SMT DEF Filters
  <2>2. QED BY <1>5, <1>6, <2>1 DEF ChooseCategory
<1>7. ASSUME NEW s \in Subcategories \cup {None}, ChooseSubcategory(p, s) PROVE PagesOK'
  <2>1. [page[p].filter EXCEPT !.subcategory = s] \in Filters
        BY <1>1, SMT DEF Filters, Pages
  <2>2. QED BY <1>5, <1>7, <2>1 DEF ChooseSubcategory
<1>8. ASSUME Ask(p) \/ LoadFails(p) PROVE PagesOK'
  <2>1. /\ [page[p] EXCEPT !.load = "asked"] \in Pages
        /\ [page[p] EXCEPT !.load = "failed"] \in Pages
        BY <1>1, SMT DEF Pages
  <2>2. QED BY <1>8, <2>1, ShowsPage DEF Ask, LoadFails
<1>9. ASSUME Receive(p) PROVE PagesOK'
  <2>1. Listing(page[p].filter) \in [for : Filters, items : SUBSET Entries]
        BY <1>1, ListingIsShown, SMT DEF Pages
  <2>2. \A new \in [for : Filters, items : SUBSET Entries] :
           [page[p] EXCEPT !.load = "done", !.shown = new] \in Pages
    <3> TAKE new \in [for : Filters, items : SUBSET Entries]
    <3> DEFINE a == [page[p] EXCEPT !.load = "done"]
    <3>1. a \in Pages
          BY <1>1, PageUpdates
    <3>2. [a EXCEPT !.shown = new] \in Pages
          BY <3>1, PageUpdates
    <3>3. QED BY <1>1, <3>2, SMT DEF Pages
  <2>3. QED BY <1>9, <2>1, <2>2, ShowsPage DEF Receive
<1>10. ASSUME NEW f \in page[p].old, ReceiveOld(p, f) PROVE PagesOK'
  <2>1. [page[p] EXCEPT !.old = @ \ {f}] \in Pages
        BY <1>1, SMT DEF Pages
  <2>2. QED BY <1>10, <2>1, ShowsPage DEF ReceiveOld
<1>11. ASSUME NEW e \in Entries, Show(p, [page[p] EXCEPT !.cart = @ \cup {e}]) PROVE PagesOK'
  <2>1. [page[p] EXCEPT !.cart = @ \cup {e}] \in Pages
        BY <1>1, SMT DEF Pages
  <2>2. QED BY <1>11, <2>1, ShowsPage
<1>12. ASSUME NEW e \in page[p].shown.items, AddCatalogItem(p, e) PROVE PagesOK'
  <2>1. e \in Entries
        BY <1>1, SMT DEF Pages
  <2>2. QED BY <1>11, <1>12, <2>1 DEF AddCatalogItem
<1>13. ASSUME AddCustom(p) PROVE PagesOK'
  <2>1. OwnEntry \in Entries
        BY SMT DEF OwnEntry, Entries
  <2>2. QED BY <1>11, <1>13, <2>1 DEF AddCustom
<1>14. ASSUME NEW e \in page[p].cart, RemoveEntry(p, e) PROVE PagesOK'
  <2>1. [page[p] EXCEPT !.cart = @ \ {e}] \in Pages
        BY <1>1, SMT DEF Pages
  <2>2. QED BY <1>14, <2>1, ShowsPage DEF RemoveEntry
<1>15. QED
       BY <1>2, <1>3, <1>4, <1>6, <1>7, <1>8, <1>9, <1>10, <1>12, <1>13, <1>14 DEF Look

LEMMA PlaceStep ==
    ASSUME PagesOK, NEW p \in Members, Place(p)
    PROVE  PagesOK'
<1>1. /\ [page[p] EXCEPT !.busy = TRUE] \in Pages
      /\ [page[p] EXCEPT !.busy = FALSE] \in Pages
  <2>1. page[p] \in Pages
        BY SMT DEF PagesOK
  <2>2. QED BY <2>1, PageUpdates
<1>2. \/ page' = [page EXCEPT ![p] = Closed]
      \/ page' = [page EXCEPT ![p] = [page[p] EXCEPT !.busy = TRUE]]
      \/ page' = [page EXCEPT ![p] = [page[p] EXCEPT !.busy = FALSE]]
      BY DEF Place, Submit, Inserted, RolledBack
<1>3. \A new \in Pages : [page EXCEPT ![p] = new] \in [Members -> Pages]
      BY SMT DEF PagesOK
<1>4. QED BY <1>1, <1>2, <1>3, ClosedIsPage DEF PagesOK

-----------------------------------------------------------------------------
(* The pages' steps are steps of the catalog.                               *)

LEMMA StepsAreCatalogs ==
    ASSUME PagesOK, [BuilderNext]_builderVars
    PROVE  [Next]_vars
<1>1. ASSUME NEW p \in Members, Look(p) PROVE UNCHANGED vars
      BY <1>1 DEF Look, OpenNew, Cancel, Reuse, ChooseCategory, ChooseSubcategory, Choose, Ask, Receive,
         LoadFails, ReceiveOld, AddCatalogItem, AddCustom, RemoveEntry, Show
<1>2. ASSUME NEW p \in Members, NEW r \in Requests, Submit(p, r) PROVE Order
  <2>0. page[p] \in Pages
        BY SMT DEF PagesOK
  <2>1. page[p].cart \in SUBSET Entries
        BY <2>0, SMT DEF Pages
  <2>2. page[p].cart # {} /\ (CreateRequest(p, r, page[p].cart) \/ ReviseRequest(p, r, page[p].cart))
        BY <1>2 DEF Submit
  <2>3. QED BY <2>1, <2>2 DEF Order
<1>3. ASSUME NEW p \in Members, Inserted(p) \/ RolledBack(p) PROVE Order
      BY <1>3 DEF Inserted, RolledBack, Order
<1>4. ASSUME NEW p \in Members, NEW e \in Entries, Resolve(p, e) PROVE Order
      BY <1>4 DEF Order
<1>5. ASSUME NEW r \in Requests, Process(r) PROVE Order
      BY <1>5 DEF Order
<1>6. QED BY <1>1, <1>2, <1>3, <1>4, <1>5 DEF BuilderNext, builderVars, Place, Next

LEMMA PagesStep ==
    ASSUME TypeOK, PagesOK, [BuilderNext]_builderVars
    PROVE  PagesOK'
<1>1. CASE UNCHANGED page
      BY <1>1 DEF PagesOK
<1>2. QED BY <1>1, LookStep, PlaceStep DEF BuilderNext, builderVars

LEMMA BuilderTypes == BuilderSpec => []BuilderTypeOK
<1>1. BuilderInit => TypeOK /\ PagesOK
      BY CatalogTypesInit, ClosedIsPage, SMT DEF BuilderInit, PagesOK
<1>2. TypeOK /\ PagesOK /\ [BuilderNext]_builderVars => (TypeOK /\ PagesOK)'
      BY StepsAreCatalogs, CatalogTypesStep, PagesStep
<1>3. TypeOK /\ PagesOK => BuilderTypeOK
      BY DEF BuilderTypeOK, PagesOK
<1>4. QED BY <1>1, <1>2, <1>3, PTL DEF BuilderSpec

\* The pages and the transactions they start do nothing to the catalog and the requests that
\* the service does not allow: every theorem about the catalog is one about the builder.
THEOREM BuilderImplementsCatalog == BuilderSpec => Spec
<1>1. BuilderTypeOK /\ [BuilderNext]_builderVars => [Next]_vars
      BY StepsAreCatalogs DEF BuilderTypeOK, PagesOK
<1>2. BuilderInit => Init
      BY DEF BuilderInit
<1>3. QED BY <1>1, <1>2, BuilderTypes, PTL DEF BuilderSpec, Spec

-----------------------------------------------------------------------------
(* The pages' theorems.                                                     *)

\* What a step makes of a page: another one of it, or it leaves it alone.
LEMMA PageSteps ==
    ASSUME PagesOK, [BuilderNext]_builderVars, NEW p \in Members
    PROVE  \/ page'[p] = page[p]
           \/ /\ Look(p)
              /\ UNCHANGED vars
           \/ Place(p) /\ (\/ page'[p] = Closed
                           \/ page'[p] = [page[p] EXCEPT !.busy = TRUE]
                           \/ page'[p] = [page[p] EXCEPT !.busy = FALSE])
<1>1. ASSUME NEW q \in Members, Look(q)
      PROVE  UNCHANGED vars /\ \E new : page' = [page EXCEPT ![q] = new]
      BY <1>1 DEF Look, OpenNew, Cancel, Reuse, ChooseCategory, ChooseSubcategory, Choose, Ask, Receive,
         LoadFails, ReceiveOld, AddCatalogItem, AddCustom, RemoveEntry, Show
<1>2. ASSUME NEW q \in Members, Place(q)
      PROVE  \/ page' = [page EXCEPT ![q] = Closed]
             \/ page' = [page EXCEPT ![q] = [page[q] EXCEPT !.busy = TRUE]]
             \/ page' = [page EXCEPT ![q] = [page[q] EXCEPT !.busy = FALSE]]
      BY <1>2 DEF Place, Submit, Inserted, RolledBack
<1>3. \A q \in Members : \A new : page' = [page EXCEPT ![q] = new] =>
         page'[p] = IF p = q THEN new ELSE page[p]
      BY SMT DEF PagesOK
<1>4. ASSUME NEW q \in Members, Look(q), p # q PROVE page'[p] = page[p]
      BY <1>1, <1>3, <1>4
<1>5. ASSUME NEW q \in Members, Place(q), p # q PROVE page'[p] = page[p]
      BY <1>2, <1>3, <1>5
<1>6. ASSUME Place(p)
      PROVE  \/ page'[p] = Closed
             \/ page'[p] = [page[p] EXCEPT !.busy = TRUE]
             \/ page'[p] = [page[p] EXCEPT !.busy = FALSE]
      BY <1>2, <1>3, <1>6
<1>7. CASE UNCHANGED page
      BY <1>7
<1>8. QED BY <1>1, <1>4, <1>5, <1>6, <1>7 DEF BuilderNext, builderVars

\* What Show leaves on the page of the member.
LEMMA Shown ==
    ASSUME PagesOK, NEW p \in Members, NEW new, Show(p, new)
    PROVE  page'[p] = new
BY SMT DEF PagesOK, Show

\* The fields of a mounted page.
LEMMA MountedFields ==
    ASSUME NEW pg, NEW d
    PROVE  /\ Closed.open = FALSE /\ Closed.cart = {}
           /\ Mounted(pg, d).cart = CartOf(d) /\ Mounted(pg, d).cartOf = d.source
           /\ Mounted(pg, d).draft = d /\ Mounted(pg, d).load = "timer"
BY SMT DEF Mounted, Closed

ShowsFilter(pg) == pg.open /\ pg.load = "done" => pg.shown.for = pg.filter

LEMMA FilterStep ==
    ASSUME PagesOK, NEW p \in Members, ShowsFilter(page[p]), [BuilderNext]_builderVars
    PROVE  ShowsFilter(page'[p])
<1>1. page[p] \in Pages
      BY SMT DEF PagesOK
<1>2. CASE page'[p] = Closed
      BY <1>2, MountedFields DEF ShowsFilter
<1>3. CASE page'[p] \in {[page[p] EXCEPT !.busy = b] : b \in BOOLEAN}
      BY <1>1, <1>3, SMT DEF ShowsFilter, Pages
<1>4. ASSUME Look(p) PROVE ShowsFilter(page'[p])
  <2>1. ASSUME NEW d, Show(p, Opened(page[p], d)) PROVE ShowsFilter(page'[p])
    <3>1. ShowsFilter([page[p] EXCEPT !.draft = d])
          BY <1>1, SMT DEF ShowsFilter, Pages
    <3>2. ShowsFilter(Mounted(page[p], d))
          BY MountedFields DEF ShowsFilter
    <3>3. QED BY <2>1, <3>1, <3>2, Shown DEF Opened
  <2>2. ASSUME Cancel(p) PROVE ShowsFilter(page'[p])
    <3>1. page'[p] = [Closed EXCEPT !.busy = page[p].busy]
          BY <2>2, Shown DEF Cancel
    <3>2. page'[p].open = FALSE
          BY <3>1, SMT DEF Closed
    <3>3. QED BY <3>2 DEF ShowsFilter
  <2>3. ASSUME NEW f, Choose(p, f) PROVE ShowsFilter(page'[p])
    <3> DEFINE given == {g \in {page[p].filter} : page[p].load = "asked"}
    <3>3. page'[p] = [page[p] EXCEPT !.filter = f, !.choices = @ + 1, !.load = "timer",
                                     !.old = @ \cup given]
          BY <2>3, Shown DEF Choose
    <3> HIDE DEF given
    <3>1. page'[p].load = "timer"
          BY <1>1, <3>3, SMT DEF Pages
    <3>2. QED BY <3>1 DEF ShowsFilter
  <2>4. ASSUME Ask(p) \/ LoadFails(p) PROVE ShowsFilter(page'[p])
    <3>1. page'[p].load # "done"
          BY <1>1, <2>4, Shown, SMT DEF Ask, LoadFails, Pages
    <3>2. QED BY <3>1 DEF ShowsFilter
  <2>5. ASSUME Receive(p) PROVE ShowsFilter(page'[p])
    <3>1. page'[p] = [page[p] EXCEPT !.load = "done", !.shown = Listing(page[p].filter)]
          BY <2>5, Shown DEF Receive
    <3>2. page'[p].shown = Listing(page[p].filter) /\ page'[p].filter = page[p].filter
          BY <1>1, <3>1, SMT DEF Pages
    <3>3. QED BY <3>2 DEF ShowsFilter, Listing
  <2>6. ASSUME NEW c, NEW o, page'[p] \in {[page[p] EXCEPT !.cart = c], [page[p] EXCEPT !.old = o]}
        PROVE  ShowsFilter(page'[p])
        BY <1>1, <2>6, SMT DEF ShowsFilter, Pages
  <2>7. ASSUME \/ \E f \in page[p].old : ReceiveOld(p, f)
               \/ \E e \in page[p].shown.items : AddCatalogItem(p, e)
               \/ AddCustom(p)
               \/ \E e \in page[p].cart : RemoveEntry(p, e)
        PROVE  ShowsFilter(page'[p])
    <3>1. \E c, o : page'[p] \in {[page[p] EXCEPT !.cart = c], [page[p] EXCEPT !.old = o]}
          BY <2>7, Shown DEF ReceiveOld, AddCatalogItem, AddCustom, RemoveEntry
    <3>2. QED BY <2>6, <3>1
  <2>8. QED
        BY <1>4, <2>1, <2>2, <2>3, <2>4, <2>5, <2>7
           DEF Look, OpenNew, Reuse, ChooseCategory, ChooseSubcategory
<1>5. QED BY <1>2, <1>3, <1>4, PageSteps

\* When the last load is done the page shows the items of the filter it shows as chosen,
\* whatever answers arrive late.
THEOREM FilterCorrect == BuilderSpec => []BuilderShowsItsFilter
<1> DEFINE Inv == \A p \in Members : ShowsFilter(page[p])
<1>1. BuilderInit => Inv
  <2>1. ASSUME BuilderInit, NEW p \in Members PROVE page[p] = Closed
        BY <2>1 DEF BuilderInit
  <2>2. QED BY <2>1, MountedFields DEF ShowsFilter
<1>2. BuilderTypeOK /\ Inv /\ [BuilderNext]_builderVars => Inv'
      BY FilterStep DEF BuilderTypeOK, PagesOK
<1>3. Inv => BuilderShowsItsFilter
      BY DEF ShowsFilter, BuilderShowsItsFilter
<1>4. QED BY <1>1, <1>2, <1>3, BuilderTypes, PTL DEF BuilderSpec

CarriesCart(pg) == pg.open /\ pg.draft.mode = "revise" => pg.cartOf = pg.draft.source

LEMMA RevisionStep ==
    ASSUME PagesOK, NEW p \in Members, CarriesCart(page[p]), [BuilderNext]_builderVars
    PROVE  CarriesCart(page'[p])
<1>1. page[p] \in Pages
      BY SMT DEF PagesOK
<1>2. CASE page'[p] = Closed
      BY <1>2, MountedFields DEF CarriesCart
<1>3. ASSUME page'[p].draft = page[p].draft, page'[p].open = page[p].open,
             page'[p].cartOf = page[p].cartOf
      PROVE  CarriesCart(page'[p])
      BY <1>3 DEF CarriesCart
<1>4. CASE page'[p] \in {[page[p] EXCEPT !.busy = b] : b \in BOOLEAN}
      BY <1>1, <1>3, <1>4, SMT DEF Pages
<1>5. ASSUME Look(p) PROVE CarriesCart(page'[p])
  <2>1. ASSUME NEW d \in Drafts, Show(p, Opened(page[p], d)) PROVE CarriesCart(page'[p])
    <3>1. ASSUME page[p].open, Key(d) = Key(page[p].draft)
          PROVE  CarriesCart([page[p] EXCEPT !.draft = d])
      <4>1. /\ [page[p] EXCEPT !.draft = d].draft = d
            /\ [page[p] EXCEPT !.draft = d].cartOf = page[p].cartOf
            BY <1>1, SMT DEF Pages
      <4>2. ASSUME d.mode = "revise"
            PROVE  page[p].draft.mode = "revise" /\ page[p].draft.source = d.source
            BY <3>1, <4>2, SMT DEF Key
      <4>3. QED BY <3>1, <4>1, <4>2 DEF CarriesCart
    <3>2. CarriesCart(Mounted(page[p], d))
      <4> DEFINE new == Mounted(page[p], d)
      <4>1. new.draft = d /\ new.cartOf = d.source
            BY MountedFields
      <4> HIDE DEF new
      <4>2. CarriesCart(new)
            BY <4>1, SMT DEF CarriesCart
      <4>3. QED BY <4>2 DEF new
    <3>3. QED BY <2>1, <3>1, <3>2, Shown DEF Opened
  <2>2. ASSUME OpenNew(p) PROVE CarriesCart(page'[p])
    <3>1. NewDraft \in Drafts
          BY SMT DEF NewDraft, Drafts
    <3>2. QED BY <2>1, <2>2, <3>1 DEF OpenNew
  <2>3. ASSUME NEW r \in Requests, Reuse(p, r) PROVE CarriesCart(page'[p])
    <3>1. [mode |-> IF request[r].status = "purchased" THEN "copy" ELSE "revise", source |-> r] \in Drafts
          BY SMT DEF Drafts
    <3>2. QED BY <2>1, <2>3, <3>1 DEF Reuse
  <2>4. ASSUME Cancel(p) PROVE CarriesCart(page'[p])
    <3>1. page'[p] = [Closed EXCEPT !.busy = page[p].busy]
          BY <2>4, Shown DEF Cancel
    <3>2. page'[p].open = FALSE
          BY <3>1, SMT DEF Closed
    <3>3. QED BY <3>2 DEF CarriesCart
  <2>5. ASSUME NEW f, Choose(p, f) PROVE CarriesCart(page'[p])
    <3> DEFINE given == {g \in {page[p].filter} : page[p].load = "asked"}
    <3>1. page'[p] = [page[p] EXCEPT !.filter = f, !.choices = @ + 1, !.load = "timer",
                                     !.old = @ \cup given]
          BY <2>5, Shown DEF Choose
    <3> HIDE DEF given
    <3>2. QED BY <1>1, <1>3, <3>1, SMT DEF Pages
  <2>6. ASSUME NEW c, NEW o, NEW l,
               page'[p] \in {[page[p] EXCEPT !.cart = c], [page[p] EXCEPT !.old = o],
                             [page[p] EXCEPT !.load = l]}
        PROVE  CarriesCart(page'[p])
        BY <1>1, <1>3, <2>6, SMT DEF Pages
  <2>10. ASSUME Receive(p) PROVE CarriesCart(page'[p])
    <3> DEFINE new == Listing(page[p].filter)
    <3>1. page'[p] = [page[p] EXCEPT !.load = "done", !.shown = new]
          BY <2>10, Shown DEF Receive
    <3> HIDE DEF new
    <3>2. QED BY <1>1, <1>3, <3>1, SMT DEF Pages
  <2>7. ASSUME \/ Ask(p) \/ LoadFails(p)
               \/ \E f \in page[p].old : ReceiveOld(p, f)
               \/ \E e \in page[p].shown.items : AddCatalogItem(p, e)
               \/ AddCustom(p)
               \/ \E e \in page[p].cart : RemoveEntry(p, e)
        PROVE  CarriesCart(page'[p])
    <3>1. \E c, o, l :
             page'[p] \in {[page[p] EXCEPT !.cart = c], [page[p] EXCEPT !.old = o],
                           [page[p] EXCEPT !.load = l]}
          BY <2>7, Shown DEF Ask, LoadFails, ReceiveOld, AddCatalogItem, AddCustom, RemoveEntry
    <3>2. QED BY <2>6, <3>1
  <2>8. QED
        BY <1>5, <2>2, <2>3, <2>4, <2>5, <2>7, <2>10 DEF Look, ChooseCategory, ChooseSubcategory
<1>6. QED BY <1>2, <1>4, <1>5, PageSteps

\* A request is revised with a cart that began as its own, whatever the order in which
\* drafts are opened over one another.
THEOREM RevisionCorrect == BuilderSpec => []RevisionsCarryTheirCart
<1> DEFINE Inv == \A p \in Members : CarriesCart(page[p])
<1>1. BuilderInit => Inv
  <2>1. ASSUME BuilderInit, NEW p \in Members PROVE page[p] = Closed
        BY <2>1 DEF BuilderInit
  <2>2. QED BY <2>1, MountedFields DEF CarriesCart
<1>2. BuilderTypeOK /\ Inv /\ [BuilderNext]_builderVars => Inv'
      BY RevisionStep DEF BuilderTypeOK, PagesOK
<1>3. Inv => RevisionsCarryTheirCart
      BY DEF CarriesCart, RevisionsCarryTheirCart
<1>4. QED BY <1>1, <1>2, <1>3, BuilderTypes, PTL DEF BuilderSpec

\* What an open transaction has resolved and what it has still to resolve name each item
\* once, together.
TransactionNamesOnce(t) ==
    t # None => /\ NamesItemsOnce(t.todo)
                /\ NamesItemsOnce(t.lines)
                /\ \A e \in t.todo, l \in t.lines : e.item # None => e.item # l.item

RequestNamesOnce(r) == r # None => NamesItemsOnce(r.lines)

NamesInv ==
    /\ \A p \in Members : NamesItemsOnce(page[p].cart)
    /\ \A p \in Members : TransactionNamesOnce(transaction[p])
    /\ \A r \in Requests : RequestNamesOnce(request[r])

LEMMA NamesUnlinked ==
    ASSUME NEW lines \in SUBSET Lines, NamesItemsOnce(lines), NEW i \in CatalogItems
    PROVE  NamesItemsOnce(Unlinked(lines, i))
<1> DEFINE un(l) == [l EXCEPT !.item = IF l.item = i THEN None ELSE l.item]
<1>1. \A l \in Lines : un(l).item = IF l.item = i THEN None ELSE l.item
      BY SMT DEF Lines
<1>2. Unlinked(lines, i) = {un(l) : l \in lines}
      BY DEF Unlinked
<1> HIDE DEF un
<1>3. SUFFICES ASSUME NEW k \in lines, NEW l \in lines, un(k).item = un(l).item, un(k).item # None
               PROVE  un(k) = un(l)
      BY <1>2 DEF NamesItemsOnce
<1>4. k.item = l.item /\ k.item # None
      BY <1>1, <1>3
<1>5. QED BY <1>4 DEF NamesItemsOnce

LEMMA NamesResolved ==
    ASSUME TypeOK, NEW p \in Members, NEW e \in Entries, Resolve(p, e),
           TransactionNamesOnce(transaction[p])
    PROVE  TransactionNamesOnce(transaction'[p])
<1> DEFINE line == IF e.item = None THEN OwnLine(e) ELSE LineOf(e.item)
           t == transaction[p]
<1>1. line.item = e.item
      BY SMT DEF OwnLine, LineOf
<1>2. t # None /\ e \in t.todo
      BY <1>1 DEF Resolve
<1>3. transaction' = [transaction EXCEPT ![p] =
           [request |-> @.request, todo |-> @.todo \ {e}, lines |-> @.lines \cup {line}]]
      BY DEF Resolve
<1> HIDE DEF line
<1>4. transaction'[p].todo = t.todo \ {e} /\ transaction'[p].lines = t.lines \cup {line}
      BY <1>3, SMT DEF TypeOK
<1>5. /\ \A j, k \in t.todo : j.item = k.item /\ j.item # None => j = k
      /\ \A j, k \in t.lines : j.item = k.item /\ j.item # None => j = k
      /\ \A j \in t.todo, l \in t.lines : j.item # None => j.item # l.item
      BY <1>2 DEF TransactionNamesOnce, NamesItemsOnce
<1> HIDE DEF t
<1>6. NamesItemsOnce(transaction'[p].todo)
      BY <1>4, <1>5 DEF NamesItemsOnce
<1>7. \A j, k \in t.lines \cup {line} : j.item = k.item /\ j.item # None => j = k
      BY <1>1, <1>2, <1>5
<1>8. \A j \in t.todo \ {e}, l \in t.lines \cup {line} : j.item # None => j.item # l.item
      BY <1>1, <1>2, <1>5
<1>9. QED BY <1>4, <1>6, <1>7, <1>8 DEF TransactionNamesOnce, NamesItemsOnce

LEMMA NamesInCart ==
    ASSUME TypeOK, PagesOK, NamesInv, NEW p \in Members, [BuilderNext]_builderVars
    PROVE  NamesItemsOnce(page'[p].cart)
<1>1. page[p] \in Pages /\ NamesItemsOnce(page[p].cart)
      BY SMT DEF PagesOK, NamesInv
<1>2. NamesItemsOnce({})
      BY DEF NamesItemsOnce
<1>3. CASE page'[p] = Closed
      BY <1>2, <1>3, MountedFields
<1>4. CASE page'[p] \in {[page[p] EXCEPT !.busy = b] : b \in BOOLEAN}
  <2>1. page'[p].cart = page[p].cart
        BY <1>1, <1>4, SMT DEF Pages
  <2>2. QED BY <1>1, <2>1
<1>5. ASSUME Look(p) PROVE NamesItemsOnce(page'[p].cart)
  <2>1. ASSUME NEW d \in Drafts, d.source # None => request[d.source] # None,
               Show(p, Opened(page[p], d))
        PROVE  NamesItemsOnce(page'[p].cart)
    <3>1. NamesItemsOnce(CartOf(d))
      <4>1. CASE d.source = None
            BY <1>2, <4>1 DEF CartOf
      <4>2. CASE d.source # None
        <5>1. d.source \in Requests
              BY <4>2, SMT DEF Drafts
        <5>2. NamesItemsOnce(request[d.source].lines)
              BY <2>1, <4>2, <5>1 DEF NamesInv, RequestNamesOnce
        <5>3. CartOf(d) = {[item |-> l.item, content |-> l.content] : l \in request[d.source].lines}
              BY <4>2 DEF CartOf
        <5>4. \A l : [item |-> l.item, content |-> l.content].item = l.item
              BY SMT
        <5>5. QED BY <5>2, <5>3, <5>4 DEF NamesItemsOnce
      <4>3. QED BY <4>1, <4>2
    <3>2. [page[p] EXCEPT !.draft = d].cart = page[p].cart
          BY <1>1, SMT DEF Pages
    <3>3. page'[p] = [page[p] EXCEPT !.draft = d] \/ page'[p] = Mounted(page[p], d)
          BY <2>1, Shown DEF Opened
    <3>4. Mounted(page[p], d).cart = CartOf(d)
          BY MountedFields
    <3>5. page'[p].cart = page[p].cart \/ page'[p].cart = CartOf(d)
          BY <3>2, <3>3, <3>4
    <3>6. QED BY <1>1, <3>1, <3>5
  <2>2. ASSUME OpenNew(p) PROVE NamesItemsOnce(page'[p].cart)
    <3>1. NewDraft \in Drafts /\ NewDraft.source = None
          BY SMT DEF NewDraft, Drafts
    <3>2. QED BY <2>1, <2>2, <3>1 DEF OpenNew
  <2>3. ASSUME NEW r \in Requests, Reuse(p, r) PROVE NamesItemsOnce(page'[p].cart)
    <3> DEFINE d == [mode |-> IF request[r].status = "purchased" THEN "copy" ELSE "revise", source |-> r]
    <3>1. d \in Drafts /\ d.source = r
          BY SMT DEF Drafts
    <3>2. request[d.source] # None /\ Show(p, Opened(page[p], d))
          BY <2>3, <3>1 DEF Reuse
    <3> HIDE DEF d
    <3>3. QED BY <2>1, <3>1, <3>2
  <2>4. ASSUME Cancel(p) PROVE NamesItemsOnce(page'[p].cart)
    <3>1. page'[p] = [Closed EXCEPT !.busy = page[p].busy]
          BY <2>4, Shown DEF Cancel
    <3>2. page'[p].cart = {}
          BY <3>1, SMT DEF Closed
    <3>3. QED BY <1>2, <3>2
  <2>5. ASSUME page'[p].cart = page[p].cart PROVE NamesItemsOnce(page'[p].cart)
        BY <1>1, <2>5
  <2>6. ASSUME NEW f, Choose(p, f) PROVE NamesItemsOnce(page'[p].cart)
    <3> DEFINE given == {g \in {page[p].filter} : page[p].load = "asked"}
    <3>1. page'[p] = [page[p] EXCEPT !.filter = f, !.choices = @ + 1, !.load = "timer",
                                     !.old = @ \cup given]
          BY <2>6, Shown DEF Choose
    <3> HIDE DEF given
    <3>2. QED BY <1>1, <2>5, <3>1, SMT DEF Pages
  <2>7. ASSUME Receive(p) PROVE NamesItemsOnce(page'[p].cart)
    <3> DEFINE new == Listing(page[p].filter)
    <3>1. page'[p] = [page[p] EXCEPT !.load = "done", !.shown = new]
          BY <2>7, Shown DEF Receive
    <3> HIDE DEF new
    <3>2. QED BY <1>1, <2>5, <3>1, SMT DEF Pages
  <2>8. ASSUME NEW o, NEW l, page'[p] \in {[page[p] EXCEPT !.old = o], [page[p] EXCEPT !.load = l]}
        PROVE  NamesItemsOnce(page'[p].cart)
        BY <1>1, <2>5, <2>8, SMT DEF Pages
  <2>9. ASSUME Ask(p) \/ LoadFails(p) \/ \E f \in page[p].old : ReceiveOld(p, f)
        PROVE  NamesItemsOnce(page'[p].cart)
    <3>1. \E o, l : page'[p] \in {[page[p] EXCEPT !.old = o], [page[p] EXCEPT !.load = l]}
          BY <2>9, Shown DEF Ask, LoadFails, ReceiveOld
    <3>2. QED BY <2>8, <3>1
  <2>10. ASSUME NEW e, page'[p] = [page[p] EXCEPT !.cart = @ \cup {e}],
                e.item = None \/ ~HasEntry(page[p].cart, e.item)
         PROVE  NamesItemsOnce(page'[p].cart)
    <3>1. page'[p].cart = page[p].cart \cup {e}
          BY <1>1, <2>10, SMT DEF Pages
    <3>2. QED BY <1>1, <2>10, <3>1 DEF NamesItemsOnce, HasEntry
  <2>11. ASSUME NEW e, AddCatalogItem(p, e) PROVE NamesItemsOnce(page'[p].cart)
         BY <2>10, <2>11, Shown DEF AddCatalogItem
  <2>12. ASSUME AddCustom(p) PROVE NamesItemsOnce(page'[p].cart)
    <3>1. OwnEntry.item = None
          BY SMT DEF OwnEntry
    <3>2. QED BY <2>10, <2>12, <3>1, Shown DEF AddCustom
  <2>13. ASSUME NEW e, RemoveEntry(p, e) PROVE NamesItemsOnce(page'[p].cart)
    <3>1. page'[p] = [page[p] EXCEPT !.cart = @ \ {e}]
          BY <2>13, Shown DEF RemoveEntry
    <3>2. page'[p].cart = page[p].cart \ {e}
          BY <1>1, <3>1, SMT DEF Pages
    <3>3. QED BY <1>1, <3>2 DEF NamesItemsOnce
  <2>14. QED
         BY <1>5, <2>2, <2>3, <2>4, <2>6, <2>7, <2>9, <2>11, <2>12, <2>13
            DEF Look, ChooseCategory, ChooseSubcategory
<1>6. QED BY <1>1, <1>3, <1>4, <1>5, PageSteps

LEMMA NamesInRequests ==
    ASSUME TypeOK, PagesOK, NamesInv, [BuilderNext]_builderVars, NEW r \in Requests
    PROVE  RequestNamesOnce(request'[r])
<1> USE CatalogAssumption
<1>1. RequestNamesOnce(request[r])
      BY DEF NamesInv
<1>2. CASE request'[r] = request[r]
      BY <1>1, <1>2
<1>3. ASSUME NEW i \in CatalogItems, DeleteItem(i) PROVE RequestNamesOnce(request'[r])
  <2>1. CASE request[r] = None
        BY <2>1, <1>3, SMT DEF DeleteItem, RequestNamesOnce
  <2>2. CASE request[r] # None
    <3>1. request'[r].lines = Unlinked(request[r].lines, i) /\ request[r].lines \in SUBSET Lines
          BY <2>2, <1>3, SMT DEF DeleteItem, TypeOK
    <3>2. QED BY <1>1, <2>2, <3>1, NamesUnlinked DEF RequestNamesOnce
  <2>3. QED BY <2>1, <2>2
<1>4. ASSUME NEW q \in Members, InsertRequest(q) PROVE RequestNamesOnce(request'[r])
  <2>1. NamesItemsOnce(transaction[q].lines)
        BY <1>4 DEF InsertRequest, NamesInv, TransactionNamesOnce
  <2>2. request'[r] = request[r] \/ request'[r].lines = transaction[q].lines
        BY <1>4, SMT DEF InsertRequest, TypeOK
  <2>3. QED BY <1>2, <2>1, <2>2 DEF RequestNamesOnce
<1>5. ASSUME NEW s \in Requests, Process(s) PROVE RequestNamesOnce(request'[r])
  <2>1. request'[r] = request[r] \/ (request[r] # None /\ request'[r].lines = request[r].lines)
        BY <1>5, SMT DEF Process, TypeOK
  <2>2. QED BY <1>1, <2>1 DEF RequestNamesOnce
<1>6. ASSUME Maintain, ~ \E i \in CatalogItems : DeleteItem(i) PROVE UNCHANGED request
      BY <1>6 DEF Maintain, CreateCategory, UpdateCategory, DeleteCategory, CreateSubcategory,
         UpdateSubcategory, DeleteSubcategory, CheckItem, WriteItem, WriteFails
<1>7. ASSUME Order, ~ \E q \in Members : InsertRequest(q), ~ \E s \in Requests : Process(s)
      PROVE  UNCHANGED request
      BY <1>7 DEF Order, CreateRequest, ReviseRequest, Begin, Resolve, RollBack
<1>8. QED BY <1>2, <1>3, <1>4, <1>5, <1>6, <1>7, StepsAreCatalogs DEF Next, vars

LEMMA NamesInTransactions ==
    ASSUME TypeOK, PagesOK, NamesInv, [BuilderNext]_builderVars, NEW p \in Members
    PROVE  TransactionNamesOnce(transaction'[p])
<1>1. TransactionNamesOnce(transaction[p]) /\ NamesItemsOnce(page[p].cart)
      BY DEF NamesInv
<1>2. CASE transaction'[p] = transaction[p]
      BY <1>1, <1>2
<1>3. CASE transaction'[p] = None
      BY <1>3 DEF TransactionNamesOnce
<1>4. ASSUME NEW r \in Requests, Submit(p, r) PROVE TransactionNamesOnce(transaction'[p])
  <2>1. Begin(p, r, page[p].cart)
        BY <1>4 DEF Submit, CreateRequest, ReviseRequest
  <2>2. transaction'[p] = [request |-> r, todo |-> page[p].cart, lines |-> {}]
        BY <2>1, SMT DEF Begin, TypeOK
  <2>3. transaction'[p].todo = page[p].cart /\ transaction'[p].lines = {}
        BY <2>2
  <2>4. QED BY <1>1, <2>3 DEF TransactionNamesOnce, NamesItemsOnce
<1>5. ASSUME NEW q \in Members, NEW r \in Requests, Submit(q, r), q # p
      PROVE  transaction'[p] = transaction[p]
  <2>1. Begin(q, r, page[q].cart)
        BY <1>5 DEF Submit, CreateRequest, ReviseRequest
  <2>2. QED BY <1>5, <2>1, SMT DEF Begin, TypeOK
<1>6. ASSUME NEW q \in Members, NEW e \in Entries, Resolve(q, e)
      PROVE  TransactionNamesOnce(transaction'[p])
  <2>1. CASE p = q
        BY <1>1, <1>6, <2>1, NamesResolved
  <2>2. CASE p # q
    <3>1. transaction'[p] = transaction[p]
          BY <1>6, <2>2, SMT DEF Resolve, TypeOK
    <3>2. QED BY <1>2, <3>1
  <2>3. QED BY <2>1, <2>2
<1>7. ASSUME NEW q \in Members, Inserted(q) \/ RolledBack(q)
      PROVE  transaction'[p] = transaction[p] \/ transaction'[p] = None
      BY <1>7, SMT DEF Inserted, InsertRequest, RolledBack, RollBack, TypeOK
<1>8. ASSUME Maintain PROVE UNCHANGED transaction
      BY <1>8 DEF Maintain, CreateCategory, UpdateCategory, DeleteCategory, CreateSubcategory,
         UpdateSubcategory, DeleteSubcategory, DeleteItem, Edit, CheckItem, WriteItem, WriteFails
<1>9. ASSUME NEW q \in Members, Look(q) PROVE UNCHANGED transaction
      BY <1>9 DEF Look, OpenNew, Cancel, Reuse, ChooseCategory, ChooseSubcategory, Choose, Ask, Receive,
         LoadFails, ReceiveOld, AddCatalogItem, AddCustom, RemoveEntry, Show, vars
<1>10. ASSUME NEW r \in Requests, Process(r) PROVE UNCHANGED transaction
       BY <1>10 DEF Process
<1>11. ASSUME NEW q \in Members, Place(q) PROVE TransactionNamesOnce(transaction'[p])
       BY <1>2, <1>3, <1>4, <1>5, <1>7, <1>11 DEF Place
<1>12. CASE UNCHANGED builderVars
       BY <1>2, <1>12 DEF builderVars, vars
<1>13. QED BY <1>2, <1>6, <1>8, <1>9, <1>10, <1>11, <1>12 DEF BuilderNext

\* An item is in a cart once and in a request once. What makes it inductive: what an open
\* transaction has resolved and what it has not never name the same item.
THEOREM NamesCorrect == BuilderSpec => []ItemsAreNamedOnce
<1>1. BuilderInit => NamesInv
  <2> SUFFICES ASSUME BuilderInit PROVE NamesInv
      OBVIOUS
  <2>1. ASSUME NEW p \in Members PROVE page[p] = Closed /\ transaction[p] = None
        BY DEF BuilderInit, Init
  <2>2. ASSUME NEW r \in Requests PROVE request[r] = None
        BY DEF BuilderInit, Init
  <2>3. QED BY <2>1, <2>2, MountedFields
           DEF NamesInv, TransactionNamesOnce, RequestNamesOnce, NamesItemsOnce
<1>2. BuilderTypeOK /\ NamesInv /\ [BuilderNext]_builderVars => NamesInv'
  <2> SUFFICES ASSUME TypeOK, PagesOK, NamesInv, [BuilderNext]_builderVars PROVE NamesInv'
      BY DEF BuilderTypeOK, PagesOK
  <2>1. QED BY NamesInCart, NamesInTransactions, NamesInRequests DEF NamesInv
<1>3. NamesInv => ItemsAreNamedOnce
      BY DEF NamesInv, RequestNamesOnce, ItemsAreNamedOnce
<1>4. QED BY <1>1, <1>2, <1>3, BuilderTypes, PTL DEF BuilderSpec
=============================================================================
