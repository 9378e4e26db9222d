-------------------------- MODULE ProcurementProofs --------------------------
(***************************************************************************)
(* Proofs about Procurement, and about the pages of ProcurementDesk over    *)
(* it, for any set of requests, lines, accounts and pages.                  *)
(***************************************************************************)
EXTENDS ProcurementDesk, SequenceTheorems, TLAPS

----------------------------------------------------------------------------
(* Lemmas about the workflow table and the shared pieces *)

\* Every edge of the table, one by one.
LEMMA EdgeTable ==
    ASSUME NEW a \in TransitionActions, NEW s \in Statuses, MayFollow(a, s)
    PROVE  \/ a = "request_revision" /\ s = "submitted" /\ Edges[a][s] = "revision_requested"
           \/ a = "approve" /\ s = "submitted" /\ Edges[a][s] = "approved"
           \/ a = "reject" /\ s = "submitted" /\ Edges[a][s] = "rejected"
           \/ a = "start_purchase" /\ s = "approved" /\ Edges[a][s] = "purchasing"
           \/ a = "mark_purchased" /\ s = "purchasing" /\ Edges[a][s] = "purchased"
           \/ a = "mark_received" /\ s = "purchased" /\ Edges[a][s] = "received"
           \/ a = "close" /\ s = "received" /\ Edges[a][s] = "closed"
           \/ a = "cancel" /\ s = "submitted" /\ Edges[a][s] = "cancelled"
  BY DEF TransitionActions, Statuses, MayFollow, Edges

\* A logged row keeps the history a sequence of rows.
LEMMA LogType ==
    ASSUME TypeOK, NEW r \in Requests, NEW from \in Statuses,
           NEW to \in Statuses, NEW u \in Users, Log(r, from, to, u)
    PROVE  history' \in [Requests -> Seq(HistoryRows)]
  <1> DEFINE row == [from |-> from, to |-> to, actor |-> u]
  <1>1. row \in HistoryRows
    BY DEF HistoryRows
  <1>2. Append(history[r], row) \in Seq(HistoryRows)
    <2>1. history[r] \in Seq(HistoryRows)
      BY DEF TypeOK
    <2> HIDE DEF row
    <2>2. QED  BY <1>1, <2>1, AppendProperties
  <1>3. QED
    <2> HIDE DEF row
    <2>1. history' = [history EXCEPT ![r] = Append(history[r], row)]
      BY DEF Log, row
    <2>2. QED  BY <1>2, <2>1 DEF TypeOK

LEMMA NotifyType ==
    ASSUME TypeOK, NEW us, NEW key \in EventKeys, Notify(us, key)
    PROVE  inbox' \in [Users -> SUBSET Notifications]
  <1>1. key.request \in Requests
    BY DEF EventKeys
  <1>2. Len(history[key.request]) \in Nat
    BY <1>1, LenProperties DEF TypeOK
  <1>3. Notification(key) \in Notifications
    BY <1>2 DEF Notification, Notifications
  <1>4. QED  BY <1>3 DEF TypeOK, Notify

LEMMA KeyType ==
    ASSUME NEW r \in Requests, NEW e \in Statuses \cup {"resubmitted"}, NEW n \in Nat
    PROVE  EventKey(r, e, n) \in EventKeys
  BY DEF EventKey, EventKeys

LEMMA InsertLinesType ==
    ASSUME TypeOK, NEW r \in Requests, NEW S \in SUBSET Lines, InsertLines(r, S)
    PROVE  /\ issued' \subseteq Lines
           /\ linesOf' \in [Requests -> SUBSET issued']
           /\ lineStatus' \in [Lines -> LineStatuses]
  BY DEF TypeOK, InsertLines, LineStatuses

\* The inputs of a processing call.
LEMMA ItemsType ==
    ASSUME NEW items \in ItemInputs
    PROVE  /\ DOMAIN items \subseteq Lines
           /\ \A l \in DOMAIN items : items[l] \in LineStatuses
  BY DEF ItemInputs, ItemUpdates

LEMMA SpendingType ==
    ASSUME NEW spending \in SpendInputs
    PROVE  /\ spending.entries \subseteq Entries
           /\ TotalStandsAlone(spending.entries)
           /\ EntriesDisjoint(spending.entries)
  BY DEF SpendInputs, EntrySets, TotalStandsAlone, EntriesDisjoint

LEMMA ProcessingType ==
    ASSUME TypeOK, NEW r \in Requests, NEW items \in ItemInputs,
           NEW spending \in SpendInputs, ApplyProcessing(r, items, spending)
    PROVE  /\ issued' \subseteq Lines
           /\ linesOf' \in [Requests -> SUBSET issued']
           /\ lineStatus' \in [Lines -> LineStatuses]
           /\ spend' \in [Requests -> SUBSET Entries]
  <1>1. lineStatus' \in [Lines -> LineStatuses]
    BY ItemsType DEF TypeOK, ApplyProcessing, Updated
  <1>2. spend' \in [Requests -> SUBSET Entries]
    BY SpendingType DEF TypeOK, ApplyProcessing, Replaced
  <1>3. QED  BY <1>1, <1>2 DEF TypeOK, ApplyProcessing

----------------------------------------------------------------------------
(* Type correctness *)

\* A successful processing call keeps the types, whatever follows it.
LEMMA FinishType ==
    ASSUME TypeOK, NEW r \in Requests, NEW u \in Users, FinishProcessing(r, u)
    PROVE  /\ status' \in [Requests -> Statuses]
           /\ requester' \in [Requests -> MaybeUser]
           /\ reviewedBy' \in [Requests -> MaybeUser]
           /\ purchasedBy' \in [Requests -> MaybeUser]
           /\ history' \in [Requests -> Seq(HistoryRows)]
           /\ inbox' \in [Users -> SUBSET Notifications]
  <1> DEFINE next == Outcome(r, lineStatus')
  <1>1. next \in Statuses
    BY DEF Outcome, Statuses
  <1>2. /\ status' = [status EXCEPT ![r] = next]
        /\ purchasedBy' = [purchasedBy EXCEPT ![r] = u]
        /\ Log(r, status[r], next, u)
        /\ Notify({requester[r]}, EventKey(r, next, 0))
        /\ UNCHANGED <<requester, reviewedBy>>
    BY DEF FinishProcessing
  <1>3. EventKey(r, next, 0) \in EventKeys
    BY <1>1, KeyType
  <1> HIDE DEF next
  <1>4. inbox' \in [Users -> SUBSET Notifications]
    BY <1>2, <1>3, NotifyType
  <1>5. history' \in [Requests -> Seq(HistoryRows)]
    BY <1>1, <1>2, LogType DEF TypeOK
  <1>6. QED  BY <1>1, <1>2, <1>4, <1>5 DEF TypeOK, MaybeUser

LEMMA TypeStep ==
    ASSUME TypeOK, [Next]_vars
    PROVE  TypeOK'
  <1>1. ASSUME NEW r \in Requests, NEW u \in Users, NEW S \in SUBSET Lines,
               CreateRequest(r, u, S)
        PROVE  TypeOK'
    <2>1. history' \in [Requests -> Seq(HistoryRows)]
      BY <1>1, LogType DEF CreateRequest, Statuses
    <2>2. inbox' \in [Users -> SUBSET Notifications]
      BY <1>1, NotifyType, KeyType DEF CreateRequest, Statuses
    <2>3. QED
      BY <1>1, <2>1, <2>2, InsertLinesType DEF CreateRequest, TypeOK, Statuses, MaybeUser
  <1>2. ASSUME NEW r \in Requests, NEW u \in Users, NEW S \in SUBSET Lines,
               ReviseRequest(r, u, S)
        PROVE  TypeOK'
    <2>1. history' \in [Requests -> Seq(HistoryRows)]
      BY <1>2, LogType DEF ReviseRequest, Statuses
    <2>2. Len(history[r]) \in Nat
      BY LenProperties DEF TypeOK
    <2>3. inbox' \in [Users -> SUBSET Notifications]
      BY <1>2, <2>2, NotifyType, KeyType DEF ReviseRequest
    <2>4. QED
      BY <1>2, <2>1, <2>3, InsertLinesType
         DEF ReviseRequest, ClearReview, TypeOK, Statuses, MaybeUser
  <1>3. ASSUME NEW r \in Requests, NEW u \in Users, NEW items \in ItemInputs,
               NEW spending \in SpendInputs, SaveProcessing(r, u, items, spending)
        PROVE  TypeOK'
    <2>1. /\ issued' \subseteq Lines
          /\ linesOf' \in [Requests -> SUBSET issued']
          /\ lineStatus' \in [Lines -> LineStatuses]
          /\ spend' \in [Requests -> SUBSET Entries]
      BY <1>3, ProcessingType DEF SaveProcessing
    <2>2. CASE StartsBuying(status[r])
      <3>1. Log(r, status[r], "purchasing", u)
        BY <1>3, <2>2 DEF SaveProcessing
      <3>2. status[r] \in Statuses /\ "purchasing" \in Statuses
        BY DEF TypeOK, Statuses
      <3>3. history' \in [Requests -> Seq(HistoryRows)]
        BY <3>1, <3>2, LogType
      <3>4. QED
        BY <1>3, <2>1, <2>2, <3>3 DEF SaveProcessing, TypeOK, Statuses, MaybeUser
    <2>3. CASE ~StartsBuying(status[r])
      BY <1>3, <2>1, <2>3 DEF SaveProcessing, TypeOK
    <2>4. QED  BY <2>2, <2>3
  <1>4. ASSUME NEW r \in Requests, NEW u \in Users, NEW items \in ItemInputs,
               NEW spending \in SpendInputs, CompleteWithInput(r, u, items, spending)
        PROVE  TypeOK'
    <2>1. ApplyProcessing(r, items, spending) /\ FinishProcessing(r, u)
      BY <1>4 DEF CompleteWithInput
    <2>2. QED  BY <2>1, ProcessingType, FinishType DEF TypeOK
  <1>5. ASSUME NEW r \in Requests, NEW u \in Users, CompleteAsSaved(r, u)
        PROVE  TypeOK'
    <2>1. FinishProcessing(r, u) /\ UNCHANGED ledger
      BY <1>5 DEF CompleteAsSaved
    <2>2. QED  BY <2>1, FinishType DEF TypeOK, ledger
  <1>6. ASSUME NEW r \in Requests, NEW u \in Users, ConfirmReceived(r, u)
        PROVE  TypeOK'
    <2>1. history' \in [Requests -> Seq(HistoryRows)]
      BY <1>6, LogType DEF ConfirmReceived, Statuses
    <2>2. inbox' \in [Users -> SUBSET Notifications]
      BY <1>6, NotifyType, KeyType DEF ConfirmReceived, Statuses
    <2>3. QED
      BY <1>6, <2>1, <2>2 DEF ConfirmReceived, TypeOK, Statuses, stamps, ledger
  <1>7. ASSUME NEW r \in Requests, NEW u \in Users, NEW a \in TransitionActions,
               Transition(r, u, a)
        PROVE  TypeOK'
    <2> DEFINE next == Edges[a][status[r]]
    <2>1. next \in Statuses
      BY <1>7, EdgeTable DEF Transition, TypeOK, Statuses
    <2>2. /\ status' = [status EXCEPT ![r] = next]
          /\ reviewedBy' \in {reviewedBy, [reviewedBy EXCEPT ![r] = u]}
          /\ purchasedBy' \in {purchasedBy, [purchasedBy EXCEPT ![r] = u]}
          /\ Log(r, status[r], next, u)
          /\ Notify({requester[r]}, EventKey(r, next, 0))
          /\ UNCHANGED <<requester, ledger>>
      BY <1>7 DEF Transition
    <2>3. EventKey(r, next, 0) \in EventKeys
      BY <2>1, KeyType
    <2> HIDE DEF next
    <2>4. inbox' \in [Users -> SUBSET Notifications]
      BY <2>2, <2>3, NotifyType
    <2>5. history' \in [Requests -> Seq(HistoryRows)]
      BY <2>1, <2>2, LogType DEF TypeOK
    <2>6. QED  BY <2>1, <2>2, <2>4, <2>5 DEF TypeOK, MaybeUser, ledger
  <1>8. CASE UNCHANGED vars
    BY <1>8 DEF vars, stamps, ledger, TypeOK
  <1>9. QED
    BY <1>1, <1>2, <1>3, <1>4, <1>5, <1>6, <1>7, <1>8 DEF Next, Process, Complete

\* Every reachable state is well typed.
THEOREM TypeCorrect == Spec => []TypeOK
  <1>1. Init => TypeOK
    BY DEF Init, TypeOK, Statuses, MaybeUser, LineStatuses
  <1>2. TypeOK /\ [Next]_vars => TypeOK'
    BY TypeStep
  <1>3. QED  BY <1>1, <1>2, PTL DEF Spec

----------------------------------------------------------------------------
(* The shapes a step can have, seen from the status, the ledger and the history *)

\* New lines for a request that is new or back for revision.
Drafting(r, u, S) ==
    /\ status[r] \in {"draft", "revision_requested"}
    /\ InsertLines(r, S)
    /\ status' = [status EXCEPT ![r] = "submitted"]
    /\ Log(r, status[r], "submitted", u)
    /\ spend' = spend

\* An edit of the book that moves the request to next.
Editing(r, u, items, spending, next) ==
    /\ ApplyProcessing(r, items, spending)
    /\ status' = [status EXCEPT ![r] = next]
    /\ Log(r, status[r], next, u)

\* An edit of the book of a request already being bought.
Saving(r, items, spending) ==
    /\ status[r] = "purchasing"
    /\ ApplyProcessing(r, items, spending)
    /\ UNCHANGED <<status, history>>

\* What completing requires of the line statuses it leaves.
ClosesRejected(r, next) ==
    next = "closed" => \A l \in linesOf[r] : lineStatus'[l] = "rejected"

\* A change of status that leaves the book alone.
Moving(r, u, next) ==
    /\ UNCHANGED ledger
    /\ status' = [status EXCEPT ![r] = next]
    /\ Log(r, status[r], next, u)

\* The pairs of statuses such a change may join.
MovePairs ==
    {<<"submitted", "revision_requested">>, <<"submitted", "approved">>,
     <<"submitted", "rejected">>, <<"approved", "purchasing">>,
     <<"purchasing", "purchased">>, <<"purchased", "received">>,
     <<"received", "closed">>, <<"submitted", "cancelled">>}

Shape ==
    \/ \E r \in Requests, u \in Users, S \in SUBSET Lines : Drafting(r, u, S)
    \/ \E r \in Requests, u \in Users, items \in ItemInputs, spending \in SpendInputs,
          next \in {"purchasing", "purchased", "closed"} :
              /\ Editing(r, u, items, spending, next)
              /\ ClosesRejected(r, next)
    \/ \E r \in Requests, items \in ItemInputs, spending \in SpendInputs :
              Saving(r, items, spending)
    \/ \E r \in Requests, u \in Users, next \in {"purchased", "closed"} :
              /\ status[r] \in ProcessableStatuses
              /\ Moving(r, u, next)
              /\ ClosesRejected(r, next)
    \/ \E r \in Requests, u \in Users, next \in Statuses :
              /\ <<status[r], next>> \in MovePairs
              /\ Moving(r, u, next)
    \/ UNCHANGED <<status, ledger, history>>

LEMMA FinishShape ==
    ASSUME TypeOK, TypeOK', NEW r \in Requests, NEW u \in Users,
           FinishProcessing(r, u)
    PROVE  \E next \in {"purchased", "closed"} :
              /\ status' = [status EXCEPT ![r] = next]
              /\ Log(r, status[r], next, u)
              /\ ClosesRejected(r, next)
  <1> DEFINE next == Outcome(r, lineStatus')
  <1>1. next \in {"purchased", "closed"}
    BY DEF Outcome
  <1>2. ClosesRejected(r, next)
    BY DEF ClosesRejected, FinishProcessing, AllSettled, Outcome, TypeOK, LineStatuses
  <1>3. status' = [status EXCEPT ![r] = next] /\ Log(r, status[r], next, u)
    BY DEF FinishProcessing
  <1>4. QED  BY <1>1, <1>2, <1>3

LEMMA StepShape ==
    ASSUME TypeOK, TypeOK', [Next]_vars
    PROVE  Shape
  <1>1. ASSUME NEW r \in Requests, NEW u \in Users, NEW S \in SUBSET Lines,
               CreateRequest(r, u, S)
        PROVE  Shape
    <2>1. Drafting(r, u, S)
      BY <1>1 DEF CreateRequest, Drafting
    <2>2. QED  BY <2>1 DEF Shape
  <1>2. ASSUME NEW r \in Requests, NEW u \in Users, NEW S \in SUBSET Lines,
               ReviseRequest(r, u, S)
        PROVE  Shape
    <2>1. Drafting(r, u, S)
      BY <1>2 DEF ReviseRequest, Drafting
    <2>2. QED  BY <2>1 DEF Shape
  <1>3. ASSUME NEW r \in Requests, NEW u \in Users, NEW items \in ItemInputs,
               NEW spending \in SpendInputs, SaveProcessing(r, u, items, spending)
        PROVE  Shape
    <2>1. ApplyProcessing(r, items, spending)
      BY <1>3 DEF SaveProcessing
    <2>2. CASE StartsBuying(status[r])
      <3>1. Editing(r, u, items, spending, "purchasing")
        BY <1>3, <2>1, <2>2 DEF SaveProcessing, Editing
      <3>2. ClosesRejected(r, "purchasing")
        BY DEF ClosesRejected
      <3>3. QED  BY <3>1, <3>2 DEF Shape
    <2>3. CASE ~StartsBuying(status[r])
      <3>1. status[r] = "purchasing"
        BY <2>1, <2>3 DEF ApplyProcessing, ProcessableStatuses, StartsBuying
      <3>2. Saving(r, items, spending)
        BY <1>3, <2>1, <2>3, <3>1 DEF SaveProcessing, Saving
      <3>3. QED  BY <3>2 DEF Shape
    <2>4. QED  BY <2>2, <2>3
  <1>4. ASSUME NEW r \in Requests, NEW u \in Users, NEW items \in ItemInputs,
               NEW spending \in SpendInputs, CompleteWithInput(r, u, items, spending)
        PROVE  Shape
    <2>1. ApplyProcessing(r, items, spending) /\ FinishProcessing(r, u)
      BY <1>4 DEF CompleteWithInput
    <2>2. PICK next \in {"purchased", "closed"} :
              /\ status' = [status EXCEPT ![r] = next]
              /\ Log(r, status[r], next, u)
              /\ ClosesRejected(r, next)
      BY <2>1, FinishShape
    <2>3. Editing(r, u, items, spending, next)
      BY <2>1, <2>2 DEF Editing
    <2>4. QED  BY <2>2, <2>3 DEF Shape
  <1>5. ASSUME NEW r \in Requests, NEW u \in Users, CompleteAsSaved(r, u)
        PROVE  Shape
    <2>1. /\ status[r] \in ProcessableStatuses
          /\ UNCHANGED ledger /\ FinishProcessing(r, u)
      BY <1>5 DEF CompleteAsSaved
    <2>2. PICK next \in {"purchased", "closed"} :
              /\ status' = [status EXCEPT ![r] = next]
              /\ Log(r, status[r], next, u)
              /\ ClosesRejected(r, next)
      BY <2>1, FinishShape
    <2>3. Moving(r, u, next)
      BY <2>1, <2>2 DEF Moving
    <2>4. QED  BY <2>1, <2>2, <2>3 DEF Shape
  <1>6. ASSUME NEW r \in Requests, NEW u \in Users, ConfirmReceived(r, u)
        PROVE  Shape
    <2>1. Moving(r, u, "received")
      BY <1>6 DEF ConfirmReceived, Moving
    <2>2. <<status[r], "received">> \in MovePairs
      BY <1>6 DEF ConfirmReceived, MovePairs
    <2>3. QED  BY <2>1, <2>2 DEF Shape, Statuses
  <1>7. ASSUME NEW r \in Requests, NEW u \in Users, NEW a \in TransitionActions,
               Transition(r, u, a)
        PROVE  Shape
    <2> DEFINE next == Edges[a][status[r]]
    <2>1. MayFollow(a, status[r]) /\ Moving(r, u, next)
      BY <1>7 DEF Transition, Moving
    <2>2. status[r] \in Statuses
      BY DEF TypeOK
    <2>3. next \in Statuses /\ <<status[r], next>> \in MovePairs
      BY <2>1, <2>2, EdgeTable DEF MovePairs, Statuses
    <2> HIDE DEF next
    <2>4. QED  BY <2>1, <2>3 DEF Shape
  <1>8. CASE UNCHANGED vars
    BY <1>8 DEF vars, Shape
  <1>9. QED
    BY <1>1, <1>2, <1>3, <1>4, <1>5, <1>6, <1>7, <1>8 DEF Next, Process, Complete

----------------------------------------------------------------------------
(* The ledger *)

\* The inductive invariant of the ledger.  Neither part stands alone: a
\* revision keeps the ledger well formed only because the book it drops is
\* blank, and a save keeps another request's book blank only because requests
\* share no line.
LedgerInv == TypeOK /\ LedgerWellFormed /\ BlankBookInReview

\* A processing call on r leaves the lines of every other request alone.
LEMMA OthersUntouched ==
    ASSUME TypeOK, LedgerWellFormed, NEW r \in Requests, NEW items \in ItemInputs,
           NEW spending \in SpendInputs, ApplyProcessing(r, items, spending),
           NEW q \in Requests \ {r}
    PROVE  /\ spend'[q] = spend[q]
           /\ linesOf'[q] = linesOf[q]
           /\ \A l \in linesOf[q] : lineStatus'[l] = lineStatus[l]
  <1>1. spend'[q] = spend[q]
    BY DEF ApplyProcessing, Replaced, TypeOK
  <1>2. linesOf' = linesOf /\ lineStatus' = Updated(items) /\ DOMAIN items \subseteq linesOf[r]
    BY DEF ApplyProcessing, ItemsBelong
  <1>3. linesOf[q] \cap linesOf[r] = {} /\ linesOf[q] \subseteq Lines
    BY DEF LedgerWellFormed, TypeOK
  <1>4. ASSUME NEW l \in linesOf[q]
        PROVE  lineStatus'[l] = lineStatus[l]
    <2>1. l \in Lines /\ l \notin DOMAIN items
      BY <1>2, <1>3
    <2>2. QED  BY <1>2, <2>1 DEF Updated
  <1>5. QED  BY <1>1, <1>2, <1>4

\* New lines for r are nobody else's.
LEMMA InsertedApart ==
    ASSUME TypeOK, NEW r \in Requests, NEW S \in SUBSET Lines, InsertLines(r, S),
           NEW q \in Requests \ {r}
    PROVE  /\ linesOf'[q] = linesOf[q]
           /\ linesOf[q] \cap S = {}
           /\ \A l \in linesOf[q] : lineStatus'[l] = lineStatus[l]
  BY DEF TypeOK, InsertLines

\* After a processing call the ledger of r is well formed.
LEMMA ProcessedLedger ==
    ASSUME TypeOK, LedgerWellFormed, NEW r \in Requests, NEW items \in ItemInputs,
           NEW spending \in SpendInputs, ApplyProcessing(r, items, spending)
    PROVE  LedgerWellFormed'
  <1>1. linesOf' = linesOf
    BY DEF ApplyProcessing
  <1>2. /\ \A e \in spend'[r] : e.lines \subseteq linesOf[r]
        /\ TotalStandsAlone(spend'[r]) /\ EntriesDisjoint(spend'[r])
    <2>1. CASE spending.given
      <3>1. spend'[r] = spending.entries
        BY <2>1 DEF ApplyProcessing, Replaced, TypeOK
      <3>2. \A e \in spending.entries : e.lines \subseteq linesOf[r]
        BY DEF ApplyProcessing, EntriesOnPurchased, ItemsBelong
      <3>3. QED  BY <3>1, <3>2, SpendingType
    <2>2. CASE ~spending.given
      BY <2>2 DEF ApplyProcessing, Replaced, LedgerWellFormed
    <2>3. QED  BY <2>1, <2>2
  <1>3. \A q \in Requests \ {r} : spend'[q] = spend[q]
    BY OthersUntouched
  <1>4. QED
    <2>1. ASSUME NEW q \in Requests
          PROVE  /\ \A p \in Requests \ {q} : linesOf'[p] \cap linesOf'[q] = {}
                 /\ \A e \in spend'[q] : e.lines \subseteq linesOf'[q]
                 /\ TotalStandsAlone(spend'[q]) /\ EntriesDisjoint(spend'[q])
      <3>1. CASE q = r
        BY <1>1, <1>2, <3>1 DEF LedgerWellFormed
      <3>2. CASE q # r
        BY <1>1, <1>3, <3>2 DEF LedgerWellFormed
      <3>3. QED  BY <3>1, <3>2
    <2>2. QED  BY <2>1 DEF LedgerWellFormed, TotalStandsAlone, EntriesDisjoint

\* After a processing call that leaves review, blank books stay blank.
LEMMA ProcessedBlank ==
    ASSUME LedgerInv, NEW r \in Requests, NEW items \in ItemInputs,
           NEW spending \in SpendInputs, ApplyProcessing(r, items, spending),
           status'[r] \notin ReviewPhase,
           \A q \in Requests \ {r} : status'[q] = status[q]
    PROVE  BlankBookInReview'
  <1>1. ASSUME NEW q \in Requests, status'[q] \in ReviewPhase
        PROVE  /\ spend'[q] = {}
               /\ \A l \in linesOf'[q] : lineStatus'[l] = "pending"
    <2>1. q \in Requests \ {r} /\ status[q] \in ReviewPhase
      BY <1>1
    <2>2. /\ spend'[q] = spend[q] /\ linesOf'[q] = linesOf[q]
          /\ \A l \in linesOf[q] : lineStatus'[l] = lineStatus[l]
      BY <2>1, OthersUntouched DEF LedgerInv
    <2>3. QED  BY <2>1, <2>2 DEF LedgerInv, BlankBookInReview
  <1>2. QED  BY <1>1 DEF BlankBookInReview

LEMMA LedgerStep ==
    ASSUME LedgerInv, TypeOK', Shape
    PROVE  LedgerInv'
  <1> USE DEF LedgerInv
  <1>1. ASSUME NEW r \in Requests, NEW u \in Users, NEW S \in SUBSET Lines,
               Drafting(r, u, S)
        PROVE  LedgerInv'
    <2>1. /\ InsertLines(r, S) /\ spend' = spend /\ spend[r] = {}
          /\ \A q \in Requests \ {r} : status'[q] = status[q]
      BY <1>1 DEF Drafting, BlankBookInReview, ReviewPhase, TypeOK
    <2>2. linesOf'[r] = S /\ \A l \in S : lineStatus'[l] = "pending"
      BY <2>1 DEF InsertLines, TypeOK
    <2>3. \A q \in Requests \ {r} :
             /\ linesOf'[q] = linesOf[q] /\ linesOf[q] \cap S = {}
             /\ \A l \in linesOf[q] : lineStatus'[l] = lineStatus[l]
      BY <2>1, InsertedApart
    <2>4. ASSUME NEW q \in Requests
          PROVE  /\ \A p \in Requests \ {q} : linesOf'[p] \cap linesOf'[q] = {}
                 /\ \A e \in spend'[q] : e.lines \subseteq linesOf'[q]
                 /\ TotalStandsAlone(spend'[q]) /\ EntriesDisjoint(spend'[q])
      <3>1. CASE q = r
        BY <2>1, <2>2, <2>3, <3>1 DEF TotalStandsAlone, EntriesDisjoint
      <3>2. CASE q # r
        BY <2>1, <2>2, <2>3, <3>2 DEF LedgerWellFormed
      <3>3. QED  BY <3>1, <3>2
    <2>5. LedgerWellFormed'
      BY <2>4 DEF LedgerWellFormed, TotalStandsAlone, EntriesDisjoint
    <2>6. BlankBookInReview'
      BY <2>1, <2>2, <2>3 DEF BlankBookInReview
    <2>7. QED  BY <2>5, <2>6
  <1>2. ASSUME NEW r \in Requests, NEW u \in Users, NEW items \in ItemInputs,
               NEW spending \in SpendInputs,
               NEW next \in {"purchasing", "purchased", "closed"},
               Editing(r, u, items, spending, next)
        PROVE  LedgerInv'
    <2>1. /\ ApplyProcessing(r, items, spending)
          /\ status'[r] = next /\ \A q \in Requests \ {r} : status'[q] = status[q]
      BY <1>2 DEF Editing, TypeOK
    <2>2. status'[r] \notin ReviewPhase
      BY <2>1 DEF ReviewPhase
    <2>3. QED  BY <2>1, <2>2, ProcessedLedger, ProcessedBlank
  <1>3. ASSUME NEW r \in Requests, NEW items \in ItemInputs,
               NEW spending \in SpendInputs, Saving(r, items, spending)
        PROVE  LedgerInv'
    <2>1. /\ ApplyProcessing(r, items, spending)
          /\ status' = status /\ status'[r] \notin ReviewPhase
      BY <1>3 DEF Saving, ReviewPhase
    <2>2. QED  BY <2>1, ProcessedLedger, ProcessedBlank
  <1>4. ASSUME NEW r \in Requests, NEW u \in Users, NEW next \in Statuses,
               Moving(r, u, next), next \in ReviewPhase => status[r] \in ReviewPhase
        PROVE  LedgerInv'
    <2>1. UNCHANGED ledger /\ \A q \in Requests : status'[q] \in ReviewPhase => status[q] \in ReviewPhase
      BY <1>4 DEF Moving, TypeOK
    <2>2. BlankBookInReview'
      BY <2>1 DEF BlankBookInReview, ledger
    <2>3. LedgerWellFormed'
      BY <2>1 DEF LedgerWellFormed, ledger, TotalStandsAlone, EntriesDisjoint
    <2>4. QED  BY <2>2, <2>3
  <1>5. CASE UNCHANGED <<status, ledger, history>>
    BY <1>5 DEF BlankBookInReview, LedgerWellFormed, ledger, TotalStandsAlone, EntriesDisjoint
  <1>6. ASSUME NEW r \in Requests, NEW next \in Statuses, <<status[r], next>> \in MovePairs
        PROVE  next \in ReviewPhase => status[r] \in ReviewPhase
    BY <1>6 DEF MovePairs, ReviewPhase
  <1>7. "purchased" \in Statuses /\ "closed" \in Statuses
        /\ "purchased" \notin ReviewPhase /\ "closed" \notin ReviewPhase
    BY DEF Statuses, ReviewPhase
  <1>8. QED  BY <1>1, <1>2, <1>3, <1>4, <1>5, <1>6, <1>7 DEF Shape

\* In every reachable state the ledger is well formed and blank in review.
THEOREM LedgerCorrect == Spec => [](LedgerWellFormed /\ BlankBookInReview)
  <1>1. Init => LedgerInv
    BY DEF Init, LedgerInv, TypeOK, Statuses, MaybeUser, LineStatuses,
           LedgerWellFormed, BlankBookInReview, TotalStandsAlone, EntriesDisjoint
  <1>2. LedgerInv /\ [Next]_vars => LedgerInv'
    BY TypeStep, StepShape, LedgerStep DEF LedgerInv
  <1>3. LedgerInv => LedgerWellFormed /\ BlankBookInReview
    BY DEF LedgerInv
  <1>4. QED  BY <1>1, <1>2, <1>3, PTL DEF Spec

----------------------------------------------------------------------------
(* The history *)

\* What one INSERT into the history does.
LEMMA LogFacts ==
    ASSUME TypeOK, NEW r \in Requests, NEW from \in Statuses, NEW to \in Statuses,
           NEW u \in Users, Log(r, from, to, u)
    PROVE  /\ \A q \in Requests \ {r} : history'[q] = history[q]
           /\ Len(history[r]) \in Nat
           /\ DOMAIN history[r] = 1..Len(history[r])
           /\ history'[r] # <<>>
           /\ Len(history'[r]) = Len(history[r]) + 1
           /\ DOMAIN history'[r] = 1..(Len(history[r]) + 1)
           /\ \A i \in 1..Len(history[r]) : history'[r][i] = history[r][i]
           /\ history'[r][Len(history[r]) + 1] = [from |-> from, to |-> to, actor |-> u]
  <1> DEFINE row == [from |-> from, to |-> to, actor |-> u]
  <1>1. row \in HistoryRows
    BY DEF HistoryRows
  <1>2. history[r] \in Seq(HistoryRows)
    BY DEF TypeOK
  <1>3. history' = [history EXCEPT ![r] = Append(history[r], row)]
    BY DEF Log
  <1> HIDE DEF row
  <1>4. history'[r] = Append(history[r], row) /\ \A q \in Requests \ {r} : history'[q] = history[q]
    BY <1>3 DEF TypeOK
  <1>5. Append(history[r], row) \in Seq(HistoryRows)
    BY <1>1, <1>2, AppendProperties
  <1>6. QED
    BY <1>1, <1>2, <1>4, <1>5, AppendProperties, LenProperties DEF row

\* The same, of a single row: where it goes and which status it names.
LEMMA LogGrows ==
    ASSUME TypeOK, NEW r \in Requests, NEW from \in Statuses, NEW to \in Statuses,
           NEW u \in Users, Log(r, from, to, u)
    PROVE  /\ \A q \in Requests \ {r} : history'[q] = history[q]
           /\ Len(history[r]) \in Nat
           /\ DOMAIN history[r] = 1..Len(history[r])
           /\ DOMAIN history'[r] = 1..(Len(history[r]) + 1)
           /\ \A i \in 1..Len(history[r]) : history'[r][i] = history[r][i]
           /\ history'[r][Len(history[r]) + 1].to = to
  <1>1. history'[r][Len(history[r]) + 1] = [from |-> from, to |-> to, actor |-> u]
    BY LogFacts
  <1>2. history'[r][Len(history[r]) + 1].to = to
    BY <1>1
  <1>3. QED  BY <1>2, LogFacts

\* A status change logged from the status it leaves extends the chain.
LEMMA ChainStep ==
    ASSUME TypeOK, HistoryChains, NEW r \in Requests, NEW u \in Users,
           NEW to \in Statuses \ {"draft"}, Log(r, status[r], to, u),
           status' = [status EXCEPT ![r] = to]
    PROVE  HistoryChains'
  <1> DEFINE n == Len(history[r])
  <1>1. status[r] \in Statuses
    BY DEF TypeOK
  <1>2. /\ \A q \in Requests \ {r} : history'[q] = history[q]
        /\ n \in Nat
        /\ history'[r] # <<>>
        /\ Len(history'[r]) = n + 1
        /\ \A i \in 1..n : history'[r][i] = history[r][i]
        /\ history'[r][n + 1] = [from |-> status[r], to |-> to, actor |-> u]
    BY <1>1, LogFacts
  <1>3. history[r] = <<>> <=> n = 0
    BY EmptySeq DEF TypeOK
  <1>4. status'[r] = to /\ \A q \in Requests \ {r} : status'[q] = status[q]
    BY DEF TypeOK
  <1>5. history'[r][1].from = "draft" /\ history'[r][n + 1].to = to
    <2>1. CASE n = 0
      BY <1>2, <1>3, <2>1 DEF HistoryChains
    <2>2. CASE n # 0
      BY <1>2, <1>3, <2>2 DEF HistoryChains
    <2>3. QED  BY <2>1, <2>2
  <1>6. ASSUME NEW i \in 1..n
        PROVE  history'[r][i].to = history'[r][i + 1].from
    <2>1. CASE i = n
      BY <1>2, <1>3, <2>1 DEF HistoryChains
    <2>2. CASE i # n
      <3>1. i \in 1..n - 1 /\ i + 1 \in 1..n
        BY <1>2, <2>2
      <3>2. history[r][i].to = history[r][i + 1].from
        BY <3>1 DEF HistoryChains
      <3>3. history'[r][i] = history[r][i] /\ history'[r][i + 1] = history[r][i + 1]
        BY <1>2, <3>1
      <3>4. QED  BY <3>2, <3>3
    <2>3. QED  BY <2>1, <2>2
  <1> HIDE DEF n
  <1>7. ASSUME NEW q \in Requests
        PROVE  /\ history'[q] = <<>> <=> status'[q] = "draft"
               /\ history'[q] # <<>> => /\ history'[q][1].from = "draft"
                                        /\ history'[q][Len(history'[q])].to = status'[q]
               /\ \A i \in 1..Len(history'[q]) - 1 :
                     history'[q][i].to = history'[q][i + 1].from
    <2>1. CASE q = r
      BY <1>2, <1>4, <1>5, <1>6, <2>1
    <2>2. CASE q # r
      BY <1>2, <1>4, <2>2 DEF HistoryChains
    <2>3. QED  BY <2>1, <2>2
  <1>8. QED  BY <1>7 DEF HistoryChains

LEMMA HistoryStep ==
    ASSUME TypeOK, HistoryChains, Shape
    PROVE  HistoryChains'
  <1>1. ASSUME NEW r \in Requests, NEW u \in Users, NEW S \in SUBSET Lines,
               Drafting(r, u, S)
        PROVE  HistoryChains'
    BY <1>1, ChainStep DEF Drafting, Statuses
  <1>2. ASSUME NEW r \in Requests, NEW u \in Users, NEW items \in ItemInputs,
               NEW spending \in SpendInputs,
               NEW next \in {"purchasing", "purchased", "closed"},
               Editing(r, u, items, spending, next)
        PROVE  HistoryChains'
    <2>1. next \in Statuses \ {"draft"}
      BY DEF Statuses
    <2>2. QED  BY <1>2, <2>1, ChainStep DEF Editing
  <1>3. ASSUME NEW r \in Requests, NEW u \in Users, NEW next \in Statuses \ {"draft"},
               Moving(r, u, next)
        PROVE  HistoryChains'
    BY <1>3, ChainStep DEF Moving
  <1>4. CASE UNCHANGED <<status, history>>
    BY <1>4 DEF HistoryChains
  <1>5. {"purchased", "closed"} \subseteq Statuses \ {"draft"}
    BY DEF Statuses
  <1>6. \A s \in Statuses, next \in Statuses : <<s, next>> \in MovePairs => next # "draft"
    BY DEF MovePairs
  <1>7. \A r \in Requests : status[r] \in Statuses
    BY DEF TypeOK
  <1>8. QED  BY <1>1, <1>2, <1>3, <1>4, <1>5, <1>6, <1>7 DEF Shape, Saving

\* In every reachable state the history retells the request's life.
THEOREM HistoryCorrect == Spec => []HistoryChains
  <1>1. Init => TypeOK /\ HistoryChains
    BY DEF Init, TypeOK, Statuses, MaybeUser, LineStatuses, HistoryChains
  <1>2. TypeOK /\ HistoryChains /\ [Next]_vars => (TypeOK /\ HistoryChains)'
    BY TypeStep, StepShape, HistoryStep
  <1>3. QED  BY <1>1, <1>2, PTL DEF Spec

----------------------------------------------------------------------------
(* What a step does to the books, and what follows from it *)

LEMMA SameBook ==
    ASSUME NEW q \in Requests, spend'[q] = spend[q], linesOf'[q] = linesOf[q],
           \A l \in linesOf[q] : lineStatus'[l] = lineStatus[l]
    PROVE  Book(q)' = Book(q)
  BY DEF Book

\* The book after a step is one of Books.
LEMMA BookType ==
    ASSUME TypeOK', NEW r \in Requests
    PROVE  Book(r)' \in Books
  <1>1. linesOf'[r] \in SUBSET Lines /\ spend'[r] \in SUBSET Entries
    BY DEF TypeOK
  <1>2. [l \in linesOf'[r] |-> lineStatus'[l]] \in [linesOf'[r] -> LineStatuses]
    BY DEF TypeOK
  <1>3. QED  BY <1>1, <1>2 DEF Book, Books

\* One request drafts, edits or moves; every other keeps its status and book.
BookStep(r) ==
    /\ \A q \in Requests \ {r} : status'[q] = status[q] /\ Book(q)' = Book(q)
    /\ \/ /\ status[r] \in {"draft", "revision_requested"}
          /\ status'[r] = "submitted"
          /\ Book(r)' \in BlankBooks
       \/ /\ status[r] \in ProcessableStatuses
          /\ status'[r] \in {"purchasing", "purchased", "closed"}
       \/ <<status[r], status'[r]>> \in MovePairs /\ Book(r)' = Book(r)

LEMMA BookShape ==
    ASSUME LedgerInv, LedgerInv', Shape
    PROVE  \/ \E r \in Requests : BookStep(r)
           \/ \A q \in Requests : status'[q] = status[q] /\ Book(q)' = Book(q)
  <1> USE DEF LedgerInv
  <1>1. ASSUME NEW r \in Requests, NEW u \in Users, NEW S \in SUBSET Lines,
               Drafting(r, u, S)
        PROVE  BookStep(r)
    <2>1. /\ status[r] \in {"draft", "revision_requested"} /\ status'[r] = "submitted"
          /\ \A q \in Requests \ {r} : status'[q] = status[q] /\ spend'[q] = spend[q]
          /\ InsertLines(r, S)
      BY <1>1 DEF Drafting, TypeOK
    <2>2. \A q \in Requests \ {r} : Book(q)' = Book(q)
      BY <2>1, InsertedApart, SameBook
    <2>3. spend'[r] = {} /\ \A l \in linesOf'[r] : lineStatus'[l] = "pending"
      BY <2>1 DEF BlankBookInReview, ReviewPhase
    <2>4. Book(r)' \in BlankBooks
      <3>1. linesOf'[r] \in SUBSET Lines
        BY DEF TypeOK
      <3>2. [l \in linesOf'[r] |-> lineStatus'[l]] \in [linesOf'[r] -> {"pending"}]
        BY <2>3
      <3>3. QED  BY <2>3, <3>1, <3>2 DEF Book, BlankBooks
    <2>5. QED  BY <2>1, <2>2, <2>4 DEF BookStep
  <1>2. ASSUME NEW r \in Requests, NEW u \in Users, NEW items \in ItemInputs,
               NEW spending \in SpendInputs,
               NEW next \in {"purchasing", "purchased", "closed"},
               Editing(r, u, items, spending, next)
        PROVE  BookStep(r)
    <2>1. /\ ApplyProcessing(r, items, spending) /\ status[r] \in ProcessableStatuses
          /\ status'[r] = next /\ \A q \in Requests \ {r} : status'[q] = status[q]
      BY <1>2 DEF Editing, ApplyProcessing, TypeOK
    <2>2. \A q \in Requests \ {r} : Book(q)' = Book(q)
      BY <2>1, OthersUntouched, SameBook
    <2>3. QED  BY <2>1, <2>2 DEF BookStep
  <1>3. ASSUME NEW r \in Requests, NEW items \in ItemInputs,
               NEW spending \in SpendInputs, Saving(r, items, spending)
        PROVE  BookStep(r)
    <2>1. /\ ApplyProcessing(r, items, spending)
          /\ status[r] = "purchasing" /\ status' = status
      BY <1>3 DEF Saving
    <2>2. \A q \in Requests \ {r} : Book(q)' = Book(q)
      BY <2>1, OthersUntouched, SameBook
    <2>3. QED  BY <2>1, <2>2 DEF BookStep, ProcessableStatuses
  <1>4. ASSUME UNCHANGED ledger, NEW q \in Requests
        PROVE  Book(q)' = Book(q)
    BY <1>4, SameBook DEF ledger
  <1>5. ASSUME NEW r \in Requests, NEW u \in Users, NEW next \in {"purchased", "closed"},
               status[r] \in ProcessableStatuses, Moving(r, u, next)
        PROVE  BookStep(r)
    BY <1>4, <1>5 DEF Moving, BookStep, TypeOK
  <1>6. ASSUME NEW r \in Requests, NEW u \in Users, NEW next \in Statuses,
               <<status[r], next>> \in MovePairs, Moving(r, u, next)
        PROVE  BookStep(r)
    <2>1. status'[r] = next /\ \A q \in Requests \ {r} : status'[q] = status[q]
      BY <1>6 DEF Moving, TypeOK
    <2>2. \A q \in Requests : Book(q)' = Book(q)
      BY <1>4, <1>6 DEF Moving
    <2>3. QED  BY <1>6, <2>1, <2>2 DEF BookStep
  <1>7. CASE UNCHANGED <<status, ledger, history>>
    BY <1>4, <1>7
  <1>8. QED  BY <1>1, <1>2, <1>3, <1>5, <1>6, <1>7 DEF Shape

LEMMA SettledStep ==
    ASSUME LedgerInv, LedgerInv', Shape
    PROVE  SettledKept
  <1>1. ASSUME NEW r \in Requests, BookStep(r), NEW q \in Requests,
               status[q] \notin OpenStatuses
        PROVE  status'[q] \notin OpenStatuses /\ Book(q)' = Book(q)
    <2>1. CASE q = r
      BY <1>1, <2>1 DEF BookStep, OpenStatuses, ProcessableStatuses, MovePairs
    <2>2. CASE q # r
      BY <1>1, <2>2 DEF BookStep
    <2>3. QED  BY <2>1, <2>2
  <1>2. QED  BY <1>1, BookShape DEF SettledKept

\* No call ever changes the book of a request that is bought or ended.
THEOREM SettledBooks == Spec => SettledBooksAreFinal
  <1>1. Init => LedgerInv
    BY DEF Init, LedgerInv, TypeOK, Statuses, MaybeUser, LineStatuses,
           LedgerWellFormed, BlankBookInReview, TotalStandsAlone, EntriesDisjoint
  <1>2. LedgerInv /\ [Next]_vars => LedgerInv'
    BY TypeStep, StepShape, LedgerStep DEF LedgerInv
  <1>3. LedgerInv /\ LedgerInv' /\ [Next]_vars => [SettledKept]_vars
    BY StepShape, SettledStep DEF LedgerInv
  <1>4. QED  BY <1>1, <1>2, <1>3, PTL DEF Spec, SettledBooksAreFinal

----------------------------------------------------------------------------
(* The refinement *)

PhaseBar == [r \in Requests |-> PhaseOf[status[r]]]
BookBar == [r \in Requests |-> Book(r)]

\* A step of one request is a step of the lifecycle or leaves it unchanged.
LEMMA LifecycleStep ==
    ASSUME LedgerInv, LedgerInv', NEW r \in Requests, BookStep(r)
    PROVE  Lifecycle!LifecycleNext \/ UNCHANGED Lifecycle!lifecycleVars
  <1>1. /\ PhaseBar' = [PhaseBar EXCEPT ![r] = PhaseBar'[r]]
        /\ BookBar' = [BookBar EXCEPT ![r] = BookBar'[r]]
        /\ BookBar'[r] = Book(r)' /\ BookBar[r] = Book(r)
        /\ PhaseBar[r] = PhaseOf[status[r]] /\ PhaseBar'[r] = PhaseOf[status'[r]]
    BY DEF PhaseBar, BookBar, BookStep
  <1>2. Book(r)' \in Books
    BY BookType DEF LedgerInv
  <1>3. CASE /\ status[r] \in {"draft", "revision_requested"}
             /\ status'[r] = "submitted"
             /\ Book(r)' \in BlankBooks
    <2>1. PhaseBar[r] \in {"none", "review"} /\ PhaseBar'[r] = "review"
      BY <1>1, <1>3 DEF PhaseOf
    <2>2. Lifecycle!Draft(r)
      BY <1>1, <1>3, <2>1 DEF Lifecycle!Draft, Lifecycle!Move, PhaseBar, BookBar
    <2>3. QED  BY <2>2 DEF Lifecycle!LifecycleNext
  <1>4. CASE /\ status[r] \in ProcessableStatuses
             /\ status'[r] \in {"purchasing", "purchased", "closed"}
    <2>1. /\ PhaseBar[r] \in {"review", "buying"}
          /\ PhaseBar'[r] \in {"buying", "bought", "done"}
      BY <1>1, <1>4 DEF PhaseOf, ProcessableStatuses
    <2>2. Lifecycle!Buy(r)
      BY <1>1, <1>2, <2>1 DEF Lifecycle!Buy, Lifecycle!Move, PhaseBar, BookBar
    <2>3. QED  BY <2>2 DEF Lifecycle!LifecycleNext
  <1>5. CASE <<status[r], status'[r]>> \in MovePairs /\ Book(r)' = Book(r)
    <2>1. BookBar' = BookBar
      BY <1>1, <1>5 DEF BookBar
    <2>2. \/ PhaseBar[r] = PhaseBar'[r]
          \/ PhaseBar[r] \in {"review", "buying"} /\ PhaseBar'[r] \in {"buying", "bought"}
          \/ PhaseBar[r] \in {"review", "bought"} /\ PhaseBar'[r] = "done"
      BY <1>1, <1>5 DEF PhaseOf, MovePairs
    <2>3. CASE PhaseBar[r] = PhaseBar'[r]
      <3>1. PhaseBar' = PhaseBar
        BY <1>1, <2>3 DEF PhaseBar
      <3>2. QED  BY <2>1, <3>1 DEF Lifecycle!lifecycleVars, PhaseBar, BookBar
    <2>4. CASE PhaseBar[r] \in {"review", "buying"} /\ PhaseBar'[r] \in {"buying", "bought"}
      <3>1. Lifecycle!Buy(r)
        BY <1>1, <1>2, <2>4 DEF Lifecycle!Buy, Lifecycle!Move, PhaseBar, BookBar
      <3>2. QED  BY <3>1 DEF Lifecycle!LifecycleNext
    <2>5. CASE PhaseBar[r] \in {"review", "bought"} /\ PhaseBar'[r] = "done"
      <3>1. Lifecycle!Settle(r)
        BY <1>1, <2>1, <2>5 DEF Lifecycle!Settle, PhaseBar, BookBar
      <3>2. QED  BY <3>1 DEF Lifecycle!LifecycleNext
    <2>6. QED  BY <2>2, <2>3, <2>4, <2>5
  <1>6. QED  BY <1>3, <1>4, <1>5 DEF BookStep

\* The service implements the lifecycle of RequestLifecycle.
THEOREM LifecycleRefinement == Spec => ImplementsLifecycle
  <1>1. Init => Lifecycle!LifecycleInit
    <2>1. SUFFICES ASSUME Init PROVE Lifecycle!LifecycleInit
      OBVIOUS
    <2>2. ASSUME NEW r \in Requests
          PROVE  Book(r) \in BlankBooks /\ PhaseOf[status[r]] = "none"
      <3>1. linesOf[r] = {} /\ spend[r] = {} /\ status[r] = "draft"
        BY <2>1 DEF Init
      <3>2. [l \in {} |-> lineStatus[l]] \in [{} -> {"pending"}]
        OBVIOUS
      <3>3. QED  BY <3>1, <3>2 DEF Book, BlankBooks, PhaseOf
    <2>3. QED  BY <2>2 DEF Lifecycle!LifecycleInit
  <1>2. Init => LedgerInv
    BY DEF Init, LedgerInv, TypeOK, Statuses, MaybeUser, LineStatuses,
           LedgerWellFormed, BlankBookInReview, TotalStandsAlone, EntriesDisjoint
  <1>3. LedgerInv /\ [Next]_vars => LedgerInv'
    BY TypeStep, StepShape, LedgerStep DEF LedgerInv
  <1>4. LedgerInv /\ LedgerInv' /\ [Next]_vars =>
            [Lifecycle!LifecycleNext]_(Lifecycle!lifecycleVars)
    <2>1. SUFFICES ASSUME LedgerInv, LedgerInv', [Next]_vars
                   PROVE  Lifecycle!LifecycleNext \/ UNCHANGED Lifecycle!lifecycleVars
      OBVIOUS
    <2>2. CASE \A q \in Requests : status'[q] = status[q] /\ Book(q)' = Book(q)
      BY <2>2 DEF Lifecycle!lifecycleVars
    <2>3. CASE \E r \in Requests : BookStep(r)
      BY <2>1, <2>3, LifecycleStep
    <2>4. QED  BY <2>1, <2>2, <2>3, StepShape, BookShape DEF LedgerInv
  <1>5. QED  BY <1>1, <1>2, <1>3, <1>4, PTL DEF Spec, ImplementsLifecycle, Lifecycle!LifecycleSpec

----------------------------------------------------------------------------
(* Who asked, who decided and who is told *)

\* The invariant behind the columns of a request's people.  A draft has no
\* reviewer yet and every other request has a requester, to whom a
\* notification can be sent.
\* How far a status is from the review; the statuses of the review share 0.
Rank == [draft |-> 0, submitted |-> 0, revision_requested |-> 0, approved |-> 1,
         purchasing |-> 2, purchased |-> 3, received |-> 4, closed |-> 5,
         rejected |-> 5, cancelled |-> 5]

PeopleInv ==
    /\ TypeOK /\ HistoryChains
    /\ \A r \in Requests : /\ status[r] = "draft" => reviewedBy[r] = NoUser
                           /\ status[r] # "draft" => requester[r] \in Users

\* Request r is submitted, for the first time or revised.
Submitting(r, u) ==
    /\ status[r] \in {"draft", "revision_requested"}
    /\ status[r] # "draft" => requester[r] = u
    /\ status' = [status EXCEPT ![r] = "submitted"]
    /\ requester' = [requester EXCEPT ![r] = u]
    /\ reviewedBy' = [reviewedBy EXCEPT ![r] = NoUser]
    /\ Log(r, status[r], "submitted", u)
    /\ Notify(ReviewersBut(u),
              IF status[r] = "draft" THEN EventKey(r, "submitted", 0)
                                     ELSE EventKey(r, "resubmitted", Len(history[r])))

\* Request r goes on to another status, which a decision stamps and of which
\* the requester is told unless it is reached by saving.
GoingOn(r, u, to) ==
    /\ status[r] # "draft"
    /\ status' = [status EXCEPT ![r] = to]
    /\ requester' = requester
    /\ Log(r, status[r], to, u)
    /\ \/ to \in Decisions /\ requester[r] # u /\ reviewedBy' = [reviewedBy EXCEPT ![r] = u]
       \/ to \notin Decisions /\ reviewedBy' = reviewedBy
    /\ \/ Rank[status[r]] < Rank[to]
       \/ to = "revision_requested" /\ Rank[status[r]] = 0
    /\ \/ Notify({requester[r]}, EventKey(r, to, 0))
       \/ to = "purchasing" /\ inbox' = inbox

PeopleStep ==
    \/ \E r \in Requests, u \in Users : Submitting(r, u)
    \/ \E r \in Requests, u \in Users, to \in Statuses \ {"draft", "submitted"} : GoingOn(r, u, to)
    \/ UNCHANGED <<status, requester, reviewedBy, history, inbox>>

LEMMA PeopleShape ==
    ASSUME PeopleInv, [Next]_vars
    PROVE  PeopleStep
  <1> USE DEF PeopleInv
  <1>1. ASSUME NEW r \in Requests, NEW u \in Users, NEW S \in SUBSET Lines,
               CreateRequest(r, u, S)
        PROVE  Submitting(r, u)
    <2>1. reviewedBy' = [reviewedBy EXCEPT ![r] = NoUser]
      BY <1>1 DEF CreateRequest, TypeOK
    <2>2. QED  BY <1>1, <2>1 DEF CreateRequest, Submitting
  <1>2. ASSUME NEW r \in Requests, NEW u \in Users, NEW S \in SUBSET Lines,
               ReviseRequest(r, u, S)
        PROVE  Submitting(r, u)
    <2>1. requester' = [requester EXCEPT ![r] = u]
      BY <1>2 DEF ReviseRequest, TypeOK
    <2>2. QED  BY <1>2, <2>1 DEF ReviseRequest, ClearReview, Submitting
  <1>3. ASSUME NEW r \in Requests, NEW u \in Users, NEW items \in ItemInputs,
               NEW spending \in SpendInputs, SaveProcessing(r, u, items, spending)
        PROVE  PeopleStep
    <2>1. CASE StartsBuying(status[r])
      <3>1. GoingOn(r, u, "purchasing")
        BY <1>3, <2>1 DEF SaveProcessing, StartsBuying, GoingOn, Decisions, Rank
      <3>2. QED  BY <3>1 DEF PeopleStep, Statuses
    <2>2. CASE ~StartsBuying(status[r])
      BY <1>3, <2>2 DEF SaveProcessing, PeopleStep
    <2>3. QED  BY <2>1, <2>2
  <1>4. ASSUME NEW r \in Requests, NEW u \in Users, FinishProcessing(r, u),
               status[r] \in ProcessableStatuses
        PROVE  PeopleStep
    <2> DEFINE next == Outcome(r, lineStatus')
    <2>1. next \in {"purchased", "closed"}
      BY DEF Outcome
    <2>2. /\ status' = [status EXCEPT ![r] = next]
          /\ Log(r, status[r], next, u)
          /\ Notify({requester[r]}, EventKey(r, next, 0))
          /\ requester' = requester /\ reviewedBy' = reviewedBy
      BY <1>4 DEF FinishProcessing
    <2> HIDE DEF next
    <2>3. GoingOn(r, u, next)
      BY <1>4, <2>1, <2>2 DEF GoingOn, Decisions, ProcessableStatuses, Rank
    <2>4. QED  BY <2>1, <2>3 DEF PeopleStep, Statuses
  <1>5. ASSUME NEW r \in Requests, NEW u \in Users, ConfirmReceived(r, u)
        PROVE  PeopleStep
    <2>1. GoingOn(r, u, "received")
      BY <1>5 DEF ConfirmReceived, stamps, GoingOn, Decisions, Rank
    <2>2. QED  BY <2>1 DEF PeopleStep, Statuses
  <1>6. ASSUME NEW r \in Requests, NEW u \in Users, NEW a \in TransitionActions,
               Transition(r, u, a)
        PROVE  PeopleStep
    <2> DEFINE next == Edges[a][status[r]]
    <2>1. /\ MayFollow(a, status[r]) /\ MayTransition(a, r, u) /\ status[r] # "draft"
          /\ status' = [status EXCEPT ![r] = next]
          /\ reviewedBy' = IF ReviewStamp(next)
                           THEN [reviewedBy EXCEPT ![r] = u] ELSE reviewedBy
          /\ Log(r, status[r], next, u)
          /\ Notify({requester[r]}, EventKey(r, next, 0))
          /\ requester' = requester
      BY <1>6 DEF Transition
    <2>2. status[r] \in Statuses
      BY DEF TypeOK
    <2>3. /\ next \in Statuses \ {"draft", "submitted"}
          /\ next \in Decisions => a \in ReviewActions
          /\ \/ Rank[status[r]] < Rank[next]
             \/ next = "revision_requested" /\ Rank[status[r]] = 0
      BY <2>1, <2>2, EdgeTable DEF Statuses, Decisions, ReviewActions, Rank
    <2> HIDE DEF next
    <2>4. next \in Decisions => requester[r] # u
      BY <2>1, <2>3 DEF MayTransition, ReviewActions
    <2>5. ReviewStamp(next) <=> next \in Decisions
      BY DEF ReviewStamp, Decisions
    <2>6. GoingOn(r, u, next)
      BY <2>1, <2>3, <2>4, <2>5 DEF GoingOn
    <2>7. QED  BY <2>3, <2>6 DEF PeopleStep
  <1>7. CASE UNCHANGED vars
    BY <1>7 DEF vars, stamps, PeopleStep
  <1>8. ASSUME NEW r \in Requests, NEW u \in Users, Complete(r, u)
        PROVE  FinishProcessing(r, u) /\ status[r] \in ProcessableStatuses
    BY <1>8 DEF Complete, CompleteAsSaved, CompleteWithInput, ApplyProcessing
  <1>9. QED
    BY <1>1, <1>2, <1>3, <1>4, <1>5, <1>6, <1>7, <1>8 DEF Next, Process, PeopleStep

LEMMA PeopleInvStep ==
    ASSUME PeopleInv, TypeOK', HistoryChains', PeopleStep
    PROVE  PeopleInv'
  <1>1. ASSUME NEW r \in Requests, NEW u \in Users, Submitting(r, u)
        PROVE  PeopleInv'
    BY <1>1 DEF PeopleInv, Submitting, TypeOK
  <1>2. ASSUME NEW r \in Requests, NEW u \in Users,
               NEW to \in Statuses \ {"draft", "submitted"}, GoingOn(r, u, to)
        PROVE  PeopleInv'
    BY <1>2 DEF PeopleInv, GoingOn, TypeOK
  <1>3. CASE UNCHANGED <<status, requester, reviewedBy, history, inbox>>
    BY <1>3 DEF PeopleInv
  <1>4. QED  BY <1>1, <1>2, <1>3 DEF PeopleStep

\* The last row into T after a row has been logged.
LEMMA LastRowStep ==
    ASSUME TypeOK, NEW r \in Requests, NEW from \in Statuses, NEW to \in Statuses,
           NEW u \in Users, Log(r, from, to, u), NEW T,
           NEW i, LastRow(history'[r], T, i)
    PROVE  /\ to \in T => history'[r][i].to = to /\ history'[r][i].actor = u
           /\ to \notin T => LastRow(history[r], T, i) /\ history'[r][i] = history[r][i]
  <1> DEFINE n == Len(history[r])
  <1>1. /\ n \in Nat
        /\ DOMAIN history[r] = 1..n /\ DOMAIN history'[r] = 1..n + 1
        /\ \A j \in 1..n : history'[r][j] = history[r][j]
        /\ history'[r][n + 1] = [from |-> from, to |-> to, actor |-> u]
    BY LogFacts
  <1>2. /\ i \in 1..n + 1 /\ history'[r][i].to \in T
        /\ \A j \in 1..n + 1 : j > i => history'[r][j].to \notin T
    BY <1>1 DEF LastRow
  <1> HIDE DEF n
  <1>3. ASSUME to \in T
        PROVE  i = n + 1
    BY <1>1, <1>2, <1>3
  <1>4. ASSUME to \notin T
        PROVE  i \in 1..n
    BY <1>1, <1>2, <1>4
  <1>5. ASSUME to \notin T
        PROVE  LastRow(history[r], T, i)
    <2>1. history'[r][i] = history[r][i] /\ i \in DOMAIN history[r]
      BY <1>1, <1>4, <1>5
    <2>2. ASSUME NEW j \in DOMAIN history[r], j > i
          PROVE  history[r][j].to \notin T
      BY <1>1, <1>2, <2>2
    <2>3. QED  BY <1>2, <2>1, <2>2 DEF LastRow
  <1>6. QED  BY <1>1, <1>3, <1>4, <1>5

ReviewedOf(r) ==
    /\ reviewedBy[r] # NoUser => reviewedBy[r] # requester[r]
    /\ \A i \in DOMAIN history[r] :
          LastRow(history[r], Decisions \cup {"submitted"}, i) =>
              reviewedBy[r] = IF history[r][i].to = "submitted"
                              THEN NoUser ELSE history[r][i].actor

LEMMA ReviewStep ==
    ASSUME PeopleInv, ReviewStampMatchesHistory, PeopleStep
    PROVE  ReviewStampMatchesHistory'
  <1> USE DEF PeopleInv
  <1> DEFINE Deciding == Decisions \cup {"submitted"}
  <1>1. \A q \in Requests : ReviewedOf(q)
    BY DEF ReviewStampMatchesHistory, ReviewedOf
  <1>2. \A q \in Requests : status[q] \in Statuses
    BY DEF TypeOK
  <1>3. ASSUME NEW q \in Requests, history'[q] = history[q],
               reviewedBy'[q] = reviewedBy[q], requester'[q] = requester[q]
        PROVE  ReviewedOf(q)'
    BY <1>1, <1>3 DEF ReviewedOf
  <1>4. ASSUME NEW r \in Requests, NEW u \in Users, Submitting(r, u), NEW q \in Requests
        PROVE  ReviewedOf(q)'
    <2>1. Log(r, status[r], "submitted", u) /\ "submitted" \in Statuses
      BY <1>4 DEF Submitting, Statuses
    <2>2. CASE q = r
      <3>1. reviewedBy'[r] = NoUser
        BY <1>4 DEF Submitting, TypeOK
      <3>2. ASSUME NEW i \in DOMAIN history'[r], LastRow(history'[r], Deciding, i)
            PROVE  history'[r][i].to = "submitted"
        BY <1>2, <2>1, <3>2, LastRowStep
      <3>3. QED  BY <2>2, <3>1, <3>2 DEF ReviewedOf
    <2>3. CASE q # r
      <3>1. history'[q] = history[q]
        BY <2>1, <2>3 DEF Log, TypeOK
      <3>2. reviewedBy'[q] = reviewedBy[q] /\ requester'[q] = requester[q]
        BY <1>4, <2>3 DEF Submitting, TypeOK
      <3>3. QED  BY <1>3, <3>1, <3>2
    <2>4. QED  BY <2>2, <2>3
  <1>5. ASSUME NEW r \in Requests, NEW u \in Users,
               NEW to \in Statuses \ {"draft", "submitted"}, GoingOn(r, u, to),
               NEW q \in Requests
        PROVE  ReviewedOf(q)'
    <2>1. Log(r, status[r], to, u) /\ requester' = requester
      BY <1>5 DEF GoingOn
    <2>2. CASE q = r /\ to \in Decisions
      <3>1. reviewedBy'[r] = u /\ requester[r] # u
        BY <1>5, <2>2 DEF GoingOn, TypeOK
      <3>2. ASSUME NEW i \in DOMAIN history'[r], LastRow(history'[r], Deciding, i)
            PROVE  history'[r][i].to # "submitted" /\ history'[r][i].actor = u
        BY <1>2, <2>1, <2>2, <3>2, LastRowStep
      <3>3. QED  BY <2>1, <2>2, <3>1, <3>2 DEF ReviewedOf
    <2>3. CASE q = r /\ to \notin Decisions
      <3>1. reviewedBy' = reviewedBy
        BY <1>5, <2>3 DEF GoingOn
      <3>2. ASSUME NEW i \in DOMAIN history'[r], LastRow(history'[r], Deciding, i)
            PROVE  reviewedBy[r] = IF history'[r][i].to = "submitted"
                                   THEN NoUser ELSE history'[r][i].actor
        <4>1. LastRow(history[r], Deciding, i) /\ history'[r][i] = history[r][i]
          BY <1>2, <2>1, <2>3, <3>2, LastRowStep
        <4>2. i \in DOMAIN history[r]
          BY <4>1 DEF LastRow
        <4>3. QED  BY <1>1, <4>1, <4>2 DEF ReviewedOf
      <3>3. QED  BY <1>1, <2>1, <2>3, <3>1, <3>2 DEF ReviewedOf
    <2>4. CASE q # r
      <3>1. history'[q] = history[q]
        BY <2>1, <2>4 DEF Log, TypeOK
      <3>2. reviewedBy'[q] = reviewedBy[q]
        BY <1>5, <2>4 DEF GoingOn, TypeOK
      <3>3. QED  BY <1>3, <2>1, <3>1, <3>2
    <2>5. QED  BY <2>2, <2>3, <2>4
  <1>6. ASSUME UNCHANGED <<status, requester, reviewedBy, history, inbox>>,
               NEW q \in Requests
        PROVE  ReviewedOf(q)'
    BY <1>3, <1>6
  <1>7. ASSUME NEW q \in Requests
        PROVE  ReviewedOf(q)'
    BY <1>4, <1>5, <1>6 DEF PeopleStep
  <1>8. QED  BY <1>7 DEF ReviewStampMatchesHistory, ReviewedOf

LEMMA PeopleInductive ==
    /\ Init => PeopleInv
    /\ PeopleInv /\ [Next]_vars => PeopleInv'
  <1>1. Init => PeopleInv
    BY DEF Init, PeopleInv, TypeOK, Statuses, MaybeUser, LineStatuses, HistoryChains
  <1>2. PeopleInv /\ [Next]_vars => PeopleInv'
    BY TypeStep, StepShape, HistoryStep, PeopleShape, PeopleInvStep DEF PeopleInv
  <1>3. QED  BY <1>1, <1>2

\* The review stamp of a request is that of the last decision on the lines now
\* in it, whatever is revised, saved and decided in between.
THEOREM ReviewStampCorrect == Spec => []ReviewStampMatchesHistory
  <1>1. Init => PeopleInv /\ ReviewStampMatchesHistory
    <2>1. Init => ReviewStampMatchesHistory
      BY DEF Init, ReviewStampMatchesHistory
    <2>2. QED  BY <2>1, PeopleInductive
  <1>2. /\ PeopleInv /\ ReviewStampMatchesHistory
        /\ [Next]_vars
        => (PeopleInv /\ ReviewStampMatchesHistory)'
    BY PeopleInductive, PeopleShape, ReviewStep
  <1>3. QED  BY <1>1, <1>2, PTL DEF Spec

\* No row of a history reached further than its request has.
RanksRise ==
    \A r \in Requests : \A i \in DOMAIN history[r] :
        Rank[history[r][i].to] <= Rank[status[r]]

\* A notification belongs to the history row of the call that sent it: its key
\* names the status that row reached or, for a resubmission, the row's place.
SentInRow(n) ==
    LET h == history[n.key.request] IN
    /\ n.row \in DOMAIN h
    /\ n.key.event = "resubmitted" => n.key.at = n.row - 1
    /\ n.key.event # "resubmitted" => h[n.row].to = n.key.event

RowsSent == \A u \in Users : \A n \in inbox[u] : SentInRow(n)

ToldOf(r, i) ==
    LET row == history[r][i] IN
    /\ row.to \in Announced /\ ~AskedAgain(r, i) =>
          ToldInRow(requester[r], EventKey(r, row.to, 0), i)
    /\ row.to = "submitted" =>
          \A v \in ReviewersBut(requester[r]) :
              ToldInRow(v, IF i = 1 THEN EventKey(r, "submitted", 0)
                                    ELSE EventKey(r, "resubmitted", i - 1), i)

\* EveryoneIsTold with what makes it inductive: a key can only be taken by a
\* row that reached the same status.
ToldInv == PeopleInv /\ RanksRise /\ RowsSent /\ EveryoneIsTold

\* Notifications are never taken back, and a new one is that of the call.
LEMMA InboxGrows ==
    ASSUME TypeOK, NEW us, NEW key, Notify(us, key)
    PROVE  \A v \in Users : /\ inbox[v] \subseteq inbox'[v]
                            /\ inbox'[v] \subseteq inbox[v] \cup {Notification(key)}
                            /\ v \in us /\ ~HasKey(v, key) => Notification(key) \in inbox'[v]
  BY DEF Notify, TypeOK

\* Statuses outside the review are passed at most once.
LEMMA RanksStep ==
    ASSUME PeopleInv, RanksRise, PeopleStep
    PROVE  RanksRise'
  <1> USE DEF PeopleInv
  <1>1. \A q \in Requests : status[q] \in Statuses
    BY DEF TypeOK
  <1>2. ASSUME NEW r \in Requests, NEW u \in Users, NEW to \in Statuses,
               Log(r, status[r], to, u), status' = [status EXCEPT ![r] = to],
               Rank[status[r]] <= Rank[to]
        PROVE  RanksRise'
    <2>1. /\ \A q \in Requests \ {r} : history'[q] = history[q]
          /\ Len(history[r]) \in Nat
          /\ DOMAIN history[r] = 1..Len(history[r])
          /\ DOMAIN history'[r] = 1..(Len(history[r]) + 1)
          /\ \A i \in 1..Len(history[r]) : history'[r][i] = history[r][i]
          /\ history'[r][Len(history[r]) + 1].to = to
      BY <1>1, <1>2, LogGrows
    <2>2. ASSUME NEW q \in Requests \ {r}, NEW i \in DOMAIN history'[q]
          PROVE  Rank[history'[q][i].to] <= Rank[status'[q]]
      BY <1>2, <2>1, <2>2 DEF RanksRise, TypeOK
    <2>3. ASSUME NEW i \in 1..Len(history[r])
          PROVE  Rank[history'[r][i].to] <= Rank[status'[r]]
      <3>1. Rank[history[r][i].to] <= Rank[status[r]]
        BY <2>1 DEF RanksRise
      <3>2. history[r] \in Seq(HistoryRows)
        BY DEF TypeOK
      <3>3. history[r][i] \in HistoryRows
        BY <2>1, <3>2, ElementOfSeq
      <3>4. history[r][i].to \in Statuses
        BY <3>3 DEF HistoryRows
      <3>5. status'[r] = to /\ history'[r][i] = history[r][i]
        BY <1>2, <2>1 DEF TypeOK
      <3>6. \A s \in Statuses : Rank[s] \in Nat
        BY DEF Rank, Statuses
      <3>7. QED  BY <1>1, <1>2, <3>1, <3>4, <3>5, <3>6
    <2>4. Rank[history'[r][Len(history[r]) + 1].to] <= Rank[status'[r]]
      <3>1. status'[r] = to /\ Rank[to] \in Nat
        BY <1>2 DEF TypeOK, Rank, Statuses
      <3>2. QED  BY <2>1, <3>1
    <2>5. ASSUME NEW q \in Requests, NEW i \in DOMAIN history'[q]
          PROVE  Rank[history'[q][i].to] <= Rank[status'[q]]
      <3>1. CASE q # r
        BY <2>2, <2>5, <3>1
      <3>2. CASE q = r /\ i \in 1..Len(history[r])
        BY <2>3, <3>2
      <3>3. CASE q = r /\ i = Len(history[r]) + 1
        BY <2>4, <3>3
      <3>4. QED  BY <2>1, <2>5, <3>1, <3>2, <3>3
    <2>6. QED  BY <2>5 DEF RanksRise
  <1>3. ASSUME NEW r \in Requests, NEW u \in Users, Submitting(r, u)
        PROVE  RanksRise'
    <2>1. "submitted" \in Statuses /\ Rank[status[r]] <= Rank["submitted"]
      BY <1>3 DEF Submitting, Statuses, Rank
    <2>2. QED  BY <1>2, <1>3, <2>1 DEF Submitting
  <1>4. ASSUME NEW r \in Requests, NEW u \in Users,
               NEW to \in Statuses \ {"draft", "submitted"}, GoingOn(r, u, to)
        PROVE  RanksRise'
    <2>1. Rank[status[r]] <= Rank[to]
      BY <1>1, <1>4 DEF GoingOn, Statuses, Rank
    <2>2. QED  BY <1>2, <1>4, <2>1 DEF GoingOn
  <1>5. CASE UNCHANGED <<status, requester, reviewedBy, history, inbox>>
    BY <1>5 DEF RanksRise
  <1>6. QED  BY <1>3, <1>4, <1>5 DEF PeopleStep

\* A call that logs a row and sends at most the notification of that row.
LEMMA RowsStep ==
    ASSUME TypeOK, RowsSent, NEW r \in Requests, NEW u \in Users,
           NEW from \in Statuses, NEW to \in Statuses, Log(r, from, to, u),
           NEW key \in EventKeys, key.request = r,
           key.event = "resubmitted" => key.at = Len(history[r]),
           key.event # "resubmitted" => key.event = to,
           \A v \in Users : inbox'[v] \subseteq inbox[v] \cup {Notification(key)}
    PROVE  RowsSent'
  <1>1. /\ \A q \in Requests \ {r} : history'[q] = history[q]
        /\ Len(history[r]) \in Nat
        /\ DOMAIN history[r] = 1..Len(history[r])
        /\ DOMAIN history'[r] = 1..(Len(history[r]) + 1)
        /\ \A i \in 1..Len(history[r]) : history'[r][i] = history[r][i]
        /\ history'[r][Len(history[r]) + 1].to = to
    BY LogGrows
  <1>2. ASSUME NEW v \in Users, NEW n \in inbox[v]
        PROVE  SentInRow(n)'
    <2>1. n \in Notifications /\ SentInRow(n)
      BY DEF TypeOK, RowsSent
    <2>2. n.key.request \in Requests
      BY <2>1 DEF Notifications, EventKeys
    <2>3. CASE n.key.request # r
      BY <1>1, <2>1, <2>2, <2>3 DEF SentInRow
    <2>4. CASE n.key.request = r
      BY <1>1, <2>1, <2>4 DEF SentInRow
    <2>5. QED  BY <2>3, <2>4
  <1>3. ASSUME NEW n, n = Notification(key)
        PROVE  SentInRow(n)'
    <2>1. n.key = key /\ n.row = Len(history[r]) + 1
      BY <1>3 DEF Notification
    <2>2. n.row - 1 = Len(history[r])
      BY <1>1, <2>1
    <2>3. n.row \in DOMAIN history'[r] /\ history'[r][n.row].to = to
      BY <1>1, <2>1
    <2>4. QED  BY <2>1, <2>2, <2>3 DEF SentInRow
  <1>4. QED  BY <1>2, <1>3 DEF RowsSent

\* A row that was there before stays announced.
LEMMA StillTold ==
    ASSUME PeopleInv, NEW r \in Requests, NEW i \in DOMAIN history[r], ToldOf(r, i),
           \A j \in 1..i : history'[r][j] = history[r][j],
           requester'[r] = requester[r],
           \A v \in Users : inbox[v] \subseteq inbox'[v]
    PROVE  ToldOf(r, i)'
  <1>1. history[r] # <<>> /\ i \in 1..i
    BY DEF PeopleInv, TypeOK
  <1>2. requester[r] \in Users
    BY <1>1 DEF PeopleInv, HistoryChains
  <1>3. ReviewersBut(requester[r]) \subseteq Users
    BY RolesAreUsers DEF ReviewersBut
  <1>4. AskedAgain(r, i)' <=> AskedAgain(r, i)
    <2>1. i \in Nat
      BY LenProperties DEF PeopleInv, TypeOK
    <2>2. \A j \in 1..i - 1 : j \in 1..i
      BY <2>1
    <2>3. QED  BY <1>1, <2>2 DEF AskedAgain
  <1>5. QED  BY <1>1, <1>2, <1>3, <1>4 DEF ToldOf, ToldInRow, ReviewersBut, EventKey

\* A call that announces its own row announces every row.
LEMMA RowToldStep ==
    ASSUME PeopleInv, EveryoneIsTold, NEW r \in Requests, NEW u \in Users,
           NEW to \in Statuses, Log(r, status[r], to, u),
           status[r] # "draft" => requester'[r] = requester[r],
           \A q \in Requests \ {r} : requester'[q] = requester[q],
           \A v \in Users : inbox[v] \subseteq inbox'[v],
           NEW n \in Nat, n = Len(history[r]), ToldOf(r, n + 1)'
    PROVE  EveryoneIsTold'
  <1> USE DEF PeopleInv
  <1>1. \A q \in Requests : \A i \in DOMAIN history[q] : ToldOf(q, i)
    BY DEF EveryoneIsTold, ToldOf
  <1>2. status[r] \in Statuses
    BY DEF TypeOK
  <1>3. /\ DOMAIN history[r] = 1..n /\ DOMAIN history'[r] = 1..n + 1
        /\ \A j \in 1..n : history'[r][j] = history[r][j]
        /\ \A q \in Requests \ {r} : history'[q] = history[q]
    BY <1>2, LogGrows
  <1>4. ASSUME NEW i \in 1..n
        PROVE  ToldOf(r, i)'
    <2>1. history[r] # <<>> /\ i \in DOMAIN history[r]
      BY <1>3, <1>4
    <2>2. requester'[r] = requester[r]
      BY <2>1 DEF HistoryChains
    <2>3. \A j \in 1..i : history'[r][j] = history[r][j]
      BY <1>3, <1>4
    <2>4. QED  BY <1>1, <2>1, <2>2, <2>3, StillTold
  <1>5. ASSUME NEW q \in Requests \ {r}, NEW i \in DOMAIN history'[q]
        PROVE  ToldOf(q, i)'
    <2>1. /\ i \in DOMAIN history[q] /\ requester'[q] = requester[q]
          /\ \A j \in 1..i : history'[q][j] = history[q][j]
      BY <1>3, <1>5
    <2>2. QED  BY <1>1, <2>1, StillTold
  <1>6. ASSUME NEW q \in Requests, NEW i \in DOMAIN history'[q]
        PROVE  ToldOf(q, i)'
    <2>1. CASE q # r
      BY <1>5, <1>6, <2>1
    <2>2. CASE q = r /\ i \in 1..n
      BY <1>4, <2>2
    <2>3. CASE q = r /\ i = n + 1
      BY <2>3
    <2>4. QED  BY <1>3, <1>6, <2>1, <2>2, <2>3
  <1>7. QED  BY <1>6 DEF EveryoneIsTold, ToldOf

\* A submission: no earlier row has its key, the first because the history is
\* empty, a later one because its place is new.
LEMMA SubmissionTold ==
    ASSUME ToldInv, NEW r \in Requests, NEW u \in Users, Submitting(r, u)
    PROVE  RowsSent' /\ EveryoneIsTold'
  <1> USE DEF ToldInv, PeopleInv
  <1>1. PICK n \in Nat : n = Len(history[r])
    BY LenProperties DEF TypeOK
  <1> DEFINE key == IF status[r] = "draft" THEN EventKey(r, "submitted", 0)
                                           ELSE EventKey(r, "resubmitted", n)
  <1>2. /\ Log(r, status[r], "submitted", u) /\ Notify(ReviewersBut(u), key)
        /\ "submitted" \in Statuses /\ status[r] \in Statuses
    BY <1>1 DEF Submitting, Statuses
  <1>3. /\ requester'[r] = u /\ \A q \in Requests \ {r} : requester'[q] = requester[q]
        /\ status[r] # "draft" => requester'[r] = requester[r]
    BY DEF Submitting, TypeOK
  <1>4. n = 0 <=> status[r] = "draft"
    BY <1>1, EmptySeq DEF HistoryChains, TypeOK
  <1>5. /\ key \in EventKeys /\ key.request = r
        /\ key.event = "resubmitted" => key.at = n /\ n # 0
        /\ key.event # "resubmitted" => key.event = "submitted" /\ n = 0
        /\ key = IF n + 1 = 1 THEN EventKey(r, "submitted", 0)
                              ELSE EventKey(r, "resubmitted", (n + 1) - 1)
    BY <1>4, KeyType DEF EventKey, Statuses
  <1> HIDE DEF key
  <1>6. /\ DOMAIN history[r] = 1..n /\ DOMAIN history'[r] = 1..n + 1
        /\ history'[r][n + 1].to = "submitted"
    BY <1>1, <1>2, LogGrows
  <1>7. \A v \in Users : ~HasKey(v, key)
    <2> SUFFICES ASSUME NEW v \in Users, NEW m \in inbox[v], m.key = key
                 PROVE  FALSE
      BY DEF HasKey
    <2>1. /\ m.row \in 1..n
          /\ key.event = "resubmitted" => key.at = m.row - 1
      BY <1>5, <1>6 DEF RowsSent, SentInRow
    <2>2. QED  BY <1>5, <2>1
  <1>8. \A v \in Users : /\ inbox[v] \subseteq inbox'[v]
                         /\ inbox'[v] \subseteq inbox[v] \cup {Notification(key)}
                         /\ v \in ReviewersBut(u) => Notification(key) \in inbox'[v]
    BY <1>2, <1>7, InboxGrows
  <1>9. RowsSent'
    BY <1>1, <1>2, <1>5, <1>8, RowsStep
  <1>10. Notification(key) = [key |-> key, row |-> n + 1]
    BY <1>1, <1>5 DEF Notification
  <1>11. ReviewersBut(u) \subseteq Users
    BY RolesAreUsers DEF ReviewersBut
  <1>12. \A v \in ReviewersBut(u) : [key |-> key, row |-> n + 1] \in inbox'[v]
    BY <1>8, <1>10, <1>11
  <1>13. ToldOf(r, n + 1)'
    <2>1. "submitted" \notin Announced
      BY DEF Announced
    <2>2. QED  BY <1>3, <1>5, <1>6, <1>12, <2>1 DEF ToldOf, ToldInRow, ReviewersBut, EventKey
  <1>14. QED  BY <1>1, <1>2, <1>3, <1>8, <1>9, <1>13, RowToldStep

\* Any other call: a row that reached the same status earlier would rank as
\* high as the new one, unless both ask for a revision.
LEMMA GoingOnTold ==
    ASSUME ToldInv, NEW r \in Requests, NEW u \in Users,
           NEW to \in Statuses \ {"draft", "submitted"}, GoingOn(r, u, to)
    PROVE  RowsSent' /\ EveryoneIsTold'
  <1> USE DEF ToldInv, PeopleInv
  <1> DEFINE key == EventKey(r, to, 0)
  <1>1. PICK n \in Nat : n = Len(history[r])
    BY LenProperties DEF TypeOK
  <1>2. /\ Log(r, status[r], to, u) /\ requester' = requester /\ status[r] # "draft"
        /\ \/ Notify({requester[r]}, key)
           \/ to = "purchasing" /\ inbox' = inbox
        /\ \/ Rank[status[r]] < Rank[to]
           \/ to = "revision_requested"
        /\ status[r] \in Statuses /\ requester[r] \in Users
    BY DEF GoingOn, TypeOK
  <1>3. /\ key \in EventKeys /\ key.request = r /\ key.event = to /\ to # "resubmitted"
    BY KeyType DEF EventKey, Statuses
  <1>4. /\ DOMAIN history[r] = 1..n /\ DOMAIN history'[r] = 1..n + 1
        /\ \A j \in 1..n : history'[r][j] = history[r][j]
        /\ history'[r][n + 1].to = to
    BY <1>1, <1>2, LogGrows
  <1> HIDE DEF key
  <1>5. \A v \in Users : /\ inbox[v] \subseteq inbox'[v]
                         /\ inbox'[v] \subseteq inbox[v] \cup {Notification(key)}
    BY <1>2, InboxGrows
  <1>6. RowsSent'
    BY <1>1, <1>2, <1>3, <1>5, RowsStep
  <1>7. ASSUME HasKey(requester[r], key)
        PROVE  AskedAgain(r, n + 1)'
    <2>1. PICK m \in inbox[requester[r]] : m.key = key
      BY <1>7 DEF HasKey
    <2>2. m.row \in 1..n /\ history[r][m.row].to = to
      BY <1>2, <1>3, <1>4, <2>1 DEF RowsSent, SentInRow
    <2>3. to = "revision_requested"
      <3>1. Rank[to] <= Rank[status[r]]
        BY <1>4, <2>2 DEF RanksRise
      <3>2. Rank[to] \in Nat /\ Rank[status[r]] \in Nat
        BY <1>2 DEF Rank, Statuses
      <3>3. QED  BY <1>2, <3>1, <3>2
    <2>4. (n + 1) - 1 = n
      OBVIOUS
    <2>5. QED  BY <1>4, <2>2, <2>3, <2>4 DEF AskedAgain
  <1>8. to \in Announced /\ ~AskedAgain(r, n + 1)' =>
            [key |-> key, row |-> n + 1] \in inbox'[requester[r]]
    <2>1. Notification(key) = [key |-> key, row |-> n + 1]
      BY <1>1, <1>3 DEF Notification
    <2>2. "purchasing" \notin Announced
      BY DEF Announced
    <2>3. QED  BY <1>2, <1>7, <2>1, <2>2, InboxGrows
  <1>9. ToldOf(r, n + 1)'
    BY <1>2, <1>4, <1>8 DEF ToldOf, ToldInRow, EventKey, key
  <1>10. QED  BY <1>1, <1>2, <1>5, <1>6, <1>9, RowToldStep

LEMMA ToldStep ==
    ASSUME ToldInv, PeopleInv', PeopleStep
    PROVE  ToldInv'
  <1>1. RanksRise'
    BY RanksStep DEF ToldInv
  <1>2. CASE UNCHANGED <<status, requester, reviewedBy, history, inbox>>
    BY <1>1, <1>2 DEF ToldInv, EveryoneIsTold, AskedAgain, ToldInRow, ReviewersBut,
                      EventKey, RowsSent, SentInRow
  <1>3. QED  BY <1>1, <1>2, SubmissionTold, GoingOnTold DEF PeopleStep, ToldInv

\* Whatever a request goes through, every row of its history notifies the
\* requester or the other reviewers anew, a repeated request for revision apart.
THEOREM NotificationsCorrect == Spec => []EveryoneIsTold
  <1>1. Init => ToldInv
    <2>1. Init => EveryoneIsTold /\ RanksRise /\ RowsSent
      BY DEF Init, EveryoneIsTold, RanksRise, RowsSent
    <2>2. QED  BY <2>1, PeopleInductive DEF ToldInv
  <1>2. ToldInv /\ [Next]_vars => ToldInv'
    BY PeopleInductive, PeopleShape, ToldStep DEF ToldInv
  <1>3. ToldInv => EveryoneIsTold
    BY DEF ToldInv
  <1>4. QED  BY <1>1, <1>2, <1>3, PTL DEF Spec

----------------------------------------------------------------------------
(* Closing without a receipt *)

EarlyOf(r) ==
    /\ status[r] = "closed"
    /\ \A i \in DOMAIN history[r] : history[r][i].to # "received"
    => \A l \in linesOf[r] : lineStatus[l] = "rejected"

\* A request with the same status, history and book as before.
SameRequest(q) ==
    /\ status'[q] = status[q] /\ history'[q] = history[q]
    /\ linesOf'[q] = linesOf[q]
    /\ \A l \in linesOf[q] : lineStatus'[l] = lineStatus[l]

LEMMA EarlyStep ==
    ASSUME TypeOK, LedgerWellFormed, HistoryChains, EarlyCloseBuysNothing, Shape
    PROVE  EarlyCloseBuysNothing'
  <1>1. \A q \in Requests : EarlyOf(q)
    BY DEF EarlyCloseBuysNothing, EarlyOf
  <1>2. ASSUME NEW q \in Requests, SameRequest(q)
        PROVE  EarlyOf(q)'
    BY <1>1, <1>2 DEF SameRequest, EarlyOf
  <1>3. \A q \in Requests : status[q] \in Statuses
    BY DEF TypeOK
  <1>4. ASSUME NEW r \in Requests, NEW u \in Users, NEW S \in SUBSET Lines,
               Drafting(r, u, S), NEW q \in Requests
        PROVE  EarlyOf(q)'
    <2>1. /\ InsertLines(r, S) /\ status' = [status EXCEPT ![r] = "submitted"]
          /\ Log(r, status[r], "submitted", u) /\ "submitted" \in Statuses
      BY <1>4 DEF Drafting, Statuses
    <2>2. CASE q = r
      BY <2>1, <2>2 DEF EarlyOf, TypeOK
    <2>3. CASE q # r
      <3>1. history'[q] = history[q] /\ status'[q] = status[q]
        BY <1>3, <2>1, <2>3, LogFacts DEF TypeOK
      <3>2. SameRequest(q)
        BY <2>1, <2>3, <3>1, InsertedApart DEF SameRequest
      <3>3. QED  BY <1>2, <3>2
    <2>4. QED  BY <2>2, <2>3
  <1>5. ASSUME NEW r \in Requests, NEW u \in Users, NEW items \in ItemInputs,
               NEW spending \in SpendInputs,
               NEW next \in {"purchasing", "purchased", "closed"},
               Editing(r, u, items, spending, next), ClosesRejected(r, next),
               NEW q \in Requests
        PROVE  EarlyOf(q)'
    <2>1. /\ ApplyProcessing(r, items, spending) /\ linesOf' = linesOf
          /\ status' = [status EXCEPT ![r] = next]
          /\ Log(r, status[r], next, u) /\ next \in Statuses
      BY <1>5 DEF Editing, ApplyProcessing, Statuses
    <2>2. CASE q = r
      BY <1>5, <2>1, <2>2 DEF EarlyOf, ClosesRejected, TypeOK
    <2>3. CASE q # r
      <3>1. history'[q] = history[q] /\ status'[q] = status[q]
        BY <1>3, <2>1, <2>3, LogFacts DEF TypeOK
      <3>2. SameRequest(q)
        BY <2>1, <2>3, <3>1, OthersUntouched DEF SameRequest
      <3>3. QED  BY <1>2, <3>2
    <2>4. QED  BY <2>2, <2>3
  <1>6. ASSUME NEW r \in Requests, NEW items \in ItemInputs,
               NEW spending \in SpendInputs, Saving(r, items, spending),
               NEW q \in Requests
        PROVE  EarlyOf(q)'
    <2>1. /\ ApplyProcessing(r, items, spending) /\ status[r] = "purchasing"
          /\ status' = status /\ history' = history
      BY <1>6 DEF Saving
    <2>2. CASE q = r
      BY <2>1, <2>2 DEF EarlyOf
    <2>3. CASE q # r
      <3>1. SameRequest(q)
        BY <2>1, <2>3, OthersUntouched DEF SameRequest
      <3>2. QED  BY <1>2, <3>1
    <2>4. QED  BY <2>2, <2>3
  <1>7. ASSUME NEW r \in Requests, NEW u \in Users, NEW next \in Statuses,
               Moving(r, u, next),
               ClosesRejected(r, next) \/ (next = "closed" => status[r] = "received"),
               NEW q \in Requests
        PROVE  EarlyOf(q)'
    <2>1. /\ linesOf' = linesOf /\ lineStatus' = lineStatus
          /\ status' = [status EXCEPT ![r] = next] /\ Log(r, status[r], next, u)
      BY <1>7 DEF Moving, ledger
    <2>2. CASE q = r /\ ClosesRejected(r, next)
      BY <2>1, <2>2 DEF EarlyOf, ClosesRejected, TypeOK
    <2>3. CASE q = r /\ next # "closed"
      BY <2>1, <2>3 DEF EarlyOf, TypeOK
    <2>4. CASE q = r /\ status[r] = "received"
      <3> DEFINE n == Len(history[r])
      <3>1. /\ n \in Nat /\ DOMAIN history'[r] = 1..n + 1
            /\ history[r] = <<>> <=> n = 0
            /\ \A j \in 1..n : history'[r][j] = history[r][j]
        BY <1>3, <2>1, LogFacts, EmptySeq DEF TypeOK
      <3>2. n # 0 /\ history[r][n].to = "received"
        BY <2>4, <3>1 DEF HistoryChains
      <3> HIDE DEF n
      <3>3. n \in DOMAIN history'[r] /\ history'[r][n].to = "received"
        BY <3>1, <3>2
      <3>4. QED  BY <2>4, <3>3 DEF EarlyOf
    <2>5. CASE q # r
      <3>1. history'[q] = history[q] /\ status'[q] = status[q]
        BY <1>3, <2>1, <2>5, LogFacts DEF TypeOK
      <3>2. QED  BY <1>2, <2>1, <3>1 DEF SameRequest
    <2>6. QED  BY <1>7, <2>2, <2>3, <2>4, <2>5
  <1>8. ASSUME UNCHANGED <<status, ledger, history>>, NEW q \in Requests
        PROVE  EarlyOf(q)'
    BY <1>2, <1>8 DEF SameRequest, ledger
  <1>9. ASSUME NEW r \in Requests, NEW next \in Statuses, <<status[r], next>> \in MovePairs
        PROVE  next = "closed" => status[r] = "received"
    BY <1>9 DEF MovePairs
  <1>10. {"purchased", "closed"} \subseteq Statuses
    BY DEF Statuses
  <1>11. ASSUME NEW q \in Requests
         PROVE  EarlyOf(q)'
    BY <1>4, <1>5, <1>6, <1>7, <1>8, <1>9, <1>10 DEF Shape
  <1>12. QED  BY <1>11 DEF EarlyCloseBuysNothing, EarlyOf

\* A request that is closed without a receipt had every line rejected.
THEOREM EarlyClosesCorrect == Spec => []EarlyCloseBuysNothing
  <1> DEFINE Inv == LedgerInv /\ HistoryChains /\ EarlyCloseBuysNothing
  <1>1. Init => Inv
    BY DEF Init, LedgerInv, TypeOK, Statuses, MaybeUser, LineStatuses, HistoryChains,
           LedgerWellFormed, BlankBookInReview, TotalStandsAlone, EntriesDisjoint,
           EarlyCloseBuysNothing
  <1>2. Inv /\ [Next]_vars => Inv'
    BY TypeStep, StepShape, LedgerStep, HistoryStep, EarlyStep DEF LedgerInv
  <1>3. Inv => EarlyCloseBuysNothing
    OBVIOUS
  <1> HIDE DEF Inv
  <1>4. QED  BY <1>1, <1>2, <1>3, PTL DEF Spec

----------------------------------------------------------------------------
(* Every call of a page is a call of the service *)

LEMMA DraftInputs ==
    ASSUME TypeOK, NEW r \in Requests, NEW d, d.marks \in MarkSets,
           d.spend \in SUBSET Entries, DraftLines(d) # {}, EntriesFit(d),
           ItemsBelong(r, d.marks)
    PROVE  d.marks \in ItemInputs /\ AllEntries(d) \in SpendInputs
  <1>1. PICK S \in SUBSET Lines : d.marks \in [S -> LineStatuses]
    BY DEF MarkSets
  <1>2. DOMAIN d.marks = S /\ S # {}
    BY <1>1 DEF DraftLines
  <1>3. d.marks \in ItemUpdates
    BY <1>1, <1>2 DEF ItemUpdates
  <1>4. DOMAIN d.marks \subseteq issued
    BY DEF ItemsBelong, TypeOK
  <1>5. d.spend \in EntrySets
    BY DEF EntriesFit, EntrySets
  <1>6. QED  BY <1>3, <1>4, <1>5 DEF ItemInputs, SpendInputs, AllEntries

LEMMA SavesIsProcess ==
    ASSUME TypeOK, NEW r \in Requests, NEW u \in Users, NEW d, d.marks \in MarkSets,
           d.spend \in SUBSET Entries, Saves(r, u, d)
    PROVE  Process(r, u) /\ d.marks \in ItemInputs /\ AllEntries(d) \in SpendInputs
  <1>1. d.marks \in ItemInputs /\ AllEntries(d) \in SpendInputs
    BY DraftInputs DEF Saves, SaveProcessing, ApplyProcessing
  <1>2. QED  BY <1>1 DEF Saves, Process

LEMMA CompletesIsComplete ==
    ASSUME TypeOK, NEW r \in Requests, NEW u \in Users, NEW d, d.marks \in MarkSets,
           d.spend \in SUBSET Entries, Completes(r, u, d)
    PROVE  Complete(r, u) /\ d.marks \in ItemInputs /\ AllEntries(d) \in SpendInputs
  <1>1. d.marks \in ItemInputs /\ AllEntries(d) \in SpendInputs
    BY DraftInputs DEF Completes, DraftSettled, CompleteWithInput, ApplyProcessing
  <1>2. QED  BY <1>1 DEF Completes, Complete

\* The calls of a step: new lines, a draft sent as a whole, or a button.
DraftsLines == \E r \in Requests, u \in Users, S \in SUBSET Lines :
                  CreateRequest(r, u, S) \/ ReviseRequest(r, u, S)

Sends(r, u, d) == /\ d.marks \in ItemInputs
                  /\ AllEntries(d) \in SpendInputs
                  /\ Saves(r, u, d) \/ Completes(r, u, d)

SendsDraft == \E r \in Requests, u \in Users, d \in Drafts : Sends(r, u, d)

Presses == \E r \in Requests, u \in Users :
              ConfirmReceived(r, u) \/ \E a \in Offered(u, r) : Transition(r, u, a)

LEMMA OfferedActions ==
    ASSUME NEW u, NEW r
    PROVE  Offered(u, r) \subseteq TransitionActions
  BY DEF Offered, TransitionActions, ReviewActions

LEMMA ShownRequest ==
    ASSUME DeskTypeOK, NEW u \in Users, PanelShown(u)
    PROVE  desk[u] \in Answers /\ desk[u].request \in Requests /\ draft[u] \in Drafts
  BY DEF DeskTypeOK, PanelShown, Shows, Answers

LEMMA DeskCalls ==
    ASSUME TypeOK, DeskTypeOK, DeskNext
    PROVE  DraftsLines \/ SendsDraft \/ Presses \/ UNCHANGED vars
  <1>1. ASSUME NEW u \in Users, PageSaves(u) \/ PageCompletes(u)
        PROVE  SendsDraft
    <2>1. desk[u].request \in Requests /\ draft[u] \in Drafts
      BY <1>1, ShownRequest DEF PageSaves, PageCompletes
    <2>2. draft[u].marks \in MarkSets /\ draft[u].spend \in SUBSET Entries
      BY <2>1 DEF Drafts
    <2>3. Saves(desk[u].request, u, draft[u]) \/ Completes(desk[u].request, u, draft[u])
      BY <1>1 DEF PageSaves, PageCompletes
    <2>4. Sends(desk[u].request, u, draft[u])
      BY <2>1, <2>2, <2>3, SavesIsProcess, CompletesIsComplete DEF Sends
    <2>5. QED  BY <2>1, <2>4 DEF SendsDraft
  <1>2. ASSUME NEW u \in Users, NEW r \in Requests, OtherProcesses(u, r)
        PROVE  SendsDraft
    <2>1. PICK marks \in [linesOf[r] -> LineStatuses], entries \in EntrySets :
             LET d == [marks |-> marks, spend |-> entries, group |-> {}] IN
             Saves(r, u, d) \/ Completes(r, u, d)
      BY <1>2 DEF OtherProcesses
    <2> DEFINE d == [marks |-> marks, spend |-> entries, group |-> {}]
    <2>2. linesOf[r] \in SUBSET Lines
      BY DEF TypeOK
    <2>3. marks \in MarkSets /\ entries \in SUBSET Entries
      BY <2>2 DEF MarkSets, EntrySets
    <2>4. d \in Drafts /\ d.marks \in MarkSets /\ d.spend \in SUBSET Entries
      BY <2>3 DEF Drafts
    <2>5. Saves(r, u, d) \/ Completes(r, u, d)
      BY <2>1
    <2> HIDE DEF d
    <2>6. Sends(r, u, d)
      BY <2>4, <2>5, SavesIsProcess, CompletesIsComplete DEF Sends
    <2>7. QED  BY <2>4, <2>6 DEF SendsDraft
  <1>3. ASSUME NEW u \in Users, NEW r \in Requests,
               PageCreates(u, r) \/ PageRevises(u, r)
        PROVE  DraftsLines
    BY <1>3 DEF PageCreates, PageRevises, DraftsLines
  <1>4. ASSUME NEW u \in Users, NEW r \in Requests, PageActs(u, r) \/ PageConfirms(u, r)
        PROVE  Presses
    BY <1>4 DEF PageActs, PageConfirms, Presses
  <1>5. ASSUME NEW u \in Users,
               \/ ReadLines(u) \/ ReadEntries(u) \/ ShowRequest(u) \/ LoadFails(u)
               \/ MarkLine(u) \/ BillLine(u) \/ Regroup(u) \/ BillGroup(u)
               \/ BillTotal(u) \/ BillItems(u) \/ DropEntry(u) \/ PageRegisters(u)
               \/ \E r \in Requests : ReadRow(u, r)
        PROVE  UNCHANGED vars
    BY <1>5 DEF ReadLines, ReadEntries, ShowRequest, LoadFails, MarkLine, BillLine, Regroup,
                BillGroup, BillTotal, BillItems, DropEntry, PageRegisters, ReadRow, Edit
  <1>6. QED  BY <1>1, <1>2, <1>3, <1>4, <1>5 DEF DeskNext

LEMMA DeskStepIsService ==
    ASSUME TypeOK, DeskTypeOK, [DeskNext]_deskVars
    PROVE  [Next]_vars
  <1>1. CASE DraftsLines
    BY <1>1 DEF DraftsLines, Next
  <1>2. CASE SendsDraft
    <2>1. PICK r \in Requests, u \in Users, d \in Drafts : Sends(r, u, d)
      BY <1>2 DEF SendsDraft
    <2>2. d.marks \in MarkSets /\ d.spend \in SUBSET Entries
      BY DEF Drafts
    <2>3. Process(r, u) \/ Complete(r, u)
      BY <2>1, <2>2, SavesIsProcess, CompletesIsComplete DEF Sends
    <2>4. QED  BY <2>3 DEF Next
  <1>3. CASE Presses
    BY <1>3, OfferedActions DEF Presses, Next
  <1>4. CASE UNCHANGED deskVars
    BY <1>4 DEF deskVars
  <1>5. QED  BY <1>1, <1>2, <1>3, <1>4, DeskCalls

----------------------------------------------------------------------------
(* Type correctness of the pages *)

LEMMA DraftOfType ==
    ASSUME NEW answer \in Answers \cup {Nothing}
    PROVE  DraftOf(answer) \in Drafts
  <1>1. BlankDraft \in Drafts
    <2>1. [l \in {} |-> "pending"] \in [{} -> LineStatuses]
      OBVIOUS
    <2>2. [l \in {} |-> "pending"] \in MarkSets
      BY <2>1 DEF MarkSets
    <2>3. QED  BY <2>2 DEF BlankDraft, Drafts
  <1>2. QED  BY <1>1 DEF DraftOf, Answers, Drafts

\* Taking a line out of entries leaves entries.
LEMMA UnbilledType ==
    ASSUME NEW entries \in SUBSET Entries, NEW l
    PROVE  Unbilled(entries, l) \in SUBSET Entries
  <1>1. ASSUME NEW f \in entries,
               f.scope = "request_total" \/ f.lines \ {l} # {}
        PROVE  [f EXCEPT !.lines = @ \ {l}] \in Entries
    <2>1. CASE f \in [scope : {"items"}, lines : (SUBSET Lines) \ {{}}]
      BY <1>1, <2>1 DEF Entries
    <2>2. CASE f \in [scope : {"request_total"}, lines : {{}}]
      BY <2>2 DEF Entries
    <2>3. QED  BY <2>1, <2>2 DEF Entries
  <1>2. QED  BY <1>1 DEF Unbilled, Entries

LEMMA MarkedType ==
    ASSUME NEW d \in Drafts, NEW l \in DraftLines(d), NEW s \in LineStatuses
    PROVE  Marked(d, l, s) \in Drafts /\ DOMAIN Marked(d, l, s).marks = DOMAIN d.marks
  <1>1. PICK S \in SUBSET Lines : d.marks \in [S -> LineStatuses]
    BY DEF Drafts, MarkSets
  <1>2. [d.marks EXCEPT ![l] = s] \in [S -> LineStatuses]
    BY <1>1 DEF DraftLines
  <1>3. [d.marks EXCEPT ![l] = s] \in MarkSets
    BY <1>2 DEF MarkSets
  <1>4. Unbilled(d.spend, l) \in SUBSET Entries
    BY UnbilledType DEF Drafts
  <1>5. CASE s = "purchased"
    BY <1>1, <1>2, <1>3, <1>5 DEF Marked, Drafts
  <1>6. CASE s # "purchased"
    BY <1>1, <1>2, <1>3, <1>4, <1>6 DEF Marked, Drafts
  <1>7. QED  BY <1>5, <1>6

\* What every edit of a draft keeps: its type and the lines it is about.
LEMMA EditType ==
    ASSUME DeskTypeOK, NEW u \in Users,
           \/ MarkLine(u) \/ BillLine(u) \/ Regroup(u) \/ BillGroup(u)
           \/ BillTotal(u) \/ BillItems(u) \/ DropEntry(u)
    PROVE  \E d \in Drafts : /\ PanelShown(u) /\ Edit(u, d)
                             /\ DOMAIN d.marks = DOMAIN draft[u].marks
  <1> DEFINE d == draft[u]
  <1>1. d \in Drafts
    BY DEF DeskTypeOK
  <1>2. /\ d.marks \in MarkSets /\ d.spend \subseteq Entries /\ d.group \subseteq Lines
        /\ DraftLines(d) \subseteq Lines
    BY <1>1 DEF Drafts, MarkSets, DraftLines
  <1>3. ASSUME NEW e \in Drafts, Edit(u, e), e.marks = d.marks
        PROVE  \E f \in Drafts : /\ PanelShown(u) /\ Edit(u, f)
                                 /\ DOMAIN f.marks = DOMAIN draft[u].marks
    BY <1>3 DEF Edit
  <1> HIDE DEF d
  <1>4. CASE MarkLine(u)
    <2>1. PICK l \in DraftLines(d), s \in LineStatuses : Edit(u, Marked(d, l, s))
      BY <1>4 DEF MarkLine, d
    <2>2. QED  BY <1>1, <2>1, MarkedType DEF Edit, d
  <1>5. CASE BillLine(u)
    <2>1. PICK l \in Billable(d) :
             Edit(u, [d EXCEPT !.spend = @ \cup {ItemEntry({l})}, !.group = @ \ {l}])
      BY <1>5 DEF BillLine, d
    <2> DEFINE e == [d EXCEPT !.spend = @ \cup {ItemEntry({l})}, !.group = @ \ {l}]
    <2>2. ItemEntry({l}) \in Entries
      BY <1>2 DEF ItemEntry, Entries, Billable
    <2>3. e \in Drafts /\ e.marks = d.marks
      BY <1>1, <1>2, <2>2 DEF Drafts
    <2>4. QED  BY <1>3, <2>1, <2>3
  <1>6. CASE Regroup(u)
    <2>1. PICK l \in Billable(d) :
             Edit(u, [d EXCEPT !.group = IF l \in @ THEN @ \ {l} ELSE @ \cup {l}])
      BY <1>6 DEF Regroup, d
    <2> DEFINE e == [d EXCEPT !.group = IF l \in @ THEN @ \ {l} ELSE @ \cup {l}]
    <2>2. l \in Lines
      BY <1>2 DEF Billable
    <2>3. e \in Drafts /\ e.marks = d.marks
      BY <1>1, <1>2, <2>2 DEF Drafts
    <2>4. QED  BY <1>3, <2>1, <2>3
  <1>7. CASE BillGroup(u)
    <2> DEFINE e == [d EXCEPT !.spend = @ \cup {ItemEntry(d.group)}, !.group = {}]
    <2>1. d.group # {} /\ Edit(u, e)
      BY <1>7 DEF BillGroup, d
    <2>2. ItemEntry(d.group) \in Entries
      BY <1>2, <2>1 DEF ItemEntry, Entries
    <2>3. e \in Drafts /\ e.marks = d.marks
      BY <1>1, <1>2, <2>2 DEF Drafts
    <2>4. QED  BY <1>3, <2>1, <2>3
  <1>8. CASE BillTotal(u)
    <2> DEFINE e == [d EXCEPT !.spend = {[scope |-> "request_total", lines |-> {}]},
                              !.group = {}]
    <2>1. Edit(u, e)
      BY <1>8 DEF BillTotal, d
    <2>2. [scope |-> "request_total", lines |-> {}] \in Entries
      BY DEF Entries
    <2>3. e \in Drafts /\ e.marks = d.marks
      BY <1>1, <1>2, <2>2 DEF Drafts
    <2>4. QED  BY <1>3, <2>1, <2>3
  <1>9. CASE BillItems(u)
    <2> DEFINE e == [d EXCEPT !.spend = {}, !.group = {}]
    <2>1. Edit(u, e)
      BY <1>9 DEF BillItems, d
    <2>2. e \in Drafts /\ e.marks = d.marks
      BY <1>1, <1>2 DEF Drafts
    <2>3. QED  BY <1>3, <2>1, <2>2
  <1>10. CASE DropEntry(u)
    <2>1. PICK entry \in d.spend : Edit(u, [d EXCEPT !.spend = @ \ {entry}])
      BY <1>10 DEF DropEntry, d
    <2> DEFINE e == [d EXCEPT !.spend = @ \ {entry}]
    <2>2. e \in Drafts /\ e.marks = d.marks
      BY <1>1, <1>2 DEF Drafts
    <2>3. QED  BY <1>3, <2>1, <2>2
  <1>11. QED  BY <1>4, <1>5, <1>6, <1>7, <1>8, <1>9, <1>10

LEMMA BookMarks ==
    ASSUME TypeOK, NEW r \in Requests
    PROVE  Book(r).marks \in MarkSets /\ spend[r] \in SUBSET Entries
  <1>1. linesOf[r] \in SUBSET Lines
    BY DEF TypeOK
  <1>2. [l \in linesOf[r] |-> lineStatus[l]] \in [linesOf[r] -> LineStatuses]
    BY DEF TypeOK
  <1>3. QED  BY <1>1, <1>2 DEF Book, MarkSets, TypeOK

LEMMA DeskTypeStep ==
    ASSUME TypeOK, DeskTypeOK, [DeskNext]_deskVars
    PROVE  DeskTypeOK'
  <1>1. ASSUME NEW u \in Users, NEW r \in Requests, ReadRow(u, r)
        PROVE  DeskTypeOK'
    <2>1. DraftOf(desk[u]) \in Drafts
      BY DraftOfType DEF DeskTypeOK
    <2>2. [request |-> r, status |-> status[r], marks |-> Nothing, spend |-> Nothing]
             \in PartialAnswers
      BY DEF PartialAnswers, TypeOK
    <2>3. QED  BY <1>1, <2>1, <2>2 DEF ReadRow, Put, DeskTypeOK
  <1>2. ASSUME NEW u \in Users, ReadLines(u) \/ ReadEntries(u)
        PROVE  DeskTypeOK'
    <2>1. loading[u] \in PartialAnswers
      BY <1>2 DEF ReadLines, ReadEntries, DeskTypeOK
    <2>2. loading[u].request \in Requests
      BY <2>1 DEF PartialAnswers
    <2>3. /\ [loading[u] EXCEPT !.marks = Book(loading[u].request).marks] \in PartialAnswers
          /\ [loading[u] EXCEPT !.spend = spend[loading[u].request]] \in PartialAnswers
      BY <2>1, <2>2, BookMarks DEF PartialAnswers
    <2>4. QED  BY <1>2, <2>3 DEF ReadLines, ReadEntries, Put, DeskTypeOK
  <1>3. ASSUME NEW u \in Users, ShowRequest(u)
        PROVE  DeskTypeOK'
    <2>1. loading[u] \in Answers
      BY <1>3 DEF ShowRequest, DeskTypeOK, PartialAnswers, Answers
    <2>2. DraftOf(loading[u]) \in Drafts
      BY <2>1, DraftOfType
    <2>3. QED  BY <1>3, <2>1, <2>2 DEF ShowRequest, Put, DeskTypeOK
  <1>4. ASSUME NEW u \in Users, LoadFails(u)
        PROVE  DeskTypeOK'
    BY <1>4 DEF LoadFails, Put, DeskTypeOK
  <1>5. ASSUME NEW u \in Users, NEW d \in Drafts, Edit(u, d)
        PROVE  DeskTypeOK'
    BY <1>5 DEF Edit, Put, DeskTypeOK
  <1>6. ASSUME NEW u \in Users, PageRegisters(u)
        PROVE  DeskTypeOK'
    <2>1. desk[u] \in Answers
      BY <1>6 DEF PageRegisters, Shows, DeskTypeOK
    <2>2. Eligible(desk[u]) \subseteq Lines
      BY <2>1 DEF Eligible, Answers, MarkSets
    <2>3. QED  BY <1>6, <2>2 DEF PageRegisters, DeskTypeOK, pages
  <1>7. CASE UNCHANGED <<pages, registered>>
    BY <1>7 DEF pages, DeskTypeOK
  <1>8. ASSUME NEW u \in Users,
               \/ PageSaves(u) \/ PageCompletes(u)
               \/ \E r \in Requests :
                     \/ PageCreates(u, r) \/ PageRevises(u, r)
                     \/ PageActs(u, r) \/ PageConfirms(u, r) \/ OtherProcesses(u, r)
        PROVE  UNCHANGED <<pages, registered>>
    BY <1>8 DEF PageSaves, PageCompletes, PageCreates, PageRevises, PageActs,
                PageConfirms, OtherProcesses
  <1>9. CASE UNCHANGED deskVars
    BY <1>7, <1>9 DEF deskVars
  <1>10. QED
    BY <1>1, <1>2, <1>3, <1>4, <1>5, <1>6, <1>7, <1>8, <1>9, EditType DEF DeskNext

LEMMA DeskStart ==
    ASSUME DeskInit
    PROVE  TypeOK /\ DeskTypeOK
  <1>1. TypeOK
    BY DEF DeskInit, Init, TypeOK, Statuses, MaybeUser, LineStatuses
  <1>2. BlankDraft \in Drafts
    BY DraftOfType DEF DraftOf
  <1>3. QED  BY <1>1, <1>2 DEF DeskInit, DeskTypeOK

\* What the pages do is something the service may be asked to do, so all that
\* is proved of the service holds with the pages.
THEOREM DeskImplementsService == DeskSpec => Spec
  <1>1. DeskInit => TypeOK /\ DeskTypeOK /\ Init
    BY DeskStart DEF DeskInit
  <1>2. TypeOK /\ DeskTypeOK /\ [DeskNext]_deskVars => (TypeOK /\ DeskTypeOK)'
    BY DeskTypeStep, DeskStepIsService, TypeStep
  <1>3. TypeOK /\ DeskTypeOK /\ [DeskNext]_deskVars => [Next]_vars
    BY DeskStepIsService
  <1>4. QED  BY <1>1, <1>2, <1>3, PTL DEF DeskSpec, Spec

----------------------------------------------------------------------------
(* What the three kinds of call do to status and book *)

LEMMA DraftsFacts ==
    ASSUME TypeOK, NEW r \in Requests, NEW u \in Users, NEW S \in SUBSET Lines,
           CreateRequest(r, u, S) \/ ReviseRequest(r, u, S)
    PROVE  /\ status[r] \in {"draft", "revision_requested"} /\ status'[r] = "submitted"
           /\ \A q \in Requests \ {r} : status'[q] = status[q]
           /\ InsertLines(r, S) /\ spend' = spend
  BY DEF TypeOK, CreateRequest, ReviseRequest

LEMMA SendsFacts ==
    ASSUME TypeOK, NEW r \in Requests, NEW u \in Users, NEW d, Sends(r, u, d)
    PROVE  /\ ApplyProcessing(r, d.marks, AllEntries(d))
           /\ linesOf' = linesOf /\ spend'[r] = d.spend
           /\ \A e \in d.spend : \A l \in e.lines : lineStatus'[l] = "purchased"
           /\ \A q \in Requests \ {r} : status'[q] = status[q]
           /\ \/ status'[r] = "purchasing"
              \/ \A l \in linesOf[r] : lineStatus'[l] # "pending"
  <1>1. ApplyProcessing(r, d.marks, AllEntries(d))
    BY DEF Sends, Saves, Completes, SaveProcessing, CompleteWithInput
  <1>2. AllEntries(d).entries = d.spend /\ AllEntries(d).given
    BY DEF AllEntries
  <1>3. /\ linesOf' = linesOf /\ spend'[r] = d.spend
        /\ lineStatus' = Updated(d.marks) /\ DOMAIN d.marks \subseteq linesOf[r]
        /\ EntriesOnPurchased(d.marks, d.spend)
    BY <1>1, <1>2 DEF ApplyProcessing, Replaced, ItemsBelong, TypeOK
  <1>4. \A e \in d.spend : \A l \in e.lines : lineStatus'[l] = "purchased"
    <2>1. linesOf[r] \subseteq Lines
      BY DEF TypeOK
    <2>2. QED  BY <1>3, <2>1 DEF EntriesOnPurchased, Updated
  <1>5. CASE Saves(r, u, d)
    <2>1. /\ \A q \in Requests \ {r} : status'[q] = status[q]
          /\ status'[r] = "purchasing"
      BY <1>1, <1>5 DEF Saves, SaveProcessing, StartsBuying, ApplyProcessing,
                        ProcessableStatuses, TypeOK
    <2>2. QED  BY <1>1, <1>3, <1>4, <2>1
  <1>6. CASE Completes(r, u, d)
    <2>1. FinishProcessing(r, u)
      BY <1>6 DEF Completes, CompleteWithInput
    <2>2. /\ \A q \in Requests \ {r} : status'[q] = status[q]
          /\ \A l \in linesOf[r] : lineStatus'[l] # "pending"
      BY <2>1 DEF FinishProcessing, AllSettled, TypeOK
    <2>3. QED  BY <1>1, <1>3, <1>4, <2>2
  <1>7. QED  BY <1>5, <1>6 DEF Sends

\* The last steps of a request.
Late == {"purchased", "received", "closed"}

\* No button buys: a request in one of the last steps was there or is new there
\* by a completion.
LEMMA PressesFacts ==
    ASSUME TypeOK, Presses
    PROVE  /\ UNCHANGED ledger
           /\ \A q \in Requests : status'[q] \in Late => status[q] \in Late
  <1>1. PICK r \in Requests, u \in Users :
            ConfirmReceived(r, u) \/ \E a \in Offered(u, r) : Transition(r, u, a)
    BY DEF Presses
  <1>2. CASE ConfirmReceived(r, u)
    BY <1>2 DEF ConfirmReceived, Late, TypeOK
  <1>3. ASSUME NEW a \in Offered(u, r), Transition(r, u, a)
        PROVE  /\ UNCHANGED ledger
               /\ \A q \in Requests : status'[q] \in Late => status[q] \in Late
    <2>1. /\ UNCHANGED ledger /\ MayFollow(a, status[r])
          /\ status' = [status EXCEPT ![r] = Edges[a][status[r]]]
      BY <1>3 DEF Transition
    <2>2. a \in TransitionActions /\ status[r] \in Statuses
      BY OfferedActions DEF TypeOK
    <2>3. a \notin {"mark_purchased", "mark_received", "start_purchase"}
      BY DEF Offered, ReviewActions
    <2>4. Edges[a][status[r]] \in Late => status[r] \in Late
      BY <2>1, <2>2, <2>3, EdgeTable DEF Late
    <2>5. QED  BY <2>1, <2>4 DEF TypeOK
  <1>4. QED  BY <1>1, <1>2, <1>3

----------------------------------------------------------------------------
(* The amounts and the marks *)

LEMMA AmountsStep ==
    ASSUME LedgerInv, DeskTypeOK, AmountsOnPurchasedLines, [DeskNext]_deskVars
    PROVE  AmountsOnPurchasedLines'
  <1> USE DEF LedgerInv, AmountsOnPurchasedLines, SpendOnlyOnPurchasedLines
  <1>1. ASSUME NEW r \in Requests, NEW u \in Users, NEW S \in SUBSET Lines,
               CreateRequest(r, u, S) \/ ReviseRequest(r, u, S)
        PROVE  AmountsOnPurchasedLines'
    <2>1. spend' = spend /\ spend[r] = {} /\ InsertLines(r, S)
      BY <1>1, DraftsFacts DEF BlankBookInReview, ReviewPhase
    <2>2. ASSUME NEW q \in Requests \ {r}, NEW e \in spend[q], NEW l \in e.lines
          PROVE  lineStatus'[l] = "purchased"
      <3>1. l \in linesOf[q]
        BY DEF LedgerWellFormed
      <3>2. QED  BY <2>1, <3>1, InsertedApart
    <2>3. QED  BY <2>1, <2>2
  <1>2. ASSUME NEW r \in Requests, NEW u \in Users, NEW d \in Drafts, Sends(r, u, d)
        PROVE  AmountsOnPurchasedLines'
    <2>1. /\ spend'[r] = d.spend
          /\ \A e \in d.spend : \A l \in e.lines : lineStatus'[l] = "purchased"
          /\ ApplyProcessing(r, d.marks, AllEntries(d))
          /\ d.marks \in ItemInputs /\ AllEntries(d) \in SpendInputs
      BY <1>2, SendsFacts DEF Sends
    <2>2. ASSUME NEW q \in Requests \ {r}, NEW e \in spend'[q], NEW l \in e.lines
          PROVE  lineStatus'[l] = "purchased"
      <3>1. spend'[q] = spend[q] /\ \A k \in linesOf[q] : lineStatus'[k] = lineStatus[k]
        BY <2>1, OthersUntouched
      <3>2. l \in linesOf[q] /\ lineStatus[l] = "purchased"
        BY <3>1 DEF LedgerWellFormed
      <3>3. QED  BY <3>1, <3>2
    <2>3. QED  BY <2>1, <2>2
  <1>3. CASE UNCHANGED ledger
    BY <1>3 DEF ledger
  <1>4. CASE UNCHANGED deskVars
    BY <1>3, <1>4 DEF deskVars, vars
  <1>5. CASE DeskNext
    BY <1>1, <1>2, <1>3, <1>5, DeskCalls, PressesFacts DEF DraftsLines, SendsDraft, vars
  <1>6. QED  BY <1>4, <1>5

LEMMA BoughtStep ==
    ASSUME LedgerInv, DeskTypeOK, BoughtIsSettled, [DeskNext]_deskVars
    PROVE  BoughtIsSettled'
  <1> USE DEF LedgerInv, BoughtIsSettled
  <1>1. ASSUME NEW r \in Requests, NEW u \in Users, NEW S \in SUBSET Lines,
               CreateRequest(r, u, S) \/ ReviseRequest(r, u, S)
        PROVE  BoughtIsSettled'
    <2>1. /\ status'[r] = "submitted" /\ InsertLines(r, S)
          /\ \A q \in Requests \ {r} : status'[q] = status[q]
      BY <1>1, DraftsFacts
    <2>2. \A q \in Requests \ {r} : /\ linesOf'[q] = linesOf[q]
                                    /\ \A l \in linesOf[q] : lineStatus'[l] = lineStatus[l]
      BY <2>1, InsertedApart
    <2>3. QED  BY <2>1, <2>2
  <1>2. ASSUME NEW r \in Requests, NEW u \in Users, NEW d \in Drafts, Sends(r, u, d)
        PROVE  BoughtIsSettled'
    <2>1. /\ ApplyProcessing(r, d.marks, AllEntries(d)) /\ linesOf' = linesOf
          /\ d.marks \in ItemInputs /\ AllEntries(d) \in SpendInputs
          /\ \A q \in Requests \ {r} : status'[q] = status[q]
          /\ status'[r] = "purchasing" \/ \A l \in linesOf[r] : lineStatus'[l] # "pending"
      BY <1>2, SendsFacts DEF Sends
    <2>2. \A q \in Requests \ {r} : \A l \in linesOf[q] : lineStatus'[l] = lineStatus[l]
      BY <2>1, OthersUntouched
    <2>3. ASSUME NEW q \in Requests, status'[q] \in {"purchased", "received", "closed"},
                 NEW l \in linesOf'[q]
          PROVE  lineStatus'[l] # "pending"
      <3>1. CASE q = r
        BY <2>1, <2>3, <3>1
      <3>2. CASE q # r
        BY <2>1, <2>2, <2>3, <3>2
      <3>3. QED  BY <3>1, <3>2
    <2>4. QED  BY <2>3
  <1>3. CASE Presses
    BY <1>3, PressesFacts DEF Late, ledger
  <1>4. CASE UNCHANGED vars
    BY <1>4 DEF vars, ledger
  <1>5. CASE UNCHANGED deskVars
    BY <1>4, <1>5 DEF deskVars
  <1>6. CASE DeskNext
    BY <1>1, <1>2, <1>3, <1>4, <1>6, DeskCalls DEF DraftsLines, SendsDraft
  <1>7. QED  BY <1>5, <1>6

----------------------------------------------------------------------------
(* Arrivals *)

\* A request that has arrived stays so, with its book.
LEMMA ArrivedKept ==
    ASSUME LedgerInv, LedgerInv', [Next]_vars, NEW q \in Requests, status[q] \in Arrived
    PROVE  status'[q] \in Arrived /\ Book(q)' = Book(q)
  <1>1. CASE \E r \in Requests : BookStep(r)
    <2>1. PICK r \in Requests : BookStep(r)
      BY <1>1
    <2>2. CASE q = r
      BY <2>1, <2>2 DEF BookStep, MovePairs, ProcessableStatuses, Arrived
    <2>3. CASE q # r
      BY <2>1, <2>3 DEF BookStep
    <2>4. QED  BY <2>2, <2>3
  <1>2. CASE \A p \in Requests : status'[p] = status[p] /\ Book(p)' = Book(p)
    BY <1>2
  <1>3. QED  BY <1>1, <1>2, StepShape, BookShape DEF LedgerInv

\* What a page that saw a request arrive knows of it: because the row is read
\* before the lines, the lines it shows are the final ones.
Final(answer) ==
    answer # Nothing /\ answer.status \in Arrived =>
        /\ status[answer.request] \in Arrived
        /\ answer.marks # Nothing => answer.marks = Book(answer.request).marks

PagesFinal == \A u \in Users : Final(loading[u]) /\ Final(desk[u])

RegisteredFinal ==
    \A l \in registered : /\ lineStatus[l] = "purchased"
                          /\ \E r \in Requests : l \in linesOf[r] /\ status[r] \in Arrived

LEMMA PagesStep ==
    ASSUME LedgerInv, LedgerInv', [Next]_vars, DeskTypeOK, PagesFinal, [DeskNext]_deskVars
    PROVE  PagesFinal'
  <1>1. \A u \in Users : /\ loading[u] # Nothing => loading[u].request \in Requests
                         /\ desk[u] # Nothing => desk[u].request \in Requests
    BY DEF DeskTypeOK, PartialAnswers, Answers
  <1>2. ASSUME NEW u \in Users
        PROVE  /\ loading'[u] = loading[u] => Final(loading[u])'
               /\ desk'[u] = desk[u] => Final(desk[u])'
    BY <1>1, ArrivedKept DEF PagesFinal, Final
  <1>3. CASE UNCHANGED <<loading, desk>>
    BY <1>2, <1>3 DEF PagesFinal
  <1>4. ASSUME NEW u \in Users, UNCHANGED desk, UNCHANGED vars,
               \A v \in Users \ {u} : loading'[v] = loading[v],
               Final(loading'[u])
        PROVE  PagesFinal'
    <2>1. Final(loading[u])'
      BY <1>4 DEF Final, Book, vars, ledger
    <2>2. QED  BY <1>2, <1>4, <2>1 DEF PagesFinal
  <1>5. ASSUME NEW u \in Users, NEW r \in Requests, ReadRow(u, r)
        PROVE  PagesFinal'
    <2>1. loading'[u] = [request |-> r, status |-> status[r], marks |-> Nothing, spend |-> Nothing]
      BY <1>5 DEF ReadRow, Put, DeskTypeOK
    <2>2. Final(loading'[u])
      BY <2>1 DEF Final
    <2>3. QED  BY <1>4, <1>5, <2>2 DEF ReadRow, Put
  <1>6. ASSUME NEW u \in Users, ReadLines(u) \/ ReadEntries(u)
        PROVE  PagesFinal'
    <2>1. loading[u] \in PartialAnswers /\ Final(loading[u])
      BY <1>6 DEF ReadLines, ReadEntries, DeskTypeOK, PagesFinal
    <2>2. \/ loading'[u] = [loading[u] EXCEPT !.marks = Book(loading[u].request).marks]
          \/ loading'[u] = [loading[u] EXCEPT !.spend = spend[loading[u].request]]
      BY <1>6 DEF ReadLines, ReadEntries, Put, DeskTypeOK
    <2>3. Final(loading'[u])
      BY <1>6, <2>1, <2>2 DEF Final, PartialAnswers, ReadLines, ReadEntries
    <2>4. /\ UNCHANGED desk /\ UNCHANGED vars
          /\ \A v \in Users \ {u} : loading'[v] = loading[v]
      BY <1>6 DEF ReadLines, ReadEntries, Put, DeskTypeOK
    <2>5. QED  BY <1>4, <2>3, <2>4
  <1>7. ASSUME NEW u \in Users, LoadFails(u)
        PROVE  PagesFinal'
    <2>1. Final(loading'[u])
      BY <1>7 DEF LoadFails, Put, Final, DeskTypeOK
    <2>2. QED  BY <1>4, <1>7, <2>1 DEF LoadFails, Put
  <1>8. ASSUME NEW u \in Users, ShowRequest(u)
        PROVE  PagesFinal'
    <2>1. /\ desk'[u] = loading[u] /\ loading'[u] = Nothing /\ UNCHANGED vars
          /\ \A v \in Users \ {u} : loading'[v] = loading[v] /\ desk'[v] = desk[v]
      BY <1>8 DEF ShowRequest, Put, DeskTypeOK
    <2>2. Final(desk[u])' /\ Final(loading[u])'
      BY <2>1 DEF PagesFinal, Final, Book, vars, ledger
    <2>3. QED  BY <1>2, <2>1, <2>2 DEF PagesFinal
  <1>9. ASSUME NEW u \in Users,
               \/ MarkLine(u) \/ BillLine(u) \/ Regroup(u) \/ BillGroup(u)
               \/ BillTotal(u) \/ BillItems(u) \/ DropEntry(u) \/ PageRegisters(u)
               \/ PageSaves(u) \/ PageCompletes(u)
               \/ \E r \in Requests :
                     \/ PageCreates(u, r) \/ PageRevises(u, r)
                     \/ PageActs(u, r) \/ PageConfirms(u, r) \/ OtherProcesses(u, r)
        PROVE  UNCHANGED <<loading, desk>>
    BY <1>9 DEF MarkLine, BillLine, Regroup, BillGroup, BillTotal, BillItems, DropEntry,
                Edit, PageRegisters, PageSaves, PageCompletes, PageCreates, PageRevises,
                PageActs, PageConfirms, OtherProcesses, pages
  <1>10. CASE UNCHANGED deskVars
    BY <1>3, <1>10 DEF deskVars, pages
  <1>11. QED  BY <1>3, <1>5, <1>6, <1>7, <1>8, <1>9, <1>10 DEF DeskNext

LEMMA RegisteredStep ==
    ASSUME LedgerInv, LedgerInv', [Next]_vars, DeskTypeOK, PagesFinal, BoughtIsSettled,
           RegisteredFinal, [DeskNext]_deskVars
    PROVE  RegisteredFinal'
  <1>1. ASSUME NEW l \in registered
        PROVE  /\ lineStatus'[l] = "purchased"
               /\ \E r \in Requests : l \in linesOf'[r] /\ status'[r] \in Arrived
    <2>1. PICK r \in Requests : l \in linesOf[r] /\ status[r] \in Arrived
      BY DEF RegisteredFinal
    <2>2. status'[r] \in Arrived /\ Book(r)'.marks = Book(r).marks
      BY <2>1, ArrivedKept
    <2>3. /\ [k \in linesOf'[r] |-> lineStatus'[k]] = [k \in linesOf[r] |-> lineStatus[k]]
      BY <2>2 DEF Book
    <2>4. l \in linesOf'[r] /\ lineStatus'[l] = lineStatus[l]
      BY <2>1, <2>3
    <2>5. QED  BY <2>1, <2>2, <2>4 DEF RegisteredFinal
  <1>2. CASE UNCHANGED registered
    BY <1>1, <1>2 DEF RegisteredFinal
  <1>3. ASSUME NEW u \in Users, PageRegisters(u)
        PROVE  RegisteredFinal'
    <2> DEFINE r == desk[u].request
    <2>1. /\ desk[u] \in Answers /\ r \in Requests /\ desk[u] # Nothing
          /\ desk[u].status \in Arrived /\ status[r] \in Arrived
      BY <1>3 DEF PageRegisters, Shows, DeskTypeOK, Answers
    <2>2. PICK S \in SUBSET Eligible(desk[u]) : registered' = registered \cup S
      BY <1>3 DEF PageRegisters
    <2>3. desk[u].marks = Book(r).marks
      <3>1. desk[u].marks # Nothing
        BY <2>1, NothingIsNoMarks DEF Answers
      <3>2. QED  BY <2>1, <3>1 DEF PagesFinal, Final
    <2>4. ASSUME NEW l \in S
          PROVE  lineStatus[l] = "purchased" /\ l \in linesOf[r]
      <3>1. l \in DOMAIN desk[u].marks /\ desk[u].marks[l] # "rejected"
        BY DEF Eligible
      <3>2. l \in linesOf[r] /\ lineStatus[l] # "rejected"
        BY <2>3, <3>1 DEF Book
      <3>3. lineStatus[l] \in LineStatuses /\ lineStatus[l] # "pending"
        BY <2>1, <3>2 DEF LedgerInv, TypeOK, BoughtIsSettled, Arrived
      <3>4. QED  BY <3>2, <3>3 DEF LineStatuses
    <2>5. UNCHANGED vars
      BY <1>3 DEF PageRegisters
    <2> HIDE DEF r
    <2>6. QED  BY <1>1, <2>1, <2>2, <2>4, <2>5 DEF RegisteredFinal, vars, ledger
  <1>4. ASSUME NEW u \in Users,
               \/ ReadLines(u) \/ ReadEntries(u) \/ ShowRequest(u) \/ LoadFails(u)
               \/ MarkLine(u) \/ BillLine(u) \/ Regroup(u) \/ BillGroup(u)
               \/ BillTotal(u) \/ BillItems(u) \/ DropEntry(u)
               \/ PageSaves(u) \/ PageCompletes(u)
               \/ \E r \in Requests :
                     \/ ReadRow(u, r) \/ PageCreates(u, r) \/ PageRevises(u, r)
                     \/ PageActs(u, r) \/ PageConfirms(u, r) \/ OtherProcesses(u, r)
        PROVE  UNCHANGED registered
    BY <1>4 DEF ReadLines, ReadEntries, ShowRequest, LoadFails, MarkLine, BillLine, Regroup,
                BillGroup, BillTotal, BillItems, DropEntry, Edit, PageSaves, PageCompletes,
                ReadRow, PageCreates, PageRevises, PageActs, PageConfirms, OtherProcesses
  <1>5. CASE UNCHANGED deskVars
    BY <1>2, <1>5 DEF deskVars
  <1>6. QED  BY <1>2, <1>3, <1>4, <1>5 DEF DeskNext

----------------------------------------------------------------------------
(* The theorems *)

\* The inductive invariant: the ledger of the service, the types of the pages,
\* and for every promise what carries it from step to step.
DeskInv == /\ LedgerInv /\ DeskTypeOK
           /\ AmountsOnPurchasedLines /\ BoughtIsSettled
           /\ PagesFinal /\ RegisteredFinal

LEMMA DeskInvStart ==
    ASSUME DeskInit
    PROVE  DeskInv
  <1>1. TypeOK /\ DeskTypeOK
    BY DeskStart
  <1>2. LedgerInv
    BY <1>1 DEF DeskInit, Init, LedgerInv, LedgerWellFormed, BlankBookInReview,
                TotalStandsAlone, EntriesDisjoint
  <1>3. AmountsOnPurchasedLines /\ BoughtIsSettled
    BY DEF DeskInit, Init, AmountsOnPurchasedLines, SpendOnlyOnPurchasedLines, BoughtIsSettled
  <1>4. PagesFinal /\ RegisteredFinal
    BY DEF DeskInit, PagesFinal, Final, RegisteredFinal
  <1>5. QED  BY <1>1, <1>2, <1>3, <1>4 DEF DeskInv

LEMMA DeskInvStep ==
    ASSUME DeskInv, [DeskNext]_deskVars
    PROVE  DeskInv'
  <1>1. [Next]_vars
    BY DeskStepIsService DEF DeskInv, LedgerInv
  <1>2. LedgerInv'
    BY <1>1, TypeStep, StepShape, LedgerStep DEF DeskInv, LedgerInv
  <1>3. DeskTypeOK'
    BY DeskTypeStep DEF DeskInv, LedgerInv
  <1>4. AmountsOnPurchasedLines' /\ BoughtIsSettled'
    BY AmountsStep, BoughtStep DEF DeskInv
  <1>5. PagesFinal' /\ RegisteredFinal'
    BY <1>1, <1>2, PagesStep, RegisteredStep DEF DeskInv
  <1>6. QED  BY <1>2, <1>3, <1>4, <1>5 DEF DeskInv

THEOREM DeskInvariant == DeskSpec => []DeskInv
  BY DeskInvStart, DeskInvStep, PTL DEF DeskSpec

\* Through the pages every amount is on purchased lines.
THEOREM AmountsCorrect == DeskSpec => []AmountsOnPurchasedLines
  <1>1. DeskInv => AmountsOnPurchasedLines
    BY DEF DeskInv
  <1>2. QED  BY <1>1, DeskInvariant, PTL

\* Through the pages nothing is bought with a line pending.
THEOREM BoughtCorrect == DeskSpec => []BoughtIsSettled
  <1>1. DeskInv => BoughtIsSettled
    BY DEF DeskInv
  <1>2. QED  BY <1>1, DeskInvariant, PTL

\* Devices are registered from purchased lines, however old the page.
THEOREM RegistrationCorrect == DeskSpec => []AssetsWerePurchased
  <1>1. DeskInv => AssetsWerePurchased
    BY DEF DeskInv, RegisteredFinal, AssetsWerePurchased
  <1>2. QED  BY <1>1, DeskInvariant, PTL

=============================================================================
