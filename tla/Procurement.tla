---------------------------- MODULE Procurement ----------------------------
(***************************************************************************)
(* The procurement workflow of server/services/procurement: requests, their *)
(* lines, the spending ledger, the status history and the notifications    *)
(* each step sends.  Every service method runs in one transaction that     *)
(* locks the request row (SELECT ... FOR UPDATE), so one method call is    *)
(* one action; an error anywhere in it rolls the whole call back, so a     *)
(* failing call is a disabled action.                                      *)
(***************************************************************************)
EXTENDS Integers, Sequences, FiniteSets

CONSTANTS Requests,   \* request ids
          Lines,      \* the line ids the database may ever hand out (a bound)
          Users,      \* accounts
          Creators,   \* accounts holding procurements.create
          Reviewers,  \* accounts holding procurements.review
          Buyers,     \* accounts holding procurements.purchase
          Closers,    \* accounts holding procurements.close
          NoUser      \* the NULL of a user column

ASSUME RolesAreUsers == /\ Creators \subseteq Users
                        /\ Reviewers \subseteq Users
                        /\ Buyers \subseteq Users
                        /\ Closers \subseteq Users
ASSUME NoUserIsNotAUser == NoUser \notin Users

VARIABLES status,      \* request -> its status; "draft" until the row is inserted
          requester,   \* request -> requester_id
          reviewedBy,  \* request -> reviewed_by
          purchasedBy, \* request -> purchased_by
          issued,      \* line ids handed out so far
          linesOf,     \* request -> ids of its lines
          lineStatus,  \* line -> processing_status
          spend,       \* request -> its spending entries
          history,     \* request -> rows of procurement_status_history, oldest first
          inbox        \* user -> rows of notifications received

stamps == <<requester, reviewedBy, purchasedBy>>
ledger == <<issued, linesOf, lineStatus, spend>>
vars == <<status, stamps, ledger, history, inbox>>

----------------------------------------------------------------------------
(* Values *)

Statuses == {"draft", "submitted", "revision_requested", "approved",
             "rejected", "purchasing", "purchased", "received", "closed",
             "cancelled"}

TransitionActions == {"request_revision", "approve", "reject",
                      "start_purchase", "mark_purchased", "mark_received",
                      "close", "cancel"}

ReviewActions == {"request_revision", "approve", "reject"}

LineStatuses == {"pending", "purchased", "rejected"}

\* A spending entry covers either a set of lines or the request as a whole.
Entries == [scope : {"items"}, lines : (SUBSET Lines) \ {{}}]
             \cup [scope : {"request_total"}, lines : {{}}]

HistoryRows == [from : Statuses, to : Statuses, actor : Users]

\* eventKey `procurement:<request>:<event>`, where a resubmission adds its
\* timestamp; the length of the history stands for that timestamp.
EventKeys == [request : Requests, event : Statuses \cup {"resubmitted"}, at : Nat]

\* A row of notifications: its event key and its created_at, for which stands
\* the history row that the same transaction writes.
Notifications == [key : EventKeys, row : Nat]

MaybeUser == Users \cup {NoUser}

----------------------------------------------------------------------------
(* The edge table of workflow.ts and the permission of each edge *)

\* Mutant: a revision may also be asked for once buying has started.
EdgesRevisingLate ==
    [request_revision |-> [submitted  |-> "revision_requested",
                           purchasing |-> "revision_requested"],
     approve          |-> [submitted  |-> "approved"],
     reject           |-> [submitted  |-> "rejected"],
     start_purchase   |-> [approved   |-> "purchasing"],
     mark_purchased   |-> [purchasing |-> "purchased"],
     mark_received    |-> [purchased  |-> "received"],
     close            |-> [received   |-> "closed"],
     cancel           |-> [submitted  |-> "cancelled"]]

Edges == [request_revision |-> [submitted  |-> "revision_requested"],
          approve          |-> [submitted  |-> "approved"],
          reject           |-> [submitted  |-> "rejected"],
          start_purchase   |-> [approved   |-> "purchasing"],
          mark_purchased   |-> [purchasing |-> "purchased"],
          mark_received    |-> [purchased  |-> "received"],
          close            |-> [received   |-> "closed"],
          cancel           |-> [submitted  |-> "cancelled"]]

MayFollow(a, s) == s \in DOMAIN Edges[a]

RequiredRole(a) == IF a \in ReviewActions THEN Reviewers
                   ELSE IF a = "close" THEN Closers
                   ELSE Buyers

\* The requester alone may cancel, and may not review the own request.
MayTransition(a, r, u) ==
    IF a = "cancel" THEN requester[r] = u
    ELSE /\ ~(requester[r] = u /\ a \in ReviewActions)
         /\ u \in RequiredRole(a)

ProcessableStatuses == {"submitted", "approved", "purchasing"}

----------------------------------------------------------------------------
(* Pieces shared by the methods *)

\* Mutant: the save writes 'submitted' as the status it came from.
LogFromSubmitted(r, from, to, u) ==
    history' = [history EXCEPT ![r] =
                   Append(@, [from |-> IF to = "purchasing" THEN "submitted" ELSE from,
                              to |-> to, actor |-> u])]

\* INSERT INTO procurement_status_history.
Log(r, from, to, u) ==
    history' = [history EXCEPT ![r] =
                   Append(@, [from |-> from, to |-> to, actor |-> u])]

\* The notification that the call adding the next history row sends.
Notification(key) == [key |-> key, row |-> Len(history[key.request]) + 1]

HasKey(u, key) == \E n \in inbox[u] : n.key = key

\* insertNotifications: ON CONFLICT(user_id,event_key) DO NOTHING.
Notify(us, key) ==
    inbox' = [u \in Users |-> IF u \in us /\ ~HasKey(u, key)
                              THEN inbox[u] \cup {Notification(key)} ELSE inbox[u]]

\* Mutant: a resubmission is announced under the key of the submission.
EventKeyOfStatus(r, event, at) ==
    [request |-> r, event |-> IF event = "resubmitted" THEN "submitted" ELSE event, at |-> 0]

EventKey(r, event, at) == [request |-> r, event |-> event, at |-> at]

\* permissionUsers(client, "procurements.review", exclude).
ReviewersBut(u) == Reviewers \ {u}

\* insertRequestItems gives every line a fresh id and the status pending.
InsertLines(r, S) ==
    /\ S # {} /\ S \cap issued = {}
    /\ issued' = issued \cup S
    /\ linesOf' = [linesOf EXCEPT ![r] = S]
    /\ lineStatus' = [l \in Lines |-> IF l \in S THEN "pending" ELSE lineStatus[l]]

----------------------------------------------------------------------------
(* Processing input: processingSaveSchema and the checks the service adds *)

\* The item updates of a call: at least one, each line at most once.
ItemUpdates == UNION {[S -> LineStatuses] : S \in (SUBSET Lines) \ {{}}}

\* A request total cannot be combined with item amounts.
TotalStandsAlone(entries) ==
    \A e \in entries : e.scope = "request_total" => entries = {e}

\* Each item belongs to at most one entry.
EntriesDisjoint(entries) ==
    \A e, f \in entries : e # f => e.lines \cap f.lines = {}

\* The spendingEntries processingSaveSchema lets through.
EntrySets == {es \in SUBSET Entries : TotalStandsAlone(es) /\ EntriesDisjoint(es)}

\* The optional field spendingEntries of a call.
SpendInputs == [given : {TRUE}, entries : EntrySets]
                 \cup [given : {FALSE}, entries : {{}}]

\* A request total needs a line the same call marks purchased.
TotalOnPurchased(items, entries) ==
    (\E e \in entries : e.scope = "request_total")
        => \E l \in DOMAIN items : items[l] = "purchased"

\* Only lines the same call marks purchased may carry an amount.
EntriesOnPurchased(items, entries) ==
    \A e \in entries : \A l \in e.lines :
        l \in DOMAIN items /\ items[l] = "purchased"

\* Mutant: the update is not restricted to the request.
ItemsIssued(r, items) == DOMAIN items \subseteq issued

\* Every update must hit a line of this request (updated.rowCount).
ItemsBelong(r, items) == DOMAIN items \subseteq linesOf[r]

\* The line updates as a new value of lineStatus.
Updated(items) ==
    [l \in Lines |-> IF l \in DOMAIN items THEN items[l] ELSE lineStatus[l]]

\* DELETE, then INSERT: given entries replace those of the request.
Replaced(r, spending) ==
    IF spending.given THEN [spend EXCEPT ![r] = spending.entries] ELSE spend

ApplyProcessing(r, items, spending) ==
    /\ status[r] \in ProcessableStatuses
    /\ ItemsBelong(r, items)
    /\ TotalOnPurchased(items, spending.entries)
    /\ EntriesOnPurchased(items, spending.entries)
    /\ lineStatus' = Updated(items)
    /\ spend' = Replaced(r, spending)
    /\ UNCHANGED <<issued, linesOf>>

----------------------------------------------------------------------------
(* The service methods *)

Init ==
    /\ status = [r \in Requests |-> "draft"]
    /\ requester = [r \in Requests |-> NoUser]
    /\ reviewedBy = [r \in Requests |-> NoUser]
    /\ purchasedBy = [r \in Requests |-> NoUser]
    /\ issued = {}
    /\ linesOf = [r \in Requests |-> {}]
    /\ lineStatus = [l \in Lines |-> "pending"]
    /\ spend = [r \in Requests |-> {}]
    /\ history = [r \in Requests |-> <<>>]
    /\ inbox = [u \in Users |-> {}]

CreateRequest(r, u, S) ==
    /\ status[r] = "draft"
    /\ u \in Creators
    /\ InsertLines(r, S)
    /\ status' = [status EXCEPT ![r] = "submitted"]
    /\ requester' = [requester EXCEPT ![r] = u]
    /\ Log(r, "draft", "submitted", u)
    /\ Notify(ReviewersBut(u), EventKey(r, "submitted", 0))
    /\ UNCHANGED <<reviewedBy, purchasedBy, spend>>

\* Mutant: the resubmission keeps the earlier review.
KeepReview(r) == UNCHANGED reviewedBy

\* reviewed_by=NULL,reviewed_at=NULL.
ClearReview(r) == reviewedBy' = [reviewedBy EXCEPT ![r] = NoUser]

ReviseRequest(r, u, S) ==
    /\ u \in Creators
    /\ requester[r] = u
    /\ status[r] = "revision_requested"
    /\ InsertLines(r, S)
    /\ status' = [status EXCEPT ![r] = "submitted"]
    /\ ClearReview(r)
    /\ Log(r, "revision_requested", "submitted", u)
    /\ Notify(ReviewersBut(u), EventKey(r, "resubmitted", Len(history[r])))
    /\ UNCHANGED <<requester, purchasedBy, spend>>

StartsBuying(s) == s = "submitted" \/ s = "approved"

\* The first save also moves the request into purchasing; later ones do not.
SaveProcessing(r, u, items, spending) ==
    /\ u \in Buyers
    /\ ApplyProcessing(r, items, spending)
    /\ IF StartsBuying(status[r])
       THEN /\ status' = [status EXCEPT ![r] = "purchasing"]
            /\ purchasedBy' = [purchasedBy EXCEPT ![r] = u]
            /\ Log(r, status[r], "purchasing", u)
       ELSE UNCHANGED <<status, purchasedBy, history>>
    /\ UNCHANGED <<requester, reviewedBy, inbox>>

\* Mutant: one rejected line is enough to close the request.
OutcomeOfAll(r, marks) ==
    IF \A l \in linesOf[r] : marks[l] = "purchased" THEN "purchased" ELSE "closed"

\* The status completeProcessing reaches from the line statuses it reads.
Outcome(r, marks) ==
    IF \E l \in linesOf[r] : marks[l] = "purchased" THEN "purchased" ELSE "closed"

AllSettled(r, marks) ==
    /\ linesOf[r] # {}
    /\ \A l \in linesOf[r] : marks[l] # "pending"

FinishProcessing(r, u) ==
    LET next == Outcome(r, lineStatus') IN
    /\ AllSettled(r, lineStatus')
    /\ status' = [status EXCEPT ![r] = next]
    /\ purchasedBy' = [purchasedBy EXCEPT ![r] = u]
    /\ Log(r, status[r], next, u)
    /\ Notify({requester[r]}, EventKey(r, next, 0))
    /\ UNCHANGED <<requester, reviewedBy>>

\* completeProcessing with the buyer's last edits in the same transaction.
CompleteWithInput(r, u, items, spending) ==
    /\ u \in Buyers
    /\ ApplyProcessing(r, items, spending)
    /\ FinishProcessing(r, u)

\* completeProcessing without input.
CompleteAsSaved(r, u) ==
    /\ u \in Buyers
    /\ status[r] \in ProcessableStatuses
    /\ UNCHANGED ledger
    /\ FinishProcessing(r, u)

ConfirmReceived(r, u) ==
    /\ u \in Buyers
    /\ status[r] = "purchased"
    /\ status' = [status EXCEPT ![r] = "received"]
    /\ Log(r, "purchased", "received", u)
    /\ Notify({requester[r]}, EventKey(r, "received", 0))
    /\ UNCHANGED <<stamps, ledger>>

\* The actor column transition() writes for a new status.
ReviewStamp(next) == next \in {"revision_requested", "approved", "rejected"}
BuyerStamp(next) == next \in {"purchasing", "purchased"}

Transition(r, u, a) ==
    /\ status[r] # "draft"
    /\ MayTransition(a, r, u)
    /\ MayFollow(a, status[r])
    /\ LET next == Edges[a][status[r]] IN
       /\ status' = [status EXCEPT ![r] = next]
       /\ reviewedBy' = IF ReviewStamp(next)
                        THEN [reviewedBy EXCEPT ![r] = u] ELSE reviewedBy
       /\ purchasedBy' = IF BuyerStamp(next)
                         THEN [purchasedBy EXCEPT ![r] = u] ELSE purchasedBy
       /\ Log(r, status[r], next, u)
       /\ Notify({requester[r]}, EventKey(r, next, 0))
    /\ UNCHANGED <<requester, ledger>>

----------------------------------------------------------------------------
(* Inputs.  A buyer may send ids read before the request was revised, so the *)
(* items range over every line ever issued.                                 *)

ItemInputs == {f \in ItemUpdates : DOMAIN f \subseteq issued}
Process(r, u) ==
    \E items \in ItemInputs, spending \in SpendInputs : SaveProcessing(r, u, items, spending)

Complete(r, u) ==
    \/ CompleteAsSaved(r, u)
    \/ \E items \in ItemInputs, spending \in SpendInputs :
           CompleteWithInput(r, u, items, spending)

Next ==
    \E r \in Requests, u \in Users :
        \/ \E S \in SUBSET Lines : CreateRequest(r, u, S)
        \/ \E S \in SUBSET Lines : ReviseRequest(r, u, S)
        \/ Process(r, u)
        \/ Complete(r, u)
        \/ ConfirmReceived(r, u)
        \/ \E a \in TransitionActions : Transition(r, u, a)

Spec == Init /\ [][Next]_vars

----------------------------------------------------------------------------
(* Properties *)

\* Every variable keeps its type: a row's columns hold legal values only.
TypeOK ==
    /\ status \in [Requests -> Statuses]
    /\ requester \in [Requests -> MaybeUser]
    /\ reviewedBy \in [Requests -> MaybeUser]
    /\ purchasedBy \in [Requests -> MaybeUser]
    /\ issued \subseteq Lines
    /\ linesOf \in [Requests -> SUBSET issued]
    /\ lineStatus \in [Lines -> LineStatuses]
    /\ spend \in [Requests -> SUBSET Entries]
    /\ history \in [Requests -> Seq(HistoryRows)]
    /\ inbox \in [Users -> SUBSET Notifications]

\* The status history retells the request's life without a gap: it starts at
\* draft, every row starts where the one before it ended, and the last row
\* ends in the request's status (the INSERT beside every UPDATE of status).
HistoryChains ==
    \A r \in Requests :
        LET h == history[r] IN
        /\ h = <<>> <=> status[r] = "draft"
        /\ h # <<>> => h[1].from = "draft" /\ h[Len(h)].to = status[r]
        /\ \A i \in 1..Len(h) - 1 : h[i].to = h[i + 1].from

\* i is the last row of h whose target is in T.
LastRow(h, T, i) == /\ i \in DOMAIN h /\ h[i].to \in T
                    /\ \A j \in DOMAIN h : j > i => h[j].to \notin T

Decisions == {"revision_requested", "approved", "rejected"}

\* reviewed_by always names who took the last review decision on the lines
\* now in the request, that is since the last submission, and nobody when there
\* is none: a decision never outlives the revision that replaces the lines
\* (reviewed_by=NULL in reviseRequest), and it is never the requester's own.
ReviewStampMatchesHistory ==
    \A r \in Requests :
        /\ reviewedBy[r] # NoUser => reviewedBy[r] # requester[r]
        /\ \A i \in DOMAIN history[r] :
              LastRow(history[r], Decisions \cup {"submitted"}, i) =>
                  reviewedBy[r] = IF history[r][i].to = "submitted"
                                  THEN NoUser ELSE history[r][i].actor

ReviewPhase == {"draft", "submitted", "revision_requested", "approved",
                "rejected", "cancelled"}

\* Until buying starts no line is processed and no amount is recorded, on
\* whatever path: a revision can therefore delete the lines without touching
\* the ledger (DELETE FROM procurement_request_items in reviseRequest).
BlankBookInReview ==
    \A r \in Requests : status[r] \in ReviewPhase =>
        /\ spend[r] = {}
        /\ \A l \in linesOf[r] : lineStatus[l] = "pending"

\* The ledger of a request counts nothing twice and nothing of another
\* request: requests share no line, entries cover the request's own lines
\* only, share none, and a request total stands alone, across any sequence of
\* saves that replace some entries and leave others.
LedgerWellFormed ==
    \A r \in Requests :
        /\ \A q \in Requests \ {r} : linesOf[q] \cap linesOf[r] = {}
        /\ \A e \in spend[r] : e.lines \subseteq linesOf[r]
        /\ TotalStandsAlone(spend[r]) /\ EntriesDisjoint(spend[r])

\* A request that ends closed without ever being received bought nothing:
\* every one of its lines was rejected (the "closed" branch of
\* completeProcessing is the only way to skip the receipt).
EarlyCloseBuysNothing ==
    \A r \in Requests :
        /\ status[r] = "closed"
        /\ \A i \in DOMAIN history[r] : history[r][i].to # "received"
        => \A l \in linesOf[r] : lineStatus[l] = "rejected"

Announced == Statuses \ {"draft", "submitted", "purchasing"}

\* The history row i asks for a revision as an earlier row did: its event key
\* is that of the earlier row, so its notification is dropped.
AskedAgain(r, i) ==
    /\ history[r][i].to = "revision_requested"
    /\ \E j \in 1..i - 1 : history[r][j].to = "revision_requested"

\* u was told of row i of the history by the call that wrote the row.
ToldInRow(u, key, i) == [key |-> key, row |-> i] \in inbox[u]

\* Each row of the history sends notifications of its own, which no key of an
\* earlier round swallows: the requester hears of the status it reached
\* (starting to buy by saving is silent) and every other reviewer of each
\* submission.  A second request for revision is the one exception
\* (procurementService.ts:1242 repeats its key).
EveryoneIsTold ==
    \A r \in Requests : \A i \in DOMAIN history[r] :
        LET row == history[r][i] IN
        /\ row.to \in Announced /\ ~AskedAgain(r, i) =>
              ToldInRow(requester[r], EventKey(r, row.to, 0), i)
        /\ row.to = "submitted" =>
              \A v \in ReviewersBut(requester[r]) :
                  ToldInRow(v, IF i = 1 THEN EventKey(r, "submitted", 0)
                                        ELSE EventKey(r, "resubmitted", i - 1), i)

\* The book of a request: the status of its lines and its spending entries.
Book(r) == [marks |-> [l \in linesOf[r] |-> lineStatus[l]], spend |-> spend[r]]

OpenStatuses == {"draft", "submitted", "revision_requested", "approved", "purchasing"}

\* Requests that are bought or ended stay so, with the book they have.
SettledKept ==
    \A r \in Requests : status[r] \notin OpenStatuses =>
        status'[r] \notin OpenStatuses /\ Book(r)' = Book(r)

\* Once a request is bought or ended, by whatever path, no call on any request
\* changes its lines, their status or its amounts.
SettledBooksAreFinal == [][SettledKept]_vars

\* The service implements the lifecycle it promises.
PhaseOf == [draft |-> "none", submitted |-> "review",
            revision_requested |-> "review", approved |-> "review",
            purchasing |-> "buying", purchased |-> "bought",
            received |-> "done", closed |-> "done", rejected |-> "done",
            cancelled |-> "done"]

Books == [marks : UNION {[S -> LineStatuses] : S \in SUBSET Lines},
          spend : SUBSET Entries]
BlankBooks == [marks : UNION {[S -> {"pending"}] : S \in SUBSET Lines},
               spend : {{}}]

Lifecycle == INSTANCE RequestLifecycle WITH
    phase <- [r \in Requests |-> PhaseOf[status[r]]],
    book <- [r \in Requests |-> Book(r)]

\* Seen through its phase and its book, every step of the service is a step of
\* the lifecycle or changes nothing: review, buying and receipt in that order,
\* with a book that is blank before buying and final after it.
ImplementsLifecycle == Lifecycle!LifecycleSpec

----------------------------------------------------------------------------
(* What the repository says and the code does not do *)

\* procurementService.test.ts:721 "spending records can only reference
\* purchased request lines": every line an entry covers is purchased.
SpendOnlyOnPurchasedLines ==
    \A r \in Requests : \A e \in spend[r] :
        \A l \in e.lines : lineStatus[l] = "purchased"

=============================================================================
