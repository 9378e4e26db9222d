--------------------------- MODULE ProcurementDesk ---------------------------
(***************************************************************************)
(* The procurement pages over the procurement service.  Procurement lets a *)
(* caller send whatever the service accepts; here every call comes from a  *)
(* ProcurementConsole, which shows the request it loaded, of whatever age, *)
(* lets a buyer draft the marks and amounts of its lines, and sends the    *)
(* draft as a whole.  Titles, notes, comments and the list of requests are *)
(* left out, an entry is drafted once its amount is typed, and a page has  *)
(* one answer under way at a time.                                         *)
(***************************************************************************)
EXTENDS Procurement

CONSTANTS Readers,    \* accounts holding procurements.read_all
          Registrars, \* accounts holding lab_assets.write
          Watched,    \* the accounts whose pages are followed in detail
          Nothing     \* no request is open, or a part of it is not read yet

\* The marks of some lines, as the service answers them and a panel drafts them.
MarkSets == UNION {[S -> LineStatuses] : S \in SUBSET Lines}

ASSUME NothingIsNoMarks == Nothing \notin MarkSets

VARIABLES loading,    \* user -> the answer of getRequest under way
          desk,       \* user -> the request shown (selected)
          draft,      \* user -> the state of the ProcessingPanel
          registered  \* lines whose devices were entered as lab assets

pages == <<loading, desk, draft>>
deskVars == <<vars, pages, registered>>

BlankDraft == [marks |-> [l \in {} |-> "pending"], spend |-> {}, group |-> {}]

DeskInit ==
    /\ Init
    /\ loading = [u \in Users |-> Nothing]
    /\ desk = [u \in Users |-> Nothing]
    /\ draft = [u \in Users |-> BlankDraft]
    /\ registered = {}

----------------------------------------------------------------------------
(* Loading: getRequest reads the row first, then lines and entries at once, *)
(* each in a statement of its own.                                          *)

MayRead(u, r) == /\ u \in Watched
                 /\ status[r] # "draft"
                 /\ requester[r] = u \/ u \in Readers

Put(f, u, value) == [f EXCEPT ![u] = value]

\* The draft a panel is mounted with, and is given when the request changes.
DraftOf(detail) == IF detail = Nothing THEN BlankDraft
                   ELSE [marks |-> detail.marks, spend |-> detail.spend, group |-> {}]

\* openRequest: the panel is unmounted until the answer is there.
ReadRow(u, r) ==
    /\ loading[u] = Nothing
    /\ MayRead(u, r)
    /\ loading' = Put(loading, u, [request |-> r, status |-> status[r],
                                   marks |-> Nothing, spend |-> Nothing])
    /\ draft' = Put(draft, u, DraftOf(desk[u]))
    /\ UNCHANGED <<vars, desk, registered>>

ReadLines(u) ==
    /\ loading[u] # Nothing /\ loading[u].marks = Nothing
    /\ loading' = Put(loading, u, [loading[u] EXCEPT !.marks = Book(loading[u].request).marks])
    /\ UNCHANGED <<vars, desk, draft, registered>>

ReadEntries(u) ==
    /\ loading[u] # Nothing /\ loading[u].spend = Nothing
    /\ loading' = Put(loading, u, [loading[u] EXCEPT !.spend = spend[loading[u].request]])
    /\ UNCHANGED <<vars, desk, draft, registered>>

\* Mutant: the row is read together with its lines.
ShowWithLateRow(u) ==
    /\ loading[u] # Nothing
    /\ loading[u].marks # Nothing /\ loading[u].spend # Nothing
    /\ desk' = Put(desk, u, [loading[u] EXCEPT !.status = status[loading[u].request]])
    /\ draft' = Put(draft, u, DraftOf(loading[u]))
    /\ loading' = Put(loading, u, Nothing)
    /\ UNCHANGED <<vars, registered>>

\* The answer replaces what was shown, and the effect on [request] the draft.
ShowRequest(u) ==
    /\ loading[u] # Nothing
    /\ loading[u].marks # Nothing /\ loading[u].spend # Nothing
    /\ desk' = Put(desk, u, loading[u])
    /\ draft' = Put(draft, u, DraftOf(loading[u]))
    /\ loading' = Put(loading, u, Nothing)
    /\ UNCHANGED <<vars, registered>>

\* No answer: the page shows again what it had.
LoadFails(u) ==
    /\ loading[u] # Nothing
    /\ loading' = Put(loading, u, Nothing)
    /\ UNCHANGED <<vars, desk, draft, registered>>

----------------------------------------------------------------------------
(* The ProcessingPanel *)

Shows(u, S) == desk[u] # Nothing /\ desk[u].status \in S
Own(u) == requester[desk[u].request] = u

\* A reviewer decides on a submitted request of somebody else instead.
PanelShown(u) ==
    /\ u \in Buyers
    /\ loading[u] = Nothing
    /\ Shows(u, {"submitted", "approved", "purchasing"})
    /\ ~(desk[u].status = "submitted" /\ u \in Reviewers /\ ~Own(u))

Edit(u, d) ==
    /\ PanelShown(u)
    /\ draft' = Put(draft, u, d)
    /\ UNCHANGED <<vars, loading, desk, registered>>

DraftLines(d) == DOMAIN d.marks
InTotalMode(d) == \E e \in d.spend : e.scope = "request_total"
Billed(d) == UNION {e.lines : e \in d.spend}
Billable(d) == {l \in DraftLines(d) \ Billed(d) : d.marks[l] = "purchased"}
ItemEntry(S) == [scope |-> "items", lines |-> S]

\* The entries without line l; an entry of no line is dropped.
Unbilled(entries, l) ==
    {e \in {[f EXCEPT !.lines = @ \ {l}] : f \in entries} :
        e.scope = "request_total" \/ e.lines # {}}

\* setStatus: a line that is not purchased leaves its entries and the group.
Marked(d, l, s) ==
    IF s = "purchased" THEN [d EXCEPT !.marks[l] = s]
    ELSE [marks |-> [d.marks EXCEPT ![l] = s], spend |-> Unbilled(d.spend, l),
          group |-> d.group \ {l}]

MarkLine(u) ==
    \E l \in DraftLines(draft[u]), s \in LineStatuses : Edit(u, Marked(draft[u], l, s))

\* addSingleSpending.
BillLine(u) ==
    /\ ~InTotalMode(draft[u])
    /\ \E l \in Billable(draft[u]) :
          Edit(u, [draft[u] EXCEPT !.spend = @ \cup {ItemEntry({l})}, !.group = @ \ {l}])

\* The checkbox 加入组合金额 of a line.
Regroup(u) ==
    /\ ~InTotalMode(draft[u])
    /\ \E l \in Billable(draft[u]) :
          Edit(u, [draft[u] EXCEPT !.group = IF l \in @ THEN @ \ {l} ELSE @ \cup {l}])

\* addGroupedSpending.
BillGroup(u) ==
    /\ ~InTotalMode(draft[u])
    /\ draft[u].group # {}
    /\ Edit(u, [draft[u] EXCEPT !.spend = @ \cup {ItemEntry(draft[u].group)}, !.group = {}])

\* setRequestTotalMode, with its amount.
BillTotal(u) ==
    Edit(u, [draft[u] EXCEPT !.spend = {[scope |-> "request_total", lines |-> {}]},
                             !.group = {}])

\* setItemMode.
BillItems(u) == Edit(u, [draft[u] EXCEPT !.spend = {}, !.group = {}])

DropEntry(u) == \E e \in draft[u].spend : Edit(u, [draft[u] EXCEPT !.spend = @ \ {e}])

\* processingSpendingBlockers is empty.  It knows no maximum amount: a larger
\* one is refused by the schema (schemas.ts:65), and a refused save is no step.
EntriesFit(d) ==
    /\ TotalStandsAlone(d.spend) /\ EntriesDisjoint(d.spend)
    /\ InTotalMode(d) => \E l \in DraftLines(d) : d.marks[l] = "purchased"
    /\ \A l \in Billed(d) : l \in DraftLines(d) /\ d.marks[l] = "purchased"

\* processingCompletionBlockers is empty.
DraftSettled(d) ==
    /\ DraftLines(d) # {}
    /\ \A l \in DraftLines(d) : d.marks[l] # "pending"
    /\ EntriesFit(d)

\* Mutant: entries are sent when there are any.
SomeEntries(d) == [given |-> d.spend # {}, entries |-> d.spend]

\* processingBody always has spendingEntries.
AllEntries(d) == [given |-> TRUE, entries |-> d.spend]

\* The request as a whole is sent with draft d; an empty list of items is none.
Saves(r, u, d) ==
    /\ EntriesFit(d) /\ DraftLines(d) # {}
    /\ SaveProcessing(r, u, d.marks, AllEntries(d))

Completes(r, u, d) ==
    /\ DraftSettled(d)
    /\ CompleteWithInput(r, u, d.marks, AllEntries(d))

PageSaves(u) ==
    /\ PanelShown(u)
    /\ Saves(desk[u].request, u, draft[u])
    /\ UNCHANGED <<pages, registered>>

PageCompletes(u) ==
    /\ PanelShown(u)
    /\ Completes(desk[u].request, u, draft[u])
    /\ UNCHANGED <<pages, registered>>

\* The page of a buyer who is not watched, with any draft that passes.
OtherProcesses(u, r) ==
    /\ u \notin Watched
    /\ \E marks \in [linesOf[r] -> LineStatuses], entries \in EntrySets :
          LET d == [marks |-> marks, spend |-> entries, group |-> {}] IN
          Saves(r, u, d) \/ Completes(r, u, d)
    /\ UNCHANGED <<pages, registered>>

----------------------------------------------------------------------------
(* The other buttons.  Each action leaves the one status it is offered for, *)
(* so a page that shows an older status gets nothing but a refusal, and the *)
(* pages need not be told apart.                                            *)

\* Mutant: the buyer may also mark the whole request as purchased.
OfferedMarkingAll(u, r) ==
    (IF status[r] = "submitted" /\ requester[r] = u THEN {"cancel"} ELSE {})
    \cup (IF status[r] = "submitted" /\ u \in Reviewers /\ requester[r] # u
          THEN ReviewActions ELSE {})
    \cup (IF status[r] = "received" /\ u \in Closers THEN {"close"} ELSE {})
    \cup (IF status[r] = "purchasing" /\ u \in Buyers THEN {"mark_purchased"} ELSE {})

\* availableActions.
Offered(u, r) ==
    (IF status[r] = "submitted" /\ requester[r] = u THEN {"cancel"} ELSE {})
    \cup (IF status[r] = "submitted" /\ u \in Reviewers /\ requester[r] # u
          THEN ReviewActions ELSE {})
    \cup (IF status[r] = "received" /\ u \in Closers THEN {"close"} ELSE {})

PageActs(u, r) ==
    /\ \E a \in Offered(u, r) : Transition(r, u, a)
    /\ UNCHANGED <<pages, registered>>

PageConfirms(u, r) ==
    /\ ConfirmReceived(r, u)
    /\ UNCHANGED <<pages, registered>>

PageCreates(u, r) ==
    /\ \E S \in SUBSET Lines : CreateRequest(r, u, S)
    /\ UNCHANGED <<pages, registered>>

\* 修改并重新提交: the builder's lines replace those of the request.
PageRevises(u, r) ==
    /\ \E S \in SUBSET Lines : ReviseRequest(r, u, S)
    /\ UNCHANGED <<pages, registered>>

\* The lines ProcurementAssetDraftDialog offers (eligible).
Eligible(detail) == {l \in DOMAIN detail.marks : detail.marks[l] # "rejected"}

Arrived == {"received", "closed"}

\* commitAssetImport checks that the source has arrived, under FOR SHARE.
PageRegisters(u) ==
    /\ u \in Registrars /\ Shows(u, Arrived)
    /\ status[desk[u].request] \in Arrived
    /\ \E S \in SUBSET Eligible(desk[u]) :
          /\ S # {}
          /\ registered' = registered \cup S
    /\ UNCHANGED <<vars, pages>>

DeskNext ==
    \E u \in Users :
        \/ ReadLines(u) \/ ReadEntries(u) \/ ShowRequest(u) \/ LoadFails(u)
        \/ MarkLine(u) \/ BillLine(u) \/ Regroup(u) \/ BillGroup(u)
        \/ BillTotal(u) \/ BillItems(u) \/ DropEntry(u)
        \/ PageSaves(u) \/ PageCompletes(u) \/ PageRegisters(u)
        \/ \E r \in Requests :
              \/ ReadRow(u, r)
              \/ PageCreates(u, r) \/ PageRevises(u, r)
              \/ PageActs(u, r) \/ PageConfirms(u, r) \/ OtherProcesses(u, r)

DeskSpec == DeskInit /\ [][DeskNext]_deskVars

----------------------------------------------------------------------------
(* Properties *)

Answers == [request : Requests, status : Statuses, marks : MarkSets, spend : SUBSET Entries]
PartialAnswers == [request : Requests, status : Statuses, marks : MarkSets \cup {Nothing},
                   spend : (SUBSET Entries) \cup {Nothing}]
Drafts == [marks : MarkSets, spend : SUBSET Entries, group : SUBSET Lines]

\* What a page holds is an answer of the service, whole or in part, and a
\* draft of marks and entries.
DeskTypeOK ==
    /\ loading \in [Users -> PartialAnswers \cup {Nothing}]
    /\ desk \in [Users -> Answers \cup {Nothing}]
    /\ draft \in [Users -> Drafts]
    /\ registered \subseteq Lines

\* The pages keep their promise about amounts, which the service alone does
\* not (a call may leave spendingEntries out): whatever stale draft is sent,
\* every line an entry covers is marked as purchased.
AmountsOnPurchasedLines == SpendOnlyOnPurchasedLines

\* Through the pages a request is bought line by line: once it is bought,
\* received or closed none of its lines is pending, although the transition
\* mark_purchased of the service would not look at them.
BoughtIsSettled ==
    \A r \in Requests : status[r] \in {"purchased", "received", "closed"} =>
        \A l \in linesOf[r] : lineStatus[l] # "pending"

\* Devices are registered from lines that were purchased and have arrived: the
\* dialog offers what a page of any age shows as not rejected, and only the
\* order in which getRequest reads makes that safe.
AssetsWerePurchased ==
    \A l \in registered : lineStatus[l] = "purchased"

=============================================================================
