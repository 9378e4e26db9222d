------------------------------ MODULE Members ------------------------------
(***************************************************************************)
(* The members of the laboratory: the transactions that change an account  *)
(* and its profile (services/account/profileService, user-admin and        *)
(* permission-admin), the members page an administrator works on           *)
(* (features/console/members) and the page of one's own profile.           *)
(*                                                                         *)
(* An account is two rows, users and user_profiles.  A save of the profile *)
(* locks the profile and then updates the user; the other operations lock  *)
(* the user and then the profile.  A transaction is modelled by its first  *)
(* lock and by the step that takes the second one and commits; what it     *)
(* writes in between nobody else sees.                                     *)
(*                                                                         *)
(* The page sends one change at a time, but a member may be chosen while   *)
(* it is under way, and nothing that was asked for earlier is cancelled.   *)
(* The answer to a GET is read when it arrives.                            *)
(***************************************************************************)
EXTENDS Naturals

CONSTANTS People,     \* the accounts there may ever be (a bound)
          Founders,   \* those that exist in the beginning
          Consoles,   \* the members pages administrators have open
          Owners,     \* the accounts that open the page of their own profile (a bound)
          Filters,    \* the values of `active` that the filters of the list let through
          None,       \* no account, no row, no call
          MaxCalls    \* how many changes are asked for (a bound)

ASSUME MembersAssumption ==
    /\ Founders \subseteq People /\ Owners \subseteq People
    /\ Filters \subseteq SUBSET BOOLEAN
    /\ None \notin People \cup Consoles
    /\ People \cap Consoles = {}
    /\ MaxCalls \in Nat

VARIABLES row,   \* account -> what the server has of it
          held,  \* account -> whether it has roles beyond the basic one
          gone,  \* the accounts that were deleted, whose ids are not used again
          tx,    \* page -> the change it has under way, from click to answer
          page,  \* members page -> what it shows
          own,   \* account -> the draft on the page of its own profile
          calls  \* how many changes were asked for

membersVars == <<row, held, gone, tx, page, own, calls>>
accounts == <<row, held, gone>>

Callers == Consoles \cup Owners

----------------------------------------------------------------------------
(* Rows, drafts and calls *)

Kinds == {"person", "system"}
Statuses == {"current", "alumni"}
Tabs == {"profile", "account", "roles", "security"}

\* public: listed on the site; named: a name is filled in and its field public.
Row == [kind : Kinds, status : Statuses, active : BOOLEAN, public : BOOLEAN,
        named : BOOLEAN, version : Nat]

\* A draft: whose content it is, and what was read with its version.
Draft == [of : People, version : Nat, status : Statuses, public : BOOLEAN,
          named : BOOLEAN, seen : Statuses]

ASSUME NoneIsNoRow == None \notin Row \cup Draft

DraftOf(u, r) ==
    [of |-> u, version |-> r.version, status |-> r.status, public |-> r.public,
     named |-> r.named, seen |-> r.status]

\* A system account is created with no public field.
NewRow(kind) == [kind |-> kind, status |-> "current", active |-> TRUE, public |-> FALSE,
                 named |-> kind = "person", version |-> 1]

HasAccount(u) == row[u] # None

\* save and own take the profile first, these operations the user.
UserFirst == {"convert", "kind", "show", "hide", "delete"}
Operations == UserFirst \cup {"save", "own", "grant", "active", "create"}
CallSteps == {"sent", "profile", "user", "done", "failed"}

HoldsProfile(c, u) == tx[c] # None /\ tx[c].to = u /\ tx[c].step = "profile"
HoldsUser(c, u) == tx[c] # None /\ tx[c].to = u /\ tx[c].step = "user"
ProfileFree(u) == \A c \in Callers : ~HoldsProfile(c, u)
UserFree(u) == \A c \in Callers : ~HoldsUser(c, u)

----------------------------------------------------------------------------
(* The members page *)

Page == [rows : [People -> Row \cup {None}], selected : People \cup {None}, tab : Tabs,
         draft : Draft \cup {None}, dialog : [of : People, checked : BOOLEAN] \cup {None}]

NoPage == [rows |-> [u \in People |-> None], selected |-> None, tab |-> "profile",
           draft |-> None, dialog |-> None]

Shown(p) ==
    IF p.selected # None /\ p.rows[p.selected] # None THEN p.selected ELSE None

EditorOpen(p) == Shown(p) # None /\ p.tab = "profile"
PanelOpen(p) == Shown(p) # None /\ p.tab = "security"

\* What the effects of the page and of the profile editor make of a new state p,
\* when the page showed q before.
Settled(q, p) ==
    LET u == Shown(p)
        off == u # None /\ p.rows[u].kind = "system" /\ p.tab = "profile"
        r == [p EXCEPT !.tab = IF off THEN "account" ELSE @]
        fresh == ~EditorOpen(q) \/ Shown(q) # u \/ p.rows[u].version > p.draft.version
    IN [r EXCEPT !.draft = IF ~EditorOpen(r) THEN None
                           ELSE IF fresh THEN DraftOf(u, r.rows[u]) ELSE @,
                 !.dialog = IF PanelOpen(r) THEN @ ELSE None]

Turn(c, p) == page' = [page EXCEPT ![c] = Settled(page[c], p)]

Busy(c) == tx[c] # None

Filtered(active) == {u \in People : HasAccount(u) /\ row[u].active \in active}

\* loadMembers: after a change, after a save, and whenever a filter is touched;
\* the list holds the accounts that pass the filter, here the one on the status.
LoadMembers(c) ==
    \E active \in Filters :
       LET p == page[c]  listed == Filtered(active)
       IN \E first \in IF listed = {} THEN {None} ELSE listed :
             /\ Turn(c, [p EXCEPT !.rows = [u \in People |-> IF u \in listed THEN row[u] ELSE None],
                                  !.selected = IF @ \in listed THEN @ ELSE first])
             /\ UNCHANGED <<accounts, tx, own, calls>>

Select(c, u) ==
    LET p == page[c]
    IN /\ p.dialog = None
       /\ p.rows[u] # None
       /\ Turn(c, [p EXCEPT !.selected = u,
                            !.tab = IF p.rows[u].kind = "system" THEN "account" ELSE "profile"])
       /\ UNCHANGED <<accounts, tx, own, calls>>

OpenTab(c, t) ==
    LET p == page[c]
    IN /\ p.dialog = None
       /\ Shown(p) # None
       /\ t = "profile" => p.rows[Shown(p)].kind = "person"
       /\ Turn(c, [p EXCEPT !.tab = t])
       /\ UNCHANGED <<accounts, tx, own, calls>>

\* Whose assignments the roles tab may hold: those of the member shown or of one
\* chosen before, since no answer that loads them is cancelled.
DetailsLoaded == {u \in People : HasAccount(u) \/ u \in gone}

EditDraft(c) ==
    LET p == page[c]
    IN /\ EditorOpen(p) /\ ~Busy(c)
       /\ \E s \in Statuses, shown, named \in BOOLEAN :
             Turn(c, [p EXCEPT !.draft.status = s, !.draft.public = shown, !.draft.named = named])
       /\ UNCHANGED <<accounts, tx, own, calls>>

\* What an answer with the profile of u makes of the page: the list's row and
\* the draft in the editor, whoever it shows by now.
Merged(p, u, r) ==
    [p EXCEPT !.rows[u] = IF @ = None THEN None ELSE r,
              !.draft = IF @ = None THEN None ELSE DraftOf(u, r)]

Reload(c) ==
    LET p == page[c]
    IN /\ EditorOpen(p) /\ ~Busy(c) /\ HasAccount(Shown(p))
       /\ Turn(c, Merged(p, Shown(p), row[Shown(p)]))
       /\ UNCHANGED <<accounts, tx, own, calls>>

BeginCheck(c) ==
    LET p == page[c]
    IN /\ PanelOpen(p) /\ p.dialog = None
       /\ Turn(c, [p EXCEPT !.dialog = [of |-> Shown(p), checked |-> FALSE]])
       /\ UNCHANGED <<accounts, tx, own, calls>>

CheckArrives(c) ==
    LET p == page[c]
    IN /\ p.dialog # None /\ HasAccount(p.dialog.of)
       /\ Turn(c, [p EXCEPT !.dialog.checked = TRUE])
       /\ UNCHANGED <<accounts, tx, own, calls>>

CloseDialog(c) ==
    LET p == page[c]
    IN /\ p.dialog # None
       /\ ~(Busy(c) /\ tx[c].op = "delete")
       /\ Turn(c, [p EXCEPT !.dialog = None])
       /\ UNCHANGED <<accounts, tx, own, calls>>

Look(c) ==
    \/ LoadMembers(c)
    \/ \E u \in People : Select(c, u)
    \/ \E t \in Tabs : OpenTab(c, t)
    \/ EditDraft(c) \/ Reload(c)
    \/ BeginCheck(c) \/ CheckArrives(c) \/ CloseDialog(c)

----------------------------------------------------------------------------
(* What is asked for *)

Call(op, u, body) == [op |-> op, to |-> u, body |-> body, step |-> "sent", answer |-> None]

\* The button that creates an account is there whichever member is shown.
CreateCalls ==
    {Call("create", u, k) : u \in {w \in People : ~HasAccount(w) /\ w \notin gone}, k \in Kinds}

\* The profile editor sends its draft to the member shown, whoever's it is.
EditorCalls(p) ==
    LET u == Shown(p)
    IN IF ~EditorOpen(p) THEN {}
       ELSE {Call("save", u, p.draft)}
            \cup (IF p.draft.status = "current" THEN {Call("convert", u, None)} ELSE {})

AccountCalls(p) ==
    IF Shown(p) # None /\ p.tab = "account" THEN {Call("kind", Shown(p), k) : k \in Kinds} ELSE {}

\* Roles are saved to the member whose boxes are loaded.
RolesCalls(p) ==
    IF Shown(p) # None /\ p.tab = "roles"
    THEN {Call("grant", u, ticked) : u \in DetailsLoaded, ticked \in BOOLEAN} ELSE {}

\* A deletion goes to the member shown; it is noted with the member checked.
SecurityCalls(p) ==
    LET u == Shown(p)
    IN (IF PanelOpen(p) THEN {Call("active", u, ~p.rows[u].active)} ELSE {})
       \cup (IF p.dialog # None /\ p.dialog.checked
             THEN {Call("delete", u, p.dialog.of)} ELSE {})

\* The route that shows and hides a member has no button on the page.
RouteCalls(p) ==
    {Call(op, u, None) : op \in {"show", "hide"}, u \in {w \in People : p.rows[w] # None}}

OfferedCalls(p) ==
    CreateCalls \cup EditorCalls(p) \cup AccountCalls(p) \cup RolesCalls(p)
    \cup SecurityCalls(p) \cup RouteCalls(p)

Ask(c, call) ==
    /\ ~Busy(c)
    /\ calls < MaxCalls
    /\ tx' = [tx EXCEPT ![c] = call]
    /\ calls' = calls + 1

Send(c) ==
    /\ \E call \in OfferedCalls(page[c]) :
          Ask(c, call)
    /\ UNCHANGED <<accounts, page, own>>

----------------------------------------------------------------------------
(* The transactions *)

Step(c, step) == tx' = [tx EXCEPT ![c].step = step]

Answer(c, r) == tx' = [tx EXCEPT ![c].step = "done", ![c].answer = r]

\* Mutant: an own save takes status and listing from its body as well.
TakeAllOfTheBody(call) ==
    LET b == call.body
    IN [row[call.to] EXCEPT !.named = b.named, !.version = @ + 1,
                            !.status = b.status, !.public = b.public]

\* What a save makes of the row: its status and its listing are the
\* administrator's to change, a member's own save keeps those of the locked row.
Saved(call) ==
    LET r == row[call.to]  b == call.body
    IN [r EXCEPT !.named = b.named, !.version = @ + 1,
                 !.status = IF call.op = "save" THEN b.status ELSE @,
                 !.public = IF call.op = "save" THEN b.public ELSE @]

\* Mutant: no version is asked for.
AcceptAnyVersion(call) ==
    /\ HasAccount(call.to)
    /\ Saved(call).public => call.body.named

\* Mutant: the name is asked for by what the body lists, not by what is saved.
NameWhatTheBodyLists(call) ==
    /\ HasAccount(call.to)
    /\ call.body.version = row[call.to].version
    /\ call.body.public => call.body.named

Acceptable(call) ==
    /\ HasAccount(call.to)
    /\ call.body.version = row[call.to].version
    /\ Saved(call).public => call.body.named

\* A save locks the profile and checks; what it needs of the user comes later.
LockProfile(c) ==
    /\ Busy(c) /\ tx[c].step = "sent" /\ tx[c].op \in {"save", "own"}
    /\ ProfileFree(tx[c].to)
    /\ Step(c, IF Acceptable(tx[c]) THEN "profile" ELSE "failed")
    /\ UNCHANGED <<accounts, page, own, calls>>

CommitSave(c) ==
    /\ Busy(c) /\ tx[c].step = "profile"
    /\ UserFree(tx[c].to)
    /\ row' = [row EXCEPT ![tx[c].to] = Saved(tx[c])]
    /\ Answer(c, Saved(tx[c]))
    /\ UNCHANGED <<held, gone, page, own, calls>>

LockUser(c) ==
    /\ Busy(c) /\ tx[c].step = "sent" /\ tx[c].op \in UserFirst
    /\ UserFree(tx[c].to)
    /\ Step(c, IF HasAccount(tx[c].to) THEN "user" ELSE "failed")
    /\ UNCHANGED <<accounts, page, own, calls>>

ConvertToAlumni(c, u) ==
    /\ tx[c].op = "convert"
    /\ row' = [row EXCEPT ![u].status = "alumni", ![u].version = @ + 1]
    /\ held' = [held EXCEPT ![u] = FALSE]
    /\ Answer(c, None)
    /\ UNCHANGED gone

SetAccountKind(c, u) ==
    /\ tx[c].op = "kind"
    /\ row' = [row EXCEPT ![u].kind = tx[c].body,
                          ![u].public = IF tx[c].body = "system" THEN FALSE ELSE @]
    /\ Answer(c, None)
    /\ UNCHANGED <<held, gone>>

SetPublicProfile(c, u) ==
    /\ tx[c].op \in {"show", "hide"}
    /\ LET shown == tx[c].op = "show"
       IN IF shown /\ (row[u].kind # "person" \/ ~row[u].named)
          THEN Step(c, "failed") /\ UNCHANGED row
          ELSE Answer(c, None) /\ row' = [row EXCEPT ![u].public = shown]
    /\ UNCHANGED <<held, gone>>

DeleteUser(c, u) ==
    /\ tx[c].op = "delete"
    /\ row' = [row EXCEPT ![u] = None]
    /\ held' = [held EXCEPT ![u] = FALSE]
    /\ gone' = gone \cup {u}
    /\ Answer(c, None)

\* The second lock, the change and the commit.
CommitUser(c) ==
    /\ Busy(c) /\ tx[c].step = "user"
    /\ ProfileFree(tx[c].to) \/ (tx[c].op = "kind" /\ tx[c].body = "person")
    /\ \/ ConvertToAlumni(c, tx[c].to)
       \/ SetAccountKind(c, tx[c].to)
       \/ SetPublicProfile(c, tx[c].to)
       \/ DeleteUser(c, tx[c].to)
    /\ UNCHANGED <<page, own, calls>>

\* The operations on one row: replaceUserAssignments, setStatus and createUser.
ReplaceUserAssignments(c, u) ==
    /\ tx[c].op = "grant"
    /\ UserFree(u)
    /\ IF HasAccount(u) THEN held' = [held EXCEPT ![u] = tx[c].body] /\ Answer(c, None)
                    ELSE UNCHANGED held /\ Step(c, "failed")
    /\ UNCHANGED <<row, gone>>

SetStatus(c, u) ==
    /\ tx[c].op = "active"
    /\ UserFree(u)
    /\ IF HasAccount(u) THEN row' = [row EXCEPT ![u].active = tx[c].body] /\ Answer(c, None)
                    ELSE UNCHANGED row /\ Step(c, "failed")
    /\ UNCHANGED <<held, gone>>

CreateUser(c, u) ==
    /\ tx[c].op = "create"
    /\ IF HasAccount(u) \/ u \in gone
       THEN Step(c, "failed") /\ UNCHANGED row
       ELSE Answer(c, None) /\ row' = [row EXCEPT ![u] = NewRow(tx[c].body)]
    /\ UNCHANGED <<held, gone>>

OneRow(c) ==
    /\ Busy(c) /\ tx[c].step = "sent"
    /\ \/ ReplaceUserAssignments(c, tx[c].to)
       \/ SetStatus(c, tx[c].to)
       \/ CreateUser(c, tx[c].to)
    /\ UNCHANGED <<page, own, calls>>

\* Two transactions that wait for each other: the database ends either of them.
Deadlocked(c, d) ==
    /\ Busy(c) /\ Busy(d) /\ tx[c].to = tx[d].to
    /\ {tx[c].step, tx[d].step} = {"profile", "user"}

Victim(c) ==
    /\ \E d \in Callers : Deadlocked(c, d)
    /\ Step(c, "failed")
    /\ UNCHANGED <<accounts, page, own, calls>>

Serve(c) ==
    LockProfile(c) \/ CommitSave(c) \/ LockUser(c) \/ CommitUser(c) \/ OneRow(c) \/ Victim(c)

----------------------------------------------------------------------------
(* The answers *)

\* The page after the answer to its call.
Answered(p, call) ==
    IF call.op = "save" THEN Merged(p, call.to, call.answer)
    ELSE IF call.op = "create" THEN [p EXCEPT !.selected = call.to]
    ELSE IF call.op = "delete"
         THEN [p EXCEPT !.rows[call.to] = None, !.selected = None, !.dialog = None]
         ELSE p

Deliver(c) ==
    /\ Busy(c) /\ tx[c].step \in {"done", "failed"}
    /\ Turn(c, IF tx[c].step = "done" THEN Answered(page[c], tx[c]) ELSE page[c])
    /\ tx' = [tx EXCEPT ![c] = None]
    /\ UNCHANGED <<accounts, own, calls>>

\* The change is made and its answer lost.
AnswerLost(c) ==
    /\ Busy(c) /\ tx[c].step = "done"
    /\ tx' = [tx EXCEPT ![c] = None]
    /\ UNCHANGED <<accounts, page, own, calls>>

----------------------------------------------------------------------------
(* The page of one's own profile *)

OpenProfile(u) ==
    /\ HasAccount(u) /\ ~Busy(u)
    /\ own' = [own EXCEPT ![u] = DraftOf(u, row[u])]
    /\ UNCHANGED <<accounts, tx, page, calls>>

EditProfile(u) ==
    /\ own[u] # None
    /\ own' = [own EXCEPT ![u].named = ~@]
    /\ UNCHANGED <<accounts, tx, page, calls>>

SaveProfile(u) ==
    /\ own[u] # None
    /\ Ask(u, Call("own", u, own[u]))
    /\ UNCHANGED <<accounts, page, own>>

ProfileSaved(u) ==
    /\ Busy(u) /\ tx[u].step \in {"done", "failed"}
    /\ own' = IF tx[u].step = "done" THEN [own EXCEPT ![u] = DraftOf(u, tx[u].answer)] ELSE own
    /\ tx' = [tx EXCEPT ![u] = None]
    /\ UNCHANGED <<accounts, page, calls>>

Own(u) == OpenProfile(u) \/ EditProfile(u) \/ SaveProfile(u) \/ ProfileSaved(u)

----------------------------------------------------------------------------

MembersInit ==
    /\ row = [u \in People |-> IF u \in Founders THEN NewRow("person") ELSE None]
    /\ held = [u \in People |-> FALSE]
    /\ gone = {}
    /\ tx = [c \in Callers |-> None]
    /\ page = [c \in Consoles |-> NoPage]
    /\ own = [u \in Owners |-> None]
    /\ calls = 0

MembersNext ==
    \/ \E c \in Consoles : Look(c) \/ Send(c) \/ Deliver(c) \/ AnswerLost(c)
    \/ \E u \in Owners : Own(u)
    \/ \E c \in Callers : Serve(c)

MembersSpec == MembersInit /\ [][MembersNext]_membersVars

----------------------------------------------------------------------------
(* Properties *)

\* The editor a page has open has a draft.
PageTypeOK(p) == p \in Page /\ (EditorOpen(p) => p.draft # None)

\* What a call carries, and that the answer to a save is the row it made.
CallTypeOK(call) ==
    /\ call = [Call(call.op, call.to, call.body) EXCEPT !.step = call.step, !.answer = call.answer]
    /\ call.op \in Operations /\ call.to \in People /\ call.step \in CallSteps
    /\ call.op \in {"save", "own"} =>
          call.body \in Draft /\ (call.step = "done" => call.answer \in Row)
    /\ call.op \in {"kind", "create"} => call.body \in Kinds
    /\ call.op \in {"grant", "active"} => call.body \in BOOLEAN

\* Every variable holds a value of the kind its table or its page declares.
MembersTypeOK ==
    /\ row \in [People -> Row \cup {None}]
    /\ held \in [People -> BOOLEAN]
    /\ gone \subseteq People
    /\ DOMAIN tx = Callers /\ \A c \in Callers : Busy(c) => CallTypeOK(tx[c])
    /\ DOMAIN page = Consoles /\ \A c \in Consoles : PageTypeOK(page[c])
    /\ own \in [Owners -> Draft \cup {None}]
    /\ calls \in 0..MaxCalls

\* Whoever is listed on the site has a name to be listed under, whatever the
\* administrator's saves, the member's own saves and setPublicProfile do to the
\* listing and to the name at the same time.
PublicMembersAreNamed == \A u \in People : HasAccount(u) /\ row[u].public => row[u].named

\* Hiding a member and making the account a system account leave the version
\* alone, so a save the member began before is accepted after it.  It must not
\* list the member again: only an administrator's decision does.
HiddenStayHidden ==
    [][\A u \in People :
         HasAccount(u) /\ ~row[u].public /\ row'[u] # None /\ row'[u].public
         => \E c \in Consoles : /\ HoldsUser(c, u) \/ HoldsProfile(c, u)
                                /\ tx[c].op = "save" => tx[c].body.public
                                /\ tx[c].op \in {"save", "show"}
                                /\ tx'[c].step = "done"]_membersVars

\* A conversion to alumni is undone only by an administrator whose draft of this
\* member began from the converted profile.  (A draft into which another
\* member's answer was merged is the exception, and a fault of the page.)
ConversionsLast ==
    [][\A u \in People :
         HasAccount(u) /\ row[u].status = "alumni" /\ row'[u] # None /\ row'[u].status = "current"
         => \E c \in Consoles : /\ HoldsProfile(c, u) /\ tx'[c].step = "done"
                                /\ tx[c].body.seen = "alumni" \/ tx[c].body.of # u]_membersVars
============================================================================
