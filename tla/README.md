# Verification of the RNAV platform

TLA+ modules for the RNAV unified platform: one Node process (`src/server`)
that serves the public site, the console and the device monitor from one
PostgreSQL database, and the Next.js pages of the console (`src/apps/web`) that
edit what it stores. Handlers are asynchronous, so requests interleave at every
`await`; what keeps them apart is the database: transactions, row locks,
advisory locks, foreign keys, unique indexes and revision counters. The pages
keep copies, drafts and requests under way, and their answers arrive in any
order. The modules model exactly that: which statements form one atomic step,
what each step read before and may find changed, what the schema refuses, and
what a page still holds when the world has moved on.

Paths below are relative to `src`; `services/...` and `routes/...` stand under
`src/server`, `*.tsx` under `src/apps/web/features`.

## 1. The system

| Component | State | Operations | Interacts through |
|---|---|---|---|
| Procurement requests (`services/procurement`, `procurement/ProcurementConsole.tsx`) | requests, lines, spending entries, status history; the drafts on the pages | create, revise, save and complete processing, confirm receipt, transitions; mark, bill, group, save on the page | notifications; bought lines are registered as lab assets |
| Procurement catalog (same service, `ProcurementOrderBuilder.tsx`, `ProcurementCatalogManager.tsx`) | categories, subcategories, items; the cart of a builder | create, update, delete; filter, add, submit, copy, revise | requests copy items under locks |
| Account administration (`services/user-admin`, `services/permission-admin`) | users, tiers, status, permission assignments | create, import, status, tier, kind, reset, delete, assignments | every request carries the tier the middleware read; audit rows refer to users |
| Login and sessions (`routes/auth`, `middleware/auth`, `services/account`) | password hashes, `must_change_password`, session tokens | login, logout, change password; reset and revocation | sessions are deleted by the account administration |
| Member profiles (`services/account/profileService.ts`, `console/members`, `console/profile`) | profiles under a version, listing on the site, kind, roles | save, list and hide, convert to alumni, delete | users rows (account administration), avatars (media library) |
| Permission resolution (`services/auth`) | none | a pure function | read by the middleware |
| Scholarly synchronisation (`services/scholarly-sync`, `services/research`) | registry of works, links to members, profiles, runs | synchronise, accept, ignore, restore, merge, resolve, set managed fields, reset a member | writes the papers that the site's content administration writes too |
| Site content (`services/site-admin`, `console/site`) | pages and collections with a revision each; the editors' drafts | load, edit, save, resolve a conflict | papers shared with the synchronisation; images with the media library |
| Lab assets and inventory (`services/lab-assets`, `console/lab-assets`) | assets, platforms, usage requests, inventory batches under one revision; consoles | edit, lend, request, review, mount, import, delete; scans without the revision | notifications, procurement requests, users |
| Device monitor (`services/monitor`, `monitor/useMonitorData.ts`) | devices, current state, telemetry, events; sockets in memory; pages | ingest, sweep, administer, broadcast, poll | sockets of the public and of the console |
| Media library (`services/media`) | rows and objects in an object store | upload, recycle, restore, delete | references from all content |
| Notifications, settings | rows per user; single rows | insert once per event key; update | |
| Migrations runner (`server/db/runMigrations.ts`) | `schema_migrations` | apply the missing files | advisory lock |
| Dashboard, public site, shell and proxies of the web application, scripts | none of their own | read, render, proxy, import once | |

### What is hard, and what makes each part correct

* **Procurement requests.** Ten statuses, two ways to start and to end buying (the
  explicit transition and the save of the reviewer's book), revisions that
  replace the lines, partial saves of a ledger, and pages of any age that offer
  more than the service checks. Correct means: a history without gaps, a review
  stamp that is the stamp of the lines now in the request, a ledger that never
  counts twice, a book that is blank before buying and final after it, everybody
  concerned told of each row of the history; and, through the pages, no amount
  on a line that was not bought, nothing bought with a line undecided, and no
  asset registered from such a line.
* **Procurement catalog.** Checks and writes in different statements, requests
  that read several rows while a purchaser edits them, and a page whose loads
  overtake each other. Correct means: a request is made of one state of the
  catalog, items stay where they are filed, the page shows what is chosen, and a
  revision carries the cart of the request it revises.
* **Account administration.** Requests that take several locks one after the
  other and trust what the middleware read before. Correct means: never without
  an active super, what a request checked of its target still true when it
  commits, every request answered.
* **Sessions.** A login that is no transaction. Correct means: no session
  without its user, a token that has died stays dead, and a reset stands.
* **Members.** Two orders of locks on the two rows of an account, some writers
  that raise the version and some that do not, and an editor into which late
  answers are merged. Correct means: who is listed has a name, who was hidden is
  not listed again by a save from before, an alumnus stays one.
* **Scholarly synchronisation.** Four writers of one list, one of them working
  from profiles read long ago, one from a list a browser loaded long ago, one
  from a plan. Correct means: an accepted work leads to a paper, hand edits stay,
  a save deletes nothing its author has not seen, a reset harms nobody else.
* **Site content.** An editor that can be used while its saves are under way, a
  server that keeps less than it is sent, and one writer, the reset of a member,
  that leaves the revision as it was. Correct means, but for that writer: a save replaces only what its author had before him, and an
  editor that has nothing to save shows what is stored.
* **Lab assets.** A device called idle is handed out unasked, so it must be
  free; every call is made from a screen that shows the present rows; a completed
  inventory is final, also for scans under way.
* **Monitor.** An outage is told once and is told at all; the public sees what
  was public when it was read; screens converge to the database, the public one
  although it reconnects with every render.
* **Media.** A row goes only after its object; no profile loses its avatar to a
  deletion that is let alone, whose check is not locked against the profile's
  save. Pages of the library are of any age, and what one of them asks for while
  a deletion is under way is not refused.

## 2. Modules

| Module | Models |
|---|---|
| `RequestLifecycle` | what a procurement request promises: phase and book (abstract) |
| `Procurement` | the request service; refines `RequestLifecycle` |
| `ProcurementDesk`, `ProcurementProofs` | the pages of reviewers and buyers over `Procurement`, which they extend; theorems of both |
| `ProcurementCatalog` | the catalog and the resolution of a request's lines |
| `ProcurementBuilder`, `ProcurementBuilderProofs` | the page that puts requests together over `ProcurementCatalog`, which it extends; theorems of both |
| `AccountAdmin` | account administration |
| `LoginSessions`, `LoginSessionsProofs` | passwords and sessions |
| `Members` | accounts and profiles with the members page and a member's own page |
| `AccountProofs` | theorems of `AccountAdmin` and of `Members` |
| `ScholarlySync` | the registry of works, the papers and their writers |
| `SiteContent` | the site editor and its store |
| `ContentProofs` | theorems of `SiteContent` and of `ScholarlySync` |
| `VersionedStore` | what every screen with an expected revision promises (abstract): a change is made only by a client that has the present content |
| `LabAssets`, `LabAssetsProofs` | devices, platforms, usage requests, inventory and their console; refines `VersionedStore` |
| `Monitor`, `MonitorProofs` | reports, sweeps, broadcasts and screens |
| `MediaLibrary`, `MediaLibraryProofs` | assets against the object store, and the profiles that refer to them; each profile refines `VersionedStore` |
| `MC*` | values of the constants, views and symmetries for TLC |

Definitions marked *Mutant* are not used by the specifications. Each is a
plausible bug in the definition it stands in front of, and is there to show
that a property notices it.

### Procurement

Each service method is one transaction that begins with `SELECT ... FOR UPDATE`
on the request, so one method is one action; a call that throws is rolled back,
so its refusal is a disabled action. `status`, `requester`, `reviewedBy` and
`purchasedBy` are columns of `procurement_requests`; `linesOf` and `lineStatus`
its lines; `spend` its spending entries, of which only the lines covered matter;
`history` is `procurement_status_history` without notes and times; `inbox`
the notifications, which are unique per user and event key; each carries the row
of the history that inserted it, so that a notification of an earlier round is not
taken for one of a later round. A save carries any
set of line updates and of entries the schema admits. `ApplyProcessing` follows
`persistProcessing` (completing with input) and the same statements written out
in `saveProcessing`; the check that a total needs a bought line, which only the
first repeats, is in the schema of both (`TotalOnPurchased`).
Line ids are never used again (`issued`). Amounts, names and catalog data are
left out: no property distinguishes them.

### ProcurementDesk

The composition of the service with the pages: `DeskSpec` is `Spec` of
`Procurement` restricted to the calls a page makes. `desk` is what a page shows,
`loading` the answer of `getRequest` as far as it has been read (the row of the
request first, then lines and entries, in statements of no transaction), `draft`
the marks and amounts of the processing panel, `registered` the lines entered as
lab assets. The panel's handlers are actions (`MarkLine`, `BillLine`,
`BillGroup`, `Regroup`, `BillTotal`, `BillItems`, `DropEntry`), and a save is
sent only when the blockers of `model.ts` let it through. One answer is under
way per page; the panel is unmounted while a request is opened; a reload after a
failed call is the same as one not started. An entry is drafted once its amount
is typed. The buyers who have no page of their own in an instance (`Watched`
are those who have one) send any draft a page could have made. Each button
leads out of the one status it is offered for, which is why a stale page is
refused rather than misunderstood.

### ProcurementCatalog and ProcurementBuilder

A manager's write of an item is two steps, as in the code: the check on the pool
(`CheckItem`) and the statement that writes (`WriteItem`, or `WriteFails` on a
foreign key). Writes of categories and subcategories are one statement or one
short transaction each. A member's request is resolved line by line under
`FOR SHARE` (`Resolve`), inserted (`InsertRequest`) or rolled back; a writer
whose row is locked waits, so its guard asks for the row to be free. Categories
and subcategories stand for their names and codes; `Contents` is everything else
of an item that is copied into a line. An update that names a subcategory of
another category is refused and changes nothing.

The builder has one cart, taken from the console's draft when React mounts the
component, that is when `Key` changes; opening a draft over another keeps the
cart exactly when the keys are equal. A choice of a filter starts a load and
leaves the one before among `old`, whose answer arrives later and is dropped.
Navigation is over-approximated, the request to copy is read when the builder
opens, own entries are all alike, and a quantity matters only when it is zero.
The answer to a submission is the same step as its commit; a lost answer keeps
the builder open, and a second submission makes a second request, since the call
has no idempotency key.

### AccountAdmin

A worker is a request being handled. Its steps are those between which other
requests run: `Authenticate` (the middleware reads the caller's tier and
permissions, and the copy stays in `job`), `TakeSuperLock`, `LockRow` (checks
included, because they follow the lock in the same transaction), `Commit`, which
waits for the actor's row if another transaction holds it (the foreign key of
the audit row) and fails if the actor has gone, and `DeadlockAbort`, what
PostgreSQL does to a cycle. `createUser` locks no row that exists: its
`LockRow` stands for the INSERT, which claims the unique username. `manager` stands for the three management permissions, which
every operation that is modelled asks for in the same way. An import is modelled
one row at a time. In the code the rows of a file share one transaction, so the
model does not show an import that keeps several rows locked at once, nor one
whose last row fails and undoes the rest.

### LoginSessions

A login is split at its statements (`MatchPassword`, `CreateSession`,
`DeliverCookie`). A change of one's own password is split between the middleware
(`AskChange`) and the transaction (`ChangePassword`), which compares again under
the row's lock. What an administrator does is one step. A password is the
number of its replacements, so an old password never becomes right again.

### Members

An account is the two rows `users` and `user_profiles`. A save of a profile locks
the profile and then updates the user (`LockProfile`, `CommitSave`); every other
operation locks the user first (`LockUser`, `CommitUser`). The two orders meet,
and `Victim` is the transaction PostgreSQL aborts. On the members page `page`
holds the loaded list, the selection, the tab, the editor's draft and the
deletion dialog; `Settled` is what the effects of the page make of each new
state. One change is under way per console, the deletion included; a GET is read
when its answer arrives; the list may be reloaded at any time under any filter.
Roles are one flag and may be saved for any member whose boxes were loaded
(`DetailsLoaded`, an over-approximation), every account may be deleted, and
reloading the editor is offered whenever it is open, where the code offers it
after a conflict. The editor's draft remembers the status it was begun with
(`seen`), which no guard reads.

### ScholarlySync

A work stands both for its OpenAlex identifier and for the paper that accepting
it generates (`stableResearchItemId` is injective on identifiers in use).
`registry` is `scholarly_works`: decision, source, the paper it is bound to
(`research_item_id`, unique), the paper it was merged into (in the snapshot),
who set the managed fields (the six fields are taken together), and whether the
snapshot is newer than the paper. `linked` is `scholarly_work_members`. `text`
says of a paper whether it is shown as the provider has it or edited. `draft` is
the list in the console's editor with the revision it was loaded under; since a
revision never comes back, a draft whose revision has passed is one that is gone,
and `Bumped` discards it. One editor is enough: a second one with the same
revision would lose the same claim.

Accepting, ignoring, merging, resolving and saving the list are one transaction
each. They take the work's row or the revision's row first and conflict on the
same rows, so they are atomic with respect to each other. The synchronisation is
not: finding a work (`SyncUpsert`), accepting it (`SyncAccept`) and applying what
has changed (`SyncApply`) are transactions of their own, and the policies in
`sync.todo` are those of its start. It may end at any point (`SyncEnd`): it is
then finished or its process died, and the session that holds the advisory lock
with it. The reset runs at READ COMMITTED, reads (`ResetPlan`) and then deletes
(`ResetExecute`), and gives up when a count differs (`PlanHolds`), the paper is on
the home page or the connection breaks (`ResetAbort`). Bulk operations are
sequences of the single ones.


### SiteContent

`store` gives each module (a page or a collection) one text and its revision.
`page` is an editor of `SiteContentConsole.tsx`: the modules as loaded, the one
that is open, its draft, the JSON source with whether it is laid out as
`JSON.stringify` does, form or JSON mode, the state of saving, a conflict, the
question about unsaved changes, and a refresh under way. `saves` are the calls
not answered, of which one console may have several: each carries its text and
base revision, and remembers what the editor showed as stored when it was sent.
A save is three steps (`Save`, `Replace` or a refusal, `Answer`), and an answer
may be lost (`SaveFails`). A conflict is resolved over a snapshot of its own
(`Resolve`, `Refresh`, `Resolved`); the first load is one step. A collection is
taken apart into rows: `Normal` gives, for each module, what is read again of a
text, and `Replaced` stores that, while the editor goes on with the text it sent
(`Saved`). `Normal` is any idempotent function; a page is stored as it is.
The papers have two more writers: the synchronisation, which raises the revision
(`Synchronise`), and the reset of a member, which does not (`MemberReset`).
`lapsed` is a history variable: the modules a reset has changed since their
present revision was given; the next revision takes them out of it. Modules that have no
form of their own use the generic one, which behaves like a form. An answer
without a revision, after which the page reloads, is left out.

### LabAssets and VersionedStore

Every change except the inventory's is one transaction that begins with
`claimRevision`, so it is one action, taken when the server takes the call. The
console is in steps: it shows a `snapshot`, opens a drawer and an editor (and
parks one editor behind the dialog of a new type), makes one `call`, and reloads
with the answer (`Finish`) or keeps what it has (`AnswerLost`). A call carries
the revision on screen and the row the editor was opened on, which are not
always of the same age: `VersionedStore`, an abstract store in which only a
client that holds the present content makes a change, is what the snapshots and
the server implement; the finding at `LabAssetsConsole.tsx:336` is what it
leaves to the editor. Scans and the inventory carry no revision and are kept
apart by the lock of the batch's row. A refusal changes nothing and is no action.

Abstractions: types, slots, texts and notes are one value; an import adds
devices without its report and its procurement source; those who lose a review
and a holder who is displaced are notified outside the model; a holder approved
automatically may ask again from a drawer that is stale. The filter
`status <> 'retired'` in `createInventory` excludes nobody, because it is the
condition that carries `retired`; the model includes such devices too.

### Monitor

`now` is the database's clock. A report is worked on in steps, with an `await`
between them: authenticated (`Report`), stored (`Store`), read back
(`ReadBack`), broadcast (`BroadcastDevice`). The sweep marks the silent devices
offline in one transaction (`MarkOffline`), reads them (`ReadOffline`), and tells
the sockets (`TellOffline`, `SweepEnds`). `SetDevice` changes the flags and broadcasts
nothing. `Restart` loses sockets and whatever was being worked on. A screen has an
audience, a status, what it shows, a socket with its queue, and three kinds of
reads (the load of the page, the quiet refresh, the poll),
each of which may be under way while the others are (`Quiet` bounds the quiet
ones); the server reads the answer at once, and it arrives when it likes or fails.
The console's effect runs once: its socket stays open until it is lost, and its
poll comes on time (`PollOnTime`). The public page passes no permissions, the
default is a new list with every render, and the effect depends on it: `Rerender`
closes the socket with what it has queued and starts the poll's timer over, so
that its poll may come (`Poll`) and is not promised. `Connect` may happen when a page has no
socket and is not promised for either. A device that sends telemetry and
no heartbeats goes offline at each sweep and online again at each report
(`LastHeard`): the code says so, and no property is about it.

### MediaLibrary

An asset is a row and an object. An upload puts the object first and deletes it
again when the row cannot be inserted. A permanent deletion is `MarkDeleting`,
`DeleteObject`, `DeleteRow`, or `Return` to the bin when the store fails; a crash
in between, or a statement that fails after the first COMMIT (`Abandon`), leaves
the row `deleting`. The library's pages have no state in the model: a page lists
what it once read and offers it for as long as it is open, so that any number of
pages of any age may call any operation at any time, and only the server's own
checks stand in the way. `recycle` looks at the references and not at the status
(`Recycle`), also of a row that is being deleted, and the final DELETE looks at
neither (`DeleteRow`; the foreign keys then clear the avatar). A save of
a profile is `BeginSave` (the profile locked, the chosen avatar checked to be
active, without a lock), `WriteProfile`, `SettleOld` (the avatar replaced goes to
the bin) and `CommitSave` or `SaveFails`. The rows it holds are `Held` (the
share lock of the foreign key on the new avatar) and `Dropped` (the old one).
`recycledAt` says how long ago an asset went to the bin; three days pass only while
no call is under way (`ThreeDaysPass`): a call takes less than three days. What
is written of a profile (`text`), its version, `copy` and `save` refine
`VersionedStore` for each member; the avatar is followed by `AvatarsSurvive`.

## 3. Runs

TLC explores every instance completely; no state constraint is used. Times are
those of two workers.

| Run | Instance | Shows |
|---|---|---|
| `procurement` | two requests, two line ids, two accounts that create and review, one that buys and closes; 166,565 states, 40 s | history, stamps, ledgers, early closing, a notification for every row of the history but a second request for revision, refinement of `RequestLifecycle` |
| `procurement_desk` | one request, two lines, one requester, one reviewer with a page, both buy; 541,590 states, 80 s | amounts on purchased lines, no line pending once bought, assets from purchased lines |
| `procurement_builder` | two categories, one subcategory, one item with two contents, one member, one purchaser, one request; 3,225,378 states, 110 s | requests are made of one state of the catalog; filters, carts and revisions of the page |
| `account_admin` | two users, two requests at a time, a super and managers among them; 67,174 states, 100 s | an active super remains, what was checked of a target holds until the commit, every request ends |
| `login_sessions` | two users, two logins, two replacements of a password | dead tokens stay dead, a reset stands |
| `scholarly` | two works, two members; 85 s | accepted works lead to a paper, edits stay, saves and resets take only what they may |
| `scholarly_shared` | the same | violation: a paper shared through an alias is deleted |
| `lab_assets` | one device, two platforms, a manager and a member with a console each, two usage requests; 2.35 million states, 95 s | idle devices are free, changes come from the present rows, a completed inventory is final |
| `monitor` | one device, one screen of either audience, one report at a time, one quiet read besides the poll, one fault; 1,540,924 states, 170 s | one event per outage, silent devices go offline, the public sees what was public; screens converge, the console's by its polls alone, the public one if its sockets are accepted again and again |
| `media` | two assets, two members, two pages that edit profiles, library pages of any number and age, one fault; 1,483,709 states, 65 s | no row before its object, no avatar lost to a deletion that is let alone, what is written of profiles is versioned |
| `members` | two accounts (one there from the beginning), one members page and one member's own page, three changes; 1,604,562 states, 75 s | the listed are named, the hidden stay hidden, conversions last |
| `site_content` | two consoles, a page and the papers, two texts and a third that the page's schema refuses and the papers normalise, two saves, two edits, one synchronisation or reset; 4,845,664 states, 145 s | but for a reset, saves replace what their author had before him and clean editors show the site |

**Why the bounds are enough.**
*Procurement:* two line ids allow a revision that replaces a line, a partial
save and a mixture of bought and rejected lines; two accounts allow a reviewer
who is the requester (refused), one who is not, and a requester who is told; two
requests are what a mix-up needs. The desk has one request, since a page shows
one, and two buyers, since one changes what the other has drafted; `DeskView`
leaves out stamps, history and inbox, which no guard reads.
*Builder:* a late filing needs one item, one subcategory and two categories; an
answer overtaken needs one more choice than the load of the beginning
(`MaxChoices` = 1); `MaxCart` = 2 is one line from the catalog and one of the
member's own; the writes under way at once are as many as purchasers, and
`MaxEdits` = 2 is a change between the check and the write of another one.
*AccountAdmin:* the dangerous case is two removals at once; every race between
two transactions needs two workers, and a deadlock two that lock each other's
actor. `Referenced` (users with business records) is empty, so that every user
may be deleted, which is the larger set of behaviours.
*LoginSessions:* a race is between one login and one administrator; the second
token is the session that a change of password is asked with, the second
replacement the one after a reset.
*ScholarlySync:* an alias needs a source and another work, sharing needs two
members. `Manual` is empty: a generated paper whose source has been
deleted or resolved by hand is a paper without a source, so merging into one,
resolving one and keeping one are explored all the same. `Policies` leaves out
`review` for a member's own setting; `SyncMember` still takes works for review.
*LabAssets:* every property speaks of one device; a second platform is where it
is moved to; four revisions are at least three changes in a row, enough for two
usage requests and their review, or for a change, a stale call and a retirement.
*Monitor:* with `Timeout` = 0 a device is silent one tick after it was heard, so
the clock passes the timeout with a report under way. One fault, whichever it is,
loses a read, a socket or what the server works on, at any moment; with one report and one change of
the flags that is enough for messages and answers to overtake each other in
every order of two. `Quiet` has one member: a quiet read, a poll and the load of
the page are then under way together, and a reconnection finds its predecessor's
read still unanswered (it waits for it in the model, where the code would start
a second one).
*Media:* one asset replaces the other as an avatar; two editors are two pages on
one profile or one on each; `MaxEdits` = 2 is the number of saves committed when
another one begins, so three in all: one, a second and a stale one.
*Members:* three changes are a draft's save, the hiding (or the conversion) it
races with, and one more that renews the page meanwhile. A page that shows all
accounts and one that hides the unlisted are the two filters.
*SiteContent:* two saves may overlap in one console or conflict between two; two
edits are one before a save and one during it; one write of the papers from outside
falls before, between or after any of the editors' steps. `Early` fixes what the
modules are at first, since the texts are exchangeable up to the normal form.

Symmetry is used only in runs without liveness, for sets whose members no
definition tells apart.

**Deadlock.** The check is on for `account_admin`, `login_sessions`,
`procurement_desk` and `procurement_builder`. It is off for `procurement`
(requests end and line ids run out), for `lab_assets`, `monitor`, `media`,
`members` and `site_content` (their bounds are used up), and for `scholarly*`
(an installation where nobody does anything is no error; in fact `OpenDraft` is
always possible).

**Fairness.** Two runs assume any. *AccountAdmin* (`FairSpec`): PostgreSQL serves
the waiters of a lock in order, so a transaction whose lock is free again and
again obtains it: strong fairness of `TakeSuperLock`, `LockRow` and `Commit`,
each of which is a statement already sent. The deadlock detector looks at every
wait longer than `deadlock_timeout`: weak fairness of `DeadlockAbort`. New
requests, that is `Authenticate`, are under no fairness. *Monitor*: weak fairness
of the clock, of the sweep's timer and its steps, of the steps of a report that
was accepted, of a page's first load, of the console's polling timer
(`PollOnTime`), of the public page's rendering (`Rerender`), of the delivery of a
socket's messages and of the end of a read. All are timers or callbacks of
something already started. Whether a socket is accepted is not for the page to
say: `Connect` is under no fairness, and neither is the public page's poll, whose
timer every render clears. `ScreensConverge` therefore promises the console's
screen unconditionally, and a public one only when its sockets are accepted
again and again: each accepted socket is followed by a read. New reports, changes
of flags, faults and restarts are under none. The other modules promise nothing that must happen.

### What the code does otherwise than the repository says, or than it means

`scholarly_shared` is a run of its own; the others were met while the modules were
written. They are facts the models contain, and several are the reason why a
property is stated as weakly as it is.

Procurement:
1. `procurementService.ts:1013`: amounts are compared with the lines' status only
   when a call carries amounts. Saving a line as rejected later without any
   leaves its amount. The pages always send them, hence `AmountsOnPurchasedLines`
   is a property of the desk and not of the service.
2. `procurementService.ts:1202`: the explicit transition `mark_purchased` does not
   look at the lines. The pages do not offer it; hence `BoughtIsSettled` is a
   property of the desk.
3. `procurementService.ts:1242`: a second request for revision repeats the event
   key of the first, and `notificationService.ts:10` drops it: the requester is
   not told. `EveryoneIsTold` asks for a notification of each row's own and
   excepts exactly this one (`AskedAgain`).
4. `model.ts:331`: the page knows no maximum amount and the schema does; a larger
   amount is offered to be saved and refused.
5. `procurementService.ts:730`: an item may be filed under a category its
   subcategory has left since the check. `ChangesKeepItemsFiled` says that
   nothing else misfiles it.
6. `ProcurementConsole.tsx:1333`: a copy opened over a copy keeps the first one's cart.
7. `ProcurementOrderBuilder.tsx:203`: a filter chosen on a later page shows nothing.

Accounts, sessions and members:

8. `userAdminService.ts:475`: the actor's tier is the one the middleware read; a
   super who has just been demoted still changes another.
9. `userAdminService.ts:689`: `setAccountEmail` and `revokeSessions` write before
   their audit row and in no transaction, so that a change may stay without one.
   No property says that a deleted actor changes nothing.
10. `routes/auth.ts:129`: a login under way during a reset opens a session with the
    old password.
11. `userAdminService.ts:605`: the visibility is set without raising the version.
    `HiddenStayHidden` therefore speaks of the member's own saves, which do not
    carry the listing; an administrator's save decides it anew.
12. `AccountDeletionPanel.tsx:78`: the dialog keeps its confirmation when the
    selection moves under it, and deletes the other account.
13. `MemberProfileEditor.tsx:94` and `MemberManagement.tsx:283`: answers for one
    member are put into the editor, or the boxes, of another.
14. `profileService.ts:103`: a save from before lists a system account;
    `profileService.ts:86`: saves and administrators lock in opposite orders.
15. `MemberProfileEditor.tsx:295`: the status `alumni` can be set without the conversion.

Scholarly synchronisation and site content:

16. `scholarly-sync/service.ts:237`: a bulk acceptance accepts what was ignored in between.
17. `resetMemberSync.ts:61` (run `scholarly_shared`): sharing is read off one
    row's links, and a member found in an alias later is linked to the alias alone.
18. `resetMemberSync.ts:155`: the reset deletes papers and leaves the revision of
    the collection as it was. An open editor goes on showing them as stored, and
    its next save passes the claim and puts them back. Both properties of
    `site_content` except a module that a reset has changed at its present
    revision (`lapsed`); without the exception TLC violates each of them.
19. `SiteContentConsole.tsx:198`: after a save the editor takes the text it sent
    for the stored one, which the server has normalised: hence `Normal` in both.
20. `SiteContentConsole.tsx:205`, `:206`, `:184` and `:144`: the answer of a save
    rewrites the JSON source that is on screen, the state says "saved" over a newer
    draft, keeping the local changes drops what was typed since, and a second save
    conflicts with the console's own first one. `CleanEditorsShowTheSite` speaks
    of editors without a draft for that reason.

Lab assets, monitor and media:

21. `LabAssetsConsole.tsx:336`: an editor saves an old row under a new revision.
22. `labAssetsService.ts:183`: a device under maintenance is handed out when its
    status is idle. `IdleIsFree` asks for freedom, not for the condition.
23. `useMonitorData.ts:54`: the public page closes its socket, clears its timers
    and connects anew with every render. Hence `ScreensConverge` promises a public
    page nothing of its polls.
24. `mediaService.ts:12`: pictures of public facilities are not counted as references.
25. `mediaService.ts:49`: a page that has listed an asset since before it went to
    the bin recycles it again while its deletion is under way, another restores
    and chooses it, and the final DELETE takes the avatar, although the design
    (`docs/superpowers/specs/2026-07-14-console-business-completion-design.md:336`)
    deletes only what is still unreferenced. `AvatarsSurvive` excepts a row that is
    not marked as being deleted when its DELETE comes; without the exception TLC
    violates it in 15 states.
26. `mediaService.ts:48`: a failed compensation of an upload leaves an unrecorded object.

## 4. Theorems

Checked by TLAPS for every value of the constants, from the modules' named
assumptions only: roles are users and null values are none of the values
(`RolesAreUsers`, `NoUserIsNotAUser`, `NothingIsNoMarks`, `NoneIsNull`,
`NoneIsNoAsset`, `NoneIsNothing`, `NoneIsNoRow`, `CatalogAssumption`, ...), papers
made by hand are none of those that works generate (`PapersAreTwoKinds`), users
are finitely many (`UsersAreFinite`), `Root` is a user, managers are members, the three conditions of a
device are known, quiet reads are no loads and no polls
(`QuietReadsAreTheirOwn`), what is read again of a stored text is that text and
the modules are at first what could be stored (`SiteAssumption`), and the bounds
are natural numbers.

| Module | Theorem | Statement | Argument |
|---|---|---|---|
| `ProcurementProofs` | `TypeCorrect` | `[]TypeOK` | inductive; one lemma for each helper |
| | `LedgerCorrect` | `[](LedgerWellFormed /\ BlankBookInReview)` | inductive together with types and "lines in use were issued": a revision replaces the lines without touching the ledger, which is right only because the book of a request under review is blank |
| | `HistoryCorrect` | `[]HistoryChains` | each operation appends at most one row, from the status it found (`StepShape`) |
| | `SettledBooks` | `SettledBooksAreFinal` | no operation writes a book outside the open statuses, and no edge leads back into them |
| | `LifecycleRefinement` | `Spec => ImplementsLifecycle` | by `StepShape` and `BookShape` each step is one of the lifecycle for one request, or a stutter |
| | `ReviewStampCorrect`, `EarlyClosesCorrect`, `NotificationsCorrect` | `[]ReviewStampMatchesHistory`, `EarlyCloseBuysNothing`, `EveryoneIsTold` | each notification belongs to the row that sent it (`RowsSent`), and no row of a history reached further than its request has (`RanksRise`), so that the key of a new row is new unless a revision is asked for again; the stamp and the notifications with `PeopleInv` (the history is a chain, a draft has no reviewer, every other request has a requester) over the few ways a step concerns people (`PeopleShape`); the early close with types, ledger and chain (`EarlyStep`) |
| | `DeskImplementsService` | every step of the pages is one of the service or leaves it alone | the rest of `Procurement`'s theorems carry over |
| | `AmountsCorrect`, `BoughtCorrect`, `RegistrationCorrect` | the three properties of `procurement_desk` | `DeskInv`: what a page has read is older than the request or agrees with it, and one that saw the arrival shows the final lines, because the row is read first |
| `ProcurementBuilderProofs` | `BuilderImplementsCatalog` | as above, for the catalog | |
| | `LinesCorrect` | `[]LinesAreCurrent` | a resolved line's rows are locked until the request is inserted |
| | `HomesCorrect`, `FilingCorrect` | no item without what it stands in; only a late write misfiles | foreign keys; the lock under which a subcategory moves with its items |
| | `FilterCorrect`, `RevisionCorrect`, `NamesCorrect` | the page's three properties | an answer kept is the last one asked for; the cart changes hands only when `Key` does |
| `AccountProofs` (AccountAdmin) | `AccountTypes` | `[]TypeOK` | inductive |
| | `SupersRemain` | `[]LocksProtectSupers` | "an active super remains" is not inductive: what a transaction counted must still be true when it commits. The invariant adds who is past `SUPER_LOCK`, that rows are held by one transaction, and that a transaction about to remove a super leaves another. The actor's tier is not among what is protected |
| | `ChecksStand` | `[]ChecksHoldToTheEnd` | a part of the same invariant: a row is written only by the transaction that holds it |
| `AccountProofs` (Members) | `MembersTypes` | `[]MembersTypeOK` | inductive with `MembersInv` |
| | `ListedAreNamed` | `[]PublicMembersAreNamed` | not inductive: a save checks name and listing under one lock and writes under it later. `MembersInv` adds that a lock has one holder (`LocksOK`) and that what a save was checked against holds while the profile is locked (`CallsOK`) |
| | `HiddenCorrect`, `ConversionsCorrect` | `HiddenStayHidden`, `ConversionsLast` | copies are dated (`Current`): a row or draft read earlier has an older version or the present status, wherever it is: on a page, in a call, in an answer. The conversion raises the version, the hiding does not, hence the two properties differ |
| `LoginSessionsProofs` | `SessionTypes` | `[]TypeOK` | inductive |
| | `SessionsBelong` | `[]SessionsHaveUsers` | a disabled user's sessions are deleted with the status, and a login that is behind stops at `DeliverCookie` |
| | `DeadForEver`, `ResetStands` | `DeadTokensStayDead`, `TemporaryPasswordNeeded` | only an undelivered token can belong to a user who is not active; a change of password is asked only with a token of a login |
| `LabAssetsProofs` | `LabAssetsTypes` | `[]TypeOK` | inductive |
| | `ConsoleIsVersionedStore` | `Spec => ImplementsVersionedStore` | `CopiesAreDated`: a copy is of an older revision or is the present content; hence a call that passes the claim has it |
| | `IdleDevicesAreFree` | `[]IdleIsFree` | with `Accounted`: who holds a device, and which request it is held for, agree with its status |
| | `InventoryKeeps`, `InventoryIsFinal` | a counted device outlives its inventory; a completed one changes no more | the lock of the batch's row |
| `MonitorProofs` | `MonitorTypes` | `[]TypeOK` | inductive |
| | `OutagesHaveOneEvent` | `OneEventPerOutage` | only the sweep's transaction takes a device offline |
| | `PublicSeesPublic` | `[]PublicRowsWerePublic` | `OnlyPublic` follows a row from its reading through handler, queue and answer to the page |
| `MediaLibraryProofs` | `MediaTypes` | `[]TypeOK` | inductive |
| | `NothingLeftBehind` | `[]DeletedLeavesNoObject` | `Clean`: where the object of a row in each state, and of each deletion under way, stands |
| | `AvatarsAreKept`, `ProfilesVersioned` | `AvatarsSurvive`, `ProfilesAreVersioned` | for library pages of any number and age. `Safe`: an asset past its retention is in no save under way, and a row marked as being deleted is nobody's avatar. `Known`: a save under way was begun with the present profile |
| `ContentProofs` (SiteContent) | `TypeCorrect` | `[]TypeOK` | inductive with `CopiesInv` |
| | `CleanEditorsCorrect`, `SavesCorrect` | `[]CleanEditorsShowTheSite`, `SavesKnowThePresent` | `CopiesInv`: every copy of a module (page, refresh under way, base of a save, answer) is of an older revision, or what was made of it is the stored text, or a reset took papers at that revision; a reset dates no copy that was not (`ResetsDate`); a save passes the claim only with the present revision |
| `ContentProofs` (ScholarlySync) | `ScholarlyTypes` | `[]ScholarlyTypeOK` | inductive with `WorksInv` |
| | `AcceptedCorrect`, `EditsCorrect` | `[]AcceptedWorksLead`, `[]EditsStay` | conjuncts of `WorksInv`: a row says by itself whether it is bound and to what (`RowOK`), a paper has one source (`OneSource`), and what a reset planned is still so when it deletes (`PlanInv`): a planned paper that is shown is bound to its own work, or that work's row is no candidate |
| | `DropsCorrect` | `SavesDropOnlySeen` | `DraftInv`: a list that can still be saved has everything shown, because whatever adds a paper bumps the revision |
| | `ResetsSpare` | `ResetSparesOthers` | the counts at the end of the reset (`PlanHolds`) together with `PlanInv` |
| | `ResetsHold` | `ResetHolds` | `SyncInv`: the advisory lock keeps synchronisation and reset apart |

The type invariants (`TypeOK`, `MembersTypeOK`, `ScholarlyTypeOK`),
`BlankBookInReview`, `SettledBooksAreFinal`, `SessionsHaveUsers`,
`AlwaysAnActiveSuper` (a conjunct of `LocksProtectSupers`), `HomesExist` and `InventoryKeepsItsDevices` are proved and
need no run.

**Only model-checked.** The liveness properties `EveryRequestEnds`,
`SilentDevicesGoOffline` and `ScreensConverge`, which are out of the prover's
reach. Every other property of a run that passes is a theorem above. The
inductive invariants were checked by TLC on the instances of the runs before
they were proved.

## 5. Not modelled

* Whole components: permission resolution (a pure function whose tests enumerate
  it), settings (single statements), the migrations runner (below), dashboard and
  public site (they read and render), the shell and the proxies of the web
  application (no state of their own), scripts (they run once).
* *Procurement:* amounts as numbers, order numbers, texts, listing. A transition
  carries no version, so a reviewer may approve what was replaced after the page
  was loaded; there is no input in the call that a property could compare.
* *Catalog:* names, codes and attribute definitions; text search, facets, paging;
  the price in a cart, which may differ from the one at submission; the form of
  the manager's page, whose refresh is not cancelled and whose saves carry no version.
* *AccountAdmin:* permission templates as such, the gate of `must_change_password`,
  `setAccountEmail` and `revokeSessions` as requests, with what they leave without
  an audit row (the sessions are in `LoginSessions`, the visibility in `Members`).
* *LoginSessions:* time of the last login; the growth of the table of sessions,
  since expired ones are filtered and not deleted.
* *Members:* tiers, the check for devices in use before a conversion, the other
  fields of a profile, and the route of the public profile, which no page calls.
* *ScholarlySync:* matching by DOI (a work is its identifier; one DOI under two
  identifiers is one work), the manual registry rows that the migration makes for
  papers of before, the rows of runs, the backfill, the search for authors,
  deletion of members, lost updates between `saveProfile` and `verifyAuthor`
  (a profile is reduced to what a synchronisation reads of it), and the deadlock
  between the save of the list and an acceptance, which PostgreSQL ends as a call
  that did nothing.
* *SiteContent:* fields of the forms, previews, consoles that may only read, the
  ids the database gives to new facility items.
* *LabAssets:* attributes and public profiles of devices, the link of an import
  to its procurement request, error messages, and two calls at once from one console.
* *Monitor:* events and their lists, categories, tokens, tracks, the summary.
* *Media:* references other than avatars, thumbnails and listing. That a deletion
  interrupted by a crash is ever completed is false, and is not claimed.

## 6. What is left

1. *ScholarlySync:* the bulk acceptance in steps of its own.
2. The migrations runner under its advisory lock; permission resolution as an
   operator against a reference definition; settings.
