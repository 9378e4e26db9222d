---------------------------- MODULE ScholarlySync ----------------------------
(***************************************************************************)
(* Publications: the registry of works found at OpenAlex, the papers the    *)
(* site shows, and everything that moves a work between them (services/     *)
(* scholarly-sync and services/research).                                   *)
(*                                                                          *)
(* Four parties write the same tables.  Administrators accept, ignore,      *)
(* restore and merge candidates, one transaction each, under a lock on the  *)
(* work's row.  The console's paper editor loads the whole list, keeps it   *)
(* as long as it likes, and saves it as the new list under a revision.  A   *)
(* synchronisation holds an advisory lock and works on profiles it read at  *)
(* its start, in one transaction for finding a work and another for         *)
(* accepting or updating it.  The reset of a member, under the same lock,   *)
(* plans from what it reads and then deletes.                               *)
(*                                                                          *)
(* A work stands for its OpenAlex identifier and for the identifier of the  *)
(* paper that accepting it generates.                                       *)
(***************************************************************************)
EXTENDS Naturals

CONSTANTS Works,     \* OpenAlex works; also the papers generated from them
          Manual,    \* papers written by hand in the console
          Members,
          Policies,  \* the profiles that are in use (a bound)
          None

ASSUME PapersAreTwoKinds == Works \cap Manual = {}
ASSUME NoneIsNothing == None \notin Works \cup Manual \cup Members
ASSUME PoliciesAreProfiles == "off" \in Policies /\ Policies \subseteq {"off", "review", "auto"}

VARIABLES registry,  \* work -> its row in scholarly_works
          linked,    \* work -> its members in scholarly_work_members
          text,      \* paper -> what research_items shows of it
          profile,   \* member -> whether it is synchronised, and the policy for new works
          draft,     \* the list the console's editor has loaded and may still save
          sync,      \* the synchronisation under way
          reset      \* the reset under way, with its plan

scholarlyVars == <<registry, linked, text, profile, draft, sync, reset>>

----------------------------------------------------------------------------
(* Values *)

Papers == Works \cup Manual
PaperTexts == {"gone", "provider", "edited"}
Decisions == {"none", "pending", "accepted", "ignored"}

\* managed says who made the provider's fields follow the provider: acceptance
\* ("default") or an administrator ("asked").  ahead: the snapshot is newer than
\* the paper the row is bound to.
Rows == [decision : Decisions, source : {"openalex", "manual"},
         paper : Papers \cup {None}, alias : Papers \cup {None},
         managed : {"none", "default", "asked"}, ahead : BOOLEAN]

Absent == [decision |-> "none", source |-> "openalex", paper |-> None,
           alias |-> None, managed |-> "none", ahead |-> FALSE]
Candidate == [Absent EXCEPT !.decision = "pending"]

Drafts == [open : BOOLEAN, shown : SUBSET Papers]
NoDraft == [open |-> FALSE, shown |-> {}]

\* todo: the members still to be done, with the policy their works are taken under.
Syncs == [on : BOOLEAN, todo : [Members -> {"off", "review", "auto"}],
          member : Members \cup {None}, next : Works \cup {None},
          step : {"fetch", "accept", "apply"}]
NoSync == [on |-> FALSE, todo |-> [m \in Members |-> "off"],
           member |-> None, next |-> None, step |-> "fetch"]

Resets == [member : Members \cup {None}, links : SUBSET Works,
           works : SUBSET Works, papers : SUBSET Works]
NoReset == [member |-> None, links |-> {}, works |-> {}, papers |-> {}]

Shown == {p \in Papers : text[p] # "gone"}
BoundTo(p) == {w \in Works : registry[w].paper = p}

\* Mutant: the list changes and its revision stays.
BumpForgotten(d) == d

\* bumpResearchRevision: whoever loaded the list before can no longer save it.
Bumped(d) == NoDraft

\* Mutant: nobody waits for the advisory lock.
LockIgnored == TRUE

\* SYNC_LOCK, which a synchronisation and a reset try to take.
LockIsFree == ~sync.on /\ reset.member = None

ScholarlyInit ==
    /\ registry = [w \in Works |-> Absent]
    /\ linked = [w \in Works |-> {}]
    /\ text = [p \in Papers |-> IF p \in Manual THEN "edited" ELSE "gone"]
    /\ profile = [m \in Members |-> "off"]
    /\ draft = NoDraft
    /\ sync = NoSync
    /\ reset = NoReset

----------------------------------------------------------------------------
(* What an administrator does to a work *)

\* acceptWork goes on for a work that is there, is not accepted, and whose
\* generated paper does not exist: whatever else the decision is.
CanPublish(w) ==
    /\ registry[w].decision \in {"pending", "ignored"}
    /\ text[w] = "gone"

\* acceptWork answers "unchanged": somebody was faster.
AcceptedAlready(w) ==
    /\ registry[w].decision = "accepted"
    /\ registry[w].paper # None \/ registry[w].alias # None

Publish(w) ==
    /\ registry' = [registry EXCEPT ![w].decision = "accepted", ![w].paper = w,
                                    ![w].managed = "default", ![w].ahead = FALSE]
    /\ text' = [text EXCEPT ![w] = "provider"]
    /\ draft' = Bumped(draft)

Accept(w) ==
    /\ CanPublish(w)
    /\ Publish(w)
    /\ UNCHANGED <<linked, profile, sync, reset>>

Ignore(w) ==
    /\ registry[w].decision = "pending"
    /\ registry' = [registry EXCEPT ![w].decision = "ignored"]
    /\ UNCHANGED <<linked, text, profile, draft, sync, reset>>

Restore(w) ==
    /\ registry[w].decision = "ignored"
    /\ registry' = [registry EXCEPT ![w].decision = "pending"]
    /\ UNCHANGED <<linked, text, profile, draft, sync, reset>>

\* mergeWork into a paper without a source makes w its source.
MergeAsSource(w, p) ==
    /\ BoundTo(p) = {}
    /\ registry' = [registry EXCEPT ![w].decision = "accepted", ![w].paper = p,
                                    ![w].managed = "none"]
    /\ UNCHANGED linked

\* mergeWork into a paper that has a source makes w an alias, and the members
\* of w members of the source.
MergeAsAlias(w, p) ==
    /\ BoundTo(p) # {}
    /\ registry' = [registry EXCEPT ![w].decision = "accepted", ![w].paper = None,
                                    ![w].alias = p, ![w].managed = "none"]
    /\ linked' = [v \in Works |->
                     IF v \in BoundTo(p) THEN linked[v] \cup linked[w] ELSE linked[v]]

Merge(w, p) ==
    /\ registry[w].decision \in {"pending", "ignored"}
    /\ text[p] # "gone"
    /\ MergeAsSource(w, p) \/ MergeAsAlias(w, p)
    /\ UNCHANGED <<text, profile, draft, sync, reset>>

\* resolveResearchItemSource: w becomes the manual source of paper p.  A row
\* bound to p before is deleted, or is itself given the identifier of w.
ResolveSource(p, w) ==
    /\ text[p] # "gone"
    /\ registry[w].paper \in {None, p}
    /\ registry' = [v \in Works |->
          IF v = w THEN [Absent EXCEPT !.decision = "accepted", !.source = "manual", !.paper = p]
          ELSE IF v \in BoundTo(p) THEN Absent ELSE registry[v]]
    /\ linked' = [v \in Works |->
          IF v = w /\ registry[w].decision = "none" THEN UNION {linked[b] : b \in BoundTo(p)}
          ELSE IF v # w /\ v \in BoundTo(p) THEN {} ELSE linked[v]]
    /\ UNCHANGED <<text, profile, draft, sync, reset>>

\* setManagedFields, for the row that is bound to a paper.
SetManaged(w, who) ==
    /\ registry[w].paper # None
    /\ registry' = [registry EXCEPT ![w].managed = who]
    /\ UNCHANGED <<linked, text, profile, draft, sync, reset>>

----------------------------------------------------------------------------
(* The console's editor *)

OpenDraft ==
    /\ draft' = [open |-> TRUE, shown |-> Shown]
    /\ UNCHANGED <<registry, linked, text, profile, sync, reset>>

\* A paper of the saved list that is not edited keeps its text; one that has
\* gone since the list was loaded is written again.
TextSaved(p, keep, edits) ==
    IF p \notin keep THEN "gone"
    ELSE IF p \in edits \cup Manual THEN "edited"
    ELSE IF text[p] = "gone" THEN "provider" ELSE text[p]

Unbound(row) == [row EXCEPT !.paper = None, !.ahead = FALSE]

\* Mutant: a removed paper takes the row's binding with it and nothing else.
RemovedUnmarked(row) == Unbound(row)

\* A source that leaves with its paper is ignored from then on; of a manual
\* source only the foreign key is cleared.
Removed(row) ==
    IF row.source = "openalex"
    THEN [Unbound(row) EXCEPT !.decision = "ignored"]
    ELSE Unbound(row)

\* Mutant: what was edited by hand still follows the provider.
NotReleased(row, saved) == row

\* releaseManuallyEditedFields: what differs from the snapshot is no longer
\* the provider's.
Released(row, saved) ==
    IF row.source = "openalex" /\ row.decision = "accepted" /\ (saved = "edited" \/ row.ahead)
    THEN [row EXCEPT !.managed = "none"] ELSE row

RowSaved(row, keep, edits) ==
    IF row.paper = None THEN row
    ELSE IF row.paper \in keep THEN Released(row, TextSaved(row.paper, keep, edits))
    ELSE Removed(row)

\* replaceResearchItemCollection: keep is the list, made of what was loaded and of
\* papers written by hand, and edits what was changed.
SaveDraft(keep, edits) ==
    /\ draft.open
    /\ text' = [p \in Papers |-> TextSaved(p, keep, edits)]
    /\ registry' = [w \in Works |-> RowSaved(registry[w], keep, edits)]
    /\ draft' = NoDraft
    /\ UNCHANGED <<linked, profile, sync, reset>>

----------------------------------------------------------------------------
(* Profiles and the synchronisation *)

\* saveProfile and verifyAuthor, as far as a synchronisation reads them: "off"
\* unless the author is verified and synchronisation is enabled.  A reset of the
\* member holds the row.
SaveProfile(m, p) ==
    /\ reset.member # m
    /\ profile' = [profile EXCEPT ![m] = p]
    /\ UNCHANGED <<registry, linked, text, draft, sync, reset>>

Enabled == {m \in Members : profile[m] # "off"}

StartSync(todo) ==
    /\ LockIsFree
    /\ sync' = [NoSync EXCEPT !.on = TRUE, !.todo = todo]
    /\ UNCHANGED <<registry, linked, text, profile, draft, reset>>

\* A synchronisation of everybody; the profiles are read once.
SyncAll ==
    /\ Enabled # {}
    /\ StartSync(profile)

\* A synchronisation of one member.  If the member asked for it, new works are
\* left for review whatever the policy is.
SyncMember(m, policy) ==
    /\ m \in Enabled
    /\ policy \in {profile[m], "review"}
    /\ StartSync([k \in Members |-> IF k = m THEN policy ELSE "off"])

\* What is found out about a work the provider lists: whether it is new and then
\* whether a paper has its title and year, or whether its data have changed.
Findings(w) ==
    IF registry[w].decision = "none" THEN {"new", "duplicate"} ELSE {"same", "changed"}

\* What the synchronisation does next with a work it has stored.
NextStep(w, found, policy) ==
    IF found = "new" /\ policy = "auto" THEN "accept"
    ELSE IF /\ found = "changed"
            /\ registry[w].decision = "accepted" /\ registry[w].source = "openalex"
         THEN "apply" ELSE "fetch"

\* upsertDiscoveredWork, for a work listed for member m.
SyncUpsert(m, w, found) ==
    /\ sync.on /\ sync.next = None
    /\ sync.todo[m] # "off" /\ sync.member \in {None, m}
    /\ registry' = [registry EXCEPT ![w] =
          IF found \in {"new", "duplicate"} THEN Candidate
          ELSE [registry[w] EXCEPT !.ahead = @ \/ (found = "changed" /\ registry[w].paper # None)]]
    /\ LET step == NextStep(w, found, sync.todo[m])
       IN sync' = [sync EXCEPT !.member = m, !.step = step,
                               !.next = IF step = "fetch" THEN None ELSE w]
    /\ linked' = [linked EXCEPT ![w] = @ \cup {m}]
    /\ UNCHANGED <<text, profile, draft, reset>>

Fetching == [sync EXCEPT !.next = None, !.step = "fetch"]

MemberEnded(s, m) ==
    [s EXCEPT !.todo[m] = "off", !.member = None, !.next = None, !.step = "fetch"]

\* acceptWork, for a work that the policy takes.  If it is refused the
\* synchronisation of this member has failed.
SyncAccept ==
    /\ sync.on /\ sync.step = "accept"
    /\ \/ /\ CanPublish(sync.next)
          /\ Publish(sync.next)
          /\ sync' = Fetching
       \/ /\ AcceptedAlready(sync.next)
          /\ sync' = Fetching
          /\ UNCHANGED <<registry, text, draft>>
       \/ /\ ~CanPublish(sync.next) /\ ~AcceptedAlready(sync.next)
          /\ sync' = MemberEnded(sync, sync.member)
          /\ UNCHANGED <<registry, text, draft>>
    /\ UNCHANGED <<linked, profile, reset>>

\* applyManagedUpdates reads the binding and the managed fields again.
Managed(w) ==
    registry[w].decision = "accepted" /\ registry[w].paper # None /\ registry[w].managed # "none"

Differs(w) == registry[w].ahead \/ text[registry[w].paper] = "edited"

SyncApply ==
    /\ sync.on /\ sync.step = "apply"
    /\ IF Managed(sync.next) /\ Differs(sync.next)
       THEN /\ text' = [text EXCEPT ![registry[sync.next].paper] = "provider"]
            /\ registry' = [registry EXCEPT ![sync.next].ahead = FALSE]
            /\ draft' = Bumped(draft)
       ELSE UNCHANGED <<text, registry, draft>>
    /\ sync' = Fetching
    /\ UNCHANGED <<linked, profile, reset>>

\* updateMemberSync, after the last work or a failure of the provider.
SyncMemberEnd(m) ==
    /\ sync.on /\ sync.next = None
    /\ sync.todo[m] # "off" /\ sync.member \in {None, m}
    /\ sync' = MemberEnded(sync, m)
    /\ UNCHANGED <<registry, linked, text, profile, draft, reset>>

\* The last member is done; or the process dies, and its session with the
\* advisory lock.
SyncEnd ==
    /\ sync.on
    /\ sync' = NoSync
    /\ UNCHANGED <<registry, linked, text, profile, draft, reset>>

----------------------------------------------------------------------------
(* The reset of a member *)

\* planMemberReset.  A member with a manual source is not reset.
ResetPlan(m) ==
    /\ LockIsFree
    /\ LET mine == {w \in Works : m \in linked[w]}
           only == {w \in mine : linked[w] = {m}}
       IN  /\ \A w \in mine : registry[w].source # "manual"
           /\ reset' = [member |-> m, links |-> mine, works |-> only,
                        papers |-> {w \in only : /\ registry[w].decision = "accepted"
                                                 /\ registry[w].paper = w}]
    /\ UNCHANGED <<registry, linked, text, profile, draft, sync>>

LinkedAfter(w) == IF w \in reset.links THEN linked[w] \ {reset.member} ELSE linked[w]

\* Mutant: every planned row is deleted, whoever else is linked to it by now.
DeletableAnyhow(w) == registry[w].decision # "none" /\ registry[w].source = "openalex"

\* The condition of DELETE FROM scholarly_works.
Deletable(w) ==
    /\ registry[w].decision # "none"
    /\ registry[w].source = "openalex"
    /\ LinkedAfter(w) = {}

\* The counts of what was deleted are those of the plan.
PlanHolds ==
    /\ \A p \in reset.papers : text[p] # "gone"
    /\ \A w \in reset.works : Deletable(w)

ResetExecute ==
    /\ reset.member # None
    /\ PlanHolds
    /\ text' = [p \in Papers |-> IF p \in reset.papers THEN "gone" ELSE text[p]]
    /\ registry' = [w \in Works |->
          IF w \in reset.works THEN Absent
          ELSE IF registry[w].paper \in reset.papers THEN Unbound(registry[w])
          ELSE registry[w]]
    /\ linked' = [w \in Works |-> IF w \in reset.works THEN {} ELSE LinkedAfter(w)]
    /\ profile' = [profile EXCEPT ![reset.member] = "off"]
    /\ reset' = NoReset
    /\ UNCHANGED <<draft, sync>>

\* A count differs, the paper is on the home page, or the connection is lost.
ResetAbort ==
    /\ reset.member # None
    /\ reset' = NoReset
    /\ UNCHANGED <<registry, linked, text, profile, draft, sync>>

----------------------------------------------------------------------------

ScholarlyNext ==
    \/ \E w \in Works :
          \/ Accept(w) \/ Ignore(w) \/ Restore(w)
          \/ \E p \in Papers : Merge(w, p) \/ ResolveSource(p, w)
          \/ \E who \in {"none", "asked"} \ {registry[w].managed} : SetManaged(w, who)
          \/ \E m \in Members, found \in Findings(w) : SyncUpsert(m, w, found)
    \/ OpenDraft
    \/ \E keep \in SUBSET (draft.shown \cup Manual) : \E edits \in SUBSET keep : SaveDraft(keep, edits)
    \/ \E m \in Members :
          \/ \E p \in Policies \ {profile[m]} : SaveProfile(m, p)
          \/ \E p \in {"review", "auto"} : SyncMember(m, p)
          \/ SyncMemberEnd(m)
          \/ ResetPlan(m)
    \/ SyncAll \/ SyncAccept \/ SyncApply \/ SyncEnd
    \/ ResetExecute \/ ResetAbort

ScholarlySpec == ScholarlyInit /\ [][ScholarlyNext]_scholarlyVars

----------------------------------------------------------------------------
(* Properties *)

\* Every variable holds a value of the kind its table or its code declares.
ScholarlyTypeOK ==
    /\ registry \in [Works -> Rows]
    /\ linked \in [Works -> SUBSET Members]
    /\ text \in [Papers -> PaperTexts]
    /\ profile \in [Members -> Policies]
    /\ draft \in Drafts
    /\ sync \in Syncs
    /\ reset \in Resets

\* An accepted OpenAlex work leads to a paper: the one it is bound to, which the
\* site shows, or the one it was merged into.  acceptWork calls anything else a
\* case for manual repair (service.ts:71); saves of the list, resets and merges
\* may take the paper away at any time.
AcceptedWorksLead ==
    \A w \in Works :
        (registry[w].decision = "accepted" /\ registry[w].source = "openalex")
            => \/ registry[w].paper \in Shown
               \/ registry[w].alias # None

\* A save of the whole list never drops a paper its author has not seen: what
\* disappears was in the list the console had loaded, or in the plan of a reset.
SavesDropOnlySeen ==
    [][\A p \in Shown \ Shown' : p \in draft.shown \/ p \in reset.papers]_scholarlyVars

\* A paper changed by hand is not overwritten by a synchronisation: a source that
\* still follows the provider from its acceptance is bound to an unchanged paper.
EditsStay ==
    \A w \in Works :
        (registry[w].managed = "default" /\ registry[w].paper # None)
            => text[registry[w].paper] # "edited"

\* A reset takes no paper whose source was resolved by hand or is linked to
\* another member, also if that happened after the plan was made.
ResetSparesOthers ==
    [][(reset.member # None /\ reset' = NoReset) =>
          \A p \in Shown \ Shown' : \A w \in BoundTo(p) :
              registry[w].source = "openalex" /\ linked[w] \subseteq {reset.member}]_scholarlyVars

\* When a reset ends, whether done or given up, no synchronisation works for
\* the member whose profile is then off: none was under way with the profile of
\* before, which would find and accept the deleted works anew.
ResetHolds ==
    [][\A m \in Members :
          (reset.member = m /\ reset' = NoReset /\ profile'[m] = "off")
              => sync'.todo[m] = "off"]_scholarlyVars

\* docs/scholarly-sync-operations.md:30: a reset keeps shared papers.
SharedPapersSurvive ==
    [][(reset.member # None /\ reset' = NoReset) =>
          \A p \in Shown \ Shown', w \in Works :
              registry[w].alias = p => linked[w] \subseteq {reset.member}]_scholarlyVars

=============================================================================
