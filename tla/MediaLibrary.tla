---------------------------- MODULE MediaLibrary ----------------------------
(***************************************************************************)
(* The media library and the member profiles that refer to it.  An asset   *)
(* is a row of media_assets and an object in COS, which no transaction     *)
(* covers: an upload puts the object before the row, a permanent deletion  *)
(* takes the object before the row, and either may stop in between.  A     *)
(* profile is edited under a version, names an active asset as its avatar  *)
(* and sends the avatar it replaces to the recycle bin; it checks the new  *)
(* asset without a lock, and the retention of the bin is what makes that   *)
(* harmless.                                                               *)
(***************************************************************************)
EXTENDS Integers, FiniteSets, FiniteSetsExt

CONSTANTS Assets,    \* identities an upload may draw
          Members,   \* accounts, each with a profile
          Editors,   \* pages that edit profiles: the member's, the administrator's
          None,      \* no avatar, no asset
          MaxEdits,  \* bound: saves that are committed when another one begins
          MaxFaults  \* bound: failures of COS or of the database, crashes

ASSUME NoneIsNoAsset == None \notin Assets
ASSUME BoundsAreNaturals == MaxEdits \in Nat /\ MaxFaults \in Nat

VARIABLES row,         \* asset -> where its row of media_assets stands
          recycledAt,  \* asset -> how long ago its recycled_at is
          object,      \* asset -> is its object in COS
          profile,     \* member -> its row of user_profiles
          save,        \* editor -> the transaction that saves a profile
          copy,        \* editor -> member -> the profile as the page read it
          deletion,    \* asset -> where its permanent deletion stands
          upload,      \* asset -> is its upload under way
          faults       \* faults so far

library == <<row, recycledAt, object>>
profiles == <<profile, save, copy>>
calls == <<deletion, upload>>
vars == <<library, profiles, calls, faults>>

----------------------------------------------------------------------------
(* Values *)

RowStates == {"none", "active", "recycled", "deleting", "deleted"}
Ages == {"null", "recent", "past"}
Deletions == {"none", "marked", "removed", "failed"}
Avatars == Assets \cup {None}
NoSave == [phase |-> "idle"]

\* Of the other fields of a profile it is enough to know whose they are:
\* every page writes what another does not.
Texts == Editors \cup {None}

Present == {a \in Assets : row[a] \in {"active", "recycled", "deleting"}}

\* references, as another transaction sees them: what is committed.
Referenced(a) == \E m \in Members : profile[m].avatar = a

\* The check of the foreign key holds the row of a new avatar (FOR KEY SHARE)
\* until the profile is committed.
Held(a) == \E e \in Editors : save[e].phase \in {"written", "settled"} /\ save[e].avatar = a

\* The update that recycles an old avatar holds its row, too.
Dropped(a) == \E e \in Editors : save[e].phase = "settled" /\ save[e].drop = a

Unlocked(a) == ~Held(a) /\ ~Dropped(a)

Init ==
    /\ row = [a \in Assets |-> "none"]
    /\ recycledAt = [a \in Assets |-> "null"]
    /\ object = [a \in Assets |-> FALSE]
    /\ profile = [m \in Members |-> [version |-> 1, avatar |-> None, text |-> None]]
    /\ save = [e \in Editors |-> NoSave]
    /\ copy = [e \in Editors |-> [m \in Members |-> [version |-> 0, text |-> None]]]
    /\ deletion = [a \in Assets |-> "none"]
    /\ upload = [a \in Assets |-> FALSE]
    /\ faults = 0

Fault == faults < MaxFaults /\ faults' = faults + 1

----------------------------------------------------------------------------
(* Upload: the object, then the row and its audit entry *)

\* Every upload draws an identity of its own.
PutObject(a) ==
    /\ row[a] = "none" /\ ~object[a]
    /\ object' = [object EXCEPT ![a] = TRUE]
    /\ upload' = [upload EXCEPT ![a] = TRUE]
    /\ UNCHANGED <<row, recycledAt, profiles, deletion, faults>>

InsertAsset(a) ==
    /\ upload[a]
    /\ row' = [row EXCEPT ![a] = "active"]
    /\ upload' = [upload EXCEPT ![a] = FALSE]
    /\ UNCHANGED <<recycledAt, object, profiles, deletion, faults>>

\* The transaction fails and the object is deleted again, if COS does it; on
\* a connection that is broken ROLLBACK fails before COS is asked, so that a
\* COMMIT whose answer is lost keeps its object.
Compensate(a) ==
    /\ upload[a]
    /\ Fault
    /\ \E removed \in BOOLEAN : object' = [object EXCEPT ![a] = ~removed]
    /\ upload' = [upload EXCEPT ![a] = FALSE]
    /\ UNCHANGED <<row, recycledAt, profiles, deletion>>

----------------------------------------------------------------------------
(* The library.  A page of any age may ask for any asset it has listed: a   *)
(* list is not refreshed by what other pages do, nor by an answer that is   *)
(* lost, so that what is offered says nothing of where the row stands now.  *)

Put(a, status, age) ==
    /\ row' = [row EXCEPT ![a] = status]
    /\ recycledAt' = [recycledAt EXCEPT ![a] = age]

\* recycle: the row is locked and the references are counted; its status is
\* not looked at.
Recycle(a) ==
    /\ a \in Present /\ Unlocked(a)
    /\ ~Referenced(a)
    /\ Put(a, "recycled", "recent")
    /\ UNCHANGED <<object, profiles, calls, faults>>

Restore(a) ==
    /\ row[a] = "recycled" /\ ~Dropped(a)
    /\ Put(a, "active", "null")
    /\ UNCHANGED <<object, profiles, calls, faults>>

Deletes(a, phase) == deletion' = [deletion EXCEPT ![a] = phase]

\* Mutant: the references are not counted again.
MarkUncounted(a) ==
    /\ row[a] = "recycled" /\ recycledAt[a] = "past" /\ Unlocked(a)
    /\ row' = [row EXCEPT ![a] = "deleting"]
    /\ Deletes(a, "marked")
    /\ UNCHANGED <<recycledAt, object, profiles, upload, faults>>

\* permanentDelete up to its COMMIT.
MarkDeleting(a) ==
    /\ row[a] = "recycled" /\ recycledAt[a] = "past" /\ Unlocked(a)
    /\ ~Referenced(a)
    /\ row' = [row EXCEPT ![a] = "deleting"]
    /\ Deletes(a, "marked")
    /\ UNCHANGED <<recycledAt, object, profiles, upload, faults>>

\* Mutant: the row is deleted whatever COS says.
DeleteAnyhow(a) ==
    /\ deletion[a] = "marked"
    /\ \/ object' = [object EXCEPT ![a] = FALSE] /\ UNCHANGED faults
       \/ Fault /\ UNCHANGED object
    /\ Deletes(a, "removed")
    /\ UNCHANGED <<row, recycledAt, profiles, upload>>

DeleteObject(a) ==
    /\ deletion[a] = "marked"
    /\ object' = [object EXCEPT ![a] = FALSE]
    /\ Deletes(a, "removed")
    /\ UNCHANGED <<row, recycledAt, profiles, upload, faults>>

\* COS answers with an error, or its answer is lost and the object is gone.
DeleteObjectFails(a) ==
    /\ deletion[a] = "marked"
    /\ Fault
    /\ \E gone \in BOOLEAN : object' = [object EXCEPT ![a] = @ /\ ~gone]
    /\ Deletes(a, "failed")
    /\ UNCHANGED <<row, recycledAt, profiles, upload>>

\* The row is called recycled again, whatever it has become, with the
\* recycled_at it has.
Return(a) ==
    /\ deletion[a] = "failed" /\ ~Dropped(a)
    /\ row' = [row EXCEPT ![a] = IF @ = "deleted" THEN @ ELSE "recycled"]
    /\ Deletes(a, "none")
    /\ UNCHANGED <<recycledAt, object, profiles, upload, faults>>

\* DELETE looks neither at the status nor at the references, which the
\* foreign keys clear (ON DELETE SET NULL).
DeleteRow(a) ==
    /\ deletion[a] = "removed" /\ Unlocked(a)
    /\ row' = [row EXCEPT ![a] = "deleted"]
    /\ profile' = [m \in Members |-> IF profile[m].avatar = a
                                     THEN [profile[m] EXCEPT !.avatar = None]
                                     ELSE profile[m]]
    /\ Deletes(a, "none")
    /\ UNCHANGED <<recycledAt, object, save, copy, upload, faults>>

\* A statement after the COMMIT fails: the call is over, and the row stays
\* as it is.
Abandon(a) ==
    /\ deletion[a] # "none"
    /\ Fault
    /\ Deletes(a, "none")
    /\ UNCHANGED <<library, profiles, upload>>

----------------------------------------------------------------------------
(* Profiles *)

\* GET /api/profile; the answer of a save carries the same.  The avatar of
\* the copy is left out, for a save may name any.
ReadProfile(e, m) ==
    /\ save[e] = NoSave
    /\ copy' = [copy EXCEPT ![e][m] = [version |-> profile[m].version, text |-> profile[m].text]]
    /\ UNCHANGED <<library, profile, save, calls, faults>>

\* Every save has raised a version.
Edits == MapThenSumSet(LAMBDA m : profile[m].version - 1, Members)

\* Mutant: the version that the page sends is not compared.
BeginUnversioned(e, m, a) ==
    /\ save[e] = NoSave
    /\ \A f \in Editors : save[f].phase # "idle" => save[f].member # m
    /\ Edits < MaxEdits
    /\ copy[e][m].version # 0
    /\ a # None => row[a] = "active"
    /\ save' = [save EXCEPT ![e] = [phase |-> "checked", member |-> m, avatar |-> a]]
    /\ UNCHANGED <<library, profile, copy, calls, faults>>

\* updateProfileInternal up to its check of the avatar: the profile is
\* locked, the asset is not.  The version is compared by the UPDATE, under
\* the same lock.  The page keeps the avatar or chooses another.
BeginSave(e, m, a) ==
    /\ save[e] = NoSave
    /\ \A f \in Editors : save[f].phase # "idle" => save[f].member # m
    /\ Edits < MaxEdits
    /\ copy[e][m].version = profile[m].version
    /\ a # None => row[a] = "active"
    /\ save' = [save EXCEPT ![e] = [phase |-> "checked", member |-> m, avatar |-> a]]
    /\ UNCHANGED <<library, profile, copy, calls, faults>>

\* The UPDATE: a new avatar must exist, whatever its status has become.
WriteProfile(e) ==
    LET s == save[e]
    IN  /\ s.phase = "checked"
        /\ s.avatar \in Present \cup {None, profile[s.member].avatar}
        /\ save' = [save EXCEPT ![e].phase = "written"]
        /\ UNCHANGED <<library, profile, copy, calls, faults>>

\* recycleUnreferencedAvatar: NOT EXISTS sees this transaction's profile and
\* the others' as they are committed.
SettleOld(e) ==
    LET s == save[e]
        old == profile[s.member].avatar
        unused == /\ old # s.avatar /\ old # None
                  /\ row[old] = "active"
                  /\ \A m \in Members \ {s.member} : profile[m].avatar # old
    IN  /\ s.phase = "written"
        /\ unused => ~Dropped(old)
        /\ save' = [save EXCEPT ![e] = [phase |-> "settled", member |-> s.member,
                                        avatar |-> s.avatar,
                                        drop |-> IF unused THEN old ELSE None]]
        /\ UNCHANGED <<library, profile, copy, calls, faults>>

CommitSave(e) ==
    LET s == save[e]
    IN  /\ s.phase = "settled"
        /\ profile' = [profile EXCEPT ![s.member] =
                          [version |-> @.version + 1, avatar |-> s.avatar, text |-> e]]
        /\ row' = [a \in Assets |-> IF a = s.drop THEN "recycled" ELSE row[a]]
        /\ recycledAt' = [a \in Assets |-> IF a = s.drop THEN "recent" ELSE recycledAt[a]]
        /\ save' = [save EXCEPT ![e] = NoSave]
        /\ UNCHANGED <<object, copy, calls, faults>>

\* A statement of the transaction fails (the foreign key refuses an asset
\* that is gone, the username is taken) or its connection breaks: ROLLBACK.
SaveFails(e) ==
    /\ save[e].phase # "idle"
    /\ Fault
    /\ save' = [save EXCEPT ![e] = NoSave]
    /\ UNCHANGED <<library, profile, copy, calls>>

----------------------------------------------------------------------------
(* Time, and the crash of the server *)

\* The calls of the server take less than three days.
ThreeDaysPass ==
    /\ \A e \in Editors : save[e] = NoSave
    /\ \A a \in Assets : deletion[a] = "none" /\ ~upload[a]
    /\ recycledAt' = [a \in Assets |-> IF recycledAt[a] = "recent" THEN "past" ELSE recycledAt[a]]
    /\ UNCHANGED <<row, object, profiles, calls, faults>>

\* Transactions are rolled back; what a deletion asked of COS may be done.
Crash ==
    /\ Fault
    /\ save' = [e \in Editors |-> NoSave]
    /\ deletion' = [a \in Assets |-> "none"]
    /\ upload' = [a \in Assets |-> FALSE]
    /\ \E lost \in SUBSET {a \in Assets : deletion[a] = "marked"} :
          object' = [a \in Assets |-> object[a] /\ a \notin lost]
    /\ UNCHANGED <<row, recycledAt, profile, copy>>

----------------------------------------------------------------------------

Uploading(a) == PutObject(a) \/ InsertAsset(a) \/ Compensate(a)

Library(a) ==
    \/ Recycle(a) \/ Restore(a) \/ MarkDeleting(a)
    \/ DeleteObject(a) \/ DeleteObjectFails(a) \/ Return(a) \/ DeleteRow(a) \/ Abandon(a)

Editing(e) ==
    \/ \E m \in Members : ReadProfile(e, m) \/ \E a \in Avatars : BeginSave(e, m, a)
    \/ WriteProfile(e) \/ SettleOld(e) \/ CommitSave(e) \/ SaveFails(e)

Next ==
    \/ \E a \in Assets : Uploading(a) \/ Library(a)
    \/ \E e \in Editors : Editing(e)
    \/ ThreeDaysPass \/ Crash

Spec == Init /\ [][Next]_vars

----------------------------------------------------------------------------
(* Properties *)

TypeOK ==
    /\ row \in [Assets -> RowStates]
    /\ recycledAt \in [Assets -> Ages]
    /\ object \in [Assets -> BOOLEAN]
    /\ upload \in [Assets -> BOOLEAN]
    /\ deletion \in [Assets -> Deletions]
    /\ profile \in [Members -> [version : Nat, avatar : Avatars, text : Texts]]
    /\ copy \in [Editors -> [Members -> [version : Nat, text : Texts]]]
    /\ save \in [Editors -> {NoSave}
                   \cup [phase : {"checked", "written"}, member : Members, avatar : Avatars]
                   \cup [phase : {"settled"}, member : Members, avatar : Avatars, drop : Avatars]]
    /\ faults \in Nat

\* A row that is gone leaves no object behind, although COS may fail, its
\* answer may be lost and the server may crash during any deletion
\* (permanentDelete; what an upload leaves behind has never had a row).
DeletedLeavesNoObject == \A a \in Assets : row[a] = "deleted" => ~object[a]

\* A deletion that is let alone takes no avatar, although a save checks the
\* new avatar without a lock and the asset may be in the bin when the save
\* commits.  An avatar that changes without a save is lost to the DELETE of a
\* row that a page with an old list has recycled again since it was marked
\* (updateProfileInternal against recycle and permanentDelete).
AvatarsSurvive ==
    [][\A m \in Members :
          profile'[m].avatar # profile[m].avatar =>
             \/ profile'[m].version = profile[m].version + 1
             \/ row[profile[m].avatar] # "deleting"]_vars

\* What a member or an administrator has written of a profile is changed only
\* by a page that shows the present version of it (updateProfileInternal);
\* an avatar may be lost without one.
Store(m) == INSTANCE VersionedStore WITH
              Clients <- Editors, content <- profile[m].text,
              version <- profile[m].version,
              copy <- [e \in Editors |-> [version |-> copy[e][m].version,
                                         content |-> copy[e][m].text]]
ProfilesAreVersioned ==
    /\ \A m \in Members : Store(m)!Init
    /\ [][\A m \in Members : [Store(m)!Next]_(Store(m)!vars)]_vars
=============================================================================
