------------------------- MODULE MediaLibraryProofs -------------------------
(***************************************************************************)
(* Proofs about MediaLibrary for any assets, members, editors and faults,   *)
(* and for pages of the library of any number and age.                      *)
(***************************************************************************)
EXTENDS MediaLibrary, TLAPS

\* A transaction carries what its phase says.
LEMMA PhasesAreTyped ==
  ASSUME TypeOK
  PROVE  /\ \A e \in Editors : save[e].phase = "settled" =>
               save[e] \in [phase : {"settled"}, member : Members, avatar : Avatars, drop : Avatars]
         /\ \A e \in Editors : save[e].phase \in {"checked", "written"} =>
               save[e] \in [phase : {"checked", "written"}, member : Members, avatar : Avatars]
<1>1. ASSUME NEW e \in Editors
      PROVE  save[e] \in {NoSave}
               \cup [phase : {"checked", "written"}, member : Members, avatar : Avatars]
               \cup [phase : {"settled"}, member : Members, avatar : Avatars, drop : Avatars]
  BY DEF TypeOK
<1>2. QED  BY <1>1 DEF NoSave

LEMMA ClearedIsTyped ==
  ASSUME TypeOK, NEW m \in Members
  PROVE  [profile[m] EXCEPT !.avatar = None] \in [version : Nat, avatar : Avatars, text : Texts]
<1>1. profile[m] \in [version : Nat, avatar : Avatars, text : Texts]
  BY DEF TypeOK
<1>2. None \in Avatars
  BY DEF Avatars
<1>3. QED  BY <1>1, <1>2

LEMMA LibraryKeepsTypes ==
  ASSUME TypeOK, NEW a \in Assets, Library(a)
  PROVE  TypeOK'
<1> USE DEF TypeOK, library, profiles, calls
<1>1. CASE Recycle(a) \/ Restore(a)
  BY <1>1 DEF Recycle, Restore, Put, RowStates, Ages
<1>2. CASE MarkDeleting(a)
  BY <1>2 DEF MarkDeleting, Deletes, RowStates, Deletions
<1>3. CASE DeleteObject(a)
  BY <1>3 DEF DeleteObject, Deletes, Deletions
<1>4. CASE DeleteObjectFails(a)
  BY <1>4 DEF DeleteObjectFails, Deletes, Deletions, Fault
<1>5. CASE Return(a)
  BY <1>5 DEF Return, Deletes, RowStates, Deletions
<1>6. CASE DeleteRow(a)
  <2>1. profile' \in [Members -> [version : Nat, avatar : Avatars, text : Texts]]
    BY <1>6, ClearedIsTyped DEF DeleteRow
  <2>2. QED  BY <1>6, <2>1 DEF DeleteRow, Deletes, RowStates, Deletions
<1>7. CASE Abandon(a)
  BY <1>7 DEF Abandon, Deletes, Deletions, Fault
<1>8. QED  BY <1>1, <1>2, <1>3, <1>4, <1>5, <1>6, <1>7 DEF Library

LEMMA TypeStep ==
  ASSUME TypeOK, [Next]_vars
  PROVE  TypeOK'
<1> USE DEF TypeOK, library, profiles, calls
<1>1. CASE UNCHANGED vars
  BY <1>1 DEF vars
<1>2. ASSUME NEW a \in Assets, Uploading(a)
      PROVE  TypeOK'
  <2>1. CASE PutObject(a)
    BY <2>1 DEF PutObject
  <2>2. CASE InsertAsset(a)
    BY <2>2 DEF InsertAsset, RowStates
  <2>3. CASE Compensate(a)
    BY <2>3 DEF Compensate, Fault
  <2>4. QED  BY <1>2, <2>1, <2>2, <2>3 DEF Uploading
<1>3. ASSUME NEW a \in Assets, Library(a)
      PROVE  TypeOK'
  BY <1>3, LibraryKeepsTypes
<1>4. ASSUME NEW e \in Editors, NEW m \in Members, ReadProfile(e, m)
      PROVE  TypeOK'
  <2>1. [version |-> profile[m].version, text |-> profile[m].text] \in [version : Nat, text : Texts]
    OBVIOUS
  <2>2. QED  BY <1>4, <2>1 DEF ReadProfile
<1>5. ASSUME NEW e \in Editors, NEW m \in Members, NEW a \in Avatars, BeginSave(e, m, a)
      PROVE  TypeOK'
  BY <1>5 DEF BeginSave
<1>6. ASSUME NEW e \in Editors, WriteProfile(e)
      PROVE  TypeOK'
  <2>1. save[e] \in [phase : {"checked", "written"}, member : Members, avatar : Avatars]
    BY <1>6, PhasesAreTyped DEF WriteProfile
  <2>2. QED  BY <1>6, <2>1 DEF WriteProfile
<1>7. ASSUME NEW e \in Editors, SettleOld(e)
      PROVE  TypeOK'
  <2>1. save[e] \in [phase : {"checked", "written"}, member : Members, avatar : Avatars]
    BY <1>7, PhasesAreTyped DEF SettleOld
  <2>2. PICK d \in Avatars :
          save' = [save EXCEPT ![e] = [phase |-> "settled", member |-> save[e].member,
                                       avatar |-> save[e].avatar, drop |-> d]]
    BY <1>7, <2>1 DEF SettleOld, Avatars
  <2>3. QED  BY <1>7, <2>1, <2>2 DEF SettleOld
<1>8. ASSUME NEW e \in Editors, CommitSave(e)
      PROVE  TypeOK'
  <2>1. save[e] \in [phase : {"settled"}, member : Members, avatar : Avatars, drop : Avatars]
    BY <1>8, PhasesAreTyped DEF CommitSave
  <2>2. profile' \in [Members -> [version : Nat, avatar : Avatars, text : Texts]]
    BY <1>8, <2>1 DEF CommitSave, Texts
  <2>3. QED  BY <1>8, <2>2 DEF CommitSave, RowStates, Ages
<1>9. ASSUME NEW e \in Editors, SaveFails(e)
      PROVE  TypeOK'
  BY <1>9 DEF SaveFails, Fault
<1>10. CASE ThreeDaysPass
  BY <1>10 DEF ThreeDaysPass, Ages
<1>11. CASE Crash
  BY <1>11 DEF Crash, Fault, Deletions
<1>12. QED
  BY <1>1, <1>2, <1>3, <1>4, <1>5, <1>6, <1>7, <1>8, <1>9, <1>10, <1>11 DEF Next, Editing

\* Every variable stays within its type, for any pages and faults.
THEOREM MediaTypes == Spec => []TypeOK
<1>1. Init => TypeOK
  BY DEF Init, TypeOK, RowStates, Ages, Deletions, Avatars, Texts
<1>2. TypeOK /\ [Next]_vars => TypeOK'
  BY TypeStep
<1>3. QED  BY <1>1, <1>2, PTL DEF Spec

----------------------------------------------------------------------------
(* What a deletion leaves behind *)

\* An identity is fresh until its row is inserted, and a deletion reaches
\* the row after the object is gone.
Clean ==
    /\ \A a \in Assets : upload[a] => row[a] = "none" /\ object[a]
    /\ \A a \in Assets : deletion[a] # "none" => row[a] # "none"
    /\ \A a \in Assets : deletion[a] = "removed" => ~object[a]
    /\ \A e \in Editors : save[e].phase = "settled" /\ save[e].drop # None
          => row[save[e].drop] # "none"
    /\ DeletedLeavesNoObject

LEMMA CleanStep ==
  ASSUME TypeOK, Clean, [Next]_vars
  PROVE  Clean'
<1> USE DEF TypeOK, Clean, DeletedLeavesNoObject, library, profiles, calls
<1>0. \A e \in Editors : save[e].phase = "settled" /\ save[e].drop # None
        => save[e].drop \in Assets
  BY PhasesAreTyped DEF Avatars
<1>1. CASE UNCHANGED vars
  BY <1>1 DEF vars
<1>2. ASSUME NEW a \in Assets, Uploading(a)
      PROVE  Clean'
  <2>1. row[a] = "none" /\ UNCHANGED <<deletion, save>>
    BY <1>2 DEF Uploading, PutObject, InsertAsset, Compensate
  <2>2. \A b \in Assets \ {a} : /\ row'[b] = row[b] /\ object'[b] = object[b]
                                /\ upload'[b] = upload[b]
    BY <1>2 DEF Uploading, PutObject, InsertAsset, Compensate
  <2>3. row'[a] \in {"none", "active"} /\ (upload'[a] => row'[a] = "none" /\ object'[a])
    BY <1>2 DEF Uploading, PutObject, InsertAsset, Compensate
  <2>4. \A b \in Assets : /\ upload'[b] => row'[b] = "none" /\ object'[b]
                          /\ row'[b] = "deleted" => ~object'[b]
    BY <2>2, <2>3
  <2>5. deletion[a] = "none"
    BY <2>1
  <2>6. \A b \in Assets : /\ deletion'[b] # "none" => row'[b] # "none"
                          /\ deletion'[b] = "removed" => ~object'[b]
    BY <2>1, <2>2, <2>5
  <2>7. \A e \in Editors : save'[e].phase = "settled" /\ save'[e].drop # None
                              => row'[save'[e].drop] # "none"
    BY <1>0, <2>1, <2>2
  <2>8. QED  BY <2>4, <2>6, <2>7
<1>3. ASSUME NEW a \in Assets, Library(a)
      PROVE  Clean'
  <2>1. row[a] # "none" /\ ~upload[a]
    BY <1>3 DEF Library, Recycle, Restore, MarkDeleting, DeleteObject, DeleteObjectFails, Return,
                DeleteRow, Abandon, Present
  <2>2. UNCHANGED <<save, upload>>
    BY <1>3 DEF Library, Recycle, Restore, MarkDeleting, DeleteObject, DeleteObjectFails, Return,
                DeleteRow, Abandon
  <2>3. \A b \in Assets \ {a} : /\ row'[b] = row[b] /\ object'[b] = object[b]
                                /\ deletion'[b] = deletion[b]
    BY <1>3 DEF Library, Recycle, Restore, MarkDeleting, DeleteObject, DeleteObjectFails, Return,
                DeleteRow, Abandon, Put, Deletes
  <2>4. /\ row'[a] # "none"
        /\ deletion'[a] = "removed" => ~object'[a]
        /\ row'[a] = "deleted" => ~object'[a]
    <3>1. CASE Recycle(a) \/ Restore(a)
      BY <3>1 DEF Recycle, Restore, Put
    <3>2. CASE MarkDeleting(a)
      BY <3>2 DEF MarkDeleting, Deletes
    <3>3. CASE DeleteObject(a) \/ DeleteObjectFails(a)
      BY <2>1, <3>3 DEF DeleteObject, DeleteObjectFails, Deletes
    <3>4. CASE Return(a)
      BY <2>1, <3>4 DEF Return, Deletes
    <3>5. CASE DeleteRow(a)
      BY <3>5 DEF DeleteRow, Deletes
    <3>6. CASE Abandon(a)
      BY <2>1, <3>6 DEF Abandon, Deletes
    <3>7. QED  BY <1>3, <3>1, <3>2, <3>3, <3>4, <3>5, <3>6 DEF Library
  <2>5. QED  BY <1>0, <2>1, <2>2, <2>3, <2>4
<1>4. ASSUME NEW e \in Editors, \/ \E m \in Members : ReadProfile(e, m)
                                \/ \E m \in Members, a \in Avatars : BeginSave(e, m, a)
                                \/ WriteProfile(e) \/ SaveFails(e)
      PROVE  Clean'
  <2>1. \A f \in Editors : save'[f].phase = "settled" => save'[f] = save[f]
    BY <1>4 DEF ReadProfile, BeginSave, WriteProfile, SaveFails, NoSave
  <2>2. UNCHANGED <<row, object, deletion, upload>>
    BY <1>4 DEF ReadProfile, BeginSave, WriteProfile, SaveFails
  <2>3. QED  BY <2>1, <2>2
<1>5. ASSUME NEW e \in Editors, SettleOld(e)
      PROVE  Clean'
  <2>1. \A f \in Editors : f # e => save'[f] = save[f]
    BY <1>5 DEF SettleOld
  <2>2. save'[e].drop # None => row[save'[e].drop] = "active"
    BY <1>5 DEF SettleOld
  <2>3. QED  BY <1>5, <2>1, <2>2 DEF SettleOld
<1>6. ASSUME NEW e \in Editors, CommitSave(e)
      PROVE  Clean'
  <2>1. /\ \A a \in Assets : row'[a] = IF a = save[e].drop THEN "recycled" ELSE row[a]
        /\ UNCHANGED <<object, deletion, upload>>
        /\ save[e].phase = "settled"
    BY <1>6 DEF CommitSave
  <2>2. \A f \in Editors : save'[f].phase = "settled" => save'[f] = save[f]
    BY <1>6 DEF CommitSave, NoSave
  <2>3. \A a \in Assets : row'[a] = "none" <=> row[a] = "none"
    BY <2>1, NoneIsNoAsset
  <2>4. \A a \in Assets : row'[a] = "deleted" => row[a] = "deleted"
    BY <2>1
  <2>5. QED  BY <1>0, <2>1, <2>2, <2>3, <2>4
<1>7. CASE ThreeDaysPass
  BY <1>7 DEF ThreeDaysPass
<1>8. CASE Crash
  <2>1. /\ \A a \in Assets : ~upload'[a] /\ (object'[a] => object[a]) /\ deletion'[a] = "none"
        /\ \A e \in Editors : save'[e].phase = "idle"
        /\ row' = row
    BY <1>8 DEF Crash, NoSave
  <2>2. QED  BY <2>1
<1>9. QED
  BY <1>1, <1>2, <1>3, <1>4, <1>5, <1>6, <1>7, <1>8 DEF Next, Editing

LEMMA AlwaysClean == Spec => []Clean
<1>1. Init => Clean
  BY DEF Init, Clean, DeletedLeavesNoObject, NoSave
<1>2. TypeOK /\ Clean /\ [Next]_vars => Clean'
  BY CleanStep
<1>3. QED  BY <1>1, <1>2, MediaTypes, PTL DEF Spec

\* A row is deleted only after its object, for any pages at work on the
\* same asset, any failures of COS and any crashes.
THEOREM NothingLeftBehind == Spec => []DeletedLeavesNoObject
<1>1. Clean => DeletedLeavesNoObject
  BY DEF Clean
<1>2. QED  BY <1>1, AlwaysClean, PTL

----------------------------------------------------------------------------
(* What a deletion does to a profile *)

\* Which asset nobody may be about to choose: one that is being deleted, or
\* that has been in the bin for the retention.
Expired(a) == row[a] = "deleting" \/ (row[a] = "recycled" /\ recycledAt[a] = "past")

\* No save under way has chosen what has expired, nobody refers to what is
\* being deleted, what is active has no date of recycling, and an avatar that
\* is dropped stays active until its transaction ends.
Safe ==
    /\ \A a \in Assets : row[a] \in {"none", "active"} => recycledAt[a] = "null"
    /\ \A a \in Assets : Expired(a)
          => \A e \in Editors : save[e].phase # "idle" => save[e].avatar # a
    /\ \A a \in Assets : row[a] = "deleting" => ~Referenced(a)
    /\ \A e \in Editors : save[e].phase = "settled" /\ save[e].drop # None =>
          /\ row[save[e].drop] = "active"
          /\ \A f \in Editors \ {e} : save[f].phase = "settled" => save[f].drop # save[e].drop

\* One row changes, to one that has not expired anew and that no transaction
\* drops; profiles may at most lose an avatar.
LEMMA StaysSafe ==
  ASSUME TypeOK, Safe, save' = save, NEW a \in Assets,
         \A m \in Members : profile'[m].avatar \in {profile[m].avatar, None},
         \A b \in Assets \ {a} : row'[b] = row[b] /\ recycledAt'[b] = recycledAt[b],
         row'[a] \in {"none", "active"} => recycledAt'[a] = "null",
         Expired(a)' => Expired(a),
         row'[a] = "deleting" => ~Referenced(a),
         row'[a] = row[a] \/ ~Dropped(a)
  PROVE  Safe'
<1>1. \A b \in Assets : Expired(b)' => Expired(b)
  BY DEF Expired
<1>2. \A b \in Assets : Expired(b)'
          => \A e \in Editors : save'[e].phase # "idle" => save'[e].avatar # b
  BY <1>1 DEF Safe
<1>3. \A b \in Assets : row'[b] = "deleting" => ~Referenced(b)'
  BY NoneIsNoAsset DEF Safe, Referenced
<1>4. ASSUME NEW e \in Editors, save[e].phase = "settled", save[e].drop # None
      PROVE  save[e].drop \in Assets /\ row'[save[e].drop] = row[save[e].drop]
  <2>1. save[e].drop \in Assets
    BY <1>4, PhasesAreTyped DEF Avatars
  <2>2. save[e].drop = a => Dropped(a)
    BY <1>4 DEF Dropped
  <2>3. QED  BY <2>1, <2>2
<1>5. \A e \in Editors : save'[e].phase = "settled" /\ save'[e].drop # None =>
          /\ row'[save'[e].drop] = "active"
          /\ \A f \in Editors \ {e} : save'[f].phase = "settled" => save'[f].drop # save'[e].drop
  BY <1>4 DEF Safe
<1>6. \A b \in Assets : row'[b] \in {"none", "active"} => recycledAt'[b] = "null"
  BY DEF Safe
<1>7. QED  BY <1>2, <1>3, <1>5, <1>6 DEF Safe

LEMMA LibraryStaysSafe ==
  ASSUME TypeOK, Safe, NEW a \in Assets, Library(a)
  PROVE  Safe'
<1> USE DEF library, profiles
<1>1. CASE Recycle(a) \/ Restore(a)
  <2>1. /\ <<row'[a], recycledAt'[a]>> \in {<<"recycled", "recent">>, <<"active", "null">>}
        /\ ~Dropped(a)
        /\ \A b \in Assets \ {a} : row'[b] = row[b] /\ recycledAt'[b] = recycledAt[b]
        /\ UNCHANGED <<profile, save>>
    BY <1>1 DEF Recycle, Restore, Put, Unlocked, TypeOK
  <2>2. ~Expired(a)'
    BY <2>1 DEF Expired
  <2>3. QED  BY <2>1, <2>2, StaysSafe
<1>2. CASE MarkDeleting(a)
  <2>1. /\ Expired(a) /\ ~Referenced(a) /\ ~Dropped(a) /\ row'[a] = "deleting"
        /\ \A b \in Assets \ {a} : row'[b] = row[b] /\ recycledAt'[b] = recycledAt[b]
        /\ UNCHANGED <<profile, save>>
    BY <1>2 DEF MarkDeleting, Unlocked, TypeOK, Expired
  <2>2. QED  BY <2>1, StaysSafe
<1>3. CASE DeleteObject(a) \/ DeleteObjectFails(a) \/ Abandon(a)
  BY <1>3 DEF DeleteObject, DeleteObjectFails, Abandon, Safe, Expired, Referenced
<1>4. CASE Return(a)
  <2>1. /\ ~Dropped(a) /\ row'[a] = IF row[a] = "deleted" THEN "deleted" ELSE "recycled"
        /\ \A b \in Assets \ {a} : row'[b] = row[b]
        /\ UNCHANGED <<recycledAt, profile, save>>
    BY <1>4 DEF Return, TypeOK
  <2>2. Expired(a)' => Expired(a)
    BY <1>4, <2>1 DEF Safe, Expired, TypeOK, RowStates
  <2>3. QED  BY <2>1, <2>2, StaysSafe
<1>5. CASE DeleteRow(a)
  <2>1. /\ ~Dropped(a) /\ row'[a] = "deleted"
        /\ \A b \in Assets \ {a} : row'[b] = row[b]
        /\ UNCHANGED <<recycledAt, save>>
        /\ \A m \in Members : profile'[m].avatar \in {profile[m].avatar, None}
    BY <1>5 DEF DeleteRow, Unlocked, TypeOK
  <2>2. ~Expired(a)'
    BY <2>1 DEF Expired
  <2>3. QED  BY <2>1, <2>2, StaysSafe
<1>6. QED  BY <1>1, <1>2, <1>3, <1>4, <1>5 DEF Library

LEMMA UploadStaysSafe ==
  ASSUME TypeOK, Clean, Safe, NEW a \in Assets, Uploading(a)
  PROVE  Safe'
<1>1. /\ row[a] = "none" /\ row'[a] \in {"none", "active"}
      /\ \A b \in Assets \ {a} : row'[b] = row[b]
      /\ UNCHANGED <<recycledAt, profile, save>>
  BY DEF Uploading, PutObject, InsertAsset, Compensate, Clean, profiles, TypeOK
<1>2. recycledAt[a] = "null" /\ ~Expired(a)'
  BY <1>1 DEF Safe, Expired
<1>3. ~Dropped(a)
  BY <1>1, NoneIsNoAsset DEF Clean, Dropped
<1>4. QED  BY <1>1, <1>2, <1>3, StaysSafe

LEMMA EditingStaysSafe ==
  ASSUME TypeOK, Safe, NEW e \in Editors, Editing(e)
  PROVE  Safe'
<1>1. ASSUME NEW m \in Members, ReadProfile(e, m)
      PROVE  Safe'
  BY <1>1 DEF ReadProfile, library, Safe, Expired, Referenced
<1>2. ASSUME NEW m \in Members, NEW a \in Avatars, BeginSave(e, m, a)
      PROVE  Safe'
  <2>1. /\ UNCHANGED <<row, recycledAt, profile>>
        /\ save' = [save EXCEPT ![e] = [phase |-> "checked", member |-> m, avatar |-> a]]
        /\ a # None => row[a] = "active"
    BY <1>2 DEF BeginSave, library
  <2>2. \A b \in Assets : Expired(b) => a # b
    BY <2>1, NoneIsNoAsset DEF Expired
  <2>3. \A b \in Assets : Expired(b)' <=> Expired(b)
    BY <2>1 DEF Expired
  <2>4. \A b \in Assets : Expired(b)'
           => \A f \in Editors : save'[f].phase # "idle" => save'[f].avatar # b
    BY <2>1, <2>2, <2>3 DEF Safe, TypeOK
  <2>5. \A f \in Editors : save'[f].phase = "settled" => save'[f] = save[f]
    BY <2>1 DEF TypeOK
  <2>6. QED  BY <2>1, <2>4, <2>5 DEF Safe, Referenced
<1>3. CASE WriteProfile(e) \/ SaveFails(e)
  <2>1. UNCHANGED <<row, recycledAt, profile>>
    BY <1>3 DEF WriteProfile, SaveFails, library
  <2>2. \A f \in Editors : save'[f].phase = "settled" => save'[f] = save[f]
    BY <1>3 DEF WriteProfile, SaveFails, NoSave, TypeOK
  <2>3. \A f \in Editors : save'[f].phase # "idle"
           => save'[f].avatar = save[f].avatar /\ save[f].phase # "idle"
    <3>1. CASE WriteProfile(e)
      <4>1. save' = [save EXCEPT ![e].phase = "written"] /\ save[e].phase = "checked"
        BY <3>1 DEF WriteProfile
      <4>2. save[e] \in [phase : {"checked", "written"}, member : Members, avatar : Avatars]
        BY <4>1, PhasesAreTyped
      <4>3. save'[e].avatar = save[e].avatar /\ \A f \in Editors \ {e} : save'[f] = save[f]
        BY <4>1, <4>2 DEF TypeOK
      <4>4. QED  BY <4>1, <4>3
    <3>2. CASE SaveFails(e)
      BY <3>2 DEF SaveFails, NoSave, TypeOK
    <3>3. QED  BY <1>3, <3>1, <3>2
  <2>4. \A b \in Assets : Expired(b)' <=> Expired(b)
    BY <2>1 DEF Expired
  <2>5. QED  BY <2>1, <2>2, <2>3, <2>4 DEF Safe, Referenced
<1>4. CASE SettleOld(e)
  <2>1. UNCHANGED <<row, recycledAt, profile>>
    BY <1>4 DEF SettleOld, library
  <2>2. PICK d \in Avatars :
          /\ save' = [save EXCEPT ![e] = [phase |-> "settled", member |-> save[e].member,
                                          avatar |-> save[e].avatar, drop |-> d]]
          /\ d # None => row[d] = "active" /\ ~Dropped(d)
    BY <1>4, PhasesAreTyped DEF SettleOld, Avatars, TypeOK
  <2>3. save[e].phase # "idle"
    BY <1>4 DEF SettleOld
  <2>4. \A f \in Editors : save'[f].phase # "idle"
           => save'[f].avatar = save[f].avatar /\ save[f].phase # "idle"
    BY <2>2, <2>3 DEF TypeOK
  <2>5. \A f \in Editors \ {e} : save'[f] = save[f]
    BY <2>2 DEF TypeOK
  <2>6. save'[e].drop = d
    BY <2>2 DEF TypeOK
  <2>7. d # None => \A f \in Editors : save[f].phase = "settled" => save[f].drop # d
    BY <2>2 DEF Dropped
  <2>8. \A f \in Editors : save'[f].phase = "settled" /\ save'[f].drop # None =>
           /\ row'[save'[f].drop] = "active"
           /\ \A g \in Editors \ {f} : save'[g].phase = "settled" => save'[g].drop # save'[f].drop
    BY <2>1, <2>2, <2>5, <2>6, <2>7 DEF Safe
  <2>9. \A b \in Assets : Expired(b)' <=> Expired(b)
    BY <2>1 DEF Expired
  <2>10. QED  BY <2>1, <2>4, <2>8, <2>9 DEF Safe, Referenced
<1>5. CASE CommitSave(e)
  <2> DEFINE s == save[e]
  <2>1. /\ s \in [phase : {"settled"}, member : Members, avatar : Avatars, drop : Avatars]
        /\ profile' = [profile EXCEPT ![s.member] = [version |-> @.version + 1, avatar |-> s.avatar, text |-> e]]
        /\ \A a \in Assets : row'[a] = IF a = s.drop THEN "recycled" ELSE row[a]
        /\ \A a \in Assets : recycledAt'[a] = IF a = s.drop THEN "recent" ELSE recycledAt[a]
        /\ save' = [save EXCEPT ![e] = NoSave]
    BY <1>5, PhasesAreTyped DEF CommitSave
  <2>2. s.phase = "settled"
    BY <2>1
  <2>3. s.drop \in Assets => row[s.drop] = "active"
    BY <2>2, NoneIsNoAsset DEF Safe
  <2> HIDE DEF s
  <2>4. \A b \in Assets : /\ Expired(b)' => Expired(b)
                          /\ row'[b] = "deleting" <=> row[b] = "deleting"
    BY <2>1, <2>3 DEF Expired
  <2>5. \A b \in Assets : Expired(b) => s.avatar # b
    BY <2>2 DEF Safe, s
  <2>6. \A f \in Editors : save'[f].phase # "idle" => f # e /\ save'[f] = save[f]
    BY <2>1 DEF NoSave, TypeOK
  <2>7. \A m \in Members : profile'[m].avatar \in {profile[m].avatar, s.avatar}
    BY <2>1 DEF TypeOK
  <2>8. \A b \in Assets : row'[b] = "deleting" => ~Referenced(b)'
    BY <2>4, <2>5, <2>7 DEF Safe, Referenced, Expired
  <2>9. \A b \in Assets : row'[b] \in {"none", "active"} => recycledAt'[b] = "null"
    BY <2>1 DEF Safe
  <2>10. ASSUME NEW f \in Editors, save'[f].phase = "settled", save'[f].drop # None
         PROVE  save'[f] = save[f] /\ save[f].drop \in Assets \ {s.drop}
    <3>1. f # e /\ save'[f] = save[f]
      BY <2>6, <2>10
    <3>2. save[f].drop \in Assets
      BY <2>10, <3>1, PhasesAreTyped DEF Avatars
    <3>3. save[f].drop # s.drop
      BY <2>2, <2>10, <3>1 DEF Safe, s
    <3>4. QED  BY <3>1, <3>2, <3>3
  <2>11. \A f \in Editors : save'[f].phase = "settled" /\ save'[f].drop # None =>
           /\ row'[save'[f].drop] = "active"
           /\ \A g \in Editors \ {f} : save'[g].phase = "settled" => save'[g].drop # save'[f].drop
    BY <2>1, <2>6, <2>10 DEF Safe
  <2>12. \A b \in Assets : Expired(b)'
           => \A f \in Editors : save'[f].phase # "idle" => save'[f].avatar # b
    BY <2>4, <2>6 DEF Safe
  <2>13. QED  BY <2>1, <2>4, <2>8, <2>9, <2>10, <2>11, <2>12 DEF Safe
<1>6. QED  BY <1>1, <1>2, <1>3, <1>4, <1>5 DEF Editing

LEMMA SafeStep ==
  ASSUME TypeOK, Clean, Safe, [Next]_vars
  PROVE  Safe'
<1>1. CASE UNCHANGED vars
  BY <1>1 DEF vars, library, profiles, Safe, Expired, Referenced
<1>2. CASE ThreeDaysPass
  <2>1. /\ \A e \in Editors : save'[e].phase = "idle"
        /\ UNCHANGED <<row, profile>>
        /\ \A a \in Assets : recycledAt[a] = "null" => recycledAt'[a] = "null"
    BY <1>2 DEF ThreeDaysPass, NoSave, profiles
  <2>2. QED  BY <2>1 DEF Safe, Referenced
<1>3. CASE Crash
  <2>1. /\ \A e \in Editors : save'[e].phase = "idle"
        /\ UNCHANGED <<row, recycledAt, profile>>
    BY <1>3 DEF Crash, NoSave
  <2>2. QED  BY <2>1 DEF Safe, Referenced
<1>4. QED
  BY <1>1, <1>2, <1>3, UploadStaysSafe, LibraryStaysSafe, EditingStaysSafe DEF Next

LEMMA AlwaysSafe == Spec => []Safe
<1>1. Init => Safe
  BY DEF Init, Safe, Expired, Referenced, NoSave
<1>2. TypeOK /\ Clean /\ Safe /\ [Next]_vars => Safe'
  BY SafeStep
<1>3. QED  BY <1>1, <1>2, MediaTypes, AlwaysClean, PTL DEF Spec

\* However saves, the bin, failures, crashes and pages with old lists
\* interleave, a row that is still marked as being deleted is nobody's avatar
\* and will be nobody's: the retention outlasts every save that chose the
\* asset before it went to the bin.
THEOREM AvatarsAreKept == Spec => AvatarsSurvive
<1> DEFINE Kept == \A m \in Members : profile'[m].avatar # profile[m].avatar =>
                      \/ profile'[m].version = profile[m].version + 1
                      \/ row[profile[m].avatar] # "deleting"
<1>1. TypeOK /\ Safe /\ [Next]_vars => [Kept]_vars
  <2> SUFFICES ASSUME TypeOK, Safe, Next PROVE Kept
    BY DEF vars
  <2>1. CASE UNCHANGED profile
    BY <2>1
  <2>2. ASSUME NEW a \in Assets, DeleteRow(a)
        PROVE  Kept
    <3>1. \A m \in Members : profile'[m].avatar # profile[m].avatar => profile[m].avatar = a
      BY <2>2 DEF DeleteRow
    <3>2. \A m \in Members : profile[m].avatar = a => row[a] # "deleting"
      BY DEF Safe, Referenced
    <3>3. QED  BY <3>1, <3>2
  <2>3. ASSUME NEW e \in Editors, CommitSave(e)
        PROVE  Kept
    BY <2>3 DEF CommitSave, TypeOK
  <2>4. QED
    BY <2>1, <2>2, <2>3
    DEF Next, Uploading, PutObject, InsertAsset, Compensate, Library, Recycle, Restore,
        MarkDeleting, DeleteObject, DeleteObjectFails, Return, Abandon, Editing, ReadProfile,
        BeginSave, WriteProfile, SettleOld, SaveFails, ThreeDaysPass, Crash, profiles
<1>2. QED  BY <1>1, MediaTypes, AlwaysSafe, PTL DEF Spec, AvatarsSurvive

----------------------------------------------------------------------------
(* Profiles are versioned *)

\* A page knows an older profile or the present one, and a save under way,
\* of which a profile has one at a time, was begun with the present one.
Current(m) == [version |-> profile[m].version, text |-> profile[m].text]
Known ==
    /\ \A e \in Editors, m \in Members :
          copy[e][m] = Current(m) \/ copy[e][m].version < profile[m].version
    /\ \A e \in Editors : save[e].phase # "idle" =>
          /\ copy[e][save[e].member] = Current(save[e].member)
          /\ \A f \in Editors \ {e} :
                save[f].phase # "idle" => save[f].member # save[e].member

Versioned == \A m \in Members : [Store(m)!Next]_(Store(m)!vars)

LEMMA SavesNameMembers ==
  ASSUME TypeOK, NEW e \in Editors, save[e].phase # "idle"
  PROVE  save[e].member \in Members
<1>1. save[e] \in {NoSave}
        \cup [phase : {"checked", "written"}, member : Members, avatar : Avatars]
        \cup [phase : {"settled"}, member : Members, avatar : Avatars, drop : Avatars]
  BY DEF TypeOK
<1>2. QED  BY <1>1 DEF NoSave

\* Nothing that a page has written changes, whatever becomes of avatars.
LEMMA NothingSaved ==
  ASSUME Known, UNCHANGED copy, \A m \in Members : Current(m)' = Current(m),
         TypeOK,
         \A e \in Editors : save'[e].phase # "idle" =>
             save[e].phase # "idle" /\ save'[e].member = save[e].member
  PROVE  Known' /\ Versioned
<1>1. \A m \in Members : profile'[m].version = profile[m].version /\ profile'[m].text = profile[m].text
  BY DEF Current
<1>2. Known'
  BY <1>1, SavesNameMembers DEF Known
<1>3. Versioned
  BY <1>1 DEF Versioned, Store!vars
<1>4. QED  BY <1>2, <1>3

LEMMA KnownStep ==
  ASSUME TypeOK, Known, [Next]_vars
  PROVE  Known' /\ Versioned
<1>1. CASE UNCHANGED <<profile, copy, save>>
  BY <1>1, NothingSaved DEF Current
<1>2. ASSUME NEW a \in Assets, DeleteRow(a)
      PROVE  Known' /\ Versioned
  <2>1. \A m \in Members : Current(m)' = Current(m)
    BY <1>2 DEF DeleteRow, Current, TypeOK
  <2>2. QED  BY <1>2, <2>1, NothingSaved DEF DeleteRow
<1>3. CASE Crash
  BY <1>3, NothingSaved DEF Crash, NoSave, Current
<1>4. ASSUME NEW e \in Editors, NEW m \in Members, ReadProfile(e, m)
      PROVE  Known' /\ Versioned
  <2>1. UNCHANGED <<profile, save>> /\ copy' = [copy EXCEPT ![e][m] = Current(m)]
    BY <1>4 DEF ReadProfile, Current
  <2>2. save[e].phase = "idle"
    BY <1>4 DEF ReadProfile, NoSave
  <2>3. \A f \in Editors, n \in Members :
          copy'[f][n] = IF f = e /\ n = m THEN Current(m) ELSE copy[f][n]
    BY <2>1 DEF TypeOK
  <2>4. \A f \in Editors : save[f].phase # "idle" => save[f].member \in Members
    BY SavesNameMembers
  <2>5. Known'
    BY <2>1, <2>2, <2>3, <2>4 DEF Known, Current
  <2>6. ASSUME NEW n \in Members
        PROVE  [Store(n)!Next]_(Store(n)!vars)
    <3>1. CASE n = m
      <4>1. \A f \in Editors :
              /\ copy'[f][n].version = IF f = e THEN profile[n].version ELSE copy[f][n].version
              /\ copy'[f][n].text = IF f = e THEN profile[n].text ELSE copy[f][n].text
        BY <2>3, <3>1 DEF Current
      <4>2. [f \in Editors |-> [version |-> copy'[f][n].version, content |-> copy'[f][n].text]]
              = [[f \in Editors |-> [version |-> copy[f][n].version, content |-> copy[f][n].text]]
                   EXCEPT ![e] = [version |-> profile[n].version, content |-> profile[n].text]]
        BY <4>1
      <4>3. Store(n)!Read(e)
        BY <2>1, <4>2 DEF Store!Read
      <4>4. QED  BY <4>3 DEF Store!Next
    <3>2. CASE n # m
      BY <2>1, <2>3, <3>2 DEF Store!vars
    <3>3. QED  BY <3>1, <3>2
  <2>7. QED  BY <2>5, <2>6 DEF Versioned
<1>5. ASSUME NEW e \in Editors, NEW m \in Members, NEW a \in Avatars, BeginSave(e, m, a)
      PROVE  Known' /\ Versioned
  <2>1. /\ UNCHANGED <<profile, copy>>
        /\ save' = [save EXCEPT ![e] = [phase |-> "checked", member |-> m, avatar |-> a]]
        /\ \A f \in Editors : save[f].phase # "idle" => save[f].member # m
        /\ copy[e][m] = Current(m)
    BY <1>5 DEF BeginSave, Known, TypeOK
  <2>2. Known'
    BY <2>1 DEF Known, Current, TypeOK
  <2>3. Versioned
    BY <2>1 DEF Versioned, Store!vars
  <2>4. QED  BY <2>2, <2>3
<1>6. ASSUME NEW e \in Editors, WriteProfile(e) \/ SettleOld(e) \/ SaveFails(e)
      PROVE  Known' /\ Versioned
  <2>1. UNCHANGED <<profile, copy>>
    BY <1>6 DEF WriteProfile, SettleOld, SaveFails
  <2>2. \A f \in Editors \ {e} : save'[f] = save[f]
    <3>1. PICK t : save' = [save EXCEPT ![e] = t]
      BY <1>6 DEF WriteProfile, SettleOld, SaveFails
    <3>2. QED  BY <3>1 DEF TypeOK
  <2>3. save'[e].phase # "idle"
           => save[e].phase # "idle" /\ save'[e].member = save[e].member
    <3>1. CASE SaveFails(e)
      BY <3>1 DEF SaveFails, NoSave, TypeOK
    <3>2. CASE SettleOld(e)
      BY <3>2 DEF SettleOld, TypeOK
    <3>3. CASE WriteProfile(e)
      <4>1. save[e] \in [phase : {"checked", "written"}, member : Members, avatar : Avatars]
        BY <3>3, PhasesAreTyped DEF WriteProfile
      <4>2. save' = [save EXCEPT ![e].phase = "written"]
        BY <3>3 DEF WriteProfile
      <4>3. QED  BY <4>1, <4>2 DEF TypeOK
    <3>4. QED  BY <1>6, <3>1, <3>2, <3>3
  <2>4. QED  BY <2>1, <2>2, <2>3, NothingSaved DEF Current
<1>7. ASSUME NEW e \in Editors, CommitSave(e)
      PROVE  Known' /\ Versioned
  <2> DEFINE m == save[e].member
  <2>1. /\ save[e].phase = "settled" /\ m \in Members
        /\ profile' = [profile EXCEPT ![m] = [version |-> @.version + 1, avatar |-> save[e].avatar, text |-> e]]
        /\ save' = [save EXCEPT ![e] = NoSave]
        /\ copy' = copy
    BY <1>7, PhasesAreTyped DEF CommitSave
  <2>2. copy[e][m] = Current(m)
    BY <2>1 DEF Known
  <2>3. \A f \in Editors \ {e} : save[f].phase # "idle" => save[f].member # m
    BY <2>1 DEF Known
  <2> HIDE DEF m
  <2>4. /\ profile'[m].version = profile[m].version + 1
        /\ \A n \in Members \ {m} : profile'[n] = profile[n]
    BY <2>1 DEF TypeOK
  <2>5. \A f \in Editors : save'[f].phase # "idle" => f # e /\ save'[f] = save[f]
    BY <2>1 DEF NoSave, TypeOK
  <2>6. ASSUME NEW f \in Editors, NEW n \in Members
        PROVE  copy'[f][n] = Current(n)' \/ copy'[f][n].version < profile'[n].version
    <3>1. copy[f][n] = Current(n) \/ copy[f][n].version < profile[n].version
      BY DEF Known
    <3>2. copy[f][n].version \in Nat /\ profile[n].version \in Nat
      BY DEF TypeOK
    <3>3. QED  BY <2>1, <2>4, <3>1, <3>2 DEF Current
  <2>7. ASSUME NEW f \in Editors, save'[f].phase # "idle"
        PROVE  /\ copy'[f][save'[f].member] = Current(save[f].member)'
               /\ \A g \in Editors \ {f} :
                     save'[g].phase # "idle" => save'[g].member # save'[f].member
    <3>1. f # e /\ save'[f] = save[f]
      BY <2>5, <2>7
    <3>2. save[f].member \in Members
      BY <2>7, <3>1, SavesNameMembers
    <3>3. QED  BY <2>1, <2>3, <2>4, <2>5, <2>7, <3>1, <3>2 DEF Known, Current
  <2>8. Known'
    BY <2>6, <2>7 DEF Known
  <2>9. ASSUME NEW n \in Members
        PROVE  [Store(n)!Next]_(Store(n)!vars)
    <3>1. CASE n = m
      <4>1. Store(n)!Change(e)
        BY <2>1, <2>2, <2>4, <3>1 DEF Store!Change, Current
      <4>2. QED  BY <4>1 DEF Store!Next
    <3>2. CASE n # m
      BY <2>1, <2>4, <3>2 DEF Store!vars
    <3>3. QED  BY <3>1, <3>2
  <2>10. QED  BY <2>8, <2>9 DEF Versioned
<1>8. QED
  BY <1>1, <1>2, <1>3, <1>4, <1>5, <1>6, <1>7
  DEF vars, Next, Uploading, PutObject, InsertAsset, Compensate, Library, Recycle, Restore,
      MarkDeleting, DeleteObject, DeleteObjectFails, Return, Abandon, Editing, ThreeDaysPass,
      profiles

\* For any pages of the library, what is written of a profile is changed only
\* by a page that shows the present version of it.
THEOREM ProfilesVersioned == Spec => ProfilesAreVersioned
<1>1. Init => Known /\ \A m \in Members : Store(m)!Init
  BY DEF Init, Known, NoSave, Store!Init
<1>2. TypeOK /\ Known /\ [Next]_vars => Known' /\ [Versioned]_vars
  BY KnownStep
<1>3. QED
  BY <1>1, <1>2, MediaTypes, PTL DEF Spec, ProfilesAreVersioned, Versioned
=============================================================================
