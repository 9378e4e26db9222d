--------------------------- MODULE ContentProofs ---------------------------
(***************************************************************************)
(* Proofs about what the public site shows: the content its modules have   *)
(* and the publications.                                                   *)
(*                                                                         *)
(* SiteContent.  Every copy of a module that anyone holds (a page, a       *)
(* refresh under way, a save with the text it was based on, an answer) is  *)
(* no newer than the module, and one of the same revision has the text     *)
(* that was made of it, unless a reset took papers at that revision.       *)
(*                                                                         *)
(* ScholarlySync.  A row of the registry always says by itself whether it  *)
(* is bound and to what; and a list that can still be saved has everything *)
(* the site shows.  What a reset planned before it locked anything is made *)
(* true by the counts it checks.                                           *)
(***************************************************************************)
EXTENDS SiteContent, ScholarlySync, TLAPS


\* A text with its revision is what module m is now, but for a reset, or is
\* older.
Dated(t, r, m) == /\ r <= store[m].revision
                  /\ r = store[m].revision /\ m \notin lapsed
                        => Normal[m][t] = store[m].text

DatedCopies(copies) ==
    \A m \in Modules : Dated(copies[m].text, copies[m].revision, m)

EditorOK(e) ==
    /\ e \in Editors
    /\ e.load = "ready" => /\ e.modules \in Snapshots
                           /\ e.draft \in Texts
                           /\ DatedCopies(e.modules)
    /\ e.load # "ready" => e.pending = Nothing /\ e.refreshing = Nothing
    /\ e.refreshing # Nothing /\ e.refreshing.read # Nothing
         => DatedCopies(e.refreshing.read)

SaveOK(s) ==
    /\ page[s.by].load = "ready"
    /\ s.id <= spent.saves
    /\ Dated(s.seen, s.base, s.to)
    /\ s.step = "done" => Dated(s.sent, s.revision, s.to)

OneEach == \A s, t \in saves : s.id = t.id => s = t

\* What is read is in normal form.
StoreNormal == \A m \in Modules : Normal[m][store[m].text] = store[m].text

CopiesInv == /\ TypeOK
             /\ StoreNormal
             /\ \A c \in Consoles : EditorOK(page[c])
             /\ \A s \in saves : SaveOK(s)
             /\ OneEach

-----------------------------------------------------------------------------
(* Steps by what they change *)

\* A step of one page that keeps its editor in order and starts no save keeps
\* everything.
LEMMA PageStep ==
    ASSUME CopiesInv, NEW c \in Consoles, NEW e, EditorOK(e), Become(c, e),
           page[c].load = "ready" => e.load = "ready",
           UNCHANGED <<store, lapsed>>, saves' \subseteq saves,
           spent' \in Budgets,
           spent'.saves = spent.saves
    PROVE  CopiesInv'
<1>1. page' = [page EXCEPT ![c] = e] /\ page \in [Consoles -> Editors]
  BY DEF Become, CopiesInv, TypeOK
<1>2. page' \in [Consoles -> Editors]
  BY <1>1 DEF EditorOK
<1>3. TypeOK'
  BY <1>2 DEF CopiesInv, TypeOK
<1>4. \A r, t, m : Dated(t, r, m)' <=> Dated(t, r, m)
  BY DEF Dated
<1>5. ASSUME NEW d \in Consoles PROVE EditorOK(page[d])'
  <2>1. EditorOK(page'[d])
    BY <1>1 DEF CopiesInv
  <2> QED
    BY <2>1 DEF EditorOK, DatedCopies, Dated
<1>6. ASSUME NEW s \in saves' PROVE SaveOK(s)'
  <2>1. SaveOK(s) /\ s.by \in Consoles
    BY DEF CopiesInv, TypeOK, Saves
  <2>2. page'[s.by].load = "ready"
    BY <1>1, <2>1 DEF SaveOK
  <2> QED
    BY <2>1, <2>2 DEF SaveOK, Dated
<1>7. StoreNormal'
  BY DEF CopiesInv, StoreNormal
<1> QED
  BY <1>3, <1>5, <1>6, <1>7 DEF CopiesInv, OneEach

\* A text that is read again is in normal form.
LEMMA StoredFacts ==
    ASSUME NEW m \in Modules
    PROVE  /\ \A t \in Texts : Normal[m][t] \in Texts
           /\ \A t \in Stored(m) : t \in Texts /\ Normal[m][t] = t
<1>1. \A t \in Texts : Normal[m][t] \in Texts /\ Normal[m][Normal[m][t]] = Normal[m][t]
  BY SiteAssumption
<1> QED
  BY <1>1 DEF Stored

\* A new revision of a module leaves every copy of it merely older.
LEMMA NewRevisionsAge ==
    ASSUME store \in Snapshots, NEW n \in Modules, NEW u \in Texts, Renewed(n, u)
    PROVE  /\ store' \in Snapshots
           /\ store'[n] = [text |-> u, revision |-> store[n].revision + 1]
           /\ \A m \in Modules : m # n => store'[m] = store[m] /\ (m \in lapsed' <=> m \in lapsed)
           /\ \A m \in Modules, r \in Nat, t \in Texts : Dated(t, r, m) => Dated(t, r, m)'
<1>0. store' = [store EXCEPT ![n] = [text |-> u, revision |-> store[n].revision + 1]]
      /\ lapsed' = lapsed \ {n}
  BY DEF Renewed
<1>1. store[n] \in Copies /\ store[n].revision \in Nat
  BY DEF Snapshots, Copies
<1>2. store' \in Snapshots
  BY <1>0, <1>1 DEF Snapshots, Copies
<1>3. store'[n] = [text |-> u, revision |-> store[n].revision + 1]
  BY <1>0 DEF Snapshots
<1>4. \A m \in Modules : m # n => store'[m] = store[m] /\ (m \in lapsed' <=> m \in lapsed)
  BY <1>0 DEF Snapshots
<1>5. ASSUME NEW m \in Modules, NEW r \in Nat, NEW t \in Texts, Dated(t, r, m)
      PROVE  Dated(t, r, m)'
  <2>1. CASE m = n
    BY <1>1, <1>3, <1>5, <2>1 DEF Dated
  <2>2. CASE m # n
    BY <1>4, <1>5, <2>2 DEF Dated
  <2> QED
    BY <2>1, <2>2
<1> QED
  BY <1>2, <1>3, <1>4, <1>5

\* A reset leaves no copy of the papers dated that was not.
LEMMA ResetsDate ==
    ASSUME store \in Snapshots, NEW n \in Modules, NEW u \in Texts, MemberReset(n, u)
    PROVE  /\ store' \in Snapshots
           /\ store'[n] = [text |-> u, revision |-> store[n].revision]
           /\ \A m \in Modules : m # n => store'[m] = store[m]
           /\ \A m \in Modules, r \in Nat, t \in Texts : Dated(t, r, m) => Dated(t, r, m)'
<1>0. store' = [store EXCEPT ![n].text = u] /\ lapsed' = lapsed \cup {n}
  BY DEF MemberReset
<1>1. store[n] \in Copies
  BY DEF Snapshots
<1>2. store'[n] = [store[n] EXCEPT !.text = u]
  BY <1>0 DEF Snapshots
<1>3. store'[n] = [text |-> u, revision |-> store[n].revision] /\ store'[n] \in Copies
  BY <1>1, <1>2 DEF Copies
<1>4. \A m \in Modules : m # n => store'[m] = store[m]
  BY <1>0 DEF Snapshots
<1>5. store' \in Snapshots
  BY <1>0, <1>2, <1>3 DEF Snapshots
<1>6. ASSUME NEW m \in Modules, NEW r \in Nat, NEW t \in Texts, Dated(t, r, m)
      PROVE  Dated(t, r, m)'
  <2>1. CASE m = n
    BY <1>0, <1>3, <1>6, <2>1 DEF Dated
  <2>2. CASE m # n
    BY <1>0, <1>4, <1>6, <2>2 DEF Dated
  <2> QED
    BY <2>1, <2>2
<1> QED
  BY <1>3, <1>4, <1>5, <1>6

\* What is dated stays dated whoever writes: the pages and the saves.
LEMMA StoreStep ==
    ASSUME CopiesInv, NEW n \in Modules, NEW u \in Texts,
           Renewed(n, u) \/ MemberReset(n, u),
           UNCHANGED page, spent'.saves = spent.saves
    PROVE  /\ \A c \in Consoles : EditorOK(page[c])'
           /\ \A s \in saves : SaveOK(s)'
<1>1. \A m \in Modules, r \in Nat, t \in Texts : Dated(t, r, m) => Dated(t, r, m)'
  BY NewRevisionsAge, ResetsDate DEF CopiesInv, TypeOK
<1>2. ASSUME NEW copies \in Snapshots, DatedCopies(copies) PROVE DatedCopies(copies)'
  <2>1. \A m \in Modules : copies[m].text \in Texts /\ copies[m].revision \in Nat
    BY DEF Snapshots, Copies
  <2> QED
    BY <1>1, <1>2, <2>1 DEF DatedCopies
<1>3. ASSUME NEW c \in Consoles PROVE EditorOK(page[c])'
  <2>1. EditorOK(page[c]) /\ page'[c] = page[c]
    BY DEF CopiesInv
  <2>2. page[c].refreshing # Nothing /\ page[c].refreshing.read # Nothing
          => page[c].refreshing.read \in Snapshots
    BY <2>1 DEF EditorOK, Editors, Refreshes
  <2> QED
    BY <1>2, <2>1, <2>2 DEF EditorOK
<1>4. ASSUME NEW s \in saves PROVE SaveOK(s)'
  <2>1. SaveOK(s) /\ s \in Saves
    BY DEF CopiesInv, TypeOK
  <2> QED
    BY <1>1, <2>1 DEF SaveOK, Saves
<1> QED
  BY <1>3, <1>4

-----------------------------------------------------------------------------
(* The page's own steps *)

\* What the steps below find in the editor they start from.
LEMMA EditorFacts ==
    ASSUME CopiesInv, NEW c \in Consoles
    PROVE  /\ EditorOK(page[c]) /\ page[c] \in Editors
           /\ store \in Snapshots /\ DatedCopies(store)
           /\ page[c].load = "ready" => /\ page[c].modules \in Snapshots
                                        /\ Baseline(c) \in Copies
                                        /\ page[c].draft \in Texts
<1>1. EditorOK(page[c]) /\ page[c] \in Editors /\ store \in Snapshots
  BY DEF CopiesInv, EditorOK, TypeOK
<1>2. DatedCopies(store)
  BY <1>1 DEF DatedCopies, Dated, Snapshots, Copies, CopiesInv, StoreNormal
<1>3. page[c].selected \in Modules
  BY <1>1 DEF Editors
<1> QED
  BY <1>1, <1>2, <1>3 DEF EditorOK, Baseline, Snapshots

\* Opening a module of an editor that is in order.
LEMMA OpenedOK ==
    ASSUME NEW e, NEW m \in Modules, EditorOK(e), e.load = "ready"
    PROVE  EditorOK(Opened(e, m)) /\ Opened(e, m).load = "ready"
<1>1. e \in Editors /\ e.modules \in Snapshots
  BY DEF EditorOK
<1>2. e.modules[m].text \in Texts
  BY <1>1 DEF Snapshots, Copies
<1>3. Tidy(e.modules[m].text) \in Sources
  BY <1>2 DEF Tidy, Sources
<1>4. Opened(e, m) \in Editors
  BY <1>1, <1>2, <1>3 DEF Opened, Editors, Modes
<1>5. /\ Opened(e, m).load = "ready" /\ Opened(e, m).modules = e.modules
      /\ Opened(e, m).draft = e.modules[m].text
      /\ Opened(e, m).refreshing = e.refreshing
  BY <1>1 DEF Opened, Editors
<1> QED
  BY <1>1, <1>2, <1>4, <1>5 DEF EditorOK

LEMMA Loading ==
    ASSUME CopiesInv, NEW c \in Consoles, Load(c) \/ LoadFails(c) \/ Retry(c)
    PROVE  CopiesInv'
<1>1. EditorOK(page[c]) /\ page[c] \in Editors /\ store \in Snapshots /\ DatedCopies(store)
  BY EditorFacts
<1>2. UNCHANGED <<store, lapsed, saves, spent>> /\ spent \in Budgets
  BY DEF Load, LoadFails, Retry, CopiesInv, TypeOK
<1>3. CASE Load(c)
  <2> DEFINE e == [page[c] EXCEPT !.modules = store, !.load = "ready"]
             m == page[c].selected
             t == store[m].text
             o == Opened(e, m)
  <2>1. page[c].load = "loading" /\ page[c].refreshing = Nothing /\ m \in Modules
    BY <1>1, <1>3 DEF Load, EditorOK, Editors
  <2>2. t \in Texts /\ Tidy(t) \in Sources
    BY <1>1, <2>1 DEF Snapshots, Copies, Tidy, Sources
  <2>3. e \in Editors /\ e.modules = store /\ e.load = "ready" /\ e.refreshing = Nothing
    BY <1>1, <2>1 DEF Editors
  <2>4. o = [e EXCEPT !.selected = m, !.draft = t, !.source = Tidy(t), !.broken = FALSE,
                      !.conflict = Nothing, !.state = "idle", !.mode = "form"]
    BY <2>3 DEF Opened
  <2>5. /\ o \in Editors /\ o.modules = store /\ o.load = "ready"
        /\ o.draft = t /\ o.refreshing = Nothing
    <3> HIDE DEF e, t
    <3> QED
      BY <2>1, <2>2, <2>3, <2>4 DEF Editors, Modes
  <2>6. EditorOK(o)
    BY <1>1, <2>2, <2>5 DEF EditorOK
  <2>7. Become(c, o)
    BY <1>3 DEF Load
  <2> QED
    BY <1>2, <2>5, <2>6, <2>7, PageStep
<1>4. CASE LoadFails(c)
  <2> DEFINE e == [page[c] EXCEPT !.load = "error"]
  <2>1. EditorOK(e) /\ Become(c, e) /\ page[c].load # "ready"
    BY <1>1, <1>4 DEF LoadFails, EditorOK, Editors
  <2> QED
    BY <1>2, <2>1, PageStep
<1>5. CASE Retry(c)
  <2> DEFINE e == [page[c] EXCEPT !.load = "loading"]
  <2>1. EditorOK(e) /\ Become(c, e) /\ page[c].load # "ready"
    BY <1>1, <1>5 DEF Retry, EditorOK, Editors
  <2> QED
    BY <1>2, <2>1, PageStep
<1> QED
  BY <1>3, <1>4, <1>5

LEMMA Switching ==
    ASSUME CopiesInv, NEW c \in Consoles,
           (\E m \in Modules : Switch(c, m)) \/ Discard(c) \/ Cancel(c)
    PROVE  CopiesInv'
<1>1. EditorOK(page[c]) /\ page[c] \in Editors
  BY EditorFacts
<1>2. UNCHANGED <<store, lapsed, saves, spent>> /\ spent \in Budgets
  BY DEF Switch, Discard, Cancel, CopiesInv, TypeOK
<1>3. page[c].load = "ready"
  BY <1>1 DEF Switch, AtHand, Discard, Cancel, EditorOK
<1>4. ASSUME NEW m \in Modules \cup {Nothing} PROVE EditorOK([page[c] EXCEPT !.pending = m])
  BY <1>1, <1>3 DEF EditorOK, Editors
<1>5. ASSUME NEW m \in Modules, Switch(c, m) PROVE CopiesInv'
  <2>1. CASE Dirty(c)
    <3> DEFINE e == [page[c] EXCEPT !.pending = m]
    <3>1. EditorOK(e) /\ e.load = "ready" /\ Become(c, e)
      BY <1>1, <1>3, <1>4, <1>5, <2>1 DEF Switch, Editors
    <3> QED
      BY <1>2, <3>1, PageStep
  <2>2. CASE ~Dirty(c)
    <3>1. Become(c, Opened(page[c], m))
      BY <1>5, <2>2 DEF Switch
    <3> QED
      BY <1>1, <1>2, <1>3, <3>1, OpenedOK, PageStep
  <2> QED
    BY <2>1, <2>2
<1>6. CASE Discard(c)
  <2> DEFINE o == Opened(page[c], page[c].pending)
             e == [o EXCEPT !.pending = Nothing]
  <2>1. page[c].pending \in Modules
    BY <1>1, <1>6 DEF Discard, Editors
  <2>2. EditorOK(o) /\ o.load = "ready"
    BY <1>1, <1>3, <2>1, OpenedOK
  <2>3. EditorOK(e) /\ e.load = "ready"
    <3> HIDE DEF o
    <3> QED
      BY <2>2 DEF EditorOK, Editors
  <2>4. Become(c, e)
    BY <1>6 DEF Discard
  <2> QED
    BY <1>2, <2>3, <2>4, PageStep
<1>7. CASE Cancel(c)
  <2> DEFINE e == [page[c] EXCEPT !.pending = Nothing]
  <2>1. EditorOK(e) /\ e.load = "ready" /\ Become(c, e)
    BY <1>1, <1>3, <1>4, <1>7 DEF Cancel, Editors
  <2> QED
    BY <1>2, <2>1, PageStep
<1> QED
  BY <1>5, <1>6, <1>7

\* Changes of a draft, of its source or of how the page stands, which is all
\* that most steps do, leave an editor in order.
LEMMA DraftStep ==
    ASSUME CopiesInv, NEW c \in Consoles, NEW e \in Editors, page[c].load = "ready",
           e.load = "ready", e.modules = page[c].modules, e.draft \in Texts,
           e.refreshing = page[c].refreshing
    PROVE  EditorOK(e)
BY EditorFacts DEF EditorOK

LEMMA Editing ==
    ASSUME CopiesInv, NEW c \in Consoles,
           \/ \E mode \in Modes : SetMode(c, mode)
           \/ \E t \in Texts : Edit(c, t)
           \/ \E source \in Sources : EditJson(c, source)
           \/ Format(c)
    PROVE  CopiesInv'
<1>1. page[c] \in Editors /\ (page[c].load = "ready" => page[c].draft \in Texts)
  BY EditorFacts
<1>2. page[c].load = "ready"
  BY DEF SetMode, Edit, EditJson, Format, AtHand
<1>3. spent \in Budgets
  BY DEF CopiesInv, TypeOK
<1>4. spent.edits < MaxEdits =>
        /\ [spent EXCEPT !.edits = @ + 1] \in Budgets
        /\ [spent EXCEPT !.edits = @ + 1].saves = spent.saves
  BY <1>3, BoundsAssumption DEF Budgets
<1>5. \A t \in Texts : Tidy(t) \in Sources
  BY DEF Tidy, Sources
<1>6. ASSUME NEW mode \in Modes, SetMode(c, mode) PROVE CopiesInv'
  <2> DEFINE e == [page[c] EXCEPT !.mode = mode]
  <2>1. /\ e \in Editors /\ e.load = "ready" /\ e.modules = page[c].modules
        /\ e.draft = page[c].draft /\ e.refreshing = page[c].refreshing
    BY <1>1, <1>2 DEF Editors
  <2>2. Become(c, e) /\ UNCHANGED <<store, lapsed, saves, spent>>
    BY <1>6 DEF SetMode
  <2> HIDE DEF e
  <2>3. EditorOK(e)
    BY <1>1, <1>2, <2>1, DraftStep
  <2> QED
    BY <1>3, <2>1, <2>2, <2>3, PageStep
<1>7. ASSUME NEW t \in Texts, Edit(c, t) PROVE CopiesInv'
  <2> DEFINE e == [page[c] EXCEPT !.draft = t, !.source = Tidy(t), !.broken = FALSE,
                                  !.conflict = Nothing, !.state = "idle"]
  <2>1. /\ e \in Editors /\ e.load = "ready" /\ e.modules = page[c].modules
        /\ e.draft = t /\ e.refreshing = page[c].refreshing
    BY <1>1, <1>2, <1>5 DEF Editors
  <2>2. Become(c, e) /\ UNCHANGED <<store, lapsed, saves>> /\ spent.edits < MaxEdits
        /\ spent' = [spent EXCEPT !.edits = @ + 1]
    BY <1>7 DEF Edit, Spend
  <2> HIDE DEF e
  <2>3. EditorOK(e)
    BY <1>2, <2>1, DraftStep
  <2> QED
    BY <1>4, <2>1, <2>2, <2>3, PageStep
<1>8. ASSUME NEW source \in Sources, EditJson(c, source) PROVE CopiesInv'
  <2>1. PICK e : /\ Become(c, e)
                 /\ e \in Editors /\ e.load = "ready" /\ e.modules = page[c].modules
                 /\ e.draft \in Texts /\ e.refreshing = page[c].refreshing
    <3>1. CASE source = Bad
      <4> DEFINE e == [page[c] EXCEPT !.source = source, !.broken = TRUE]
      <4>1. /\ e \in Editors /\ e.load = "ready" /\ e.modules = page[c].modules
            /\ e.draft \in Texts /\ e.refreshing = page[c].refreshing
        BY <1>1, <1>2 DEF Editors
      <4>2. Become(c, e)
        BY <1>8, <3>1 DEF EditJson
      <4> QED
        BY <4>1, <4>2
    <3>2. CASE source # Bad
      <4> DEFINE e == [page[c] EXCEPT !.source = source, !.broken = FALSE,
                                      !.draft = source.text,
                                      !.conflict = Nothing, !.state = "idle"]
      <4>1. source.text \in Texts
        BY <3>2 DEF Sources
      <4>2. /\ e \in Editors /\ e.load = "ready" /\ e.modules = page[c].modules
            /\ e.draft \in Texts /\ e.refreshing = page[c].refreshing
        BY <1>1, <1>2, <4>1 DEF Editors
      <4>3. Become(c, e)
        BY <1>8, <3>2 DEF EditJson
      <4> QED
        BY <4>2, <4>3
    <3> QED
      BY <3>1, <3>2
  <2>2. UNCHANGED <<store, lapsed, saves>> /\ spent.edits < MaxEdits
        /\ spent' = [spent EXCEPT !.edits = @ + 1]
    BY <1>8 DEF EditJson, Spend
  <2>3. EditorOK(e)
    BY <1>2, <2>1, DraftStep
  <2> QED
    BY <1>4, <2>1, <2>2, <2>3, PageStep
<1>9. CASE Format(c)
  <2>1. PICK e : /\ Become(c, e)
                 /\ e \in Editors /\ e.load = "ready" /\ e.modules = page[c].modules
                 /\ e.draft \in Texts /\ e.refreshing = page[c].refreshing
    <3>1. CASE page[c].source = Bad
      <4> DEFINE e == [page[c] EXCEPT !.broken = TRUE]
      <4>1. /\ e \in Editors /\ e.load = "ready" /\ e.modules = page[c].modules
            /\ e.draft \in Texts /\ e.refreshing = page[c].refreshing
        BY <1>1, <1>2 DEF Editors
      <4>2. Become(c, e)
        BY <1>9, <3>1 DEF Format
      <4> QED
        BY <4>1, <4>2
    <3>2. CASE page[c].source # Bad
      <4> DEFINE t == page[c].source.text
                 e == [page[c] EXCEPT !.source = Tidy(t), !.draft = t, !.broken = FALSE]
      <4>1. t \in Texts
        BY <1>1, <3>2 DEF Editors, Sources
      <4>2. /\ e \in Editors /\ e.load = "ready" /\ e.modules = page[c].modules
            /\ e.draft \in Texts /\ e.refreshing = page[c].refreshing
        <5> HIDE DEF t
        <5> QED
          BY <1>1, <1>2, <1>5, <4>1 DEF Editors
      <4>3. Become(c, e)
        BY <1>9, <3>2 DEF Format
      <4> QED
        BY <4>2, <4>3
    <3> QED
      BY <3>1, <3>2
  <2>2. UNCHANGED <<store, lapsed, saves, spent>>
    BY <1>9 DEF Format
  <2>3. EditorOK(e)
    BY <1>2, <2>1, DraftStep
  <2> QED
    BY <1>3, <2>1, <2>2, <2>3, PageStep
<1> QED
  BY <1>6, <1>7, <1>8, <1>9

LEMMA Resolving ==
    ASSUME CopiesInv, NEW c \in Consoles,
           \/ \E choice \in Choices : Resolve(c, choice)
           \/ Refresh(c) \/ Resolved(c) \/ ResolveFails(c)
    PROVE  CopiesInv'
<1>1. /\ EditorOK(page[c]) /\ page[c] \in Editors
      /\ store \in Snapshots /\ DatedCopies(store)
  BY EditorFacts
<1>2. UNCHANGED <<store, lapsed, saves, spent>> /\ spent \in Budgets
  BY DEF Resolve, Refresh, Resolved, ResolveFails, CopiesInv, TypeOK
<1>3. page[c].load = "ready" /\ page[c].modules \in Snapshots /\ page[c].draft \in Texts
      /\ DatedCopies(page[c].modules)
  BY <1>1 DEF Resolve, Refresh, Resolved, ResolveFails, AtHand, EditorOK
<1>4. ASSUME NEW choice \in Choices, Resolve(c, choice) PROVE CopiesInv'
  <2> DEFINE r == [choice |-> choice, conflict |-> page[c].conflict, read |-> Nothing]
             e == [page[c] EXCEPT !.refreshing = r]
  <2>1. r \in Refreshes /\ r.read = Nothing
    BY <1>1, <1>4 DEF Resolve, Editors, Refreshes
  <2>2. /\ e \in Editors /\ e.load = "ready" /\ e.modules = page[c].modules
        /\ e.draft = page[c].draft /\ e.refreshing = r
    <3> HIDE DEF r
    <3> QED
      BY <1>1, <1>3, <2>1 DEF Editors
  <2>3. EditorOK(e)
    <3> HIDE DEF e, r
    <3> QED
      BY <1>3, <2>1, <2>2 DEF EditorOK
  <2>4. Become(c, e)
    BY <1>4 DEF Resolve
  <2> QED
    BY <1>2, <2>2, <2>3, <2>4, PageStep
<1>5. CASE Refresh(c)
  <2> DEFINE r == [page[c].refreshing EXCEPT !.read = store]
             e == [page[c] EXCEPT !.refreshing = r]
  <2>1. r \in Refreshes /\ r.read = store
    BY <1>1, <1>5 DEF Refresh, Editors, Refreshes
  <2>2. /\ e \in Editors /\ e.load = "ready" /\ e.modules = page[c].modules
        /\ e.draft = page[c].draft /\ e.refreshing = r
    <3> HIDE DEF r
    <3> QED
      BY <1>1, <1>3, <2>1 DEF Editors
  <2>3. EditorOK(e)
    <3> HIDE DEF e, r
    <3> QED
      BY <1>1, <1>3, <2>1, <2>2 DEF EditorOK
  <2>4. Become(c, e)
    BY <1>5 DEF Refresh, Become
  <2> QED
    BY <1>2, <2>2, <2>3, <2>4, PageStep
<1>6. CASE Resolved(c)
  <2> DEFINE r == page[c].refreshing
             m == r.conflict.module
             t == IF r.choice = "reload" THEN r.read[m].text ELSE r.conflict.draft
             e == [page[c] EXCEPT !.modules = r.read, !.selected = m,
                                  !.draft = t, !.source = Tidy(t), !.broken = FALSE,
                                  !.conflict = Nothing, !.state = "idle",
                                  !.refreshing = Nothing]
  <2>1. r \in Refreshes /\ r.read \in Snapshots /\ DatedCopies(r.read)
    BY <1>1, <1>6 DEF Resolved, EditorOK, Editors, Refreshes
  <2>2. m \in Modules /\ t \in Texts
    BY <2>1 DEF Refreshes, Conflicts, Snapshots, Copies
  <2>3. Tidy(t) \in Sources
    BY <2>2 DEF Tidy, Sources
  <2>4. /\ e \in Editors /\ e.load = "ready" /\ e.modules = r.read
        /\ e.draft = t /\ e.refreshing = Nothing
    <3> HIDE DEF r, m, t
    <3> QED
      BY <1>1, <1>3, <2>1, <2>2, <2>3 DEF Editors
  <2>5. EditorOK(e)
    <3> HIDE DEF e, r, t
    <3> QED
      BY <2>1, <2>2, <2>4 DEF EditorOK
  <2>6. Become(c, e)
    BY <1>6 DEF Resolved
  <2> QED
    BY <1>2, <2>4, <2>5, <2>6, PageStep
<1>7. CASE ResolveFails(c)
  <2> DEFINE e == [page[c] EXCEPT !.conflict = page[c].refreshing.conflict,
                                  !.refreshing = Nothing]
  <2>1. page[c].refreshing.conflict \in Conflicts
    BY <1>1, <1>7 DEF ResolveFails, Editors, Refreshes
  <2>2. /\ e \in Editors /\ e.load = "ready" /\ e.modules = page[c].modules
        /\ e.draft = page[c].draft /\ e.refreshing = Nothing
    BY <1>1, <1>3, <2>1 DEF Editors
  <2>3. EditorOK(e)
    <3> HIDE DEF e
    <3> QED
      BY <1>3, <2>2 DEF EditorOK
  <2>4. Become(c, e)
    BY <1>7 DEF ResolveFails
  <2> QED
    BY <1>2, <2>2, <2>3, <2>4, PageStep
<1> QED
  BY <1>4, <1>5, <1>6, <1>7

-----------------------------------------------------------------------------
(* Saving *)

LEMMA SaveStep ==
    ASSUME CopiesInv, NEW c \in Consoles, Save(c)
    PROVE  CopiesInv'
<1> DEFINE e == [page[c] EXCEPT !.state = "saving", !.conflict = Nothing]
           sent == [id |-> spent.saves + 1, by |-> c, to |-> page[c].selected,
                    sent |-> page[c].draft, seen |-> Baseline(c).text,
                    base |-> Baseline(c).revision, step |-> "sent", revision |-> 0]
<1>1. /\ EditorOK(page[c]) /\ page[c] \in Editors /\ page[c].load = "ready"
      /\ page[c].modules \in Snapshots /\ Baseline(c) \in Copies /\ page[c].draft \in Texts
  BY EditorFacts DEF Save, AtHand
<1>2. spent \in Budgets
      /\ spent.saves < MaxSaves /\ spent' = [spent EXCEPT !.saves = @ + 1]
  BY DEF Save, Spend, CopiesInv, TypeOK
<1>3. /\ spent' \in Budgets
      /\ spent'.saves = spent.saves + 1 /\ spent.saves \in Nat /\ spent.saves + 1 \in 1..MaxSaves
  BY <1>2, BoundsAssumption DEF Budgets
<1>4. saves' = saves \cup {sent} /\ Become(c, e) /\ UNCHANGED <<store, lapsed>>
  BY DEF Save
<1>5. page[c].selected \in Modules /\ sent \in Saves
  BY <1>1, <1>3 DEF Editors, Saves, Copies
<1>6. /\ e \in Editors /\ e.load = "ready" /\ e.modules = page[c].modules
      /\ e.draft = page[c].draft /\ e.refreshing = page[c].refreshing
  BY <1>1 DEF Editors
<1>7. EditorOK(e)
  <2> HIDE DEF e
  <2> QED
    BY <1>1, <1>6, DraftStep
<1>8. page' = [page EXCEPT ![c] = e] /\ page \in [Consoles -> Editors] /\ page' \in [Consoles -> Editors]
  BY <1>4, <1>6 DEF Become, CopiesInv, TypeOK
<1>9. PICK new :
         /\ new \in Saves /\ saves' = saves \cup {new}
         /\ new.id = spent.saves + 1 /\ new.by = c /\ new.to = page[c].selected
         /\ new.seen = Baseline(c).text /\ new.base = Baseline(c).revision /\ new.step = "sent"
  <2>1. /\ sent.id = spent.saves + 1 /\ sent.by = c /\ sent.to = page[c].selected
        /\ sent.seen = Baseline(c).text /\ sent.base = Baseline(c).revision /\ sent.step = "sent"
    OBVIOUS
  <2> HIDE DEF sent
  <2> QED
    BY <1>4, <1>5, <2>1
<1> HIDE DEF e, sent
<1>10. TypeOK' /\ StoreNormal'
  BY <1>3, <1>4, <1>8, <1>9 DEF CopiesInv, TypeOK, StoreNormal
<1>11. ASSUME NEW d \in Consoles PROVE EditorOK(page[d])'
  <2>1. EditorOK(page'[d])
    BY <1>7, <1>8 DEF CopiesInv
  <2> QED
    BY <1>4, <2>1 DEF EditorOK, DatedCopies, Dated
<1>12. ASSUME NEW s \in saves PROVE SaveOK(s)' /\ s.id <= spent.saves
  <2>1. SaveOK(s) /\ s \in Saves /\ s.id \in Nat /\ s.by \in Consoles
    BY BoundsAssumption DEF CopiesInv, TypeOK, Saves
  <2>2. page'[s.by].load = "ready"
    BY <1>6, <1>8, <2>1 DEF SaveOK
  <2>3. s.id <= spent'.saves
    BY <1>3, <2>1 DEF SaveOK
  <2> QED
    BY <1>4, <2>1, <2>2, <2>3 DEF SaveOK, Dated
<1>13. SaveOK(new)'
  <2>1. Dated(Baseline(c).text, Baseline(c).revision, page[c].selected)
    BY <1>1, <1>5 DEF EditorOK, DatedCopies, Baseline
  <2>2. page'[c].load = "ready"
    BY <1>6, <1>8
  <2>3. Baseline(c).revision <= store'[new.to].revision
        /\ (Baseline(c).revision = store'[new.to].revision /\ new.to \notin lapsed'
               => Normal[new.to][new.seen] = store'[new.to].text)
    BY <1>4, <1>9, <2>1 DEF Dated
  <2> QED
    BY <1>3, <1>9, <2>2, <2>3 DEF SaveOK, Dated
<1>14. OneEach'
  BY <1>3, <1>4, <1>9, <1>12 DEF CopiesInv, OneEach, TypeOK, Saves
<1> QED
  BY <1>9, <1>10, <1>11, <1>12, <1>13, <1>14 DEF CopiesInv

\* The request transaction: the text that was written has the revision that
\* is answered.
LEMMA ReplaceStep ==
    ASSUME CopiesInv, NEW s \in saves, Replace(s)
    PROVE  CopiesInv'
<1>1. s \in Saves /\ SaveOK(s) /\ store \in Snapshots /\ store[s.to].revision \in Nat
  BY DEF CopiesInv, TypeOK, Saves, Snapshots, Copies
<1>2. UNCHANGED <<page, spent>>
  BY DEF Replace
<1>3. CASE Claimed(s)
  <2> DEFINE next == s.base + 1
             new == [s EXCEPT !.step = "done", !.revision = next]
  <2> DEFINE made == Normal[s.to][s.sent]
  <2>0. s.to \in Modules /\ made \in Texts /\ Normal[s.to][made] = made
    BY <1>1, SiteAssumption DEF Saves
  <2>1. /\ Renewed(s.to, made)
        /\ lapsed' = lapsed \ {s.to}
        /\ saves' = (saves \ {s}) \cup {new}
    BY <1>3 DEF Replace, Replaced, Renewed, Now
  <2>2. /\ new \in Saves /\ new.id = s.id /\ new.by = s.by /\ new.to = s.to
        /\ new.seen = s.seen /\ new.sent = s.sent /\ new.base = s.base
        /\ new.revision = next
    <3>1. next \in Nat
      BY <1>1 DEF Saves
    <3> HIDE DEF next
    <3> QED
      BY <1>1, <3>1 DEF Saves
  <2> HIDE DEF new
  <2>3. /\ store' \in Snapshots
        /\ store'[s.to] = [text |-> made, revision |-> store[s.to].revision + 1]
        /\ \A m \in Modules : m # s.to => store'[m] = store[m]
    BY <1>1, <2>0, <2>1, NewRevisionsAge
  <2>4. /\ \A c \in Consoles : EditorOK(page[c])'
        /\ \A other \in saves : SaveOK(other)'
    BY <1>2, <2>0, <2>1, StoreStep
  <2>5. SaveOK(s)' /\ s.base = store[s.to].revision
    BY <1>3, <2>4 DEF Claimed
  <2>6. SaveOK(new)'
    BY <1>1, <2>2, <2>3, <2>5 DEF SaveOK, Dated, Saves
  <2>7. TypeOK' /\ StoreNormal'
    BY <1>2, <2>0, <2>1, <2>2, <2>3 DEF CopiesInv, TypeOK, StoreNormal
  <2>8. OneEach'
    BY <2>1, <2>2 DEF CopiesInv, OneEach
  <2> QED
    BY <2>1, <2>4, <2>6, <2>7, <2>8 DEF CopiesInv
<1>4. CASE ~Claimed(s)
  <2> DEFINE new == [s EXCEPT !.step = "conflict", !.revision = 0]
  <2>1. saves' = (saves \ {s}) \cup {new} /\ UNCHANGED <<store, lapsed>>
    BY <1>4 DEF Replace, Now
  <2>2. /\ new \in Saves /\ new.id = s.id /\ new.by = s.by /\ new.to = s.to
        /\ new.seen = s.seen /\ new.base = s.base /\ new.step = "conflict"
    BY <1>1 DEF Saves
  <2> HIDE DEF new
  <2>3. ASSUME NEW c \in Consoles PROVE EditorOK(page[c])'
    BY <1>2, <2>1 DEF CopiesInv, EditorOK, DatedCopies, Dated
  <2>4. ASSUME NEW other \in saves PROVE SaveOK(other)'
    BY <1>2, <2>1 DEF CopiesInv, SaveOK, Dated
  <2>5. SaveOK(new)'
    BY <1>1, <1>2, <2>1, <2>2 DEF SaveOK, Dated
  <2>6. TypeOK' /\ StoreNormal'
    BY <1>2, <2>1, <2>2 DEF CopiesInv, TypeOK, StoreNormal
  <2>7. OneEach'
    BY <2>1, <2>2 DEF CopiesInv, OneEach
  <2> QED
    BY <2>1, <2>3, <2>4, <2>5, <2>6, <2>7 DEF CopiesInv
<1> QED
  BY <1>3, <1>4

\* What a save's answer does to its page.
LEMMA Answering ==
    ASSUME CopiesInv, NEW s \in saves, Answer(s) \/ SaveFails(s)
    PROVE  CopiesInv'
<1> DEFINE c == s.by
<1>1. s \in Saves /\ SaveOK(s) /\ c \in Consoles
  BY DEF CopiesInv, TypeOK, Saves
<1>2. /\ EditorOK(page[c]) /\ page[c] \in Editors /\ page[c].load = "ready"
      /\ page[c].modules \in Snapshots /\ page[c].draft \in Texts
      /\ DatedCopies(page[c].modules)
  BY <1>1, EditorFacts DEF SaveOK, EditorOK
<1>3. UNCHANGED <<store, lapsed, spent>> /\ saves' \subseteq saves
      /\ spent \in Budgets
  BY DEF Answer, SaveFails, CopiesInv, TypeOK
<1>4. CASE Answer(s) /\ s.step = "done"
  <2> DEFINE copy == [text |-> s.sent, revision |-> s.revision]
             copies == [page[c].modules EXCEPT ![s.to] = copy]
             e == [page[c] EXCEPT !.modules = copies, !.source = Tidy(s.sent), !.state = "saved"]
  <2>1. copy \in Copies /\ Tidy(s.sent) \in Sources
    BY <1>1 DEF Saves, Copies, Tidy, Sources
  <2>2. Dated(copy.text, copy.revision, s.to)
    BY <1>1, <1>4 DEF SaveOK
  <2>3. copies \in Snapshots
    <3> HIDE DEF copy
    <3> QED
      BY <1>2, <2>1 DEF Snapshots
  <2>4. ASSUME NEW m \in Modules PROVE Dated(copies[m].text, copies[m].revision, m)
    <3> HIDE DEF copy
    <3>1. CASE m = s.to
      BY <1>2, <2>2, <3>1 DEF Snapshots
    <3>2. CASE m # s.to
      BY <1>2, <3>2 DEF Snapshots, DatedCopies
    <3> QED
      BY <3>1, <3>2
  <2>5. /\ e \in Editors /\ e.load = "ready" /\ e.modules = copies
        /\ e.draft = page[c].draft /\ e.refreshing = page[c].refreshing
    <3> HIDE DEF copies
    <3> QED
      BY <1>2, <2>1, <2>3 DEF Editors
  <2>6. EditorOK(e)
    <3>1. DatedCopies(copies)
      BY <2>4 DEF DatedCopies
    <3> HIDE DEF e, copies
    <3> QED
      BY <1>2, <2>3, <2>5, <3>1 DEF EditorOK
  <2>7. Become(c, e)
    BY <1>4 DEF Answer, Saved
  <2> QED
    BY <1>1, <1>3, <2>5, <2>6, <2>7, PageStep
<1>5. CASE Answer(s) /\ s.step # "done"
  <2> DEFINE x == [module |-> s.to, draft |-> s.sent, baseline |-> s.seen, revision |-> s.base]
             e == [page[c] EXCEPT !.conflict = x, !.state = "idle"]
  <2>1. x \in Conflicts
    BY <1>1 DEF Saves, Conflicts
  <2>2. /\ e \in Editors /\ e.load = "ready" /\ e.modules = page[c].modules
        /\ e.draft = page[c].draft /\ e.refreshing = page[c].refreshing
    <3> HIDE DEF x
    <3> QED
      BY <1>2, <2>1 DEF Editors
  <2>3. Become(c, e)
    BY <1>5 DEF Answer, Conflicted
  <2> HIDE DEF e
  <2>4. EditorOK(e)
    BY <1>1, <1>2, <2>2, DraftStep
  <2> QED
    BY <1>1, <1>3, <2>2, <2>3, <2>4, PageStep
<1>6. CASE SaveFails(s)
  <2> DEFINE e == [page[c] EXCEPT !.state = "idle"]
  <2>1. /\ e \in Editors /\ e.load = "ready" /\ e.modules = page[c].modules
        /\ e.draft = page[c].draft /\ e.refreshing = page[c].refreshing
    BY <1>2 DEF Editors
  <2>2. Become(c, e)
    BY <1>6 DEF SaveFails
  <2> HIDE DEF e
  <2>3. EditorOK(e)
    BY <1>1, <1>2, <2>1, DraftStep
  <2> QED
    BY <1>1, <1>3, <2>1, <2>2, <2>3, PageStep
<1> QED
  BY <1>4, <1>5, <1>6

LEMMA OthersStep ==
    ASSUME CopiesInv, NEW m \in Modules, NEW t \in Texts,
           Synchronise(m, t) \/ MemberReset(m, t)
    PROVE  CopiesInv'
<1>1. /\ store \in Snapshots /\ lapsed \subseteq Modules
      /\ t \in Texts
      /\ Renewed(m, t) \/ MemberReset(m, t)
      /\ t \in Stored(m) /\ Normal[m][t] = t
      /\ UNCHANGED <<page, saves>> /\ spent' = [spent EXCEPT !.others = @ + 1]
      /\ spent \in Budgets
      /\ spent.others < MaxOthers
  BY StoredFacts DEF Synchronise, MemberReset, Spend, CopiesInv, TypeOK
<1>2. spent' \in Budgets
      /\ spent'.saves = spent.saves
  BY <1>1, BoundsAssumption DEF Budgets
<1>3. /\ store' \in Snapshots
      /\ store'[m].text = t
      /\ \A n \in Modules : n # m => store'[n] = store[n]
  <2>1. CASE Renewed(m, t)
    <3>1. /\ store' \in Snapshots
          /\ store'[m] = [text |-> t, revision |-> store[m].revision + 1]
          /\ \A n \in Modules : n # m => store'[n] = store[n]
      BY <1>1, <2>1, NewRevisionsAge
    <3> QED
      BY <3>1
  <2>2. CASE MemberReset(m, t)
    <3>1. /\ store' \in Snapshots
          /\ store'[m] = [text |-> t, revision |-> store[m].revision]
          /\ \A n \in Modules : n # m => store'[n] = store[n]
      BY <1>1, <2>2, ResetsDate
    <3> QED
      BY <3>1
  <2> QED
    BY <1>1, <2>1, <2>2
<1>4. lapsed' \subseteq Modules
  BY <1>1 DEF Renewed, MemberReset
<1>5. TypeOK' /\ StoreNormal'
  BY <1>1, <1>2, <1>3, <1>4 DEF CopiesInv, TypeOK, StoreNormal
<1>6. (\A c \in Consoles : EditorOK(page[c])') /\ (\A s \in saves : SaveOK(s)')
  BY <1>1, <1>2, StoreStep
<1> QED
  BY <1>1, <1>5, <1>6 DEF CopiesInv, OneEach

-----------------------------------------------------------------------------
(* The invariant and what follows from it *)

LEMMA CopiesInductive ==
    /\ Init => CopiesInv
    /\ CopiesInv /\ [Next]_vars => CopiesInv'
<1>1. ASSUME Init PROVE CopiesInv
  <2>1. NewEditor \in Editors
    BY SiteAssumption DEF NewEditor, Editors, Sources, Bad, Modes
  <2>0. \A m \in Modules : Early[m] \in Texts /\ Normal[m][Early[m]] = Early[m]
    BY SiteAssumption, StoredFacts
  <2>2. TypeOK /\ StoreNormal
    BY <1>1, <2>0, <2>1, BoundsAssumption DEF Init, TypeOK, Snapshots, Copies, Budgets, StoreNormal
  <2>3. EditorOK(NewEditor)
    BY <2>1 DEF EditorOK, NewEditor
  <2> QED
    BY <1>1, <2>2, <2>3 DEF Init, CopiesInv, OneEach
<1>2. ASSUME CopiesInv, [Next]_vars PROVE CopiesInv'
  <2>1. ASSUME NEW c \in Consoles,
               \/ Load(c) \/ LoadFails(c) \/ Retry(c)
               \/ \E m \in Modules : Switch(c, m)
               \/ Discard(c) \/ Cancel(c)
               \/ \E mode \in Modes : SetMode(c, mode)
               \/ \E t \in Texts : Edit(c, t)
               \/ \E source \in Sources : EditJson(c, source)
               \/ Format(c) \/ Save(c)
               \/ \E choice \in Choices : Resolve(c, choice)
               \/ Refresh(c) \/ Resolved(c) \/ ResolveFails(c)
        PROVE  CopiesInv'
    BY <1>2, <2>1, Loading, Switching, Editing, SaveStep, Resolving
  <2>2. ASSUME NEW s \in saves, Replace(s) \/ Answer(s) \/ SaveFails(s)
        PROVE  CopiesInv'
    BY <1>2, <2>2, ReplaceStep, Answering
  <2>3. CASE UNCHANGED vars
    BY <1>2, <2>3 DEF vars, CopiesInv, TypeOK, StoreNormal, EditorOK, DatedCopies, SaveOK, Dated, OneEach
  <2> QED
    BY <1>2, <2>1, <2>2, <2>3, OthersStep DEF Next
<1> QED
  BY <1>1, <1>2

LEMMA CopiesAlways == Spec => []CopiesInv
BY CopiesInductive, PTL DEF Spec

\* Type correctness of the editors, the store and the saves between them, for
\* any number of consoles, modules and texts (site-admin's routes and the
\* state of SiteContentConsole).
THEOREM TypeCorrect == Spec => []TypeOK
BY CopiesAlways, PTL DEF CopiesInv

\* An editor with nothing to save at the present revision shows what the site
\* shows, but for its normal form and for a reset since that revision, whatever
\* answers, refreshes and switches came before (the closure of
\* saveCurrentModule, applySavedModule, applyConflictSnapshot).
THEOREM CleanEditorsCorrect == Spec => []CleanEditorsShowTheSite
<1>1. ASSUME CopiesInv PROVE CleanEditorsShowTheSite
  <2> SUFFICES ASSUME NEW c \in Consoles, page[c].load = "ready", ~Dirty(c),
                      Baseline(c).revision = store[page[c].selected].revision,
                      page[c].selected \notin lapsed
               PROVE  Normal[page[c].selected][page[c].draft] = store[page[c].selected].text
    BY DEF CleanEditorsShowTheSite
  <2>1. EditorOK(page[c]) /\ page[c].selected \in Modules
    BY <1>1, EditorFacts DEF Editors
  <2> QED
    BY <2>1 DEF EditorOK, DatedCopies, Dated, Dirty, Baseline
<1> QED
  BY <1>1, CopiesAlways, PTL

\* A save replaces a module only if the text it replaces is what was made of the
\* one its editor was based on, but for a reset since its revision
\* (claimRevision, and the revision and the value an editor keeps together).
THEOREM SavesCorrect == Spec => SavesKnowThePresent
<1> DEFINE Knows == \A s \in saves :
             (s.step = "sent" /\ \E done \in saves' : done.id = s.id /\ done.step = "done")
                 => store[s.to].text = Normal[s.to][s.seen] \/ s.to \in lapsed
<1>1. ASSUME CopiesInv, [Next]_vars PROVE [Knows]_vars
  <2> SUFFICES ASSUME NEW s \in saves, s.step = "sent",
                      NEW done \in saves', done.id = s.id, done.step = "done",
                      s.to \notin lapsed
               PROVE  store[s.to].text = Normal[s.to][s.seen]
    OBVIOUS
  <2>1. done \notin saves
    BY <1>1 DEF CopiesInv, OneEach
  <2>2. PICK r \in saves : Replace(r)
    <3>1. ASSUME NEW c \in Consoles, Save(c) PROVE FALSE
      BY <2>1, <3>1 DEF Save
    <3>2. ASSUME NEW r \in saves, Answer(r) \/ SaveFails(r) PROVE FALSE
      BY <2>1, <3>2 DEF Answer, SaveFails
    <3>3. saves' # saves
      BY <2>1
    <3>4. ASSUME NEW c \in Consoles PROVE
            ~ \/ Load(c) \/ LoadFails(c) \/ Retry(c)
              \/ \E m \in Modules : Switch(c, m)
              \/ Discard(c) \/ Cancel(c)
              \/ \E mode \in Modes : SetMode(c, mode)
              \/ \E t \in Texts : Edit(c, t)
              \/ \E source \in Sources : EditJson(c, source)
              \/ Format(c)
              \/ \E choice \in Choices : Resolve(c, choice)
              \/ Refresh(c) \/ Resolved(c) \/ ResolveFails(c)
      BY <3>3 DEF Load, LoadFails, Retry, Switch, Discard, Cancel, SetMode, Edit, EditJson,
                  Format, Resolve, Refresh, Resolved, ResolveFails
    <3>5. ~\E m \in Modules, t \in Texts : Synchronise(m, t) \/ MemberReset(m, t)
      BY <3>3 DEF Synchronise, MemberReset
    <3> QED
      BY <1>1, <3>1, <3>2, <3>3, <3>4, <3>5 DEF Next, vars
  <2>3. r \in Saves /\ SaveOK(r) /\ s \in Saves
    BY <1>1 DEF CopiesInv, TypeOK
  <2>4. /\ Claimed(r)
        /\ done = [r EXCEPT !.step = "done", !.revision = r.base + 1]
    BY <2>1, <2>2, <2>3 DEF Replace, Now, Saves
  <2>5. done.id = r.id
    BY <2>3, <2>4 DEF Saves
  <2>6. r = s
    BY <1>1, <2>5 DEF CopiesInv, OneEach
  <2> QED
    BY <2>3, <2>4, <2>6 DEF Claimed, SaveOK, Dated
<1> HIDE DEF Knows
<1>2. CopiesInv /\ [Next]_vars => [Knows]_vars
  BY <1>1
<1>3. Spec => [][Knows]_vars
  BY <1>2, CopiesAlways, PTL DEF Spec
<1> QED
  BY <1>3 DEF SavesKnowThePresent, Knows


-----------------------------------------------------------------------------
(* The publications: the invariant *)

\* What holds of a row while the papers show t.  An accepted row leads
\* somewhere, only an accepted one is bound, to a paper that is shown, and only
\* what the provider sent follows the provider without having been asked to.
RowOK(r, t) ==
    /\ r.source = "manual" => r.decision = "accepted"
    /\ r.paper # None => r.decision = "accepted" /\ t[r.paper] # "gone"
    /\ r.managed = "default" => r.source = "openalex"
    /\ r.managed = "default" /\ r.paper # None => t[r.paper] # "edited"
    /\ r.decision = "accepted" /\ r.source = "openalex" => r.paper # None \/ r.alias # None

\* A paper has one source.
OneSource ==
    \A v, w \in Works :
        registry[v].paper # None /\ registry[v].paper = registry[w].paper => v = w

\* A synchronisation and a reset exclude each other.
SyncInv ==
    /\ sync.on => reset.member = None
    /\ ~sync.on => sync = NoSync
    /\ sync.step # "fetch" => sync.next \in Works /\ sync.member \in Members

\* A list that can still be saved has everything the site shows.
DraftInv == draft.open => Shown \subseteq draft.shown

Sourced(row) == row.decision # "none" /\ row.source = "openalex"

\* While a reset is under way a planned paper that is shown is bound to its own
\* work, or that work's row can no longer be deleted; and one that has gone
\* cannot come back with a save of the list.
PlanInv ==
    reset.member # None =>
       /\ reset.papers \subseteq reset.works
       /\ \A u \in reset.papers :
             /\ text[u] = "gone" => u \notin draft.shown
             /\ text[u] # "gone" /\ Sourced(registry[u]) => registry[u].paper = u

WorksInv == /\ ScholarlyTypeOK
            /\ \A w \in Works : RowOK(registry[w], text)
            /\ OneSource /\ SyncInv /\ DraftInv /\ PlanInv

-----------------------------------------------------------------------------
(* Steps that leave the papers alone *)

\* A step that changes rows keeps the invariant if it leaves every row in order
\* and, during a reset, gives no work a source that was not its source before.
LEMMA RowsStep ==
    ASSUME WorksInv, UNCHANGED <<text, draft, reset>>,
           registry' \in [Works -> Rows], linked' \in [Works -> SUBSET Members],
           profile' \in [Members -> Policies], sync' \in Syncs, SyncInv',
           \A w \in Works : RowOK(registry'[w], text),
           OneSource',
           reset.member = None \/
              \A u \in Works : Sourced(registry'[u]) /\ text[u] # "gone"
                  => Sourced(registry[u]) /\ (registry[u].paper = u => registry'[u].paper = u)
    PROVE  WorksInv'
<1>1. ScholarlyTypeOK'
  BY DEF WorksInv, ScholarlyTypeOK
<1>2. DraftInv'
  BY DEF WorksInv, DraftInv, Shown
<1>3. PlanInv'
  <2> SUFFICES ASSUME reset.member # None PROVE PlanInv'
    BY DEF PlanInv
  <2>1. reset.papers \subseteq Works
    BY DEF WorksInv, ScholarlyTypeOK, Resets
  <2> QED
    BY <2>1 DEF WorksInv, PlanInv
<1>4. \A w \in Works : RowOK(registry[w], text)'
  BY DEF RowOK
<1> QED
  BY <1>1, <1>2, <1>3, <1>4 DEF WorksInv

\* The rows stay as they are.
LEMMA QuietStep ==
    ASSUME WorksInv, UNCHANGED <<registry, text, draft, reset>>,
           linked' \in [Works -> SUBSET Members],
           profile' \in [Members -> Policies], sync' \in Syncs, SyncInv'
    PROVE  WorksInv'
<1>1. registry' \in [Works -> Rows] /\ \A w \in Works : RowOK(registry'[w], text)
  BY DEF WorksInv, ScholarlyTypeOK
<1>2. OneSource'
  BY DEF WorksInv, OneSource
<1> QED
  BY <1>1, <1>2, RowsStep

\* One row changes to r, which is bound as before, not at all, or to a paper
\* without a source.
LEMMA OneRowStep ==
    ASSUME WorksInv, UNCHANGED <<text, profile, draft, reset>>, sync' \in Syncs, SyncInv',
           linked' \in [Works -> SUBSET Members],
           NEW w \in Works, NEW r \in Rows, registry' = [registry EXCEPT ![w] = r],
           RowOK(r, text),
           r.paper \in {None, registry[w].paper} \/ BoundTo(r.paper) = {},
           reset.member = None \/
             (Sourced(r) /\ text[w] # "gone"
               => Sourced(registry[w]) /\ (registry[w].paper = w => r.paper = w))
    PROVE  WorksInv'
<1>1. registry \in [Works -> Rows] /\ profile' \in [Members -> Policies]
  BY DEF WorksInv, ScholarlyTypeOK
<1>2. registry'[w] = r /\ \A v \in Works \ {w} : registry'[v] = registry[v]
  BY <1>1
<1>3. registry' \in [Works -> Rows]
  BY <1>1
<1>4. \A v \in Works : RowOK(registry'[v], text)
  BY <1>2 DEF WorksInv
<1>5. OneSource'
  BY <1>2 DEF WorksInv, OneSource, BoundTo
<1>6. reset.member = None \/
        \A u \in Works : Sourced(registry'[u]) /\ text[u] # "gone"
           => Sourced(registry[u]) /\ (registry[u].paper = u => registry'[u].paper = u)
  BY <1>2
<1> QED
  BY <1>1, <1>3, <1>4, <1>5, <1>6, RowsStep

-----------------------------------------------------------------------------
(* What an administrator does *)

LEMMA RowFacts ==
    ASSUME WorksInv, NEW w \in Works
    PROVE  /\ registry[w] \in Rows /\ RowOK(registry[w], text)
           /\ sync \in Syncs /\ linked \in [Works -> SUBSET Members]
           /\ profile \in [Members -> Policies]
BY DEF WorksInv, ScholarlyTypeOK

LEMMA Deciding ==
    ASSUME WorksInv, NEW w \in Works, Ignore(w) \/ Restore(w)
    PROVE  WorksInv'
<1> DEFINE d == IF Ignore(w) THEN "ignored" ELSE "pending"
           r == [registry[w] EXCEPT !.decision = d]
<1>1. /\ registry[w] \in Rows /\ RowOK(registry[w], text) /\ sync \in Syncs
      /\ linked \in [Works -> SUBSET Members]
  BY RowFacts
<1>2. registry[w].decision \in {"pending", "ignored"}
  BY DEF Ignore, Restore
<1>3. registry' = [registry EXCEPT ![w] = r] /\ UNCHANGED <<linked, text, profile, draft, sync, reset>>
  BY DEF Ignore, Restore
<1>4. d \in {"pending", "ignored"}
  OBVIOUS
<1> HIDE DEF d
<1>5. r \in Rows /\ r.paper = registry[w].paper /\ r.source = registry[w].source
      /\ r.decision = d /\ r.managed = registry[w].managed
  BY <1>1, <1>4 DEF Rows, Decisions
<1> HIDE DEF r
<1>6. RowOK(r, text)
  BY <1>1, <1>2, <1>4, <1>5 DEF RowOK, Rows
<1>7. SyncInv'
  BY <1>3 DEF WorksInv, SyncInv
<1> QED
  BY <1>1, <1>2, <1>3, <1>5, <1>6, <1>7, OneRowStep DEF Sourced

LEMMA SetManagedStep ==
    ASSUME WorksInv, NEW w \in Works, NEW who \in {"none", "asked"}, SetManaged(w, who)
    PROVE  WorksInv'
<1> DEFINE r == [registry[w] EXCEPT !.managed = who]
<1>1. /\ registry[w] \in Rows /\ RowOK(registry[w], text) /\ sync \in Syncs
      /\ linked \in [Works -> SUBSET Members]
  BY RowFacts
<1>2. registry' = [registry EXCEPT ![w] = r] /\ UNCHANGED <<linked, text, profile, draft, sync, reset>>
  BY DEF SetManaged
<1>3. /\ r \in Rows /\ r.paper = registry[w].paper /\ r.source = registry[w].source
      /\ r.decision = registry[w].decision /\ r.managed = who /\ r.alias = registry[w].alias
  BY <1>1 DEF Rows
<1> HIDE DEF r
<1>4. RowOK(r, text)
  BY <1>1, <1>3 DEF RowOK
<1>5. SyncInv'
  BY <1>2 DEF WorksInv, SyncInv
<1> QED
  BY <1>1, <1>2, <1>3, <1>4, <1>5, OneRowStep DEF Sourced

LEMMA MergeStep ==
    ASSUME WorksInv, NEW w \in Works, NEW p \in Papers, Merge(w, p)
    PROVE  WorksInv'
<1>1. /\ registry[w] \in Rows /\ RowOK(registry[w], text) /\ sync \in Syncs
      /\ linked \in [Works -> SUBSET Members]
  BY RowFacts
<1>2. /\ registry[w].decision \in {"pending", "ignored"} /\ text[p] # "gone"
      /\ UNCHANGED <<text, profile, draft, sync, reset>>
  BY DEF Merge
<1>3. registry[w].source = "openalex" /\ registry[w].paper = None
  BY <1>1, <1>2 DEF RowOK, Rows
<1>4. SyncInv'
  BY <1>2 DEF WorksInv, SyncInv
<1>5. p # None /\ None \notin Works
  BY NoneIsNothing DEF Papers
<1>6. CASE MergeAsSource(w, p)
  <2> DEFINE r == [registry[w] EXCEPT !.decision = "accepted", !.paper = p, !.managed = "none"]
  <2>1. registry' = [registry EXCEPT ![w] = r] /\ UNCHANGED linked /\ BoundTo(p) = {}
    BY <1>6 DEF MergeAsSource
  <2>2. /\ r \in Rows /\ r.paper = p /\ r.source = "openalex"
        /\ r.decision = "accepted" /\ r.managed = "none"
    BY <1>1, <1>3 DEF Rows, Decisions
  <2> HIDE DEF r
  <2>3. RowOK(r, text)
    BY <1>2, <1>5, <2>2 DEF RowOK
  <2> QED
    BY <1>1, <1>2, <1>3, <1>4, <1>5, <2>1, <2>2, <2>3, OneRowStep DEF Sourced
<1>7. CASE MergeAsAlias(w, p)
  <2> DEFINE r == [registry[w] EXCEPT !.decision = "accepted", !.paper = None,
                                      !.alias = p, !.managed = "none"]
  <2>1. registry' = [registry EXCEPT ![w] = r]
    BY <1>7 DEF MergeAsAlias
  <2>2. linked' \in [Works -> SUBSET Members]
    BY <1>1, <1>7 DEF MergeAsAlias
  <2>3. /\ r \in Rows /\ r.paper = None /\ r.source = "openalex" /\ r.alias = p
        /\ r.decision = "accepted" /\ r.managed = "none"
    BY <1>1, <1>3 DEF Rows, Decisions
  <2> HIDE DEF r
  <2>4. RowOK(r, text)
    BY <1>5, <2>3 DEF RowOK
  <2> QED
    BY <1>1, <1>2, <1>3, <1>4, <1>5, <2>1, <2>2, <2>3, <2>4, OneRowStep DEF Sourced
<1> QED
  BY <1>6, <1>7 DEF Merge

LEMMA ResolveStep ==
    ASSUME WorksInv, NEW w \in Works, NEW p \in Papers, ResolveSource(p, w)
    PROVE  WorksInv'
<1> DEFINE r == [Absent EXCEPT !.decision = "accepted", !.source = "manual", !.paper = p]
<1>1. /\ registry \in [Works -> Rows] /\ sync \in Syncs /\ profile \in [Members -> Policies]
      /\ linked \in [Works -> SUBSET Members] /\ \A v \in Works : RowOK(registry[v], text)
  BY DEF WorksInv, ScholarlyTypeOK
<1>2. /\ text[p] # "gone" /\ registry[w].paper \in {None, p}
      /\ registry' = [v \in Works |-> IF v = w THEN r
                                      ELSE IF v \in BoundTo(p) THEN Absent ELSE registry[v]]
      /\ UNCHANGED <<text, profile, draft, sync, reset>>
  BY DEF ResolveSource
<1>3. linked' \in [Works -> SUBSET Members]
  <2>1. UNION {linked[b] : b \in BoundTo(p)} \subseteq Members
    BY <1>1 DEF BoundTo
  <2> QED
    BY <1>1, <2>1 DEF ResolveSource
<1>4. p # None
  BY NoneIsNothing DEF Papers
<1>5. /\ r \in Rows /\ r.paper = p /\ r.source = "manual"
      /\ r.decision = "accepted" /\ r.managed = "none"
      /\ Absent \in Rows /\ Absent.decision = "none" /\ Absent.paper = None
      /\ Absent.source = "openalex" /\ Absent.managed = "none"
  BY DEF Absent, Rows, Decisions, Papers
<1> HIDE DEF r
<1>6. RowOK(r, text) /\ RowOK(Absent, text)
  BY <1>2, <1>4, <1>5 DEF RowOK
<1>7. registry' \in [Works -> Rows] /\ \A v \in Works : RowOK(registry'[v], text)
  BY <1>1, <1>2, <1>5, <1>6
<1>8. OneSource'
  <2>1. \A v \in Works \ {w} : registry'[v].paper # p
    BY <1>2, <1>4, <1>5 DEF BoundTo
  <2>2. \A v \in Works \ {w} : registry'[v].paper # None => registry'[v] = registry[v]
    BY <1>2, <1>5
  <2>3. registry'[w].paper = p
    BY <1>2, <1>5
  <2> QED
    BY <2>1, <2>2, <2>3 DEF WorksInv, OneSource
<1>9. \A u \in Works : Sourced(registry'[u]) => registry'[u] = registry[u]
  BY <1>2, <1>5 DEF Sourced
<1>10. SyncInv'
  BY <1>2 DEF WorksInv, SyncInv
<1> QED
  BY <1>1, <1>2, <1>3, <1>7, <1>8, <1>9, <1>10, RowsStep

-----------------------------------------------------------------------------
(* Steps that change the papers *)

\* What acceptWork writes, for an administrator or a synchronisation.
LEMMA PublishStep ==
    ASSUME WorksInv, NEW w \in Works, CanPublish(w), Publish(w),
           UNCHANGED <<linked, profile, reset>>, sync' \in Syncs, SyncInv'
    PROVE  WorksInv'
<1> DEFINE r == [registry[w] EXCEPT !.decision = "accepted", !.paper = w,
                                    !.managed = "default", !.ahead = FALSE]
<1>1. /\ registry \in [Works -> Rows] /\ text \in [Papers -> PaperTexts]
      /\ w \in Papers /\ w # None /\ RowOK(registry[w], text)
  BY NoneIsNothing DEF WorksInv, ScholarlyTypeOK, Papers
<1>2. /\ registry[w].decision \in {"pending", "ignored"} /\ text[w] = "gone"
      /\ registry' = [registry EXCEPT ![w] = r]
      /\ text' = [text EXCEPT ![w] = "provider"] /\ draft' = NoDraft
  BY DEF CanPublish, Publish, Bumped
<1>3. registry[w].source = "openalex"
  BY <1>1, <1>2 DEF RowOK, Rows
<1>4. /\ r \in Rows /\ r.paper = w /\ r.source = "openalex"
      /\ r.decision = "accepted" /\ r.managed = "default"
  BY <1>1, <1>3 DEF Rows, Decisions
<1> HIDE DEF r
<1>5. text' \in [Papers -> PaperTexts] /\ text'[w] = "provider"
      /\ \A p \in Papers \ {w} : text'[p] = text[p]
  BY <1>1, <1>2 DEF PaperTexts
<1>6. registry' \in [Works -> Rows] /\ registry'[w] = r
      /\ \A v \in Works \ {w} : registry'[v] = registry[v]
  BY <1>1, <1>2, <1>4
<1>7. ScholarlyTypeOK'
  BY <1>2, <1>5, <1>6 DEF WorksInv, ScholarlyTypeOK, NoDraft, Drafts
<1>8. ASSUME NEW v \in Works PROVE RowOK(registry[v], text)'
  <2>1. CASE v = w
    BY <1>1, <1>4, <1>5, <1>6, <2>1 DEF RowOK
  <2>2. CASE v # w
    <3>1. RowOK(registry[v], text) /\ registry[v] \in Rows
      BY <1>1 DEF WorksInv
    <3> QED
      BY <1>2, <1>5, <1>6, <2>2, <3>1 DEF RowOK, Rows
  <2> QED
    BY <2>1, <2>2
<1>9. \A v \in Works : registry[v].paper # w
  BY <1>1, <1>2 DEF WorksInv, RowOK
<1>10. OneSource'
  BY <1>4, <1>6, <1>9 DEF WorksInv, OneSource
<1>11. DraftInv'
  BY <1>2 DEF DraftInv, NoDraft
<1>12. PlanInv'
  <2> SUFFICES ASSUME reset.member # None, NEW u \in reset.papers, text'[u] # "gone",
                      Sourced(registry'[u])
               PROVE  registry'[u].paper = u
    BY <1>2 DEF WorksInv, PlanInv, NoDraft
  <2>1. u \in Works /\ u \in Papers
    BY DEF WorksInv, ScholarlyTypeOK, Resets, PlanInv, Papers
  <2>2. CASE u = w
    BY <1>4, <1>6, <2>2
  <2>3. CASE u # w
    BY <1>5, <1>6, <2>1, <2>3 DEF WorksInv, PlanInv
  <2> QED
    BY <2>2, <2>3
<1> QED
  BY <1>7, <1>8, <1>10, <1>11, <1>12 DEF WorksInv

LEMMA OpenDraftStep ==
    ASSUME WorksInv, OpenDraft
    PROVE  WorksInv'
<1>1. draft' = [open |-> TRUE, shown |-> Shown]
      /\ UNCHANGED <<registry, linked, text, profile, sync, reset>>
  BY DEF OpenDraft
<1>2. ScholarlyTypeOK' /\ DraftInv'
  BY <1>1 DEF WorksInv, ScholarlyTypeOK, Drafts, DraftInv, Shown
<1>3. PlanInv'
  BY <1>1 DEF WorksInv, PlanInv, Shown
<1> QED
  BY <1>1, <1>2, <1>3 DEF WorksInv, RowOK, OneSource, SyncInv

\* A row of a saved list: what it is bound to is kept or let go.
LEMMA RowSavedFacts ==
    ASSUME NEW row \in Rows, RowOK(row, text), NEW keep \in SUBSET Papers,
           NEW edits \in SUBSET keep, text \in [Papers -> PaperTexts],
           \A p \in Papers : text'[p] = TextSaved(p, keep, edits)
    PROVE  /\ RowSaved(row, keep, edits) \in Rows
           /\ RowOK(RowSaved(row, keep, edits), text')
           /\ RowSaved(row, keep, edits).paper =
                 IF row.paper \in keep THEN row.paper ELSE None
           /\ RowSaved(row, keep, edits).source = row.source
           /\ RowSaved(row, keep, edits).decision = "none" <=> row.decision = "none"
<1>1. /\ row.decision \in Decisions /\ row.source \in {"openalex", "manual"}
      /\ row.paper \in Papers \cup {None} /\ row.managed \in {"none", "default", "asked"}
  BY DEF Rows
<1>2. None \notin keep
  BY NoneIsNothing DEF Papers
<1>3. CASE row.paper = None
  BY <1>2, <1>3 DEF RowSaved, RowOK
<1>4. CASE row.paper \in keep
  <2> DEFINE saved == TextSaved(row.paper, keep, edits)
             r == Released(row, saved)
  <2>1. RowSaved(row, keep, edits) = r /\ row.paper \in Papers /\ text'[row.paper] = saved
    BY <1>2, <1>4 DEF RowSaved
  <2>2. saved # "gone"
    BY <1>4 DEF TextSaved
  <2>3. /\ r \in Rows /\ r.paper = row.paper /\ r.source = row.source
        /\ r.decision = row.decision /\ r.alias = row.alias
        /\ r.managed \in {row.managed, "none"}
        /\ row.source = "openalex" /\ row.decision = "accepted" /\ saved = "edited"
             => r.managed = "none"
    <3> HIDE DEF saved
    <3> QED
      BY DEF Released, Rows
  <2> HIDE DEF r, saved
  <2>4. RowOK(r, text')
    BY <1>1, <1>2, <1>4, <2>1, <2>2, <2>3 DEF RowOK
  <2> QED
    BY <1>4, <2>1, <2>3, <2>4
<1>5. CASE row.paper # None /\ row.paper \notin keep
  <2> DEFINE r == Removed(row)
  <2>1. RowSaved(row, keep, edits) = r
    BY <1>5 DEF RowSaved
  <2>2. row.decision = "accepted"
    BY <1>5 DEF RowOK
  <2>3. /\ r \in Rows /\ r.paper = None /\ r.source = row.source /\ r.managed = row.managed
        /\ row.source = "openalex" => r.decision = "ignored"
        /\ row.source = "manual" => r.decision = "accepted"
    BY <1>1, <2>2 DEF Removed, Unbound, Rows, Decisions
  <2> HIDE DEF r
  <2>4. RowOK(r, text')
    BY <1>1, <2>3 DEF RowOK
  <2> QED
    BY <1>1, <1>5, <2>1, <2>2, <2>3, <2>4
<1> QED
  BY <1>3, <1>4, <1>5

LEMMA SaveDraftStep ==
    ASSUME WorksInv, NEW keep \in SUBSET (draft.shown \cup Manual),
           NEW edits \in SUBSET keep, SaveDraft(keep, edits)
    PROVE  WorksInv'
<1>1. /\ registry \in [Works -> Rows] /\ text \in [Papers -> PaperTexts]
      /\ draft.shown \subseteq Papers /\ \A w \in Works : RowOK(registry[w], text)
  BY DEF WorksInv, ScholarlyTypeOK, Drafts
<1>2. keep \in SUBSET Papers
  BY <1>1 DEF Papers
<1>3. /\ text' = [p \in Papers |-> TextSaved(p, keep, edits)] /\ draft' = NoDraft
      /\ registry' = [w \in Works |-> RowSaved(registry[w], keep, edits)]
      /\ UNCHANGED <<linked, profile, sync, reset>>
  BY DEF SaveDraft
<1>4. ASSUME NEW w \in Works
      PROVE  /\ registry'[w] \in Rows /\ RowOK(registry'[w], text')
             /\ registry'[w].paper = IF registry[w].paper \in keep THEN registry[w].paper ELSE None
             /\ registry'[w].source = registry[w].source
             /\ registry'[w].decision = "none" <=> registry[w].decision = "none"
  <2>1. PICK row \in Rows : row = registry[w] /\ RowOK(row, text)
    BY <1>1
  <2>2. registry'[w] = RowSaved(row, keep, edits)
    BY <1>3, <2>1
  <2>3. \A p \in Papers : text'[p] = TextSaved(p, keep, edits)
    BY <1>3
  <2>4. /\ RowSaved(row, keep, edits) \in Rows
        /\ RowOK(RowSaved(row, keep, edits), text')
        /\ RowSaved(row, keep, edits).paper = IF row.paper \in keep THEN row.paper ELSE None
        /\ RowSaved(row, keep, edits).source = row.source
        /\ RowSaved(row, keep, edits).decision = "none" <=> row.decision = "none"
    BY <1>1, <1>2, <2>1, <2>3, RowSavedFacts
  <2> QED
    BY <2>1, <2>2, <2>4
<1>5. ScholarlyTypeOK'
  <2>1. text' \in [Papers -> PaperTexts]
    BY <1>1, <1>3 DEF TextSaved, PaperTexts
  <2>2. registry' \in [Works -> Rows]
    BY <1>3, <1>4
  <2> QED
    BY <1>3, <2>1, <2>2 DEF WorksInv, ScholarlyTypeOK, NoDraft, Drafts
<1>6. OneSource' /\ SyncInv' /\ DraftInv'
  BY <1>3, <1>4 DEF WorksInv, OneSource, SyncInv, DraftInv, NoDraft
<1>7. PlanInv'
  <2> SUFFICES ASSUME reset.member # None, NEW u \in reset.papers, text'[u] # "gone",
                      Sourced(registry'[u])
               PROVE  registry'[u].paper = u
    BY <1>3 DEF WorksInv, PlanInv, NoDraft
  <2>1. u \in Works /\ u \in Papers /\ u \notin Manual
    BY PapersAreTwoKinds DEF WorksInv, ScholarlyTypeOK, Resets, Papers
  <2>2. u \in keep
    BY <1>3, <2>1 DEF TextSaved
  <2>3. text[u] # "gone"
    BY <2>1, <2>2 DEF WorksInv, PlanInv
  <2>4. Sourced(registry[u])
    BY <1>4, <2>1 DEF Sourced
  <2>5. registry[u].paper = u
    BY <2>3, <2>4 DEF WorksInv, PlanInv
  <2> QED
    BY <1>4, <2>1, <2>2, <2>5
<1> QED
  BY <1>4, <1>5, <1>6, <1>7 DEF WorksInv

-----------------------------------------------------------------------------
(* The synchronisation *)

LEMMA NoSyncType == NoSync \in Syncs /\ ~NoSync.on /\ NoSync.step = "fetch"
BY DEF NoSync, Syncs

LEMMA SyncStarts ==
    ASSUME WorksInv, SyncAll \/ \E m \in Members, p \in {"review", "auto"} : SyncMember(m, p)
    PROVE  WorksInv'
<1>1. profile \in [Members -> Policies] /\ linked \in [Works -> SUBSET Members]
  BY DEF WorksInv, ScholarlyTypeOK
<1>2. PICK todo \in [Members -> {"off", "review", "auto"}] : StartSync(todo)
  <2>1. CASE SyncAll
    BY <1>1, <2>1, PoliciesAreProfiles DEF SyncAll
  <2>2. ASSUME NEW m \in Members, NEW p \in {"review", "auto"}, SyncMember(m, p)
        PROVE  \E todo \in [Members -> {"off", "review", "auto"}] : StartSync(todo)
    <3> DEFINE todo == [k \in Members |-> IF k = m THEN p ELSE "off"]
    <3>1. todo \in [Members -> {"off", "review", "auto"}] /\ StartSync(todo)
      BY <2>2 DEF SyncMember
    <3> QED
      BY <3>1
  <2> QED
    BY <2>1, <2>2
<1>3. sync' \in Syncs /\ sync'.on /\ sync'.step = "fetch" /\ reset.member = None
      /\ UNCHANGED <<registry, linked, text, profile, draft, reset>>
  BY <1>2 DEF StartSync, LockIsFree, NoSync, Syncs
<1>4. SyncInv'
  BY <1>3 DEF SyncInv
<1> QED
  BY <1>1, <1>3, <1>4, QuietStep

\* What a step makes of a synchronisation that goes on.
LEMMA SyncGoesOn ==
    ASSUME WorksInv, sync.on
    PROVE  /\ Fetching \in Syncs /\ Fetching.on /\ Fetching.step = "fetch"
           /\ \A m \in Members \cup {None} :
                 /\ MemberEnded(sync, m) \in Syncs
                 /\ MemberEnded(sync, m).on /\ MemberEnded(sync, m).step = "fetch"
<1>1. sync \in Syncs
  BY DEF WorksInv, ScholarlyTypeOK
<1>2. Fetching \in Syncs /\ Fetching.on /\ Fetching.step = "fetch"
  BY <1>1 DEF Fetching, Syncs
<1>3. ASSUME NEW m \in Members \cup {None}
      PROVE  /\ MemberEnded(sync, m) \in Syncs
             /\ MemberEnded(sync, m).on /\ MemberEnded(sync, m).step = "fetch"
  <2>1. [sync.todo EXCEPT ![m] = "off"] \in [Members -> {"off", "review", "auto"}]
    BY <1>1 DEF Syncs
  <2> QED
    BY <1>1, <2>1 DEF MemberEnded, Syncs
<1> QED
  BY <1>2, <1>3

LEMMA SyncUpsertStep ==
    ASSUME WorksInv, NEW w \in Works, NEW m \in Members, NEW found \in Findings(w),
           SyncUpsert(m, w, found)
    PROVE  WorksInv'
<1> DEFINE r == IF found \in {"new", "duplicate"} THEN Candidate
                ELSE [registry[w] EXCEPT !.ahead = @ \/ (found = "changed" /\ registry[w].paper # None)]
           step == NextStep(w, found, sync.todo[m])
<1>1. /\ registry[w] \in Rows /\ RowOK(registry[w], text) /\ sync \in Syncs
      /\ linked \in [Works -> SUBSET Members]
  BY RowFacts
<1>2. /\ sync.on /\ reset.member = None /\ registry' = [registry EXCEPT ![w] = r]
      /\ linked' = [linked EXCEPT ![w] = @ \cup {m}]
      /\ UNCHANGED <<text, profile, draft, reset>>
  <2>1. registry' = [registry EXCEPT ![w] = r]
    BY DEF SyncUpsert
  <2> QED
    BY <2>1 DEF SyncUpsert, WorksInv, SyncInv
<1>3. linked' \in [Works -> SUBSET Members]
  BY <1>1, <1>2
<1>4. sync' = [sync EXCEPT !.member = m, !.step = step,
                           !.next = IF step = "fetch" THEN None ELSE w]
  BY DEF SyncUpsert
<1>5. step \in {"fetch", "accept", "apply"}
  BY DEF NextStep
<1> HIDE DEF step
<1>6. sync' \in Syncs /\ sync'.on /\ sync'.member = m
      /\ (sync'.step # "fetch" => sync'.next = w)
  BY <1>1, <1>2, <1>4, <1>5 DEF Syncs
<1>7. SyncInv'
  BY <1>2, <1>6 DEF SyncInv
<1>8. r \in Rows /\ RowOK(r, text) /\ r.paper \in {None, registry[w].paper}
  <2>1. CASE found \in {"new", "duplicate"}
    BY <2>1 DEF Candidate, Absent, Rows, Decisions, RowOK
  <2>2. CASE found \notin {"new", "duplicate"}
    <3> DEFINE a == registry[w].ahead \/ (found = "changed" /\ registry[w].paper # None)
    <3>1. a \in BOOLEAN
      BY <1>1 DEF Rows
    <3>2. r = [registry[w] EXCEPT !.ahead = a]
      BY <2>2
    <3> HIDE DEF a, r
    <3>3. /\ r \in Rows /\ r.paper = registry[w].paper /\ r.source = registry[w].source
          /\ r.decision = registry[w].decision /\ r.managed = registry[w].managed
          /\ r.alias = registry[w].alias
      BY <1>1, <3>1, <3>2 DEF Rows
    <3> QED
      BY <1>1, <3>3 DEF RowOK
  <2> QED
    BY <2>1, <2>2
<1> HIDE DEF r
<1> QED
  BY <1>2, <1>3, <1>6, <1>7, <1>8, OneRowStep

LEMMA SyncAcceptStep ==
    ASSUME WorksInv, SyncAccept
    PROVE  WorksInv'
<1>1. /\ sync.on /\ sync.next \in Works /\ sync.member \in Members /\ reset.member = None
      /\ UNCHANGED <<linked, profile, reset>>
  BY DEF SyncAccept, WorksInv, SyncInv
<1>2. sync' \in {Fetching, MemberEnded(sync, sync.member)}
  BY DEF SyncAccept
<1>3. sync' \in Syncs /\ sync'.on /\ sync'.step = "fetch"
  BY <1>1, <1>2, SyncGoesOn
<1>4. SyncInv'
  BY <1>1, <1>3 DEF SyncInv
<1>5. CASE CanPublish(sync.next) /\ Publish(sync.next)
  BY <1>1, <1>3, <1>4, <1>5, PublishStep
<1>6. CASE UNCHANGED <<registry, text, draft>>
  <2>1. linked \in [Works -> SUBSET Members] /\ profile \in [Members -> Policies]
    BY DEF WorksInv, ScholarlyTypeOK
  <2> QED
    BY <1>1, <1>3, <1>4, <1>6, <2>1, QuietStep
<1> QED
  BY <1>5, <1>6 DEF SyncAccept

LEMMA SyncApplyStep ==
    ASSUME WorksInv, SyncApply
    PROVE  WorksInv'
<1> DEFINE w == sync.next
           p == registry[w].paper
           r == [registry[w] EXCEPT !.ahead = FALSE]
<1>1. /\ sync.on /\ w \in Works /\ reset.member = None /\ sync' = Fetching
      /\ UNCHANGED <<linked, profile, reset>>
  BY DEF SyncApply, WorksInv, SyncInv
<1>2. sync' \in Syncs /\ sync'.on /\ sync'.step = "fetch"
  BY <1>1, SyncGoesOn
<1>3. SyncInv'
  BY <1>1, <1>2 DEF SyncInv
<1>4. /\ registry \in [Works -> Rows] /\ text \in [Papers -> PaperTexts]
      /\ linked \in [Works -> SUBSET Members] /\ profile \in [Members -> Policies]
  BY DEF WorksInv, ScholarlyTypeOK
<1>5. CASE Managed(w) /\ Differs(w)
  <2>1. /\ text' = [text EXCEPT ![p] = "provider"] /\ registry' = [registry EXCEPT ![w] = r]
        /\ draft' = NoDraft
    BY <1>5 DEF SyncApply, Bumped
  <2>2. p \in Papers
    BY <1>1, <1>4, <1>5 DEF Managed, Rows
  <2>3. /\ text' \in [Papers -> PaperTexts]
        /\ \A q \in Papers : text'[q] = "provider" \/ text'[q] = text[q]
    BY <1>4, <2>1, <2>2 DEF PaperTexts
  <2>4. /\ r \in Rows /\ r.paper = p /\ r.source = registry[w].source
        /\ r.decision = registry[w].decision /\ r.managed = registry[w].managed
        /\ r.alias = registry[w].alias
    BY <1>1, <1>4 DEF Rows
  <2>5. registry' \in [Works -> Rows]
    <3> HIDE DEF r
    <3> QED
      BY <1>1, <1>4, <2>1, <2>4
  <2>6. \A v \in Works :
          /\ registry'[v].paper = registry[v].paper /\ registry'[v].source = registry[v].source
          /\ registry'[v].decision = registry[v].decision
          /\ registry'[v].managed = registry[v].managed /\ registry'[v].alias = registry[v].alias
    <3> HIDE DEF r
    <3> QED
      BY <1>1, <1>4, <2>1, <2>4
  <2>7. ASSUME NEW v \in Works PROVE RowOK(registry[v], text)'
    <3>1. RowOK(registry[v], text) /\ registry[v].paper \in Papers \cup {None}
      BY <1>4 DEF WorksInv, Rows
    <3> QED
      BY <2>3, <2>6, <3>1 DEF RowOK
  <2>8. ScholarlyTypeOK'
    BY <1>1, <1>2, <2>1, <2>3, <2>5 DEF WorksInv, ScholarlyTypeOK, NoDraft, Drafts
  <2>9. OneSource' /\ DraftInv' /\ PlanInv'
    BY <1>1, <2>1, <2>6 DEF WorksInv, OneSource, DraftInv, PlanInv, NoDraft
  <2> QED
    BY <1>3, <2>7, <2>8, <2>9 DEF WorksInv
<1>6. CASE ~(Managed(w) /\ Differs(w))
  BY <1>1, <1>2, <1>3, <1>4, <1>6, QuietStep DEF SyncApply
<1> QED
  BY <1>5, <1>6

LEMMA SyncEnds ==
    ASSUME WorksInv, SyncEnd \/ \E m \in Members : SyncMemberEnd(m)
    PROVE  WorksInv'
<1>1. /\ sync.on /\ reset.member = None
      /\ UNCHANGED <<registry, linked, text, profile, draft, reset>>
      /\ linked \in [Works -> SUBSET Members] /\ profile \in [Members -> Policies]
  BY DEF SyncEnd, SyncMemberEnd, WorksInv, SyncInv, ScholarlyTypeOK
<1>2. sync' = NoSync \/ \E m \in Members : sync' = MemberEnded(sync, m)
  BY DEF SyncEnd, SyncMemberEnd
<1>3. sync' = NoSync \/ (sync' \in Syncs /\ sync'.on /\ sync'.step = "fetch")
  BY <1>1, <1>2, SyncGoesOn
<1>4. sync' \in Syncs /\ SyncInv'
  BY <1>1, <1>3, NoSyncType DEF SyncInv
<1> QED
  BY <1>1, <1>4, QuietStep

LEMMA SaveProfileStep ==
    ASSUME WorksInv, NEW m \in Members, NEW p \in Policies, SaveProfile(m, p)
    PROVE  WorksInv'
<1>1. /\ profile' = [profile EXCEPT ![m] = p] /\ profile \in [Members -> Policies]
      /\ linked \in [Works -> SUBSET Members] /\ sync \in Syncs
      /\ UNCHANGED <<registry, linked, text, draft, sync, reset>>
  BY DEF SaveProfile, WorksInv, ScholarlyTypeOK
<1>2. profile' \in [Members -> Policies] /\ SyncInv'
  BY <1>1 DEF WorksInv, SyncInv
<1> QED
  BY <1>1, <1>2, QuietStep

-----------------------------------------------------------------------------
(* The reset *)

LEMMA ResetPlanStep ==
    ASSUME WorksInv, NEW m \in Members, ResetPlan(m)
    PROVE  WorksInv'
<1>1. /\ UNCHANGED <<registry, linked, text, profile, draft, sync>>
      /\ ~sync.on /\ sync = NoSync
  BY DEF ResetPlan, LockIsFree, WorksInv, SyncInv
<1>2. PICK mine \in SUBSET Works, only \in SUBSET Works :
         reset' = [member |-> m, links |-> mine, works |-> only,
                   papers |-> {w \in only : registry[w].decision = "accepted" /\ registry[w].paper = w}]
  BY DEF ResetPlan
<1>3. /\ reset' \in Resets /\ reset'.papers \subseteq reset'.works
      /\ \A u \in reset'.papers : u \in Works /\ registry[u].paper = u
  BY <1>2 DEF Resets
<1>4. \A u \in reset'.papers : text[u] # "gone"
  BY <1>3, NoneIsNothing DEF WorksInv, RowOK
<1>5. PlanInv'
  BY <1>1, <1>3, <1>4 DEF PlanInv
<1>6. ScholarlyTypeOK' /\ SyncInv'
  BY <1>1, <1>3, NoSyncType DEF WorksInv, ScholarlyTypeOK, SyncInv
<1> QED
  BY <1>1, <1>5, <1>6 DEF WorksInv, RowOK, OneSource, DraftInv, Shown

\* A planned paper that is deleted has no source but its own planned work.
LEMMA PlannedAlone ==
    ASSUME WorksInv, reset.member # None, PlanHolds,
           NEW w \in Works, registry[w].paper \in reset.papers
    PROVE  /\ w \in reset.works /\ w = registry[w].paper
           /\ registry[w].source = "openalex" /\ linked[w] \subseteq {reset.member}
<1> DEFINE u == registry[w].paper
<1>1. u \in Works /\ u \in reset.works /\ u # None
  BY NoneIsNothing DEF WorksInv, ScholarlyTypeOK, Resets, PlanInv
<1>2. text[u] # "gone" /\ Deletable(u)
  BY <1>1 DEF PlanHolds
<1>3. Sourced(registry[u]) /\ LinkedAfter(u) = {}
  BY <1>2 DEF Deletable, Sourced
<1>4. registry[u].paper = u
  BY <1>2, <1>3 DEF WorksInv, PlanInv
<1>5. u = w
  BY <1>1, <1>4 DEF WorksInv, OneSource
<1> QED
  BY <1>1, <1>3, <1>5 DEF Sourced, LinkedAfter

LEMMA ResetExecuteStep ==
    ASSUME WorksInv, ResetExecute
    PROVE  WorksInv'
<1>1. /\ registry \in [Works -> Rows] /\ text \in [Papers -> PaperTexts]
      /\ linked \in [Works -> SUBSET Members] /\ profile \in [Members -> Policies]
      /\ reset \in Resets /\ \A w \in Works : RowOK(registry[w], text)
  BY DEF WorksInv, ScholarlyTypeOK
<1>2. /\ reset.member # None /\ PlanHolds /\ reset' = NoReset /\ UNCHANGED <<draft, sync>>
      /\ text' = [p \in Papers |-> IF p \in reset.papers THEN "gone" ELSE text[p]]
  BY DEF ResetExecute
<1>3. \A w \in Works : registry'[w] = IF w \in reset.works THEN Absent ELSE registry[w]
  BY <1>2, PlannedAlone DEF ResetExecute
<1>4. /\ Absent \in Rows /\ Absent.decision = "none" /\ Absent.paper = None
      /\ Absent.source = "openalex" /\ Absent.managed = "none"
  BY DEF Absent, Rows, Decisions
<1>5. registry' \in [Works -> Rows]
  BY <1>1, <1>3, <1>4 DEF ResetExecute
<1>6. text' \in [Papers -> PaperTexts] /\ Shown' \subseteq Shown
  BY <1>1, <1>2 DEF PaperTexts, Shown
<1>7. linked' \in [Works -> SUBSET Members] /\ profile' \in [Members -> Policies]
  BY <1>1, PoliciesAreProfiles DEF ResetExecute, LinkedAfter
<1>8. NoReset \in Resets /\ NoReset.member = None
  BY DEF NoReset, Resets
<1>9. ScholarlyTypeOK'
  BY <1>2, <1>5, <1>6, <1>7, <1>8 DEF WorksInv, ScholarlyTypeOK
<1>10. ASSUME NEW w \in Works PROVE RowOK(registry[w], text)'
  <2>1. CASE w \in reset.works
    BY <1>3, <1>4, <2>1 DEF RowOK
  <2>2. CASE w \notin reset.works
    <3>1. registry[w].paper \notin reset.papers /\ registry'[w] = registry[w]
      BY <1>2, <1>3, <2>2, PlannedAlone
    <3>2. registry[w].paper # None => text'[registry[w].paper] = text[registry[w].paper]
      BY <1>1, <1>2, <3>1 DEF Rows
    <3> QED
      BY <1>1, <3>1, <3>2 DEF RowOK
  <2> QED
    BY <2>1, <2>2
<1>11. OneSource'
  BY <1>3, <1>4 DEF WorksInv, OneSource
<1>12. SyncInv' /\ DraftInv' /\ PlanInv'
  BY <1>2, <1>6, <1>8 DEF WorksInv, SyncInv, DraftInv, PlanInv
<1> QED
  BY <1>9, <1>10, <1>11, <1>12 DEF WorksInv

LEMMA ResetAbortStep ==
    ASSUME WorksInv, ResetAbort
    PROVE  WorksInv'
<1>1. /\ UNCHANGED <<registry, linked, text, profile, draft, sync>>
      /\ reset' = NoReset /\ NoReset \in Resets /\ NoReset.member = None
  BY DEF ResetAbort, NoReset, Resets
<1>2. ScholarlyTypeOK' /\ SyncInv' /\ PlanInv'
  BY <1>1 DEF WorksInv, ScholarlyTypeOK, SyncInv, PlanInv
<1> QED
  BY <1>1, <1>2 DEF WorksInv, RowOK, OneSource, DraftInv, Shown

-----------------------------------------------------------------------------
(* The invariant and what follows from it *)

LEMMA WorksInductive ==
    /\ ScholarlyInit => WorksInv
    /\ WorksInv /\ [ScholarlyNext]_scholarlyVars => WorksInv'
<1>1. ASSUME ScholarlyInit PROVE WorksInv
  <2>1. /\ Absent \in Rows /\ Absent.decision = "none" /\ Absent.paper = None
        /\ Absent.source = "openalex" /\ Absent.managed = "none"
    BY DEF Absent, Rows, Decisions
  <2>2. /\ NoReset \in Resets /\ NoReset.member = None
        /\ NoDraft \in Drafts /\ ~NoDraft.open
    BY DEF NoReset, Resets, NoDraft, Drafts
  <2>3. ScholarlyTypeOK
    BY <1>1, <2>1, <2>2, NoSyncType, PoliciesAreProfiles
       DEF ScholarlyInit, ScholarlyTypeOK, PaperTexts
  <2>4. \A w \in Works : RowOK(registry[w], text)
    BY <1>1, <2>1 DEF ScholarlyInit, RowOK
  <2>5. OneSource /\ SyncInv /\ DraftInv /\ PlanInv
    BY <1>1, <2>1, <2>2, NoSyncType
       DEF ScholarlyInit, OneSource, SyncInv, DraftInv, PlanInv
  <2> QED
    BY <2>3, <2>4, <2>5 DEF WorksInv
<1>2. ASSUME WorksInv, [ScholarlyNext]_scholarlyVars PROVE WorksInv'
  <2>1. ASSUME NEW w \in Works, Accept(w) PROVE WorksInv'
    <3>1. sync' \in Syncs /\ SyncInv' /\ CanPublish(w) /\ Publish(w)
          /\ UNCHANGED <<linked, profile, reset>>
      BY <1>2, <2>1 DEF Accept, WorksInv, ScholarlyTypeOK, SyncInv
    <3> QED
      BY <1>2, <3>1, PublishStep
  <2>2. ASSUME NEW w \in Works,
               \/ Ignore(w) \/ Restore(w)
               \/ \E p \in Papers : Merge(w, p) \/ ResolveSource(p, w)
               \/ \E who \in {"none", "asked"} : SetManaged(w, who)
               \/ \E m \in Members, found \in Findings(w) : SyncUpsert(m, w, found)
        PROVE  WorksInv'
    BY <1>2, <2>2, Deciding, MergeStep, ResolveStep, SetManagedStep, SyncUpsertStep
  <2>3. ASSUME NEW keep \in SUBSET (draft.shown \cup Manual), NEW edits \in SUBSET keep,
               SaveDraft(keep, edits)
        PROVE  WorksInv'
    BY <1>2, <2>3, SaveDraftStep
  <2>4. ASSUME NEW m \in Members,
               \/ \E p \in Policies : SaveProfile(m, p)
               \/ \E p \in {"review", "auto"} : SyncMember(m, p)
               \/ SyncMemberEnd(m) \/ ResetPlan(m)
        PROVE  WorksInv'
    BY <1>2, <2>4, SaveProfileStep, SyncStarts, SyncEnds, ResetPlanStep
  <2>5. CASE OpenDraft \/ SyncAll \/ SyncAccept \/ SyncApply \/ SyncEnd
                \/ ResetExecute \/ ResetAbort
    BY <1>2, <2>5, OpenDraftStep, SyncStarts, SyncAcceptStep, SyncApplyStep, SyncEnds,
       ResetExecuteStep, ResetAbortStep
  <2>6. CASE UNCHANGED scholarlyVars
    BY <1>2, <2>6 DEF scholarlyVars, WorksInv, ScholarlyTypeOK, RowOK, OneSource, SyncInv,
                      DraftInv, Shown, PlanInv
  <2> QED
    BY <1>2, <2>1, <2>2, <2>3, <2>4, <2>5, <2>6 DEF ScholarlyNext
<1> QED
  BY <1>1, <1>2

LEMMA WorksAlways == ScholarlySpec => []WorksInv
BY WorksInductive, PTL DEF ScholarlySpec

\* Type correctness of the registry, the papers and what works on them, for any
\* number of works, papers and members (scholarly-sync and research).
THEOREM ScholarlyTypes == ScholarlySpec => []ScholarlyTypeOK
BY WorksAlways, PTL DEF WorksInv

\* No accepted work is left for manual repair: it is bound to a paper that is
\* shown, or merged into one (acceptWork, replaceResearchItemCollection,
\* executeMemberReset).
THEOREM AcceptedCorrect == ScholarlySpec => []AcceptedWorksLead
<1>1. ASSUME WorksInv PROVE AcceptedWorksLead
  <2> SUFFICES ASSUME NEW w \in Works, registry[w].decision = "accepted",
                      registry[w].source = "openalex", registry[w].alias = None
               PROVE  registry[w].paper \in Shown
    BY DEF AcceptedWorksLead
  <2>1. registry[w] \in Rows /\ RowOK(registry[w], text)
    BY <1>1, RowFacts
  <2> QED
    BY <2>1 DEF RowOK, Rows, Shown
<1> QED
  BY <1>1, WorksAlways, PTL

\* What an administrator wrote stays under every later synchronisation, unless
\* somebody asked for the provider's text (releaseManuallyEditedFields,
\* applyManagedUpdates).
THEOREM EditsCorrect == ScholarlySpec => []EditsStay
<1>1. WorksInv => EditsStay
  BY DEF WorksInv, RowOK, EditsStay
<1> QED
  BY <1>1, WorksAlways, PTL

\* How the papers and the reset may change in a step: papers go only with a save
\* of the list or with the reset's execution.
LEMMA PapersGo ==
    ASSUME WorksInv, [ScholarlyNext]_scholarlyVars
    PROVE  \/ Shown \subseteq Shown' /\ (reset' = reset \/ (~sync.on /\ reset.member = None))
           \/ \E keep \in SUBSET (draft.shown \cup Manual) : \E edits \in SUBSET keep :
                 SaveDraft(keep, edits)
           \/ ResetExecute \/ ResetAbort
<1>0. text \in [Papers -> PaperTexts] /\ registry \in [Works -> Rows]
  BY DEF WorksInv, ScholarlyTypeOK
<1>1. ASSUME text' = text \/ \E p \in Papers : text' = [text EXCEPT ![p] = "provider"]
      PROVE  Shown \subseteq Shown'
  BY <1>0, <1>1 DEF Shown
<1>2. ASSUME NEW w \in Works,
             \/ Ignore(w) \/ Restore(w)
             \/ \E p \in Papers : Merge(w, p) \/ ResolveSource(p, w)
             \/ \E who \in {"none", "asked"} : SetManaged(w, who)
             \/ \E m \in Members, found \in Findings(w) : SyncUpsert(m, w, found)
      PROVE  text' = text /\ reset' = reset
  BY <1>2 DEF Ignore, Restore, Merge, ResolveSource, SetManaged, SyncUpsert
<1>3. ASSUME NEW w \in Works, Publish(w) PROVE Shown \subseteq Shown'
  BY <1>1, <1>3 DEF Publish, Papers
<1>4. ASSUME NEW w \in Works, Accept(w) PROVE Shown \subseteq Shown' /\ reset' = reset
  BY <1>3, <1>4 DEF Accept
<1>5. ASSUME NEW m \in Members,
             \/ \E p \in Policies : SaveProfile(m, p)
             \/ \E p \in {"review", "auto"} : SyncMember(m, p)
             \/ SyncMemberEnd(m)
      PROVE  text' = text /\ reset' = reset
  BY <1>5 DEF SaveProfile, SyncMember, StartSync, SyncMemberEnd
<1>6. ASSUME NEW m \in Members, ResetPlan(m)
      PROVE  text' = text /\ ~sync.on /\ reset.member = None
  BY <1>6 DEF ResetPlan, LockIsFree
<1>7. CASE OpenDraft \/ SyncAll \/ SyncEnd \/ UNCHANGED scholarlyVars
  BY <1>1, <1>7 DEF OpenDraft, SyncAll, StartSync, SyncEnd, scholarlyVars
<1>8. CASE SyncAccept
  <2>1. sync.next \in Works /\ reset' = reset
    BY <1>8 DEF SyncAccept, WorksInv, SyncInv
  <2>2. Publish(sync.next) \/ text' = text
    BY <1>8 DEF SyncAccept
  <2> QED
    BY <1>1, <1>3, <2>1, <2>2
<1>9. CASE SyncApply
  <2>1. sync.next \in Works /\ reset' = reset
    BY <1>9 DEF SyncApply, WorksInv, SyncInv
  <2>2. text' = text \/ (Managed(sync.next) /\ text' = [text EXCEPT ![registry[sync.next].paper] = "provider"])
    BY <1>9 DEF SyncApply
  <2>3. Managed(sync.next) => registry[sync.next].paper \in Papers
    BY <1>0, <2>1 DEF Managed, Rows
  <2> QED
    BY <1>1, <2>1, <2>2, <2>3
<1> QED
  BY <1>1, <1>2, <1>4, <1>5, <1>6, <1>7, <1>8, <1>9 DEF ScholarlyNext

\* A save of the list drops no paper its author has not seen
\* (replaceResearchItemCollection under the collection's revision).
THEOREM DropsCorrect == ScholarlySpec => SavesDropOnlySeen
<1> DEFINE Drops == \A p \in Shown \ Shown' : p \in draft.shown \/ p \in reset.papers
<1>1. ASSUME WorksInv, [ScholarlyNext]_scholarlyVars PROVE Drops
  <2> SUFFICES ASSUME NEW p \in Shown \ Shown' PROVE p \in draft.shown \/ p \in reset.papers
    OBVIOUS
  <2>1. CASE \E keep \in SUBSET (draft.shown \cup Manual) : \E edits \in SUBSET keep :
               SaveDraft(keep, edits)
    BY <1>1, <2>1 DEF SaveDraft, WorksInv, DraftInv
  <2>2. CASE ResetExecute
    BY <2>2 DEF ResetExecute, Shown
  <2>3. CASE ResetAbort
    BY <2>3 DEF ResetAbort, Shown
  <2> QED
    BY <1>1, <2>1, <2>2, <2>3, PapersGo
<1>2. WorksInv /\ [ScholarlyNext]_scholarlyVars => [Drops]_scholarlyVars
  BY <1>1
<1> HIDE DEF Drops
<1>3. ScholarlySpec => [][Drops]_scholarlyVars
  BY <1>2, WorksAlways, PTL DEF ScholarlySpec
<1> QED
  BY <1>3 DEF SavesDropOnlySeen, Drops

\* A reset takes only papers whose every source is an OpenAlex work of the
\* member's alone, whatever happened since the plan (planMemberReset and the
\* counts of executeMemberReset).
THEOREM ResetsSpare == ScholarlySpec => ResetSparesOthers
<1> DEFINE Spares == (reset.member # None /\ reset' = NoReset) =>
             \A p \in Shown \ Shown' : \A w \in BoundTo(p) :
                registry[w].source = "openalex" /\ linked[w] \subseteq {reset.member}
<1>1. ASSUME WorksInv, [ScholarlyNext]_scholarlyVars PROVE Spares
  <2> SUFFICES ASSUME reset.member # None, reset' = NoReset,
                      NEW p \in Shown \ Shown', NEW w \in BoundTo(p)
               PROVE  registry[w].source = "openalex" /\ linked[w] \subseteq {reset.member}
    OBVIOUS
  <2>1. reset' # reset
    BY DEF NoReset
  <2>2. ~\E keep \in SUBSET (draft.shown \cup Manual) : \E edits \in SUBSET keep :
            SaveDraft(keep, edits)
    BY <2>1 DEF SaveDraft
  <2>3. CASE ResetExecute
    <3>1. PlanHolds /\ p \in reset.papers
      BY <2>3 DEF ResetExecute, Shown
    <3>2. w \in Works /\ registry[w].paper = p
      BY DEF BoundTo
    <3> QED
      BY <1>1, <3>1, <3>2, PlannedAlone
  <2>4. CASE ResetAbort
    BY <2>4 DEF ResetAbort, Shown
  <2> QED
    BY <1>1, <2>1, <2>2, <2>3, <2>4, PapersGo
<1>2. WorksInv /\ [ScholarlyNext]_scholarlyVars => [Spares]_scholarlyVars
  BY <1>1
<1> HIDE DEF Spares
<1>3. ScholarlySpec => [][Spares]_scholarlyVars
  BY <1>2, WorksAlways, PTL DEF ScholarlySpec
<1> QED
  BY <1>3 DEF ResetSparesOthers, Spares

\* A reset that ends leaves no synchronisation that works for its member with the
\* profile of before (SYNC_LOCK).
THEOREM ResetsHold == ScholarlySpec => ResetHolds
<1> DEFINE Holds == \A m \in Members :
             (reset.member = m /\ reset' = NoReset /\ profile'[m] = "off")
                => sync'.todo[m] = "off"
<1>1. ASSUME WorksInv, [ScholarlyNext]_scholarlyVars PROVE Holds
  <2> SUFFICES ASSUME NEW m \in Members, reset.member = m, reset' = NoReset
               PROVE  sync'.todo[m] = "off"
    OBVIOUS
  <2>1. m # None /\ reset' # reset
    BY NoneIsNothing DEF NoReset
  <2>2. WorksInv' /\ reset'.member = None
    BY <1>1, WorksInductive DEF NoReset
  <2>3. ResetExecute \/ ResetAbort
    <3>1. ~\E keep \in SUBSET (draft.shown \cup Manual) : \E edits \in SUBSET keep :
             SaveDraft(keep, edits)
      BY <2>1 DEF SaveDraft
    <3> QED
      BY <1>1, <2>1, <3>1, PapersGo
  <2>4. sync' = sync /\ sync = NoSync
    BY <1>1, <2>1, <2>3 DEF ResetExecute, ResetAbort, WorksInv, SyncInv
  <2> QED
    BY <2>4 DEF NoSync
<1>2. WorksInv /\ [ScholarlyNext]_scholarlyVars => [Holds]_scholarlyVars
  BY <1>1
<1> HIDE DEF Holds
<1>3. ScholarlySpec => [][Holds]_scholarlyVars
  BY <1>2, WorksAlways, PTL DEF ScholarlySpec
<1> QED
  BY <1>3 DEF ResetHolds, Holds
=============================================================================
