---------------------------- MODULE SiteContent ----------------------------
(***************************************************************************)
(* The site editor of the console and the store behind it.  A console      *)
(* loads all modules (pages and collections) at once, edits one of them as *)
(* a form or as JSON, and saves it with the revision it read; the server   *)
(* replaces the whole module if that revision is still the present one.    *)
(* The typist is not held up while a save is under way: the draft may      *)
(* change, another save may start, another module may be opened, and the   *)
(* answers come when they come.  A refused save leaves a conflict, which   *)
(* is resolved over a new snapshot by taking the stored text or the draft  *)
(* the save carried.                                                       *)
(*                                                                         *)
(* A module's content is one text; a JSON source is a text and whether it  *)
(* is laid out as JSON.stringify does.  A collection is taken apart into   *)
(* rows, so what is read again is the normal form of what was sent; a page *)
(* is kept as it is.  The consoles hold site.content.write, which every    *)
(* module asks for.                                                        *)
(*                                                                         *)
(* Two others write the papers: the synchronisation, with a new revision,  *)
(* and the reset of a member, which leaves the revision as it is.          *)
(***************************************************************************)
EXTENDS Naturals, FiniteSets

CONSTANTS Consoles,    \* the open editors
          Modules,     \* the pages and the collections of the site
          First,       \* the module that is shown after loading
          Shared,      \* the papers: the synchronisation and resets write them too
          Texts,       \* what may be written in a module
          Refused,     \* module -> those of them that its schema refuses
          Normal,      \* module -> text -> what is read again of it
          Early,       \* module -> what it is at first
          Nothing,
          MaxSaves,    \* bound: saves
          MaxEdits,    \* bound: changes of a draft or of a JSON source
          MaxOthers    \* bound: changes the synchronisation and resets make

\* What a module may be: what is read again of an accepted text.
Stored(m) == {Normal[m][t] : t \in Texts \ Refused[m]}

ASSUME SiteAssumption ==
    /\ First \in Modules
    /\ Shared \subseteq Modules
    /\ Refused \in [Modules -> SUBSET Texts]
    /\ Normal \in [Modules -> [Texts -> Texts]]
    /\ \A m \in Modules, t \in Texts : Normal[m][Normal[m][t]] = Normal[m][t]
    /\ \A m \in Modules : Early[m] \in Stored(m)
    /\ Nothing \notin Texts

ASSUME BoundsAssumption == {MaxSaves, MaxEdits, MaxOthers} \subseteq Nat

VARIABLES store,   \* module -> its text and its revision
          lapsed,  \* history: the modules that are not what their revision was given for
          page,    \* console -> its editor
          saves,   \* the saves that are not answered
          spent    \* how often each bounded action happened

vars == <<store, lapsed, page, saves, spent>>

Bad == [text |-> Nothing, tidy |-> FALSE]       \* a source that is no JSON
Tidy(t) == [text |-> t, tidy |-> TRUE]       \* JSON.stringify(value, null, 2)
Sources == [text : Texts, tidy : BOOLEAN] \cup {Bad}

Copies == [text : Texts, revision : Nat]
Conflicts == [module : Modules, draft : Texts, baseline : Texts, revision : Nat]
Choices == {"reload", "keep-local"}
Snapshots == [Modules -> Copies]
Refreshes == [choice : Choices, conflict : Conflicts, read : Snapshots \cup {Nothing}]

Saves == [id : 1..MaxSaves, by : Consoles, to : Modules,
          sent : Texts, seen : Texts, base : Nat,
          step : {"sent", "done", "conflict"}, revision : Nat]

\* The generic fields are a form of another look.
Modes == {"form", "json"}

\* What an editor remembers.  Refreshing also holds the conflict, as it was when
\* the button was pressed, and the snapshot that is on its way.
Editors == [load : {"loading", "ready", "error"},
            modules : Snapshots \cup {Nothing}, selected : Modules,
            draft : Texts \cup {Nothing}, source : Sources, broken : BOOLEAN,
            mode : Modes, state : {"idle", "saving", "saved"},
            conflict : Conflicts \cup {Nothing}, pending : Modules \cup {Nothing},
            refreshing : Refreshes \cup {Nothing}]

NewEditor == [load |-> "loading", modules |-> Nothing, selected |-> First,
              draft |-> Nothing, source |-> Bad, broken |-> FALSE,
              mode |-> "form", state |-> "idle", conflict |-> Nothing,
              pending |-> Nothing, refreshing |-> Nothing]

Init ==
    /\ store = [m \in Modules |-> [text |-> Early[m], revision |-> 1]]
    /\ lapsed = {}
    /\ page = [c \in Consoles |-> NewEditor]
    /\ saves = {}
    /\ spent = [saves |-> 0, edits |-> 0, others |-> 0]

Budgets == [saves : 0..MaxSaves, edits : 0..MaxEdits, others : 0..MaxOthers]

TypeOK ==
    /\ store \in Snapshots
    /\ lapsed \subseteq Modules
    /\ page \in [Consoles -> Editors]
    /\ saves \subseteq Saves
    /\ spent \in Budgets

Spend(what) == spent' = [spent EXCEPT ![what] = @ + 1]

-----------------------------------------------------------------------------
(* What the editor shows *)

\* The module an editor shows, as it was read or saved last.
Baseline(c) == page[c].modules[page[c].selected]

\* isModuleDirty and isJsonEditorDirty: a source that is merely laid out
\* differently counts too.
Dirty(c) == \/ page[c].draft # Baseline(c).text
            \/ page[c].source # Tidy(Baseline(c).text)

\* Everything but the dialog is out of reach while the dialog is open, and
\* everything is disabled while a conflict is being refreshed.
AtHand(c) == /\ page[c].load = "ready"
             /\ page[c].pending = Nothing
             /\ page[c].refreshing = Nothing

Become(c, editor) == page' = [page EXCEPT ![c] = editor]

\* selectModule: another module is opened afresh, in the form.
Opened(editor, m) ==
    [editor EXCEPT !.selected = m, !.draft = editor.modules[m].text,
                   !.source = Tidy(editor.modules[m].text), !.broken = FALSE,
                   !.conflict = Nothing, !.state = "idle", !.mode = "form"]

-----------------------------------------------------------------------------
(* Loading *)

\* One transaction reads all modules.  The page waits for it.
Load(c) ==
    /\ page[c].load = "loading"
    /\ Become(c, Opened([page[c] EXCEPT !.modules = store, !.load = "ready"],
                        page[c].selected))
    /\ UNCHANGED <<store, lapsed, saves, spent>>

LoadFails(c) ==
    /\ page[c].load = "loading"
    /\ Become(c, [page[c] EXCEPT !.load = "error"])
    /\ UNCHANGED <<store, lapsed, saves, spent>>

Retry(c) ==
    /\ page[c].load = "error"
    /\ Become(c, [page[c] EXCEPT !.load = "loading"])
    /\ UNCHANGED <<store, lapsed, saves, spent>>

-----------------------------------------------------------------------------
(* Going to another module *)

\* requestModuleSwitch: what is not saved is not left without asking.
Switch(c, m) ==
    /\ AtHand(c) /\ m # page[c].selected
    /\ Become(c, IF Dirty(c) THEN [page[c] EXCEPT !.pending = m]
                             ELSE Opened(page[c], m))
    /\ UNCHANGED <<store, lapsed, saves, spent>>

Discard(c) ==
    /\ page[c].pending # Nothing
    /\ Become(c, [Opened(page[c], page[c].pending) EXCEPT !.pending = Nothing])
    /\ UNCHANGED <<store, lapsed, saves, spent>>

Cancel(c) ==
    /\ page[c].pending # Nothing
    /\ Become(c, [page[c] EXCEPT !.pending = Nothing])
    /\ UNCHANGED <<store, lapsed, saves, spent>>

-----------------------------------------------------------------------------
(* Editing *)

SetMode(c, mode) ==
    /\ AtHand(c) /\ mode # page[c].mode
    /\ Become(c, [page[c] EXCEPT !.mode = mode])
    /\ UNCHANGED <<store, lapsed, saves, spent>>

\* updateDraft, which every form calls with the whole new content.
Edit(c, t) ==
    /\ AtHand(c) /\ page[c].mode # "json"
    /\ spent.edits < MaxEdits
    /\ Spend("edits")
    /\ Become(c, [page[c] EXCEPT !.draft = t, !.source = Tidy(t), !.broken = FALSE,
                                 !.conflict = Nothing, !.state = "idle"])
    /\ UNCHANGED <<store, lapsed, saves>>

\* updateJson: a source that is no JSON changes neither the draft nor the
\* conflict.
EditJson(c, source) ==
    /\ AtHand(c) /\ page[c].mode = "json" /\ source # page[c].source
    /\ spent.edits < MaxEdits
    /\ Spend("edits")
    /\ Become(c, IF source = Bad
                 THEN [page[c] EXCEPT !.source = source, !.broken = TRUE]
                 ELSE [page[c] EXCEPT !.source = source, !.broken = FALSE,
                                      !.draft = source.text,
                                      !.conflict = Nothing, !.state = "idle"])
    /\ UNCHANGED <<store, lapsed, saves>>

\* formatJson, which leaves the state of a save and the conflict alone.
Format(c) ==
    /\ AtHand(c) /\ page[c].mode = "json"
    /\ LET t == page[c].source.text
       IN  Become(c, IF page[c].source = Bad
                     THEN [page[c] EXCEPT !.broken = TRUE]
                     ELSE [page[c] EXCEPT !.source = Tidy(t), !.draft = t,
                                          !.broken = FALSE])
    /\ UNCHANGED <<store, lapsed, saves, spent>>

-----------------------------------------------------------------------------
(* Saving *)

\* saveCurrentModule: the closure keeps the module as it was read and the draft
\* that is sent.  An edit makes the button available again before the answer.
Save(c) ==
    /\ AtHand(c) /\ page[c].state # "saving"
    /\ ~page[c].broken /\ Dirty(c)
    /\ spent.saves < MaxSaves
    /\ Spend("saves")
    /\ saves' = saves \cup
         {[id |-> spent.saves + 1, by |-> c, to |-> page[c].selected,
           sent |-> page[c].draft, seen |-> Baseline(c).text,
           base |-> Baseline(c).revision, step |-> "sent", revision |-> 0]}
    /\ Become(c, [page[c] EXCEPT !.state = "saving", !.conflict = Nothing])
    /\ UNCHANGED <<store, lapsed>>

Now(s, step, revision) == (saves \ {s}) \cup {[s EXCEPT !.step = step, !.revision = revision]}

\* Mutant: every revision that was given out can be claimed.
ClaimedOnce(s) == store[s.to].revision >= s.base

\* claimRevision: only the present revision can be claimed.
Claimed(s) == store[s.to].revision = s.base

\* The request schemas: what does not fit gets an answer of its own and no
\* transaction.
Fits(s) == s.sent \notin Refused[s.to]

\* A module becomes a text under a new revision.
Renewed(m, t) == /\ store' = [store EXCEPT ![m] = [text |-> t, revision |-> @.revision + 1]]
                 /\ lapsed' = lapsed \ {m}

\* replacePage and its like: the whole module is replaced.
Replaced(s) == Renewed(s.to, Normal[s.to][s.sent])

\* inReplacementTransaction: the claim, the replacement and the audit, or none
\* of them.
Replace(s) ==
    /\ s.step = "sent" /\ Fits(s)
    /\ IF Claimed(s)
       THEN /\ Replaced(s)
            /\ saves' = Now(s, "done", s.base + 1)
       ELSE /\ saves' = Now(s, "conflict", 0)
            /\ UNCHANGED <<store, lapsed>>
    /\ UNCHANGED <<page, spent>>

\* Mutant: the module takes the draft that is in the editor by now.
SavedAsShown(s) ==
    [page[s.by] EXCEPT !.modules[s.to] = [text |-> page[s.by].draft, revision |-> s.revision],
                       !.source = Tidy(page[s.by].draft), !.state = "saved"]

\* The answer to a save.  It goes by what the closure kept: the text that was
\* sent is the module's from now on, and the JSON source becomes that text,
\* whatever is in the editor by now.
Saved(s) ==
    [page[s.by] EXCEPT !.modules[s.to] = [text |-> s.sent, revision |-> s.revision],
                       !.source = Tidy(s.sent), !.state = "saved"]

Conflicted(s) ==
    [page[s.by] EXCEPT !.conflict = [module |-> s.to, draft |-> s.sent,
                                     baseline |-> s.seen, revision |-> s.base],
                       !.state = "idle"]

Answer(s) ==
    /\ s.step # "sent"
    /\ Become(s.by, IF s.step = "done" THEN Saved(s) ELSE Conflicted(s))
    /\ saves' = saves \ {s}
    /\ UNCHANGED <<store, lapsed, spent>>

\* A text that is refused by the schemas or for an asset it refers to, a save that does not reach
\* the server, or one that does and whose answer is lost.
SaveFails(s) ==
    /\ Become(s.by, [page[s.by] EXCEPT !.state = "idle"])
    /\ saves' = saves \ {s}
    /\ UNCHANGED <<store, lapsed, spent>>

-----------------------------------------------------------------------------
(* Conflicts *)

\* resolveConflict, first half.
Resolve(c, choice) ==
    /\ AtHand(c) /\ page[c].conflict # Nothing
    /\ Become(c, [page[c] EXCEPT !.refreshing =
                    [choice |-> choice, conflict |-> page[c].conflict, read |-> Nothing]])
    /\ UNCHANGED <<store, lapsed, saves, spent>>

\* The server reads the snapshot; answers of saves may overtake it.
Refresh(c) ==
    /\ page[c].refreshing # Nothing /\ page[c].refreshing.read = Nothing
    /\ Become(c, [page[c] EXCEPT !.refreshing.read = store])
    /\ UNCHANGED <<store, lapsed, saves, spent>>

\* applyConflictSnapshot: the module of the conflict is shown again, with the
\* latest text or with the draft that was refused.
Resolved(c) ==
    /\ page[c].refreshing # Nothing /\ page[c].refreshing.read # Nothing
    /\ LET r == page[c].refreshing
           m == r.conflict.module
           t == IF r.choice = "reload" THEN r.read[m].text ELSE r.conflict.draft
       IN  Become(c, [page[c] EXCEPT !.modules = r.read, !.selected = m,
                                     !.draft = t, !.source = Tidy(t), !.broken = FALSE,
                                     !.conflict = Nothing, !.state = "idle",
                                     !.refreshing = Nothing])
    /\ UNCHANGED <<store, lapsed, saves, spent>>

\* retainConflictAfterRefreshFailure
ResolveFails(c) ==
    /\ page[c].refreshing # Nothing
    /\ Become(c, [page[c] EXCEPT !.conflict = page[c].refreshing.conflict,
                                 !.refreshing = Nothing])
    /\ UNCHANGED <<store, lapsed, saves, spent>>

-----------------------------------------------------------------------------
(* The others *)

\* acceptWork and applyManagedUpdates: a paper is added or changed, with a new
\* revision.
Synchronise(m, t) ==
    /\ m \in Shared /\ t \in Stored(m)
    /\ spent.others < MaxOthers
    /\ Spend("others")
    /\ Renewed(m, t)
    /\ UNCHANGED <<page, saves>>

\* executeMemberReset takes papers away; bumpResearchRevision is not called.
MemberReset(m, t) ==
    /\ m \in Shared /\ t \in Stored(m) \ {store[m].text}
    /\ spent.others < MaxOthers
    /\ Spend("others")
    /\ store' = [store EXCEPT ![m].text = t]
    /\ lapsed' = lapsed \cup {m}
    /\ UNCHANGED <<page, saves>>

Next ==
    \/ \E c \in Consoles :
          \/ Load(c) \/ LoadFails(c) \/ Retry(c)
          \/ \E m \in Modules : Switch(c, m)
          \/ Discard(c) \/ Cancel(c)
          \/ \E mode \in Modes : SetMode(c, mode)
          \/ \E t \in Texts : Edit(c, t)
          \/ \E source \in Sources : EditJson(c, source)
          \/ Format(c) \/ Save(c)
          \/ \E choice \in Choices : Resolve(c, choice)
          \/ Refresh(c) \/ Resolved(c) \/ ResolveFails(c)
    \/ \E s \in saves : Replace(s) \/ Answer(s) \/ SaveFails(s)
    \/ \E m \in Modules, t \in Texts : Synchronise(m, t) \/ MemberReset(m, t)

Spec == Init /\ [][Next]_vars

-----------------------------------------------------------------------------
(* Properties *)

\* "The content has been updated by someone else, please reload": a save
\* replaces a module only if the text it replaces is what was made of the one
\* its editor was based on, whatever the answers of this editor's other saves, a
\* refresh or another module did in between (claimRevision, and the revision and
\* the value an editor keeps together).  Of a reset nobody is told: until the
\* next revision the papers may be others than any editor knows.
SavesKnowThePresent ==
    [][\A s \in saves :
          (s.step = "sent" /\ \E done \in saves' : done.id = s.id /\ done.step = "done")
              => store[s.to].text = Normal[s.to][s.seen] \/ s.to \in lapsed]_vars

\* An editor with nothing to save at the present revision shows what the site
\* shows, but for its normal form and for a reset since that revision: no late
\* answer, switch or refresh leaves a text that the page takes for the saved one
\* (the closure of saveCurrentModule, applySavedModule, applyConflictSnapshot).
CleanEditorsShowTheSite ==
    \A c \in Consoles :
        LET m == page[c].selected
        IN  /\ page[c].load = "ready"
            /\ ~Dirty(c)
            /\ Baseline(c).revision = store[m].revision
            => Normal[m][page[c].draft] = store[m].text \/ m \in lapsed
=============================================================================
