------------------------------- MODULE EditorSaves -------------------------------
(****************************************************************************)
(* The map between its editors and the server: saves under a revision,      *)
(* remote saves adopted or shown as a conflict, drafts and reloads          *)
(* (apps/server/src/net/mapStore.ts, httpServer.ts POST /api/map;           *)
(* apps/client/src/editor/net/saveController.ts, recovery/draftStore.ts).   *)
(*                                                                          *)
(* A map is the set of edits in it, and its revision is the map itself. The *)
(* history is the edits since the document was loaded (EditorHistory). All  *)
(* maps are valid, all admins authorized, and nothing is painted.           *)
(****************************************************************************)
EXTENDS Integers, Sequences, SequencesExt

CONSTANTS
  Admin,
  MaxEdits,        \* bound: edits ever made
  MaxSaves,        \* bound: saves ever sent
  MaxPolls,        \* bound: reads of the map by pages that are open
  MaxReloads       \* bound: pages closed and opened again

ASSUME SaveAssumptions == {MaxEdits, MaxSaves, MaxPolls, MaxReloads} \subseteq Nat

VARIABLES
  file,         \* the map on disk
  work,         \* the document in each page
  made,         \* its history: the edits done since it was loaded
  savedEdit,    \* the edit on top when it was last saved
  nonHistoryDirt,
  baseRevision, remoteDoc,
  conflictOpen,
  posting,      \* the saves under way, of every page
  polling,      \* the reads under way
  draft,        \* the draft in the browser's storage
  queued,       \* the draft that waits for its debounce
  booting,      \* pages that have yet to look for a draft
  edits, saves, polls, reloads,
  dropped,      \* history: edits an admin has chosen to do without
  crossed       \* history: edits that a save got wrong (see Stores and Saved)

pageState == <<work, made, savedEdit, nonHistoryDirt, baseRevision, remoteDoc, conflictOpen>>
traffic == <<posting, polling>>
storage == <<draft, queued>>
used == <<edits, saves, polls, reloads>>
excused == <<dropped, crossed>>
savesVars == <<file, pageState, traffic, storage, booting, used, excused>>

Edits == 1 .. MaxEdits
Posts == 1 .. MaxSaves
Reads == 1 .. MaxPolls
Map == SUBSET Edits
EmptyMap == {}
NoEdit == 0
Nothing == [at |-> "none"]

SavesInit ==
  /\ file = EmptyMap
  /\ work = [a \in Admin |-> EmptyMap]
  /\ made = [a \in Admin |-> <<>>]
  /\ savedEdit = [a \in Admin |-> NoEdit]
  /\ nonHistoryDirt = [a \in Admin |-> FALSE]
  /\ baseRevision = [a \in Admin |-> EmptyMap]
  /\ remoteDoc = [a \in Admin |-> EmptyMap]
  /\ conflictOpen = [a \in Admin |-> FALSE]
  /\ posting = [p \in Posts |-> Nothing]
  /\ polling = [r \in Reads |-> Nothing]
  /\ draft = [a \in Admin |-> Nothing]
  /\ queued = [a \in Admin |-> Nothing]
  /\ booting = {}
  /\ edits = 0 /\ saves = 0 /\ polls = 0 /\ reloads = 0
  /\ dropped = {} /\ crossed = {}

TopEdit(h) == IF h = <<>> THEN NoEdit ELSE Last(h)
HistoryDirty(a) == TopEdit(made[a]) # savedEdit[a]

\* Variant: what was restored or imported does not count.
DirtyByHistory(a) == HistoryDirty(a)
Dirty(a) == nonHistoryDirt[a] \/ HistoryDirty(a)

Set(f, a, v) == [f EXCEPT ![a] = v]

\* onAdopt: the document is replaced and its history dropped.
Adopt(a, map) ==
  /\ work' = Set(work, a, map)
  /\ made' = Set(made, a, <<>>)
  /\ savedEdit' = Set(savedEdit, a, NoEdit)
--------------------------------------------------------------------------------
(* The admin                                                                *)

Editing(a) == a \notin booting

\* noteDraft, for a page whose history is h over a document of content c.
NoteDraft(a, c, h) ==
  queued' = IF nonHistoryDirt[a] \/ TopEdit(h) # savedEdit[a]
              THEN Set(queued, a, [at |-> "draft", map |-> c, base |-> baseRevision[a]])
              ELSE queued

MakeEdit(a) ==
  /\ Editing(a) /\ edits < MaxEdits
  /\ edits' = edits + 1
  /\ work' = Set(work, a, work[a] \cup {edits'})
  /\ made' = Set(made, a, Append(made[a], edits'))
  /\ NoteDraft(a, work'[a], made'[a])
  /\ UNCHANGED <<file, savedEdit, nonHistoryDirt, baseRevision, remoteDoc, conflictOpen, traffic,
                 draft, booting, saves, polls, reloads, excused>>

UndoEdit(a) ==
  /\ Editing(a) /\ made[a] # <<>>
  /\ work' = Set(work, a, work[a] \ {Last(made[a])})
  /\ made' = Set(made, a, Front(made[a]))
  /\ dropped' = dropped \cup {Last(made[a])}
  /\ NoteDraft(a, work'[a], made'[a])
  /\ UNCHANGED <<file, savedEdit, nonHistoryDirt, baseRevision, remoteDoc, conflictOpen, traffic,
                 draft, booting, used, crossed>>

\* importMap, of a file with one new edit; a dirty page asks first.
Import(a) ==
  /\ Editing(a) /\ edits < MaxEdits
  /\ edits' = edits + 1
  /\ Adopt(a, {edits'})
  /\ nonHistoryDirt' = Set(nonHistoryDirt, a, TRUE)
  /\ dropped' = dropped \cup work[a]
  /\ UNCHANGED <<file, baseRevision, remoteDoc, conflictOpen, traffic, storage, booting, saves,
                 polls, reloads, crossed>>

\* resolveConflict: keep mine, and the save stays refused.
KeepMine(a) ==
  /\ Editing(a) /\ conflictOpen[a]
  /\ conflictOpen' = Set(conflictOpen, a, FALSE)
  /\ UNCHANGED <<file, work, made, savedEdit, nonHistoryDirt, baseRevision, remoteDoc, traffic,
                 storage, booting, used, excused>>

\* A read of the map goes out from a's page.
Read(a) ==
  /\ polls < MaxPolls /\ polls' = polls + 1
  /\ polling' = Set(polling, polls', [at |-> "read", by |-> a, map |-> file])

\* resolveConflict: take theirs. The page counts as clean and reads the map again.
TakeTheirs(a) ==
  /\ Editing(a) /\ conflictOpen[a]
  /\ conflictOpen' = Set(conflictOpen, a, FALSE)
  /\ nonHistoryDirt' = Set(nonHistoryDirt, a, FALSE)
  /\ savedEdit' = Set(savedEdit, a, TopEdit(made[a]))
  /\ remoteDoc' = Set(remoteDoc, a, EmptyMap)
  /\ draft' = Set(draft, a, Nothing) /\ queued' = Set(queued, a, Nothing)
  /\ Read(a)
  /\ dropped' = dropped \cup (work[a] \ file)
  /\ UNCHANGED <<file, work, made, baseRevision, posting, booting, edits, saves, reloads, crossed>>

\* The debounce of a queued draft is over, or the tab is hidden.
WriteDraft(a) ==
  /\ queued[a] # Nothing
  /\ draft' = Set(draft, a, queued[a]) /\ queued' = Set(queued, a, Nothing)
  /\ UNCHANGED <<file, pageState, traffic, booting, used, excused>>

\* A page that is closed hears of no save and no read it has asked for; a save that is on its way
\* still comes to its end at the server.
HearNothing(a) ==
  /\ posting' = [p \in Posts |->
       IF posting[p] = Nothing \/ posting[p].by # a THEN posting[p]
       ELSE IF posting[p].at \in {"sent", "loaded"} THEN [posting[p] EXCEPT !.heard = FALSE] ELSE Nothing]
  /\ polling' = [r \in Reads |-> IF polling[r] # Nothing /\ polling[r].by = a THEN Nothing ELSE polling[r]]

\* The page is closed and opened again: what it had and did not write is gone.
Reload(a) ==
  /\ reloads < MaxReloads /\ reloads' = reloads + 1
  /\ Adopt(a, file)
  /\ nonHistoryDirt' = Set(nonHistoryDirt, a, FALSE)
  /\ baseRevision' = Set(baseRevision, a, file)
  /\ remoteDoc' = Set(remoteDoc, a, file)
  /\ conflictOpen' = Set(conflictOpen, a, FALSE)
  /\ HearNothing(a)
  /\ queued' = Set(queued, a, Nothing)
  /\ booting' = booting \cup {a}
  /\ dropped' = dropped \cup (work[a] \ (file \cup IF draft[a] = Nothing THEN {} ELSE draft[a].map))
  /\ UNCHANGED <<file, draft, edits, saves, polls, crossed>>

DraftFits(a) == draft[a] # Nothing /\ draft[a].base = baseRevision[a]

\* restoreDraftIfAny: a draft of this revision may be taken up again; it stays in the storage.
RestoreDraft(a) ==
  /\ a \in booting /\ DraftFits(a)
  /\ booting' = booting \ {a}
  /\ Adopt(a, draft[a].map)
  /\ nonHistoryDirt' = Set(nonHistoryDirt, a, TRUE)
  /\ UNCHANGED <<file, baseRevision, remoteDoc, conflictOpen, traffic, storage, used, excused>>

\* It is refused, or is of another revision and only offered as a download.
DiscardDraft(a) ==
  /\ a \in booting
  /\ booting' = booting \ {a}
  /\ draft' = Set(draft, a, Nothing) /\ queued' = Set(queued, a, Nothing)
  /\ dropped' = IF draft[a] = Nothing THEN dropped ELSE dropped \cup (draft[a].map \ file)
  /\ UNCHANGED <<file, pageState, traffic, used, crossed>>
--------------------------------------------------------------------------------
(* A save; nothing keeps a page from sending another meanwhile              *)

SaveMap(a) ==
  /\ a \notin booting /\ saves < MaxSaves
  /\ saves' = saves + 1
  /\ posting' = Set(posting, saves', [ at |-> "sent", by |-> a, heard |-> TRUE,
                                     body |-> work[a], ifMatch |-> baseRevision[a] ])
  /\ UNCHANGED <<file, pageState, polling, storage, booting, edits, polls, reloads, excused>>

\* POST /api/map: loadMap, and only then saveMap.
Loads(p) ==
  /\ posting[p].at = "sent"
  /\ posting' = Set(posting, p, [ at |-> "loaded", by |-> posting[p].by, heard |-> posting[p].heard,
                                  body |-> posting[p].body, ifMatch |-> posting[p].ifMatch, current |-> file ])
  /\ UNCHANGED <<file, pageState, polling, storage, booting, used, excused>>

\* What the handler answers, if the page is still there to hear it.
Answer(p, c) == posting' = Set(posting, p, IF posting[p].heard THEN c ELSE Nothing)

\* saveMap: a revision that is not the one loaded is refused; else the file is replaced in one
\* rename. It is not looked at again: a save stored since it was loaded is overwritten.
Stores(p) ==
  LET r == posting[p] IN
  /\ r.at = "loaded"
  /\ IF r.ifMatch = r.current
       THEN /\ file' = IF r.body = r.current THEN file ELSE r.body
            /\ crossed' = IF r.current = file THEN crossed ELSE crossed \cup (file \ file')
            /\ Answer(p, [at |-> "saved", by |-> r.by, body |-> r.body])
       ELSE Answer(p, [at |-> "refused", by |-> r.by]) /\ UNCHANGED <<file, crossed>>
  /\ UNCHANGED <<pageState, polling, storage, booting, used, dropped>>

\* The page is told, and takes the document it has by now for the one saved.
Saved(p) ==
  LET page == posting[p].by
      body == posting[p].body
  IN /\ posting[p].at = "saved"
     /\ baseRevision' = Set(baseRevision, page, body)
     /\ remoteDoc' = Set(remoteDoc, page, body)
     /\ savedEdit' = Set(savedEdit, page, TopEdit(made[page]))
     /\ nonHistoryDirt' = Set(nonHistoryDirt, page, FALSE)
     /\ draft' = Set(draft, page, Nothing) /\ queued' = Set(queued, page, Nothing)
     /\ crossed' = crossed \cup (work[page] \ body) \cup (body \ work[page])
     /\ posting' = Set(posting, p, Nothing)
     /\ UNCHANGED <<file, work, made, conflictOpen, polling, booting, used, dropped>>

\* A refusal names no revision the page could go on from.
Refused(p) ==
  /\ posting[p].at = "refused"
  /\ conflictOpen' = Set(conflictOpen, posting[p].by, TRUE)
  /\ posting' = Set(posting, p, Nothing)
  /\ UNCHANGED <<file, work, made, savedEdit, nonHistoryDirt, baseRevision, remoteDoc, polling,
                 storage, booting, used, excused>>

\* The request or its answer is lost: the work is kept, the save may have happened.
Unreachable(p) ==
  /\ posting[p].at \in {"sent", "saved", "refused"}
  /\ posting' = Set(posting, p, Nothing)
  /\ UNCHANGED <<file, pageState, polling, storage, booting, used, excused>>
--------------------------------------------------------------------------------
(* A read of the map: every few seconds, and when a save is announced       *)

Poll(a) ==
  /\ a \notin booting /\ Read(a)
  /\ UNCHANGED <<file, pageState, posting, storage, booting, edits, saves, reloads, excused>>

Answered(r) ==
  /\ polling[r] # Nothing
  /\ polling' = Set(polling, r, Nothing)

\* What is read is neither the page's revision nor what it has last heard of.
News(r, a) ==
  /\ Answered(r) /\ polling[r].by = a
  /\ polling[r].map \notin {baseRevision[a], remoteDoc[a]}
  /\ remoteDoc' = Set(remoteDoc, a, polling[r].map)

\* Nothing has changed since, or the read has failed.
PollNothing(r) ==
  /\ Answered(r)
  /\ UNCHANGED <<file, pageState, posting, storage, booting, used, excused>>

\* Variant: the conflict moves the page to the other's revision.
PollConflictRebased(r, a) ==
  /\ News(r, a) /\ Dirty(a)
  /\ baseRevision' = Set(baseRevision, a, polling[r].map)
  /\ conflictOpen' = Set(conflictOpen, a, TRUE)
  /\ UNCHANGED <<file, work, made, savedEdit, nonHistoryDirt, posting, storage, booting, used, excused>>

\* The page has unsaved work: nothing is touched.
PollConflict(r, a) ==
  /\ News(r, a) /\ Dirty(a)
  /\ conflictOpen' = Set(conflictOpen, a, TRUE)
  /\ UNCHANGED <<file, work, made, savedEdit, nonHistoryDirt, baseRevision, posting, storage,
                 booting, used, excused>>

PollAdopt(r, a) ==
  /\ News(r, a) /\ ~Dirty(a)
  /\ baseRevision' = Set(baseRevision, a, polling[r].map)
  /\ Adopt(a, polling[r].map)
  /\ UNCHANGED <<file, nonHistoryDirt, conflictOpen, posting, storage, booting, used, excused>>

PageStep(a) ==
  \/ MakeEdit(a) \/ UndoEdit(a) \/ Import(a) \/ KeepMine(a) \/ TakeTheirs(a)
  \/ WriteDraft(a) \/ Reload(a) \/ RestoreDraft(a) \/ DiscardDraft(a) \/ SaveMap(a) \/ Poll(a)

PostStep(p) == Loads(p) \/ Stores(p) \/ Saved(p) \/ Refused(p) \/ Unreachable(p)

ReadStep(r) == PollNothing(r) \/ \E a \in Admin : PollConflict(r, a) \/ PollAdopt(r, a)

SavesNext == (\E a \in Admin : PageStep(a)) \/ (\E p \in Posts : PostStep(p)) \/ \E r \in Reads : ReadStep(r)

SavesSpec == SavesInit /\ [][SavesNext]_savesVars
--------------------------------------------------------------------------------
\* Every variable stays in its domain.
SavesTypeOK ==
  /\ {file, dropped, crossed} \subseteq Map
  /\ work \in [Admin -> Map] /\ baseRevision \in [Admin -> Map] /\ remoteDoc \in [Admin -> Map]
  /\ \A a \in Admin : made[a] \in Seq(Edits) /\ savedEdit[a] \in Edits \cup {NoEdit}
  /\ {nonHistoryDirt, conflictOpen} \subseteq [Admin -> BOOLEAN]
  /\ \A a \in Admin : {draft[a], queued[a]} \subseteq {Nothing} \cup [at : {"draft"}, map : Map, base : Map]
  /\ \A p \in Posts : posting[p].at \in {"none", "sent", "loaded", "saved", "refused"}
  /\ \A r \in Reads : polling[r] \in {Nothing} \cup [at : {"read"}, by : Admin, map : Map]
  /\ booting \subseteq Admin

\* What was saved stays saved: an edit leaves the map on disk only if an admin chose to do
\* without it, never because two admins saved (mapStore.ts: "two admins saving at once
\* silently clobbered each other"), a page polled, saved twice or lost an answer. Excepted is
\* what crossed a save: an edit stored between another save's load and its store, and one that
\* came into the page or left it between a save's snapshot and its answer.
SavedEditsStay == [][file \ file' \subseteq dropped' \cup crossed']_savesVars

\* The same without the exception, which the code does not keep.
SavedEditsStayAlways == [][file \ file' \subseteq dropped']_savesVars

\* "silently replacing unsaved work is never acceptable" (saveController.ts pollRemote): an
\* edit leaves a page and its draft only if it is in the saved map, or its admin chose to do
\* without it, with the same exception.
Kept(a) == work[a] \cup IF draft[a] = Nothing THEN {} ELSE draft[a].map
UnsavedWorkStays == [][\A a \in Admin : Kept(a) \ Kept(a)' \subseteq file' \cup dropped' \cup crossed']_savesVars
UnsavedWorkStaysAlways == [][\A a \in Admin : Kept(a) \ Kept(a)' \subseteq file' \cup dropped']_savesVars
================================================================================
