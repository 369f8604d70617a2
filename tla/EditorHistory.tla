------------------------------ MODULE EditorHistory ------------------------------
(****************************************************************************)
(* The map editor's undo history over its document, and the gestures that   *)
(* record themselves in it (apps/client/src/editor/history/                 *)
(* commandHistory.ts, history/commands.ts, viewport/transformSession.ts).   *)
(*                                                                          *)
(* A command is a sequence of changes of single objects, each with the      *)
(* object's value before and after; None is an object that is not there.    *)
(* The memory budget is the number of entries alone. A gesture alone opens  *)
(* a transaction, and nothing waits for it: commands, undo, redo, a save    *)
(* and another editor's map all come in the middle of a drag as well.       *)
(****************************************************************************)
EXTENDS Integers, Sequences, FiniteSets, SequencesExt

CONSTANTS
  Thing,
  Value,
  None,
  MaxEntries,
  MaxCommands, \* bound: commands ever issued
  Loaded,      \* bound: the documents that are loaded
  MaxLoads     \* bound: documents loaded over the first one

ASSUME HistoryAssumptions ==
  /\ None \notin Value
  /\ IsFiniteSet(Thing)
  /\ MaxEntries \in Nat \ {0}
  /\ MaxCommands \in Nat /\ MaxLoads \in Nat
  /\ Loaded \subseteq [Thing -> Value \cup {None}]

VARIABLES
  doc,
  done, undone,  \* the stacks, the newest last
  savedTop,      \* the command on top when the document was last saved
  txn,           \* the changes of the open transaction
  starts,        \* the values a gesture began with; None: not part of it
  issued, loads, \* commands and documents so far
  base,          \* history: the document under the oldest entry
  saved,         \* history: the document last saved, without what was open, or loaded
  cutOff,        \* history: an entry was dropped since then
  mixed          \* history: what something else has changed in the middle of its change

stacks == <<done, undone, savedTop, txn>>
ghosts == <<base, saved, cutOff, mixed>>
historyVars == <<doc, stacks, starts, issued, loads, ghosts>>

Doc == [Thing -> Value \cup {None}]
Missing == [t \in Thing |-> None]

Closed == [open |-> FALSE, parts |-> <<>>]
Opened == [open |-> TRUE, parts |-> <<>>]
NoCommand == 0

HistoryInit ==
  /\ doc \in Loaded
  /\ done = <<>> /\ undone = <<>> /\ savedTop = NoCommand /\ txn = Closed
  /\ starts = Missing
  /\ issued = 0 /\ loads = 0
  /\ base = doc /\ saved = doc /\ cutOff = FALSE /\ mixed = {}

\* One change, or its inverse: an object is added only where there is none, and replaced
\* only where there is one.
Do(d, p) ==
  IF (p.was = None) # (d[p.thing] = None) /\ p.now # None THEN d ELSE [d EXCEPT ![p.thing] = p.now]
InverseOf(p) == [p EXCEPT !.was = p.now, !.now = p.was]

DoAll(d, parts) ==
  LET after[n \in 0 .. Len(parts)] == IF n = 0 THEN d ELSE Do(after[n - 1], parts[n])
  IN after[Len(parts)]

\* Variant: the parts are taken back in the order they were made.
UndoInOrder(d, parts) == DoAll(d, [i \in DOMAIN parts |-> InverseOf(parts[i])])

\* compositeCommand.undo: later parts may depend on earlier ones.
Backwards(parts) == [i \in DOMAIN parts |-> InverseOf(parts[Len(parts) + 1 - i])]
UndoAll(d, parts) == DoAll(d, Backwards(parts))

\* A command folded into an earlier one of the same object keeps the earlier start.
Folds(parts, p) ==
  parts # <<>> /\ Last(parts).thing = p.thing /\ Last(parts).move /\ p.move

Extend(parts, more) ==
  IF Folds(parts, Head(more)) THEN Append(Front(parts), [Last(parts) EXCEPT !.now = Head(more).now])
  ELSE parts \o more

\* The command on top of a stack: done.at(-1) ?? null.
Top(stack) == IF stack = <<>> THEN NoCommand ELSE Last(stack).id

isDirty == Top(done) # savedTop

\* _push and _trim. Only a command of its own identity is pushed.
Push(parts) ==
  LET stack == Append(done, [id |-> issued + 1, parts |-> parts]) IN
  /\ undone' = <<>>
  /\ IF Len(stack) > MaxEntries
       THEN done' = Tail(stack) /\ base' = DoAll(base, Head(stack).parts) /\ cutOff' = TRUE
       ELSE done' = stack /\ UNCHANGED <<base, cutOff>>

NewCommand == issued < MaxCommands /\ issued' = issued + 1

Quiet == starts = Missing
Moved == {t \in Thing : starts[t] # None}
Things(parts) == {p.thing : p \in Range(parts)}

\* The members of a gesture at its start, those that are still there.
AtStarts(d) == [t \in Thing |-> IF t \in Moved /\ d[t] # None THEN starts[t] ELSE d[t]]

\* The document with the open gesture and transaction taken back.
Settled == UndoAll(AtStarts(doc), txn.parts)
--------------------------------------------------------------------------------
\* The commands of commands.ts, on the document as it is: add, remove, replace, transform.
Changes(d) ==
  {p \in [thing : Thing, was : Value \cup {None}, now : Value \cup {None}, move : BOOLEAN] :
     p.was = d[p.thing] /\ p.now # p.was /\ (p.move => p.was # None /\ p.now # None)}

\* apply, execute: outside a transaction the command is an entry of its own.
Record(parts) ==
  /\ NewCommand
  /\ doc' = DoAll(doc, parts)
  /\ IF txn.open
       THEN txn' = [txn EXCEPT !.parts = Extend(@, parts)] /\ UNCHANGED <<done, undone, base, cutOff>>
       ELSE Push(parts) /\ UNCHANGED txn
  /\ mixed' = mixed \cup (Things(parts) \cap Moved)
  /\ UNCHANGED <<savedTop, starts, loads, saved>>

Apply == \E p \in Changes(doc) : Record(<<p>>)

\* removeObjects, addObjects, setPropertiesMany: several objects, one entry.
ApplyMany ==
  \E p, q \in Changes(doc) :
    /\ p.thing # q.thing /\ (p.now = None) = (q.now = None) /\ (p.was = None) = (q.was = None)
    /\ ~p.move /\ ~q.move
    /\ Record(<<p, q>>)

\* undo takes an open transaction back first; the gesture goes on.
Undo ==
  /\ done # <<>> \/ txn.open
  /\ txn' = Closed
  /\ LET d == UndoAll(doc, txn.parts) IN
     IF done = <<>> THEN doc' = d /\ UNCHANGED <<done, undone, mixed>>
     ELSE /\ doc' = UndoAll(d, Last(done).parts)
          /\ done' = Front(done)
          /\ undone' = Append(undone, Last(done))
          /\ mixed' = mixed \cup (Things(Last(done).parts) \cap Moved)
  /\ UNCHANGED <<savedTop, starts, issued, loads, base, saved, cutOff>>

\* redo leaves a transaction open.
Redo ==
  /\ undone # <<>>
  /\ doc' = DoAll(doc, Last(undone).parts)
  /\ done' = Append(done, Last(undone))
  /\ undone' = Front(undone)
  /\ mixed' = mixed \cup (Things(Last(undone).parts) \cap (Moved \cup Things(txn.parts)))
  /\ UNCHANGED <<savedTop, txn, starts, issued, loads, base, saved, cutOff>>

MarkSaved ==
  /\ savedTop' = Top(done)
  /\ saved' = Settled /\ cutOff' = FALSE
  /\ UNCHANGED <<doc, done, undone, txn, starts, issued, loads, base, mixed>>

\* onAdopt: another document, and rebase. A gesture goes on from the starts it has.
Load ==
  /\ loads < MaxLoads /\ loads' = loads + 1
  /\ doc' \in Loaded
  /\ done' = <<>> /\ undone' = <<>> /\ txn' = Closed /\ savedTop' = NoCommand
  /\ base' = doc' /\ saved' = doc' /\ cutOff' = FALSE
  /\ mixed' = {t \in Moved : doc'[t] # starts[t]}
  /\ UNCHANGED <<starts, issued>>
--------------------------------------------------------------------------------
(* TransformSession                                                         *)

Begin ==
  /\ Quiet
  /\ \E ids \in (SUBSET {t \in Thing : doc[t] # None}) \ {{}} :
       starts' = [t \in Thing |-> IF t \in ids THEN doc[t] ELSE None]
  /\ txn' = Opened
  /\ UNCHANGED <<doc, done, undone, savedTop, issued, loads, ghosts>>

\* update: the members that are there move together, straight in the document.
Update ==
  /\ ~Quiet
  /\ \E v \in Value : doc' = [t \in Thing |-> IF t \in Moved /\ doc[t] # None THEN v ELSE doc[t]]
  /\ doc' # doc
  /\ UNCHANGED <<stacks, starts, issued, loads, ghosts>>

\* Some order of the members; any will do.
Members == SetToSeq(Moved)

\* A member that is gone ends where it began.
Recorded ==
  [i \in DOMAIN Members |->
     LET t == Members[i] IN
     [thing |-> t, was |-> starts[t], now |-> IF doc[t] = None THEN starts[t] ELSE doc[t],
      move |-> FALSE]]

\* commit: one entry with what the transaction holds, or none and the transaction taken back if
\* no member has moved.
Commit ==
  /\ ~Quiet
  /\ starts' = Missing /\ txn' = Closed
  /\ IF doc = AtStarts(doc)
       THEN doc' = UndoAll(doc, txn.parts) /\ UNCHANGED <<done, undone, issued, base, cutOff>>
       ELSE NewCommand /\ Push(txn.parts \o Recorded) /\ UNCHANGED doc
  /\ UNCHANGED <<savedTop, loads, saved, mixed>>

\* cancel: Escape, a lost lock.
Cancel ==
  /\ ~Quiet
  /\ doc' = Settled
  /\ starts' = Missing /\ txn' = Closed
  /\ UNCHANGED <<done, undone, savedTop, issued, loads, ghosts>>

HistoryNext ==
  \/ Apply \/ ApplyMany
  \/ Undo \/ Redo \/ MarkSaved \/ Load
  \/ Begin \/ Update \/ Commit \/ Cancel

HistorySpec == HistoryInit /\ [][HistoryNext]_historyVars
--------------------------------------------------------------------------------
Parts == [thing : Thing, was : Value \cup {None}, now : Value \cup {None}, move : BOOLEAN]
IsCommand(c) == c.id \in 1 .. MaxCommands /\ Range(c.parts) \subseteq Parts /\ c.parts # <<>>

\* Every variable stays in its domain, no entry is empty and no two are one command.
HistoryTypeOK ==
  /\ {doc, base, saved, starts} \subseteq Doc
  /\ \A c \in Range(done) \cup Range(undone) : IsCommand(c)
  /\ Len(done) + Len(undone) = Cardinality({c.id : c \in Range(done) \cup Range(undone)})
  /\ Len(done) <= MaxEntries
  /\ Range(txn.parts) \subseteq Parts
  /\ savedTop \in 0 .. MaxCommands
  /\ mixed \subseteq Thing

\* All of a stack's entries, the newest first: taken back, or made again.
UndoEach(d, stack) ==
  LET after[n \in 0 .. Len(stack)] ==
        IF n = 0 THEN d ELSE UndoAll(after[n - 1], stack[Len(stack) + 1 - n].parts)
  IN after[Len(stack)]

RedoEach(d, stack) ==
  LET after[n \in 0 .. Len(stack)] ==
        IF n = 0 THEN d ELSE DoAll(after[n - 1], stack[Len(stack) + 1 - n].parts)
  IN after[Len(stack)]

\* d and e agree on every object but those that something else has changed in the middle of a
\* gesture, or a redone entry in the middle of a transaction that has changed them.
Same(d, e) == \A t \in Thing \ mixed : d[t] = e[t]

\* "Undo must be an exact inverse" (commandHistory.ts): the entries take the document back to
\* what they began with, and the undone ones can be redone and undone again to what it is, with
\* whatever comes in the middle of a gesture that its members are not part of.
UndoIsExact ==
  /\ Same(UndoEach(Settled, done), base)
  /\ Same(UndoEach(RedoEach(Settled, undone), Reverse(undone)), Settled)

\* The same of every object, whatever the gesture does to it: the editor does not keep this.
UndoIsExactAlways ==
  /\ UndoEach(Settled, done) = base
  /\ UndoEach(RedoEach(Settled, undone), Reverse(undone)) = Settled

\* A document that reads as clean is the one last saved or loaded, as far as it was not open
\* then. What is excepted: it was saved with no entry on the stack and an entry was dropped since.
CleanMeansSaved == (~isDirty /\ ~(cutOff /\ savedTop = NoCommand)) => Same(Settled, saved)
================================================================================
