--------------------------- MODULE Questionnaire ---------------------------
(* One ask_user_question call: the tabs, rows, drafts, notes and answers of the dialog
   (state/key-router.ts, state/state-reducer.ts), its external editor and overlay
   (state/questionnaire-session.ts) and the call that mounts it, is aborted or returns
   (ask-user-question.ts), next to other questionnaires that are open.

   Questions are the Singles single-select ones, then the Multis multi-select ones, each with OptionCount
   options. A text is empty or not, and what is typed into a note is chosen when its field is left. Left out: previews, the review's scroll position, what a cursor does
   inside a field, RPC hosts (one native dialog after another) and key collisions of a user's bindings. *)
EXTENDS Naturals

CONSTANTS
  Singles, Multis, OptionCount,
  MaxOthers          \* other questionnaires open at a time
ASSUME QuestionnaireAssumption == {Singles, Multis, MaxOthers} \subseteq Nat /\ Singles + Multis > 0 /\ OptionCount \in Nat \ {0, 1}

Questions == 1..(Singles + Multis)
IsMulti(q) == q > Singles
SubmitTab == Singles + Multis + 1
Tabs == IF Singles + Multis > 1 THEN 1..SubmitTab ELSE Questions
Options == 1..OptionCount
OtherRow == OptionCount + 1      \* "Type something."
NextRow == OptionCount + 2
Rows(q) == 1..(IF IsMulti(q) THEN NextRow ELSE OtherRow)
Texts == {"", "text"}
Absent == "absent"
NoAnswer == [kind |-> "none", text |-> "", selected |-> {}, note |-> ""]

VARIABLES
  view,       \* [tab, row, typing, noting, checked, choice, collapsed]: where the user is
  said,       \* [answers, drafts, notes]: what the user said, per question; notes per tab
  field,      \* the text in the "type something" field
  editing,    \* the question whose text an external editor has open, or 0
  dialog,     \* [phase, overlay, listener, hidden, aborted, result]
  others,     \* other questionnaires that are open
  blocked     \* whether listeners were last told that a question blocks the session

askVars == <<view, said, field, editing, dialog, others, blocked>>

-----------------------------------------------------------------------------
FreshView == [tab |-> 1, row |-> 1, typing |-> FALSE, noting |-> FALSE, checked |-> {}, choice |-> 1, collapsed |-> FALSE]
NothingSaved ==
  [answers |-> [q \in Questions |-> NoAnswer], drafts |-> [q \in Questions |-> Absent], notes |-> [t \in Tabs |-> ""]]
Draft(s, t) ==
  IF t \notin Questions THEN "" ELSE IF s.drafts[t] # Absent THEN s.drafts[t] ELSE s.answers[t].text
Unsynced(s, t) == view.checked   \* mutant: the boxes of the tab that was left
ChecksOf(s, t) == IF t \in Questions /\ IsMulti(t) THEN s.answers[t].selected ELSE {}
SwitchTo(s, t) ==
  /\ view' = [view EXCEPT !.tab = t, !.row = 1, !.typing = FALSE, !.noting = FALSE, !.choice = 1, !.checked = ChecksOf(s, t)]
  /\ field' = Draft(s, t)

MultiAnswer(s, q, text) == [kind |-> "multi", text |-> text, selected |-> view.checked, note |-> s.notes[q]]
\* A multi-select answer follows every toggle and every text left behind; an empty one is none.
Unpersisted(s, q, checks) == s   \* mutant: the text waits for a confirmation
Persisted(s, q, checks) ==
  LET answer == [MultiAnswer(s, q, Draft(s, q)) EXCEPT !.selected = checks]
  IN [s EXCEPT !.answers[q] = IF checks # {} \/ answer.text # "" THEN answer ELSE NoAnswer]

\* Keys reach a dialog that is shown and has no external editor open.
ReachesAlways == dialog.phase = "open" /\ ~dialog.hidden   \* mutant
Reached == dialog.phase = "open" /\ ~dialog.hidden /\ editing = 0
OnQuestion == Reached /\ ~view.collapsed /\ ~view.noting /\ view.tab \in Questions

\* finish: the dialog settles once, with what was said, which is read no more; its promise waits for an
\* external editor to die.
AtOnce == "done"   \* mutant: a promise that does not wait
AfterEditor == IF editing = 0 THEN "done" ELSE "closing"
FinishDialog(cancelled) ==
  /\ dialog' = [dialog EXCEPT !.phase = AfterEditor, !.result = IF cancelled THEN "cancelled" ELSE "submitted"]
  /\ view' = FreshView /\ said' = NothingSaved /\ field' = ""

-----------------------------------------------------------------------------
\* Up and down, around the rows; a text that is left becomes the draft.
Nav(down) ==
  /\ OnQuestion
  /\ LET q == view.tab  n == IF IsMulti(q) THEN NextRow ELSE OtherRow
         row == ((view.row - 1 + IF down THEN 1 ELSE n - 1) % n) + 1
         drafted == IF view.typing THEN [said EXCEPT !.drafts[q] = field] ELSE said
     IN /\ view' = [view EXCEPT !.row = row, !.typing = (row = OtherRow)]
        /\ said' = IF view.typing /\ IsMulti(q) THEN Persisted(drafted, q, view.checked) ELSE drafted
        /\ field' = IF row = OtherRow THEN Draft(drafted, q) ELSE field
  /\ UNCHANGED <<editing, dialog, others, blocked>>
TypeText(text) ==
  /\ OnQuestion /\ view.typing /\ field' = text
  /\ UNCHANGED <<view, said, editing, dialog, others, blocked>>
ClearText ==
  /\ OnQuestion /\ view.typing /\ field' = "" /\ said' = [said EXCEPT !.drafts[view.tab] = ""]
  /\ UNCHANGED <<view, editing, dialog, others, blocked>>
EditExternally ==
  /\ OnQuestion /\ view.typing /\ editing' = view.tab
  /\ UNCHANGED <<view, said, field, dialog, others, blocked>>
EditorReturns(text) ==
  /\ editing # 0 /\ editing' = 0
  /\ IF dialog.phase = "open"
     THEN /\ said' = [said EXCEPT !.drafts[view.tab] = text] /\ field' = text /\ UNCHANGED dialog
     ELSE /\ dialog' = [dialog EXCEPT !.phase = IF @ = "closing" THEN "done" ELSE @] /\ UNCHANGED <<said, field>>
  /\ UNCHANGED <<view, others, blocked>>
EditorFails ==
  /\ editing # 0 /\ editing' = 0
  /\ dialog' = [dialog EXCEPT !.phase = IF @ = "closing" THEN "done" ELSE @]
  /\ UNCHANGED <<view, said, field, others, blocked>>
SwitchTab(step) ==
  /\ Reached /\ ~view.collapsed /\ ~view.noting /\ ~view.typing /\ Tabs # Questions
  /\ SwitchTo(said, ((view.tab - 1 + step) % SubmitTab) + 1)
  /\ UNCHANGED <<said, editing, dialog, others, blocked>>
\* A confirmed question moves on to the next tab; the only one ends the dialog.
Confirmed ==
  LET q == view.tab
  IN IF IsMulti(q) THEN MultiAnswer(said, q, field)
     ELSE [kind |-> IF view.typing THEN "custom" ELSE "option", text |-> IF view.typing THEN field ELSE "",
           selected |-> IF view.typing THEN {} ELSE {view.row}, note |-> said.notes[q]]
Confirm ==
  /\ OnQuestion /\ (IsMulti(view.tab) /\ ~view.typing => view.row = NextRow)
  /\ LET s == [said EXCEPT !.answers[view.tab] = Confirmed,
                            !.drafts[view.tab] = IF Confirmed.kind = "option" THEN @ ELSE Absent]
     IN IF Tabs # Questions THEN said' = s /\ SwitchTo(s, view.tab + 1) /\ UNCHANGED dialog ELSE FinishDialog(FALSE)
  /\ UNCHANGED <<editing, others, blocked>>
Toggle ==
  /\ OnQuestion /\ ~view.typing /\ IsMulti(view.tab) /\ view.row \in Options
  /\ LET checks == IF view.row \in view.checked THEN view.checked \ {view.row} ELSE view.checked \union {view.row}
     IN view' = [view EXCEPT !.checked = checks] /\ said' = Persisted(said, view.tab, checks)
  /\ UNCHANGED <<field, editing, dialog, others, blocked>>

\* A note of a question, or of all of them on the submit tab.
EnterNotes ==
  /\ Reached /\ ~view.collapsed /\ ~view.noting /\ ~view.typing
  /\ view' = [view EXCEPT !.noting = TRUE]
  /\ UNCHANGED <<said, field, editing, dialog, others, blocked>>
NotedAside(t, note) == [said EXCEPT !.notes[t] = note]   \* mutant: an answer keeps its old note
Noted(t, note) ==
  [said EXCEPT !.notes[t] = note,
                !.answers = [q \in Questions |-> IF q = t /\ @[q].kind # "none" THEN [@[q] EXCEPT !.note = note] ELSE @[q]]]
ExitNotes(note) ==
  /\ Reached /\ ~view.collapsed /\ view.noting
  /\ view' = [view EXCEPT !.noting = FALSE] /\ said' = Noted(view.tab, note)
  /\ UNCHANGED <<field, editing, dialog, others, blocked>>

ChooseSubmit ==
  /\ Reached /\ ~view.collapsed /\ ~view.noting /\ view.tab \notin Questions
  /\ view' = [view EXCEPT !.choice = 3 - @]
  /\ UNCHANGED <<said, field, editing, dialog, others, blocked>>
ConfirmSubmit ==
  /\ Reached /\ ~view.collapsed /\ ~view.noting /\ view.tab \notin Questions /\ FinishDialog(view.choice = 2)
  /\ UNCHANGED <<editing, others, blocked>>
Escape ==
  /\ Reached /\ (view.collapsed \/ ~view.noting) /\ FinishDialog(TRUE)
  /\ UNCHANGED <<editing, others, blocked>>
\* The dialog gets out of the way; only a raw listener can bring a hidden overlay back.
HidesAnyway == dialog.overlay   \* mutant
MayHide == dialog.overlay /\ dialog.listener
Collapse ==
  /\ dialog.phase = "open" /\ editing = 0
  /\ view' = [view EXCEPT !.collapsed = ~@]
  /\ dialog' = [dialog EXCEPT !.hidden = MayHide /\ ~view.collapsed]
  /\ UNCHANGED <<said, field, editing, others, blocked>>

-----------------------------------------------------------------------------
\* emitAskUserBlockedEvent, counted over the questionnaires of a session.
AnsweredAll(count) == FALSE   \* mutant: each questionnaire for itself
StillBlocked(count) == count > 0
LoadDialog ==
  /\ dialog.phase = "called" /\ dialog' = [dialog EXCEPT !.phase = "loaded"] /\ blocked' = TRUE
  /\ UNCHANGED <<view, said, field, editing, others>>
LoadDialogFails ==
  /\ dialog.phase = "called" /\ dialog' = [dialog EXCEPT !.phase = "unavailable"]
  /\ UNCHANGED <<view, said, field, editing, others, blocked>>
\* Inline unless another overlay covers the slot, which it leaves to an overlay of its own.
Mount(covered) ==
  /\ dialog.phase = "loaded" /\ ~dialog.aborted
  /\ dialog' = [dialog EXCEPT !.phase = IF covered THEN "yielded" ELSE "open"]
  /\ UNCHANGED <<view, said, field, editing, others, blocked>>
MountOverlay(listener) ==
  /\ dialog.phase = "yielded" /\ ~dialog.aborted
  /\ dialog' = [dialog EXCEPT !.phase = "open", !.overlay = TRUE, !.listener = listener]
  /\ UNCHANGED <<view, said, field, editing, others, blocked>>
Abort ==
  /\ ~dialog.aborted /\ dialog.phase \notin {"returned", "failed", "unavailable"}
  /\ IF dialog.phase = "open"
     THEN /\ dialog' = [dialog EXCEPT !.aborted = TRUE, !.phase = AfterEditor, !.result = "cancelled"]
          /\ view' = FreshView /\ said' = NothingSaved /\ field' = ""
     ELSE dialog' = [dialog EXCEPT !.aborted = TRUE] /\ UNCHANGED <<view, said, field>>
  /\ UNCHANGED <<editing, others, blocked>>
RepliesRegardless == dialog.phase = "done"   \* mutant: the signal is not looked at again
Replies == dialog.phase = "done" /\ ~dialog.aborted
Return ==
  /\ dialog.phase = "done" \/ (dialog.phase \in {"loaded", "yielded"} /\ dialog.aborted)
  /\ dialog' = [dialog EXCEPT !.phase = IF Replies THEN "returned" ELSE "failed", !.listener = FALSE, !.hidden = FALSE]
  /\ blocked' = StillBlocked(others)
  /\ UNCHANGED <<view, said, field, editing, others>>
OtherOpens ==
  /\ others < MaxOthers /\ others' = others + 1 /\ blocked' = TRUE
  /\ UNCHANGED <<view, said, field, editing, dialog>>
Awaiting == IF dialog.phase \in {"called", "returned", "failed", "unavailable"} THEN 0 ELSE 1
OtherCloses ==
  /\ others > 0 /\ others' = others - 1 /\ blocked' = StillBlocked(others - 1 + Awaiting)
  /\ UNCHANGED <<view, said, field, editing, dialog>>

AskInit ==
  /\ view = FreshView /\ said = NothingSaved
  /\ field = "" /\ editing = 0 /\ others = 0 /\ blocked = FALSE
  /\ dialog = [phase |-> "called", overlay |-> FALSE, listener |-> FALSE, hidden |-> FALSE, aborted |-> FALSE, result |-> "none"]

AskNext ==
  \/ \E down \in BOOLEAN : Nav(down)
  \/ \E text \in Texts : TypeText(text)
  \/ ClearText
  \/ EditExternally
  \/ \E text \in Texts : EditorReturns(text)
  \/ EditorFails
  \/ \E step \in {1, SubmitTab - 1} : SwitchTab(step)
  \/ Confirm
  \/ Toggle
  \/ EnterNotes
  \/ \E note \in Texts : ExitNotes(note)
  \/ ChooseSubmit
  \/ ConfirmSubmit
  \/ Escape
  \/ Collapse
  \/ LoadDialog
  \/ LoadDialogFails
  \/ \E covered \in BOOLEAN : Mount(covered)
  \/ \E listener \in BOOLEAN : MountOverlay(listener)
  \/ Abort
  \/ Return
  \/ OtherOpens
  \/ OtherCloses

AskSpec == AskInit /\ [][AskNext]_askVars

-----------------------------------------------------------------------------
AskTypeOK ==
  /\ view.tab \in Tabs /\ view.row \in 1..NextRow /\ view.choice \in 1..2 /\ view.checked \subseteq Options
  /\ {view.typing, view.noting, view.collapsed} \subseteq BOOLEAN
  /\ \A q \in Questions :
       /\ said.answers[q].kind \in {"none"} \union (IF IsMulti(q) THEN {"multi"} ELSE {"option", "custom"})
       /\ {said.answers[q].text, said.answers[q].note} \subseteq Texts /\ said.answers[q].selected \subseteq Options
  /\ said.drafts \in [Questions -> Texts \union {Absent}] /\ said.notes \in [Tabs -> Texts]
  /\ field \in Texts /\ editing \in Questions \union {0} /\ others \in 0..MaxOthers /\ blocked \in BOOLEAN
  /\ dialog \in [phase : {"called", "loaded", "yielded", "open", "closing", "done", "returned", "failed", "unavailable"},
                 overlay : BOOLEAN, listener : BOOLEAN, hidden : BOOLEAN, aborted : BOOLEAN, result : {"none", "submitted", "cancelled"}]

\* What a tab shows is what its question keeps: its boxes, and the text its field holds until it is typed in.
TabsAgree ==
  view.tab \in Questions =>
    /\ view.checked = IF IsMulti(view.tab) THEN said.answers[view.tab].selected ELSE {}
    /\ ~view.typing /\ dialog.phase = "open" => field = Draft(said, view.tab)
\* What was said is what would be submitted: a text left behind in a multi-select question, and the last
\* note of an answered one.
SaidIsSaved ==
  \A q \in Questions :
    /\ IsMulti(q) /\ (q # view.tab \/ ~view.typing) => said.answers[q].text = Draft(said, q)
    /\ said.answers[q].kind # "none" => said.answers[q].note = said.notes[q]
\* The text of an external editor goes to the question it was opened for.
EditorKeepsPlace == editing # 0 /\ dialog.phase = "open" => view.tab = editing /\ view.typing /\ ~view.collapsed
\* "a handle-bearing host without raw input can never hide the overlay into a state nothing can reopen"
\* (state/state.ts:57).
HiddenReopens == dialog.phase = "open" /\ dialog.hidden => dialog.listener /\ view.collapsed
\* A call that is over leaves no editor, listener or hidden overlay, and an aborted one no answer;
\* listeners know whether any question still blocks the session.
CallsEnd ==
  /\ dialog.phase \in {"returned", "failed", "unavailable"} => editing = 0 /\ ~dialog.listener /\ ~dialog.hidden
  /\ dialog.phase = "returned" => ~dialog.aborted
  /\ blocked = (others + Awaiting > 0)
QuestionnaireSound == TabsAgree /\ SaidIsSaved /\ EditorKeepsPlace /\ HiddenReopens /\ CallsEnd
=============================================================================
