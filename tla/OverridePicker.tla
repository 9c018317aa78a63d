--------------------------- MODULE OverridePicker ---------------------------
(***************************************************************************)
(* The model picker of one conversation in one tab: what it shows, the     *)
(* writes it sends outside the settings queue, the draft a new             *)
(* conversation starts as, the dialog that creates one with a model, and   *)
(* the send that must use the model shown (useConversationModel,           *)
(* modelOverrideWriter, useAdvancedNewConversation, draftStore).           *)
(*                                                                         *)
(* Writes are not queued: two of them may reach the server in either       *)
(* order.  A send waits for the latest write of the picker only.           *)
(***************************************************************************)
EXTENDS Naturals, Sequences

CONSTANTS
  PickerModels,    \* model ids a user picks
  MaxPicks,        \* bound: writes of the picker and the dialog
  MaxPickerSends   \* bound: sends

ASSUME OverridePickerAssumption == MaxPicks \in Nat /\ MaxPickerSends \in Nat

VARIABLES
  row,          \* the stored conversation: [has, model]
  cachedRow,    \* the cached detail, the same shape
  rowFetch,     \* its refetch: [at, answer]
  picker,       \* local state and draft: [seed, value, latest, draft]
  picks,        \* the writes, in order
  pickerSends,  \* the sends, in order
  murky         \* history: writes were stored out of order, an answer was lost,
                \* or one failed that a later one had outrun (Outrun)

pickerVars == <<row, cachedRow, rowFetch, picker, picks, pickerSends, murky>>

Inherit == "inherit"
PickerChoices == PickerModels \cup {Inherit}

StoredRow == [has: BOOLEAN, model: PickerChoices]
NoRow     == [has |-> FALSE, model |-> Inherit]

(* `alone' is history: nothing was under way when the choice was made. *)
PickWrite == [value: PickerChoices, previous: PickerChoices, seed: PickerChoices, asDraft: BOOLEAN, dialog: BOOLEAN,
              at: {"sent", "stored", "done", "failed"}, alone: BOOLEAN]

(* `gate' is the write a send waits for; `body' the model its request      *)
(* carries; `seen' is history: all the picker showed since the press.      *)
PickerSend == [at: {"gated", "posted", "finished"}, gate: 0 .. MaxPicks, body: PickerChoices, used: PickerChoices,
               seen: SUBSET PickerChoices]

Unanswered(writes) == {i \in 1 .. Len(writes) : writes[i].at \in {"sent", "stored"}}

PickerQuiet == Unanswered(picks) = {} /\ rowFetch.at = "idle"

-----------------------------------------------------------------------------
(* What the picker takes from the detail, or from the draft before there   *)
(* is a row; and what it shows: the local choice while that seed stands.   *)
Seeded(detail, p) == IF detail.has THEN detail.model ELSE p.draft
Shown(detail, p)  == IF p.seed = Seeded(detail, p) THEN p.value ELSE Seeded(detail, p)

(* Every change of what is shown is seen by the sends under way. *)
Redraws(detail, p, sends) ==
  /\ cachedRow' = detail /\ picker' = p
  /\ pickerSends' = [k \in 1 .. Len(sends) |->
                       IF sends[k].at = "finished" THEN sends[k]
                       ELSE [sends[k] EXCEPT !.seen = @ \cup {Shown(detail, p)}]]

Refetches == rowFetch' = [at |-> "asked", answer |-> NoRow]

(* onModelChange: shown at once, kept in the draft while there is no row,  *)
(* written at once.                                                        *)
PickModel(next) ==
  /\ Len(picks) < MaxPicks
  /\ LET seed    == Seeded(cachedRow, picker)
         asDraft == ~cachedRow.has
     IN  /\ picks' = Append(picks, [value |-> next, previous |-> Shown(cachedRow, picker), seed |-> seed,
                                    asDraft |-> asDraft, dialog |-> FALSE, at |-> "sent",
                                    alone |-> PickerQuiet])
         /\ Redraws(cachedRow, [seed |-> seed, value |-> next, latest |-> next,
                                draft |-> IF asDraft THEN next ELSE picker.draft], pickerSends)
  /\ UNCHANGED <<row, rowFetch, murky>>

(* create: the dialog sets the draft and writes through a writer of its    *)
(* own, which the send gate does not know.                                 *)
CreateAdvanced(model) ==
  /\ picks = <<>> /\ pickerSends = <<>> /\ ~row.has /\ MaxPicks > 0
  /\ picks' = <<[value |-> model, previous |-> Inherit, seed |-> Inherit, asDraft |-> TRUE, dialog |-> TRUE,
                 at |-> "sent", alone |-> FALSE]>>
  /\ Redraws(cachedRow, [picker EXCEPT !.draft = model], pickerSends)
  /\ UNCHANGED <<row, rowFetch, murky>>

(* setModelOverride creates the row if there is none. *)
StorePick(i) ==
  /\ picks[i].at = "sent"
  /\ row' = [has |-> TRUE, model |-> picks[i].value]
  /\ picks' = [picks EXCEPT ![i].at = "stored"]
  /\ murky' = (murky \/ \E j \in i + 1 .. Len(picks) : picks[j].at # "sent")
  /\ UNCHANGED <<cachedRow, rowFetch, picker, pickerSends>>

PickSucceeds(i) ==
  /\ picks[i].at = "stored"
  /\ picks' = [picks EXCEPT ![i].at = "done"]
  /\ Refetches
  /\ UNCHANGED <<row, cachedRow, picker, pickerSends, murky>>

(* A newer choice stands and owns its own rollback. *)
Superseded(write) == picker.latest # write.value

(* Mutant: a failed choice stays on the screen. *)
PickRolledBackNot(write) == picker

(* The picker after a failed write. *)
PickRolledBack(write) ==
  IF write.dialog \/ Superseded(write) THEN picker
  ELSE [seed |-> write.seed, value |-> write.previous, latest |-> write.previous,
        draft |-> IF write.asDraft THEN write.previous ELSE picker.draft]

(* A later choice is under way; or one was stored and the local choice is  *)
(* this one again, which Superseded, comparing values, takes for its own.  *)
Outrun(i) ==
  \E j \in i + 1 .. Len(picks) :
    picks[j].at \in {"sent", "stored"} \/ (picks[j].at = "done" /\ ~Superseded(picks[i]))

(* Nothing is refetched, and the dialog takes nothing back. *)
PickFails(i) ==
  /\ picks[i].at \in {"sent", "stored"}
  /\ Redraws(cachedRow, PickRolledBack(picks[i]), pickerSends)
  /\ murky' = (murky \/ picks[i].at = "stored" \/ Outrun(i))
  /\ picks' = [picks EXCEPT ![i].at = "failed"]
  /\ UNCHANGED <<row, rowFetch>>

-----------------------------------------------------------------------------
(* The latest write of the picker, answered or not; 0 before the first. *)
LatestPick == LET own == {i \in 1 .. Len(picks) : ~picks[i].dialog}
              IN  IF own = {} THEN 0 ELSE CHOOSE i \in own : \A j \in own : j <= i

PressSend ==
  /\ Len(pickerSends) < MaxPickerSends
  /\ \A k \in 1 .. Len(pickerSends) : pickerSends[k].at = "finished"
  /\ Redraws(cachedRow, picker, Append(pickerSends, [at |-> "gated", gate |-> LatestPick, body |-> Inherit,
                                                     used |-> Inherit, seen |-> {}]))
  /\ UNCHANGED <<row, rowFetch, picks, murky>>

(* Mutant: the request goes out while the write is under way. *)
GateOpenAlways(k) == TRUE

(* beforeSend awaits the latest write, which never rejects. *)
GateOpen(k) == pickerSends[k].gate \notin Unanswered(picks)

PostSend(k) ==
  /\ pickerSends[k].at = "gated" /\ GateOpen(k)
  /\ pickerSends' = [pickerSends EXCEPT ![k].at = "posted", ![k].body = Shown(cachedRow, picker)]
  /\ UNCHANGED <<row, cachedRow, rowFetch, picker, picks, murky>>

(* The server: the row's model, else the request's, else the default.  The *)
(* turn that is stored creates the row; its end refetches the detail.      *)
ServeSend(k) ==
  /\ pickerSends[k].at = "posted"
  /\ pickerSends' = [pickerSends EXCEPT ![k].at = "finished",
                       ![k].used = IF row.has /\ row.model # Inherit THEN row.model ELSE pickerSends[k].body]
  /\ row' = [row EXCEPT !.has = TRUE]
  /\ Refetches
  /\ UNCHANGED <<cachedRow, picker, picks, murky>>

AnswerRow ==
  /\ rowFetch.at = "asked"
  /\ rowFetch' = [at |-> "answered", answer |-> row]
  /\ UNCHANGED <<row, cachedRow, picker, picks, pickerSends, murky>>

LoadRow ==
  /\ rowFetch.at = "answered"
  /\ Redraws(rowFetch.answer, picker, pickerSends)
  /\ rowFetch' = [at |-> "idle", answer |-> NoRow]
  /\ UNCHANGED <<row, picks, murky>>

-----------------------------------------------------------------------------
(* A draft, or a conversation with the default model. *)
OverridePickerInit ==
  /\ row \in [has: BOOLEAN, model: {Inherit}]
  /\ cachedRow = row
  /\ rowFetch = [at |-> "idle", answer |-> NoRow]
  /\ picker = [seed |-> Inherit, value |-> Inherit, latest |-> Inherit, draft |-> Inherit]
  /\ picks = <<>> /\ pickerSends = <<>> /\ murky = FALSE

OverridePickerNext ==
  \/ \E choice \in PickerChoices : PickModel(choice) \/ CreateAdvanced(choice)
  \/ \E i \in 1 .. Len(picks) : StorePick(i) \/ PickSucceeds(i) \/ PickFails(i)
  \/ \E k \in 1 .. Len(pickerSends) : PostSend(k) \/ ServeSend(k)
  \/ PressSend \/ AnswerRow \/ LoadRow

OverridePickerSpec == OverridePickerInit /\ [][OverridePickerNext]_pickerVars

-----------------------------------------------------------------------------
OverridePickerTypeOK ==
  /\ {row, cachedRow, rowFetch.answer} \subseteq StoredRow /\ rowFetch.at \in {"idle", "asked", "answered"}
  /\ picker \in [seed: PickerChoices, value: PickerChoices, latest: PickerChoices, draft: PickerChoices]
  /\ picks \in Seq(PickWrite) /\ pickerSends \in Seq(PickerSend) /\ murky \in BOOLEAN

(* A turn is answered by a model the picker showed between the press and   *)
(* the server's read (beforeSend), provided each choice was made with the  *)
(* one before stored and refetched, none in the dialog, whose write no     *)
(* send waits for, and no answer was lost.                                 *)
SendUsesShownModel ==
  \A k \in 1 .. Len(pickerSends) :
    pickerSends[k].at = "finished" /\ ~murky /\ (\A i \in 1 .. Len(picks) : picks[i].alone) =>
      pickerSends[k].used \in pickerSends[k].seen

(* What the dialog's own write, failed, leaves in the draft until there is *)
(* a row: useAdvancedNewConversation takes nothing back.                   *)
DialogLeft(model) == ~row.has /\ \E i \in 1 .. Len(picks) :
                       picks[i].dialog /\ picks[i].at = "failed" /\ picks[i].value = model

(* With all writes answered and nothing to refetch the picker shows the    *)
(* stored model, also after rollbacks, but not when a later write arrived  *)
(* first or an answer was lost (the local choice hides the refetched row), *)
(* when a write failed under a later one (that one's own rollback brings   *)
(* the failed choice back), or when one failed that a stored one had       *)
(* overtaken and the picker was back at its choice (useConversationModel). *)
(* With no row it may also be at what a failed dialog has left.            *)
QuietPickerAgrees ==
  PickerQuiet /\ ~murky => LET shown == Shown(cachedRow, picker) IN shown = row.model \/ DialogLeft(shown)
=============================================================================
