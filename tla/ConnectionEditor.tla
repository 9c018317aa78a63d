-------------------------- MODULE ConnectionEditor --------------------------
(***************************************************************************)
(* The connection form of one tab: its draft, the test it runs against the *)
(* provider, and the save, which is a PATCH of the whole connection list   *)
(* followed by a PUT of what is secret (components/connections/, hooks/    *)
(* connections/; the server's connections/ and settings/attach-secrets).   *)
(*                                                                         *)
(* A test sends differences to what the tab shows and the server lays them *)
(* over what it has; a save sends the whole public part.  So the two agree *)
(* only if both end at the same connection.                                *)
(*                                                                         *)
(* Two connections: `own', which the form is about, and `other'.  Names    *)
(* and manual models are left out, a connection has at most one header;    *)
(* the order in which writes are sent is the concern of ClientSettings.    *)
(***************************************************************************)
EXTENDS Naturals, Sequences, SequencesExt

CONSTANTS
  Urls, ApiKeys,    \* base URLs and secret values a user types
  NoValue,
  MaxDraftEdits,    \* bound: edits of the draft
  MaxTests          \* bound: tests

VARIABLES
  linked,      \* the stored connections
  listed,      \* the connections as the tab shows them, secrets as is-set
  form,        \* the open form: [mode, draft, edits, past]
  probes,      \* the tests, in order
  saving,      \* the save under way
  shuffled     \* history: the stored connection changed behind the save

editorVars == <<linked, listed, form, probes, saving, shuffled>>

LinkNames == {"own", "other"}
LinkTypes == {"native", "compatible"}

Optional(S) == S \cup {NoValue, "old"}

(* The text of the URL field: empty, as stored, or typed. *)
UrlTexts == Urls \cup {"", "old"}

(* A stored connection.  Only a compatible one has a header, and the       *)
(* switch for thinking parameters; it must have a URL.                     *)
StoredLink == [type: LinkTypes, url: Optional(Urls), on: BOOLEAN, effort: {"inherit", "low"}, think: BOOLEAN,
               key: Optional(ApiKeys), header: Optional(ApiKeys)]

(* A connection as the tab has it: of a secret, whether it is set. *)
ShownLink == [type: LinkTypes, url: Optional(Urls), on: BOOLEAN, effort: {"inherit", "low"}, think: BOOLEAN,
              key: BOOLEAN, header: BOOLEAN]

(* What is typed is none of the words for what is not. *)
ASSUME ConnectionEditorAssumption ==
  /\ MaxDraftEdits \in Nat /\ MaxTests \in Nat
  /\ {NoValue, "", "old", "keep", "clear"} \cap (Urls \cup ApiKeys) = {}
  /\ NoValue \notin {"", "old", "keep", "clear"} \cup StoredLink \cup ShownLink

(* What a read answers: whether a secret is set. *)
Redacted(link) ==
  IF link = NoValue THEN NoValue
  ELSE [link EXCEPT !.key = (link.key # NoValue), !.header = (link.header # NoValue)]

RedactedAll(links) == [l \in LinkNames |-> Redacted(links[l])]

(* `url' is the text of the field, `key' and `header' what was typed.  A   *)
(* row that was renamed or removed clears the stored header.               *)
EditorDraft == [type: LinkTypes, url: UrlTexts, effort: {"inherit", "low"}, think: BOOLEAN,
          key: Optional(ApiKeys), header: Optional(ApiKeys), row: BOOLEAN]

BlankDraft(type) == [type |-> type, url |-> "", effort |-> "inherit", think |-> TRUE,
                     key |-> NoValue, header |-> NoValue, row |-> FALSE]

DraftOf(shown) == [type |-> shown.type, url |-> IF shown.url = NoValue THEN "" ELSE shown.url,
                   effort |-> shown.effort, think |-> shown.think,
                   key |-> NoValue, header |-> NoValue, row |-> shown.header]

-----------------------------------------------------------------------------
(* The public part a save sends; empty fields are left out. *)
AssemblePublic(draft, shown) ==
  [type |-> draft.type, url |-> IF draft.url = "" THEN NoValue ELSE draft.url,
   on |-> IF shown = NoValue THEN TRUE ELSE shown.on, effort |-> draft.effort,
   think |-> IF draft.type = "compatible" THEN draft.think ELSE TRUE, key |-> NoValue, header |-> NoValue]

(* A typed secret is set, a stored header without a row is cleared, the    *)
(* rest is kept.                                                           *)
AssembleSecret(draft, shown) ==
  [key    |-> IF draft.key # NoValue THEN draft.key ELSE "keep",
   header |-> IF draft.row /\ draft.header # NoValue THEN draft.header
              ELSE IF shown # NoValue /\ shown.header /\ ~draft.row THEN "clear" ELSE "keep"]

NothingSecret == [key |-> "keep", header |-> "keep"]

AppliedTo(stored, change) == CASE change = "keep" -> stored [] change = "clear" -> NoValue [] OTHER -> change

(* Mutant: the secrets of the connection are replaced, not merged. *)
ApplySecretReplaces(link, secret) == [link EXCEPT !.key    = AppliedTo(NoValue, secret.key),
                                                  !.header = AppliedTo(NoValue, secret.header)]

ApplySecret(link, secret) == [link EXCEPT !.key    = AppliedTo(@, secret.key),
                                          !.header = AppliedTo(@, secret.header)]

(* A connection of the list keeps the stored secrets of its id and type. *)
AttachSecrets(public, stored) ==
  IF public = NoValue \/ stored = NoValue \/ public.type # stored.type THEN public
  ELSE [public EXCEPT !.key = stored.key, !.header = stored.header]

(* The other connections of the list are read back from what is shown:     *)
(* the effort and the thinking switch are not among the fields sent, and   *)
(* the schema gives them their defaults.                                   *)
RedactedToPublic(shown) ==
  IF shown = NoValue THEN NoValue
  ELSE [shown EXCEPT !.key = NoValue, !.header = NoValue, !.effort = "inherit", !.think = TRUE,
                     !.url = IF @ = "" THEN NoValue ELSE @]

ConnectionsPatch(name, public) == [l \in LinkNames |-> IF l = name THEN public ELSE RedactedToPublic(listed[l])]

(* Where a request to the provider goes and what it carries.  Only an      *)
(* absent URL is replaced by the provider's own.                           *)
ProbeTarget(link) == [at     |-> IF link.type = "native" /\ link.url = NoValue THEN "default" ELSE link.url,
                      key    |-> link.key,
                      header |-> IF link.type = "compatible" THEN link.header ELSE NoValue]

ValidDraft(draft) == draft.type = "compatible" => draft.url # ""

-----------------------------------------------------------------------------
NoForm == [mode |-> "closed", draft |-> BlankDraft("native"), edits |-> 0, past |-> FALSE]
PastForm == [NoForm EXCEPT !.past = TRUE]

(* One form is opened: a second starts from what is shown, like the first. *)
(* So the answer of a save whose form was cancelled finds none to close;   *)
(* in the code it closes a form that was opened since.                     *)
OpenForm ==
  /\ form = NoForm
  /\ \/ /\ listed["own"] # NoValue
        /\ form' = [mode |-> "edit", draft |-> DraftOf(listed["own"]), edits |-> 0, past |-> FALSE]
     \/ /\ listed["own"] = NoValue
        /\ \E type \in LinkTypes : form' = [mode |-> "add", draft |-> BlankDraft(type), edits |-> 0, past |-> FALSE]
  /\ UNCHANGED <<linked, listed, probes, saving, shuffled>>

(* SecretField, HeadersEditor and the text fields: the user leaves a URL,  *)
(* a key and a header, typed, kept or removed.  The effort and the         *)
(* thinking switch go the way of the URL.                                  *)
EditedDrafts(draft) ==
  UNION {{[draft EXCEPT !.url = url, !.key = key] : key \in {draft.key} \cup ApiKeys} : url \in UrlTexts}

WithHeader(draft) ==
  {draft, [draft EXCEPT !.row = FALSE, !.header = NoValue]}
  \cup {[draft EXCEPT !.row = TRUE, !.header = value] : value \in ApiKeys}

(* Changing the type of a new connection drops its headers. *)
EditDraft ==
  /\ form.mode # "closed" /\ form.edits < MaxDraftEdits
  /\ \E edited \in EditedDrafts(form.draft), type \in LinkTypes :
       /\ form.mode = "edit" => type = edited.type
       /\ \E draft \in (IF type # edited.type THEN {[edited EXCEPT !.type = type, !.row = FALSE, !.header = NoValue]}
                        ELSE IF type = "compatible" THEN WithHeader(edited) ELSE {edited}) :
            form' = [form EXCEPT !.draft = draft, !.edits = @ + 1]
  /\ UNCHANGED <<linked, listed, probes, saving, shuffled>>

-----------------------------------------------------------------------------
(* Mutant: a test of the form sends the public changes only. *)
TestRequestPublic(draft, shown) ==
  [url |-> IF draft.url # (IF shown.url = NoValue THEN "" ELSE shown.url) THEN draft.url ELSE "keep",
   secret |-> NothingSecret]

(* An edit is tested by id: the URL if its text differs from the one       *)
(* shown, the secret changes.                                              *)
TestRequest(draft, shown) ==
  [url |-> IF draft.url # (IF shown.url = NoValue THEN "" ELSE shown.url) THEN draft.url ELSE "keep",
   secret |-> AssembleSecret(draft, shown)]

(* No differences to lay over anything. *)
NothingAsked == [url |-> "keep", secret |-> NothingSecret]

Probe(owner, request, full) ==
  [owner |-> owner, draft |-> form.draft, shown |-> listed["own"], request |-> request,
   full |-> full, base |-> NoValue, target |-> NoValue, at |-> "sent", timers |-> TRUE, silenced |-> FALSE,
   spoken |-> <<"started">>]

(* A new connection is tested as a whole; the button is inert during a     *)
(* test.                                                                   *)
TestDraft ==
  /\ form.mode # "closed" /\ Len(probes) < MaxTests
  /\ \A i \in 1 .. Len(probes) : probes[i].owner = "form" => probes[i].at = "settled"
  /\ probes' = Append(probes,
       IF form.mode = "add"
       THEN Probe("form", NothingAsked,
                  ApplySecret(AssemblePublic(form.draft, NoValue), AssembleSecret(form.draft, NoValue)))
       ELSE Probe("form", TestRequest(form.draft, listed["own"]), NoValue))
  /\ UNCHANGED <<linked, listed, form, saving, shuffled>>

(* A row of the list: the saved connection; nothing silences it. *)
TestRow ==
  /\ form.mode = "closed" /\ listed["own"] # NoValue /\ Len(probes) < MaxTests
  /\ \A i \in 1 .. Len(probes) : probes[i].owner = "row" => probes[i].at = "settled"
  /\ probes' = Append(probes, Probe("row", NothingAsked, NoValue))
  /\ UNCHANGED <<linked, listed, form, saving, shuffled>>

(* resolveConnection: the differences laid over the stored connection. *)
Resolved(probe) ==
  IF probe.full # NoValue THEN probe.full
  ELSE IF linked["own"] = NoValue THEN NoValue
  ELSE ApplySecret([linked["own"] EXCEPT !.url = IF probe.request.url = "keep" THEN @ ELSE probe.request.url],
                   probe.request.secret)

(* What it reaches: nothing without a connection, or with a draft that is  *)
(* none yet.                                                               *)
Reached(probe) ==
  LET link == Resolved(probe)
  IN  IF link = NoValue \/ (probe.full # NoValue /\ ~ValidDraft(probe.draft)) THEN NoValue ELSE ProbeTarget(link)

ServeTest(i) ==
  /\ probes[i].at = "sent"
  /\ probes' = [probes EXCEPT ![i] = [probes[i] EXCEPT !.at = "probed", !.base = linked["own"],
                                                      !.target = Reached(probes[i])]]
  /\ UNCHANGED <<linked, listed, form, saving, shuffled>>

(* Mutant: an answer leaves the timers running. *)
SettledTimersRun(probe) ==
  [probe EXCEPT !.at = "settled", !.spoken = IF probe.silenced THEN @ ELSE Append(@, "outcome")]

(* The timers are cleared before the outcome is spoken, and a silenced     *)
(* test speaks none.                                                       *)
SettledProbe(probe) ==
  [probe EXCEPT !.at = "settled", !.timers = FALSE, !.spoken = IF probe.silenced THEN @ ELSE Append(@, "outcome")]

(* The answer, at any time a failed request, or the abort of the ceiling   *)
(* or of the form.                                                         *)
TestSettles(i) ==
  /\ probes[i].at \in {"sent", "probed"}
  /\ probes' = [probes EXCEPT ![i] = SettledProbe(probes[i])]
  /\ UNCHANGED <<linked, listed, form, saving, shuffled>>

(* The timer fires once; it looks whether the test was silenced. *)
StillRunning(i) ==
  /\ probes[i].timers /\ ~Contains(probes[i].spoken, "running")
  /\ probes' = [probes EXCEPT ![i] = [probes[i] EXCEPT !.spoken = IF probes[i].silenced THEN @ ELSE Append(@, "running"),
                                                      !.timers = ~probes[i].silenced]]
  /\ UNCHANGED <<linked, listed, form, saving, shuffled>>

(* Mutant: a form that closes leaves its test to speak. *)
OwnerGoneUnheard(list) == list

(* The form unmounts: its signal aborts, and silences what is under way. *)
OwnerGone(list) ==
  [i \in 1 .. Len(list) |-> IF list[i].owner = "form" /\ list[i].at # "settled"
                            THEN [list[i] EXCEPT !.silenced = TRUE] ELSE list[i]]

(* Cancel is live during a save, which goes on without the form. *)
CancelForm ==
  /\ form.mode # "closed"
  /\ form' = PastForm
  /\ probes' = OwnerGone(probes)
  /\ UNCHANGED <<linked, listed, saving, shuffled>>

-----------------------------------------------------------------------------
NoSave == [at |-> "idle", draft |-> BlankDraft("native"), shown |-> NoValue, wire |-> [l \in LinkNames |-> NoValue],
           secret |-> NothingSecret, base |-> NoValue, result |-> NoValue, said |-> "nothing"]

(* What the list shows while the save runs. *)
ShownSaving(draft, shown) ==
  LET secret == AssembleSecret(draft, shown)
      SetBy(change, before) == IF change = "keep" THEN shown # NoValue /\ before ELSE change # "clear"
  IN  [AssemblePublic(draft, shown) EXCEPT !.key    = SetBy(secret.key, shown.key),
                                           !.header = SetBy(secret.header, shown.header)]

(* submit: a valid draft, once. *)
PressSave ==
  /\ form.mode # "closed" /\ saving = NoSave /\ ValidDraft(form.draft)
  /\ LET public == AssemblePublic(form.draft, listed["own"])
     IN  saving' = [at |-> "patch", draft |-> form.draft, shown |-> listed["own"],
                    wire |-> ConnectionsPatch("own", public), secret |-> AssembleSecret(form.draft, listed["own"]),
                    base |-> NoValue, result |-> NoValue, said |-> "nothing"]
  /\ listed' = [listed EXCEPT !["own"] = ShownSaving(form.draft, @)]
  /\ UNCHANGED <<linked, form, probes, shuffled>>

(* The service: the list replaces the stored one, secrets stay attached. *)
ServePatch ==
  /\ saving.at = "patch"
  /\ linked' = [l \in LinkNames |-> AttachSecrets(saving.wire[l], linked[l])]
  /\ saving' = [saving EXCEPT !.at = "patched", !.base = linked["own"],
                  !.result = AttachSecrets(saving.wire["own"], linked["own"])]
  /\ shuffled' = FALSE
  /\ UNCHANGED <<listed, form, probes>>

(* Mutant: the save is announced before the secret has an answer. *)
AfterPatchSays(answered) == IF answered THEN "saved" ELSE "nothing"

(* With a secret to write nothing is said yet. *)
AfterPatch(answered) == IF answered /\ saving.secret = NothingSecret THEN "saved" ELSE "nothing"

(* The form closes whatever the answer; the secret follows a success. *)
PatchAnswered ==
  /\ saving.at \in {"patch", "patched"}
  /\ \E answered \in {saving.at = "patched", FALSE} :
       /\ listed' = IF answered THEN RedactedAll(linked) ELSE [listed EXCEPT !["own"] = saving.shown]
       /\ saving' = [saving EXCEPT !.at = IF answered /\ saving.secret # NothingSecret THEN "secret" ELSE "done",
                                   !.said = AfterPatch(answered)]
  /\ form' = PastForm
  /\ probes' = OwnerGone(probes)
  /\ UNCHANGED <<linked, shuffled>>

(* setConnectionSecret: the connection must exist, and take headers. *)
ServeSecret ==
  /\ saving.at = "secret" /\ linked["own"] # NoValue
  /\ saving.secret.header # "keep" => linked["own"].type = "compatible"
  /\ linked' = [linked EXCEPT !["own"] = ApplySecret(@, saving.secret)]
  /\ saving' = [saving EXCEPT !.at = "written", !.result = ApplySecret(linked["own"], saving.secret)]
  /\ UNCHANGED <<listed, form, probes, shuffled>>

SecretAnswered ==
  /\ saving.at \in {"secret", "written"}
  /\ \E answered \in {saving.at = "written", FALSE} :
       /\ listed' = IF answered THEN RedactedAll(linked) ELSE listed
       /\ saving' = [saving EXCEPT !.at = "done", !.said = IF answered THEN "saved" ELSE "failed"]
  /\ UNCHANGED <<linked, form, probes, shuffled>>

-----------------------------------------------------------------------------
(* toggleEnabled of the other row: the same list, the same projection,     *)
(* taken here with its answer and before a form is opened.                 *)
ToggleOther ==
  /\ form = NoForm /\ probes = <<>> /\ listed["other"] # NoValue /\ listed["other"].on
  /\ LET wire == ConnectionsPatch("other", [RedactedToPublic(listed["other"]) EXCEPT !.on = ~@])
     IN  linked' = [l \in LinkNames |-> AttachSecrets(wire[l], linked[l])]
  /\ listed' = RedactedAll(linked')
  /\ UNCHANGED shuffled
  /\ UNCHANGED <<form, probes, saving>>

(* Another tab removes the connection, or gives it another URL or key. *)
ElsewhereLink ==
  /\ ~shuffled /\ linked["own"] # NoValue /\ form # NoForm
  /\ \E link \in {NoValue} \cup {[linked["own"] EXCEPT !.url = url] : url \in Urls}
                          \cup {[linked["own"] EXCEPT !.key = key] : key \in ApiKeys} :
       link # linked["own"] /\ linked' = [linked EXCEPT !["own"] = link]
  /\ shuffled' = TRUE
  /\ UNCHANGED <<listed, form, probes, saving>>

LinkAt(type, url, key, header) ==
  [type |-> type, url |-> url, on |-> TRUE, effort |-> "low", think |-> type = "native", key |-> key, header |-> header]

(* None yet, a native connection with or without a URL, a compatible one   *)
(* with a key and a header.                                                *)
ConnectionEditorInit ==
  /\ linked \in {[own |-> own, other |-> LinkAt("compatible", "old", "old", NoValue)] :
                   own \in {NoValue, LinkAt("native", NoValue, "old", NoValue), LinkAt("native", "old", "old", NoValue),
                            LinkAt("compatible", "old", "old", "old")}}
  /\ listed = RedactedAll(linked)
  /\ form = NoForm
  /\ probes = <<>> /\ saving = NoSave /\ shuffled = FALSE

ConnectionEditorNext ==
  \/ OpenForm \/ EditDraft \/ CancelForm \/ TestDraft \/ TestRow
  \/ \E i \in 1 .. Len(probes) : ServeTest(i) \/ TestSettles(i) \/ StillRunning(i)
  \/ PressSave \/ ServePatch \/ PatchAnswered \/ ServeSecret \/ SecretAnswered
  \/ ToggleOther \/ ElsewhereLink

ConnectionEditorSpec == ConnectionEditorInit /\ [][ConnectionEditorNext]_editorVars

-----------------------------------------------------------------------------
ConnectionEditorTypeOK ==
  /\ \A l \in LinkNames : linked[l] \in StoredLink \cup {NoValue}
  /\ form.draft \in EditorDraft /\ form.mode \in {"closed", "add", "edit"} /\ form.edits \in 0 .. MaxDraftEdits
  /\ \A i \in 1 .. Len(probes) : probes[i].at \in {"sent", "probed", "settled"}
  /\ saving.at \in {"idle", "patch", "patched", "secret", "written", "done"} /\ shuffled \in BOOLEAN

(* What a test of the form reached is what the save of the same draft      *)
(* stores, for secrets kept, set and cleared, although the test lays       *)
(* differences over the stored connection and the save rebuilds it         *)
(* (testRequest.ts): provided the tab showed the stored connection and it  *)
(* did not change in between, and the draft does not clear a stored URL,   *)
(* which the test sends as an empty address and the save leaves out.       *)
TestedIsSaved ==
  \A i \in 1 .. Len(probes) :
    /\ probes[i].owner = "form" /\ probes[i].target # NoValue
    /\ saving.said = "saved" /\ saving.draft = probes[i].draft /\ saving.shown = probes[i].shown
    /\ saving.base = probes[i].base /\ Redacted(saving.base) = saving.shown /\ ~shuffled
    /\ ~(saving.draft.url = "" /\ saving.shown # NoValue /\ saving.shown.url # NoValue)
    => probes[i].target = ProbeTarget(saving.result)

(* Each test says first that it started, and never again; then at most     *)
(* once that it still runs; and one outcome, last, which a test that       *)
(* settled unsilenced has said (runTest: the reassurance never races a     *)
(* settle).                                                                *)
SpokenInTurn(words) ==
  /\ words # <<>> /\ words[1] = "started"
  /\ \A k \in 1 .. Len(words) : /\ words[k] = "started" => k = 1
                                /\ words[k] = "running" => k = 2
                                /\ words[k] = "outcome" => k = Len(words)

TestSpeaksInTurn ==
  \A i \in 1 .. Len(probes) :
    LET words == probes[i].spoken
    IN  /\ SpokenInTurn(words)
        /\ words[Len(words)] = "outcome" => probes[i].at = "settled"
        /\ probes[i].at = "settled" /\ ~probes[i].silenced => words[Len(words)] = "outcome"

(* After its form closed a test says nothing, so that no late outcome      *)
(* contradicts what was said of the save (useOwnerAbortSignal).            *)
ClosedFormSilent ==
  [][\A i \in 1 .. Len(probes) :
       probes[i].owner = "form" /\ form.mode = "closed" => probes'[i].spoken = probes[i].spoken]_editorVars

(* "Saved" is said only when the stored connection has the draft's URL     *)
(* and its typed secrets, both halves, unless it was changed behind the    *)
(* save (handleSubmit).                                                    *)
SavedSaidStored ==
  saving.said = "saved" /\ ~shuffled =>
    /\ linked["own"] # NoValue
    /\ linked["own"].url = (IF saving.draft.url = "" THEN NoValue ELSE saving.draft.url)
    /\ saving.draft.key # NoValue => linked["own"].key = saving.draft.key
    /\ saving.draft.row /\ saving.draft.header # NoValue => linked["own"].header = saving.draft.header

(* What connectionsWire.ts says of the connections a save or a toggle is   *)
(* not about: their public fields pass through, so they stay as they were. *)
SiblingsPassThrough == [][ServePatch => linked'["other"] = linked["other"]]_editorVars
=============================================================================
