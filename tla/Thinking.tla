------------------------------ MODULE Thinking ------------------------------
(***************************************************************************)
(* The thinking effort of a turn, decided twice: in the tab, where Alt+T   *)
(* says which effort is next (lib/message/reasoning.ts,                    *)
(* useConversationReasoning), and on the server, where the turn is         *)
(* resolved (chat/resolve-reasoning.ts) and put into the words of its      *)
(* provider (reasoning-rules, reasoning-apply, models/registry).  Both     *)
(* fall through conversation, connection and settings.                     *)
(*                                                                         *)
(* A model is the type of its connection and its family, as the rules tell *)
(* families apart; the settings do not change, and the conversation does   *)
(* not select another model than the settings do.                          *)
(***************************************************************************)
EXTENDS Naturals, Sequences

CONSTANTS Setups, MaxEffortWrites      \* the latter a bound, of the tab's changes

ReasoningEfforts == {"off", "low", "medium", "high"}
EffortOverrides == ReasoningEfforts \cup {"inherit"}

(* `proOnly': the model refuses medium (Gemini 3 Pro); `content': an Azure *)
(* deployment that answers with reasoning_content.                         *)
ThinkingSetup ==
  [type: {"anthropic", "openai", "google", "xai", "openrouter", "azure", "openai-compatible"},
   family: {"plain", "reasoning", "proOnly", "content"},
   connection: EffortOverrides, global: ReasoningEfforts, template: BOOLEAN]

ASSUME ThinkingAssumption == Setups \subseteq ThinkingSetup /\ MaxEffortWrites \in Nat

VARIABLES
  setup,        \* the selected model and the settings about it
  storedEffort, \* reasoning_override of the row
  seedEffort,   \* the override in the detail the tab loaded last
  control,      \* localOverride: [seed, value]
  effortWrites, \* the tab's PATCHes: [value, at]
  sending,      \* a send: [at, on], `on' the write its gate awaits
  spoken,       \* history: the effort Alt+T said last, while it should hold
  ran,          \* the effort the provider was asked for since the last send
  setElsewhere     \* another tab has set the override (at most once)

thinkingVars == <<setup, storedEffort, seedEffort, control, effortWrites, sending, spoken, ran, setElsewhere>>

NoSending == [at |-> "none", on |-> 0]

-----------------------------------------------------------------------------
(* The tab. *)
BaselineEffort == IF setup.connection # "inherit" THEN setup.connection ELSE setup.global

(* The control follows the seed, unless it was used since the seed changed. *)
ShownEffort == IF control.seed = seedEffort THEN control.value ELSE seedEffort

(* Alt+T: off, or back on; what it says is the effort the next turn has. *)
Toggled ==
  LET effective == IF ShownEffort # "inherit" THEN ShownEffort ELSE BaselineEffort
  IN  IF effective # "off" THEN [next |-> "off", announced |-> "off"]
      ELSE IF BaselineEffort # "off" THEN [next |-> "inherit", announced |-> BaselineEffort]
      ELSE [next |-> "medium", announced |-> "medium"]

(* onEffortChange: shown at once, and written without a queue. *)
Chosen(next) ==
  /\ Len(effortWrites) < MaxEffortWrites
  /\ control' = [seed |-> seedEffort, value |-> next]
  /\ effortWrites' = Append(effortWrites, [value |-> next, at |-> "sent"])
  /\ UNCHANGED <<setup, storedEffort, seedEffort, sending, ran, setElsewhere>>

ChangeEffort == \E next \in EffortOverrides : Chosen(next) /\ spoken' = "nothing"

(* Alt+T.  What is said while a send is under way is not about that turn.  *)
ToggleThinking ==
  /\ Chosen(Toggled.next)
  /\ spoken' = IF sending = NoSending THEN Toggled.announced ELSE "nothing"

(* A write lands after a later one: the PATCHes are not ordered. *)
Overtaken(i) == \E j \in i + 1 .. Len(effortWrites) : effortWrites[j].at = "landed"

EffortLands ==
  \E i \in 1 .. Len(effortWrites) :
    /\ effortWrites[i].at = "sent"
    /\ storedEffort' = effortWrites[i].value
    /\ effortWrites' = [effortWrites EXCEPT ![i].at = "landed"]
    /\ spoken' = IF Overtaken(i) THEN "nothing" ELSE spoken
    /\ UNCHANGED <<setup, seedEffort, control, sending, ran, setElsewhere>>

(* The failure is announced; the control stays. *)
EffortFails ==
  \E i \in 1 .. Len(effortWrites) :
    /\ effortWrites[i].at = "sent"
    /\ effortWrites' = [effortWrites EXCEPT ![i].at = "failed"]
    /\ spoken' = IF i = Len(effortWrites) THEN "nothing" ELSE spoken
    /\ UNCHANGED <<setup, storedEffort, seedEffort, control, sending, ran, setElsewhere>>

(* The detail is refetched, after a write or because another tab says so. *)
EffortRefetched ==
  /\ seedEffort # storedEffort
  /\ seedEffort' = storedEffort
  /\ UNCHANGED <<setup, storedEffort, control, effortWrites, sending, spoken, ran, setElsewhere>>

OtherTabChooses ==
  /\ ~setElsewhere /\ setElsewhere' = TRUE
  /\ storedEffort' \in EffortOverrides
  /\ spoken' = "nothing"
  /\ UNCHANGED <<setup, seedEffort, control, effortWrites, sending, ran>>

(* beforeSend awaits the latest write. *)
PressSendThinking ==
  /\ sending = NoSending
  /\ sending' = [at |-> "gated", on |-> Len(effortWrites)]
  /\ ran' = "nothing"
  /\ UNCHANGED <<setup, storedEffort, seedEffort, control, effortWrites, spoken, setElsewhere>>

ThinkingGateOpens ==
  /\ sending.at = "gated"
  /\ sending.on # 0 => effortWrites[sending.on].at # "sent"
  /\ sending' = [sending EXCEPT !.at = "posted"]
  /\ UNCHANGED <<setup, storedEffort, seedEffort, control, effortWrites, spoken, ran, setElsewhere>>

-----------------------------------------------------------------------------
(* The server. *)
ReasoningCapable ==
  \/ setup.type = "openai-compatible"
  \/ setup.type \in {"anthropic", "openai", "openrouter"} /\ setup.family = "reasoning"
  \/ setup.type = "google" /\ setup.family \in {"reasoning", "proOnly"}
  \/ setup.type = "azure" /\ setup.family \in {"reasoning", "content"}

(* Mutant: the connection's effort is not part of the cascade. *)
EffectiveEffortGlobal == IF storedEffort # "inherit" THEN storedEffort ELSE setup.global

EffectiveEffort ==
  IF storedEffort # "inherit" THEN storedEffort
  ELSE IF setup.connection # "inherit" THEN setup.connection
  ELSE setup.global

(* Nothing is said of thinking: the provider's own default applies, which  *)
(* for some families of models is to think.                                *)
NoOptions == [space |-> "none", level |-> "default", template |-> FALSE]

(* The body for an openai-compatible server, filed under the connection's  *)
(* id; a server that thinks by default is told not to.                     *)
LocalOptions(effort) == [space |-> "id", level |-> effort, template |-> setup.template]

RuleOptions(effort) ==
  [space |-> setup.type, template |-> FALSE,
   level |-> IF setup.family = "proOnly" /\ effort = "medium" THEN "high" ELSE effort]

(* resolveReasoning and reasoningProviderOptionsFor; `sends' also shows    *)
(* the reasoning parts to the tab.                                         *)
ReasoningDecision ==
  LET local == setup.type = "openai-compatible"
      effort == EffectiveEffort
  IN  IF effort = "off" THEN [sends |-> FALSE, options |-> IF local THEN LocalOptions("off") ELSE NoOptions]
      ELSE IF ~ReasoningCapable THEN [sends |-> FALSE, options |-> NoOptions]
      ELSE [sends |-> TRUE, options |-> IF local THEN LocalOptions(effort) ELSE RuleOptions(effort)]

(* The namespace of the options that the resolved provider reads; a        *)
(* content deployment is read through the azure.deepseek factory.          *)
ProviderReads == IF setup.type = "openai-compatible" THEN "id" ELSE setup.type

(* POST /chat reads the override and resolves the turn; options nobody     *)
(* reads leave the provider at its default.                                *)
ServeThinking ==
  /\ sending.at = "posted"
  /\ sending' = NoSending
  /\ ran' = IF ReasoningDecision.options.space \in {"none", ProviderReads} THEN ReasoningDecision.options.level
            ELSE "default"
  /\ spoken' = "nothing"
  /\ UNCHANGED <<setup, storedEffort, seedEffort, control, effortWrites, setElsewhere>>

-----------------------------------------------------------------------------
ThinkingInit ==
  /\ setup \in Setups
  /\ storedEffort \in {"inherit", "off"} /\ seedEffort = storedEffort
  /\ control = [seed |-> seedEffort, value |-> seedEffort]
  /\ effortWrites = <<>> /\ sending = NoSending /\ spoken = "nothing" /\ ran = "nothing" /\ setElsewhere = FALSE

ThinkingNext ==
  \/ ChangeEffort \/ ToggleThinking \/ EffortLands \/ EffortFails \/ EffortRefetched \/ OtherTabChooses
  \/ PressSendThinking \/ ThinkingGateOpens \/ ServeThinking

ThinkingSpec == ThinkingInit /\ [][ThinkingNext]_thinkingVars

-----------------------------------------------------------------------------
ThinkingTypeOK ==
  /\ setup \in Setups
  /\ storedEffort \in EffortOverrides /\ seedEffort \in EffortOverrides
  /\ control \in [seed: EffortOverrides, value: EffortOverrides]
  /\ effortWrites \in Seq([value: EffortOverrides, at: {"sent", "landed", "failed"}]) /\ Len(effortWrites) <= MaxEffortWrites
  /\ sending \in [at: {"none", "gated", "posted"}, on: 0 .. MaxEffortWrites]
  /\ spoken \in ReasoningEfforts \cup {"nothing"}
  /\ ran \in ReasoningEfforts \cup {"nothing", "default"}

(* What was announced rests on the latest write: it is not lost, the       *)
(* server's cascade makes of it what was announced, and a send that is     *)
(* under way has waited for it.                                            *)
AnnouncedInv ==
  LET last == effortWrites[Len(effortWrites)]
  IN  spoken # "nothing" =>
        /\ Len(effortWrites) > 0 /\ last.at \in {"sent", "landed"}
        /\ spoken = IF last.value # "inherit" THEN last.value ELSE BaselineEffort
        /\ last.at = "landed" => storedEffort = last.value
        /\ sending.at # "none" => sending.on = Len(effortWrites)
        /\ sending.at = "posted" => last.at # "sent"

(* What a provider is asked for when the user was told `effort': to be off *)
(* when it is a local one, and else nothing, as when it cannot think; high *)
(* for a medium it refuses.                                                *)
Meant(effort) ==
  IF effort = "off" /\ setup.type = "openai-compatible" THEN "off"
  ELSE IF effort = "off" \/ ~ReasoningCapable THEN "default"
  ELSE IF setup.type = "google" /\ setup.family = "proOnly" /\ effort = "medium" THEN "high" ELSE effort

(* The next turn runs at the effort that Alt+T announced, whatever the     *)
(* control showed before: the tab's cascade is the server's, the gate      *)
(* holds the send back until the write has landed, and the options reach   *)
(* the provider; after `off' no provider is asked to think, though only a  *)
(* local one is told not to.  Excepted are a failed write, one that a      *)
(* later one overtook, and a change in another tab.                        *)
AnnouncedIsServed ==
  [][sending.at = "posted" /\ sending' = NoSending /\ spoken # "nothing" => ran' = Meant(spoken)]_thinkingVars
=============================================================================
