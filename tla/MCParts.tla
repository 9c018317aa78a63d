------------------------------ MODULE MCParts ------------------------------
(***************************************************************************)
(* One instance for the parts of the system that share no state: a         *)
(* behaviour picks one of them at the start and runs it, the others stay   *)
(* in one initial state.                                                   *)
(***************************************************************************)
EXTENDS ListRows, OverridePicker, ConnectionEditor, ClientLog, Replay, Thinking, KeepAlive

VARIABLE part

partsVars == <<part, rowVars, pickerVars, editorVars, logVars, replayVars, thinkingVars, keepAliveVars>>

(* Three models and the settings about them. *)
MCSetups ==
  {[type |-> "anthropic", family |-> "reasoning", connection |-> "high", global |-> "off", template |-> FALSE],
   [type |-> "azure", family |-> "content", connection |-> "off", global |-> "low", template |-> FALSE],
   [type |-> "openai-compatible", family |-> "plain", connection |-> "low", global |-> "off", template |-> TRUE]}

(* Rows are interchangeable: one that is there at the start. *)
MCFirstRow == CHOOSE id \in SidebarRows : TRUE

PartsInit ==
  /\ part \in {"rows", "picker", "editor", "log", "replay", "thinking", "keepAlive"}
  /\ ClientLogInit /\ ReplayInit /\ KeepAliveInit
  /\ ListRowsInit         /\ MCFirstRow \in DOMAIN storedRows
                          /\ (part # "rows" => DOMAIN storedRows = SidebarRows)
  /\ OverridePickerInit   /\ (part # "picker" => row.has)
  /\ ConnectionEditorInit /\ (part # "editor" => linked.own = NoValue)
  /\ ThinkingInit         /\ (part # "thinking" => setup.type = "azure" /\ storedEffort = "off")

PartsNext ==
  \/ /\ part = "rows" /\ ListRowsNext
     /\ UNCHANGED <<part, pickerVars, editorVars, logVars, replayVars, thinkingVars, keepAliveVars>>
  \/ /\ part = "picker" /\ OverridePickerNext
     /\ UNCHANGED <<part, rowVars, editorVars, logVars, replayVars, thinkingVars, keepAliveVars>>
  \/ /\ part = "editor" /\ ConnectionEditorNext
     /\ UNCHANGED <<part, rowVars, pickerVars, logVars, replayVars, thinkingVars, keepAliveVars>>
  \/ /\ part = "log" /\ ClientLogNext
     /\ UNCHANGED <<part, rowVars, pickerVars, editorVars, replayVars, thinkingVars, keepAliveVars>>
  \/ /\ part = "replay" /\ ReplayNext
     /\ UNCHANGED <<part, rowVars, pickerVars, editorVars, logVars, thinkingVars, keepAliveVars>>
  \/ /\ part = "thinking" /\ ThinkingNext
     /\ UNCHANGED <<part, rowVars, pickerVars, editorVars, logVars, replayVars, keepAliveVars>>
  \/ /\ part = "keepAlive" /\ KeepAliveNext
     /\ UNCHANGED <<part, rowVars, pickerVars, editorVars, logVars, replayVars, thinkingVars>>

PartsSpec == PartsInit /\ [][PartsNext]_partsVars
=============================================================================
