---------------------------- MODULE PluginRegistry ----------------------------
(***************************************************************************)
(* What a session's plugins are made from: the built-in plugins, their     *)
(* default settings, the user's table, the scene's allow-list, what the    *)
(* host can offer, and the registration that results                       *)
(* (crates/talksage-plugins/src/{registry,builtin}.rs and the overrides of *)
(* crates/talksage-pipeline/src/service.rs).                               *)
(*                                                                         *)
(* A JSON object gives every key a value, which is the word for what the   *)
(* code tells apart: "true", "false", "number", or "absent".  An entry of  *)
(* the user's table may also be NotAnObject; one that is not there is the  *)
(* object without keys.                                                    *)
(***************************************************************************)
EXTENDS Naturals, Sequences

CONSTANTS
  NotAnObject,
  Names,                \* the ids that a table or a scene's list may have
  Keys                  \* the keys that an object may have

Objects == [Keys -> {"true", "false", "number", "absent"}]
Tables  == [Names -> Objects \cup {NotAnObject}]

Only(key, value) == [k \in Keys |-> IF k = key THEN value ELSE "absent"]
Empty == [k \in Keys |-> "absent"]
IsObject(v) == v # NotAnObject

\* builtin_plugins: the order of the table is the order of the hooks.
Builtin == <<"short_segment", "cross_stream_dedup", "conversation_metrics",
             "term_explainer", "translator", "brief_retriever",
             "key_point_extractor", "session_quality", "webhook">>
PluginIds == {Builtin[i] : i \in 1..Len(Builtin)}

\* PluginDescriptor: category, capabilities and the plugins that come before.
Analysis == {"term_explainer", "translator", "brief_retriever", "key_point_extractor"}
Capabilities(id) ==
  CASE id = "term_explainer"  -> {"llm"}
    [] id = "translator"      -> {"llm", "translation_policy"}
    [] id = "brief_retriever" -> {"knowledge_base"}
    [] id = "session_quality" -> {"quality_store"}
    [] id = "webhook"         -> {"webhook"}
    [] OTHER                  -> {}

\* default_config: the switch, and the keys that each plugin reads or tolerates.
Default(id) ==
  [k \in Keys |->
     CASE k = "enabled" -> IF id = "webhook" THEN "false" ELSE "true"
       [] k = "min_ms" /\ id = "short_segment" -> "number"
       [] k = "nudge_enabled" /\ id = "conversation_metrics" -> "false"
       [] k = "cooldown_seconds" /\ id \in Analysis \ {"key_point_extractor"} -> "number"
       [] k = "min_score" /\ id = "brief_retriever" -> "number"
       [] OTHER -> "absent"]

ASSUME RegistryAssumption ==
  /\ PluginIds \subseteq Names
  /\ {"enabled", "min_ms", "nudge_enabled", "cooldown_seconds", "min_score"} \subseteq Keys
  /\ NotAnObject \notin Objects
--------------------------------------------------------------------------------
\* The keys of both, with the values of the first where both have one.
Over(user, base) == [k \in Keys |-> IF user[k] # "absent" THEN user[k] ELSE base[k]]

\* PluginConfig::merge: the user's keys over the defaults; a value that is not
\* an object changes nothing.
MergeConfig(base, user) == IF IsObject(user) THEN Over(user, base) ELSE base

TypeOf(v) == IF v \in {"true", "false"} THEN "boolean" ELSE v

\* validate_shape: every key is known and has the type of its default.
Valid(id, cfg) ==
  \A k \in Keys : cfg[k] # "absent" => TypeOf(cfg[k]) = TypeOf(Default(id)[k])

\* Mutant: a patch is only checked for being an object of a known plugin.
ValidUpdateShallow(id, patch) == id \in PluginIds /\ IsObject(patch)

\* validate_plugin_updates judges a patch over the defaults, not over what is
\* stored.
ValidUpdate(id, patch) ==
  id \in PluginIds /\ IsObject(patch) /\ Valid(id, MergeConfig(Default(id), patch))

\* PluginsConfig::merge_entry and the service's merge_override: key by key into
\* the entry, which starts empty if there is none or it is not an object.
MergeEntry(table, id, patch) ==
  IF ~IsObject(patch) THEN table
  ELSE [table EXCEPT ![id] = IF IsObject(@) THEN Over(patch, @) ELSE patch]

\* Mutant: the user's table has the last word.
OverridesUserLast(table, allowed) ==
  [id \in Names |-> IF id \in Analysis \ allowed
                   THEN MergeConfig(Only("enabled", "false"), table[id]) ELSE table[id]]

\* plugin_overrides_for: the user's table, then what the host decides: the
\* shortest segment of the scene, the filter of echoes, and the analysis
\* plugins that the scene does not allow.  The list can only switch off.
Overrides(table, allowed) ==
  LET hosted == MergeEntry(MergeEntry(table, "short_segment", Only("min_ms", "number")),
                           "cross_stream_dedup", Only("enabled", "true"))
  IN [id \in Names |-> IF id \in Analysis \ allowed
                      THEN MergeEntry(hosted, id, Only("enabled", "false"))[id]
                      ELSE hosted[id]]
--------------------------------------------------------------------------------
\* prepare_plugin: what is wrong with the settings comes before the switch, and
\* the switch before what the host lacks.
Prepare(id, overrides, available) ==
  LET cfg == MergeConfig(Default(id), overrides[id])
  IN IF ~Valid(id, cfg)                          THEN "invalid_config"
     ELSE IF cfg["enabled"] # "true"             THEN "disabled"
     ELSE IF ~(Capabilities(id) \subseteq available) THEN "unavailable"
     ELSE "active"

\* build_registry_with_report and evaluate_plugin_registrations.
Registrations(overrides, available) ==
  [id \in PluginIds |-> Prepare(id, overrides, available)]

\* HookRegistry: the hooks of the active plugins, in the order of the table.
Hooks(registrations) == SelectSeq(Builtin, LAMBDA id : registrations[id] = "active")
================================================================================
