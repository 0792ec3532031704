---------------------------- MODULE Configuration ----------------------------
(***************************************************************************)
(* The configuration from talksage.toml to a running session               *)
(* (crates/talksage-config/src/lib.rs; the save commands of                *)
(* crates/talksage-server/src/lib.rs and web/src-tauri/src/lib.rs; what    *)
(* TalkSageService builds from it, crates/talksage-pipeline/src/           *)
(* service.rs).                                                            *)
(*                                                                         *)
(* A configuration is cut down to one field of each kind: a name that must *)
(* not stay blank, a number with a range, a field the environment may      *)
(* override, fields of the scene and the table of plugins.  The file may   *)
(* be edited by hand while the program is down, written half at a crash,   *)
(* or not at all when a write fails.                                       *)
(***************************************************************************)
EXTENDS PluginRegistry, Integers

CONSTANTS
  Nil, Missing, Torn,   \* nothing; no file; a file that is not TOML any more
  Words,                \* what a name in a configuration may be
  HandMade,             \* configurations that a user may write into the file
  Updates,              \* updates that a page may submit, see Apply
  Backends,             \* values of TALKSAGE_ASR_BACKEND, or Nil
  MaxSteps              \* bound: saves and edits by hand in a behaviour

VARIABLES
  program,              \* down or up
  env,                  \* the environment variable of this process
  file,                 \* Missing, Torn or a configuration
  memory,               \* ConfigManager's configuration, Nil while down
  answer,               \* of the last save that was not rejected: ok or error
  edited,               \* the file was once written by hand, or torn
  steps,
  building,             \* a session being built: its request and snapshot
  session               \* the session built, or Nil

configVars == <<program, env, file, memory, answer, edited, steps, building, session>>

Blank == ""
MaxGain == 24
--------------------------------------------------------------------------------
\* scene_params: the analysis plugins that a mode allows; those of the custom
\* mode come from the configuration.
AllowedBy(mode) ==
  CASE mode = "dictation"                     -> {}
    [] mode = "live_translation"              -> {"translator"}
    [] mode \in {"conversation", "lecture"}   -> Analysis \ {"translator"}
    [] mode \in {"bilingual", "meeting"}      -> Analysis

Modes ==
  {"dictation", "live_translation", "conversation", "lecture", "bilingual", "meeting", "custom"}

\* SceneConfig::effective.
Allowed(c) == IF c.mode = "custom" THEN c.custom ELSE AllowedBy(c.mode)

\* Config::default.
DefaultConfig ==
  [engine |-> "paraformer-zh", backend |-> "auto", gain |-> 0, key |-> FALSE,
   kb |-> FALSE, recording |-> TRUE, mode |-> "conversation", custom |-> Analysis,
   plugins |-> [id \in Names |-> Empty]]

Configs ==
  [engine : Words, backend : Words, gain : Int, key : BOOLEAN, kb : BOOLEAN,
   recording : BOOLEAN, mode : Modes, custom : SUBSET Names, plugins : Tables]

Changes ==
  [part : {"engine"}, value : Words] \cup [part : {"gain"}, value : Int]
    \cup [part : {"llm", "recording"}, value : BOOLEAN]
    \cup [part : {"scene"}, value : Modes] \cup [part : {"custom"}, value : SUBSET Names]
    \cup [part : {"plugins"}, id : Names, value : Objects \cup {NotAnObject}]

ASSUME ConfigAssumption ==
  /\ Nil \notin Configs /\ Missing \notin Configs /\ Torn \notin Configs
  /\ HandMade \subseteq Configs /\ Updates \subseteq Changes
  /\ {Blank, "auto", "paraformer-zh"} \subseteq Words
  /\ Backends \subseteq Words \cup {Nil} /\ MaxSteps \in Nat

TakeOr(user, default) == IF user = Blank THEN default ELSE user
Clamp(n) == IF n < 0 THEN 0 ELSE IF n > MaxGain THEN MaxGain ELSE n

\* Mutant: what the custom scene allows is taken from the defaults.
MergeFileForgets(user) ==
  [user EXCEPT !.engine  = TakeOr(@, DefaultConfig.engine),
               !.backend = TakeOr(@, DefaultConfig.backend),
               !.gain    = Clamp(@),
               !.custom  = DefaultConfig.custom]

\* merge_config: the file over the defaults.
MergeFile(user) ==
  [user EXCEPT !.engine  = TakeOr(@, DefaultConfig.engine),
               !.backend = TakeOr(@, DefaultConfig.backend),
               !.gain    = Clamp(@)]

\* apply_env_overrides.
Override(c, value) == IF value = Nil THEN c ELSE [c EXCEPT !.backend = value]

\* ConfigManager::load.
LoadConfig(f, value) == Override(IF f = Missing THEN DefaultConfig ELSE MergeFile(f), value)

\* apply_config_updates, of the part that the update has.  A scene's allow-list
\* is replaced as a whole, an entry of a plugin merged key by key.
Apply(c, u) ==
  CASE u.part = "engine"  -> [c EXCEPT !.engine = u.value]
    [] u.part = "gain"    -> [c EXCEPT !.gain = Clamp(u.value)]
    [] u.part = "llm"     -> [c EXCEPT !.key = u.value]
    [] u.part = "scene"   -> [c EXCEPT !.mode = u.value]
    [] u.part = "custom"  -> [c EXCEPT !.custom = u.value]
    [] u.part = "plugins" -> [c EXCEPT !.plugins = MergeEntry(@, u.id, u.value)]
    [] u.part = "recording" -> [c EXCEPT !.recording = u.value]

\* The headless server's apply_config_updates has no branch for the recording.
ApplyHeadless(c, u) == IF u.part = "recording" THEN c ELSE Apply(c, u)
--------------------------------------------------------------------------------
\* build_llm: none without a key.
HasLlm(c) == c.key

\* build_live_config_with: the registry, with a knowledge base if the request or
\* the configuration names a folder that has texts, and with webhook switched on exactly if
\* the session is stored, over what the session's context can offer.
SessionPlugins(c, llm, request) ==
  LET stored == IF request.persist THEN {"quality_store", "webhook"} ELSE {}
      offered == {"translation_policy"} \cup stored
                   \cup (IF llm THEN {"llm"} ELSE {})
                   \cup (IF request.kb \/ c.kb THEN {"knowledge_base"} ELSE {})
      switch == Only("enabled", IF request.persist THEN "true" ELSE "false")
  IN Registrations(MergeEntry(Overrides(c.plugins, Allowed(c)), "webhook", switch),
                   offered)

\* plugin_registrations: the state of the plugins for the settings page, of a
\* host that stores its sessions.
Preview(c) ==
  Registrations(MergeEntry(Overrides(c.plugins, Allowed(c)),
                           "webhook", Only("enabled", "true")),
                {"translation_policy", "quality_store", "webhook"}
                  \cup (IF HasLlm(c) THEN {"llm"} ELSE {})
                  \cup (IF c.kb THEN {"knowledge_base"} ELSE {}))
--------------------------------------------------------------------------------
ConfigInit ==
  /\ program = "down" /\ env = Nil
  /\ file = Missing /\ memory = Nil
  /\ answer = "none" /\ edited = FALSE /\ steps = 0
  /\ building = Nil /\ session = Nil

\* The adapters load the configuration first; a file that is not TOML is an
\* error that ends them.
Start ==
  /\ program = "down" /\ file # Torn
  /\ program' = "up" /\ answer' = "none"
  /\ \E value \in Backends : env' = value /\ memory' = LoadConfig(file, value)
  /\ UNCHANGED <<file, edited, steps, building, session>>

\* The end of the program, wherever it is.
Down ==
  /\ program' = "down" /\ env' = Nil /\ memory' = Nil
  /\ building' = Nil /\ session' = Nil

Quit == program = "up" /\ Down /\ UNCHANGED <<file, answer, edited, steps>>

\* A user writes the file while the program is down.
EditFile ==
  /\ program = "down" /\ steps < MaxSteps /\ steps' = steps + 1
  /\ file' \in HandMade /\ edited' = TRUE
  /\ UNCHANGED <<program, env, memory, answer, building, session>>

\* What the save commands do before they write: an update of a plugin that does
\* not pass the check is rejected and changes nothing; another is applied to the
\* configuration in memory.
Accepted(u) == u.part = "plugins" => ValidUpdate(u.id, u.value)
Applied(u) == memory' \in {Apply(memory, u), ApplyHeadless(memory, u)}

\* ConfigManager::update holds the write lock over the change and the write.
Save ==
  /\ program = "up" /\ steps < MaxSteps /\ steps' = steps + 1
  /\ \E u \in Updates : Accepted(u) /\ Applied(u)
  /\ file' = memory' /\ answer' = "ok"
  /\ UNCHANGED <<program, env, edited, building, session>>

\* The directory or the file cannot be written, or not to the end: an error,
\* and the change stays in memory.
SaveFails ==
  /\ program = "up" /\ steps < MaxSteps /\ steps' = steps + 1
  /\ \E u \in Updates : Accepted(u) /\ Applied(u)
  /\ file' \in {file, Torn} /\ answer' = "error"
  /\ edited' = (edited \/ file' = Torn)
  /\ UNCHANGED <<program, env, building, session>>

\* The program dies between the truncation of the file and its last byte: it is
\* empty, which reads as the defaults, or ends in the middle.
CrashInSave ==
  /\ program = "up" /\ steps < MaxSteps /\ steps' = steps + 1
  /\ \E u \in Updates : Accepted(u)
  /\ file' \in {DefaultConfig, Torn} /\ edited' = TRUE
  /\ Down /\ UNCHANGED answer

\* build_live_config_with takes its snapshot; build_llm takes one of its own, a
\* moment later.
BuildSession ==
  /\ program = "up" /\ building = Nil /\ session = Nil
  /\ \E request \in [persist : BOOLEAN, kb : BOOLEAN] :
       building' = [config |-> memory, request |-> request]
  /\ UNCHANGED <<program, env, file, memory, answer, edited, steps, session>>

StartSession ==
  /\ building # Nil
  /\ session' = [config  |-> building.config, request |-> building.request,
                 llm     |-> HasLlm(memory),
                 plugins |-> SessionPlugins(building.config, HasLlm(memory),
                                            building.request)]
  /\ building' = Nil
  /\ UNCHANGED <<program, env, file, memory, answer, edited, steps>>

StopSession ==
  /\ session # Nil /\ session' = Nil
  /\ UNCHANGED <<program, env, file, memory, answer, edited, steps, building>>

ConfigNext ==
  \/ Start \/ Quit \/ EditFile
  \/ Save \/ SaveFails \/ CrashInSave
  \/ BuildSession \/ StartSession \/ StopSession

ConfigSpec == ConfigInit /\ [][ConfigNext]_configVars
--------------------------------------------------------------------------------
\* Every variable keeps its type.
ConfigTypeOK ==
  /\ program \in {"down", "up"} /\ (program = "up") = (memory # Nil)
  /\ file \in Configs \cup {Missing, Torn} /\ memory \in Configs \cup {Nil}
  /\ answer \in {"none", "ok", "error"}
  /\ edited \in BOOLEAN /\ steps \in 0..MaxSteps
  /\ (building # Nil \/ session # Nil) => program = "up"

\* A session runs an analysis plugin only if the scene of its snapshot allows
\* it and its own switch is not off, however the entry came into the table:
\* by hand, by the settings page, as an object or not.
SceneDecides ==
  session # Nil =>
    \A id \in Analysis : session.plugins[id] = "active" =>
      LET entry == session.config.plugins[id]
      IN /\ id \in Allowed(session.config)
         /\ IsObject(entry) => entry["enabled"] \in {"true", "absent"}

\* The settings page tells what a session gets: for a stored session without a
\* knowledge base in its request, the state of every plugin is the one that
\* plugin_registrations computes from the same configuration.  They differ
\* only if the key of the language model was changed while it was built.
PreviewIsTrue ==
  session # Nil /\ session.request = [persist |-> TRUE, kb |-> FALSE]
    /\ session.llm = HasLlm(session.config)
  => session.plugins = Preview(session.config)

\* A save that succeeded survives: until a save reports an error, the
\* configuration that the next start would load from the file is the one in
\* memory, except that it has defaults where names were left blank.
SavedIsLoaded ==
  program = "up" /\ answer # "error" /\ file # Missing =>
    /\ file # Torn
    /\ LoadConfig(file, env) = [memory EXCEPT !.engine = TakeOr(@, DefaultConfig.engine)]

\* Updates are checked against the defaults and merged into what is stored:
\* as long as nobody edited the file, no sequence of updates leaves a plugin
\* whose settings are refused when a session starts.
UpdatesKeepPluginsValid ==
  session # Nil /\ ~edited =>
    \A id \in PluginIds : session.plugins[id] # "invalid_config"

\* A session gets the plugins that its scene and the settings give it, and the
\* settings page has told so (builtin.rs:157-210, service.rs:160-175).
SceneIsKept == ConfigTypeOK /\ SceneDecides /\ PreviewIsTrue
================================================================================
