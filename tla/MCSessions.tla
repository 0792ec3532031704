------------------------------ MODULE MCSessions ------------------------------
(***************************************************************************)
(* What outlives a session: a behaviour is one of the sessions of a        *)
(* database, or of the configuration that they are built from.             *)
(***************************************************************************)
EXTENDS Sessions, Configuration, TLC

VARIABLE about          \* what the behaviour is of

allVars == <<about, vars, configVars>>

MCInit ==
  /\ about \in {"sessions", "settings"}
  /\ Init /\ ConfigInit

MCNext ==
  \/ about = "sessions" /\ Next /\ UNCHANGED <<about, configVars>>
  \/ about = "settings" /\ ConfigNext /\ UNCHANGED <<about, vars>>

MCSpec == MCInit /\ [][MCNext]_allVars
--------------------------------------------------------------------------------
\* No setting of the hotwords is distinguished, and nothing here is about liveness.
HotwordsSymmetry == Permutations(Hotwords)

\* Files that were written by hand, and updates, of every kind that the code
\* tells apart.
MCNames == PluginIds \cup {"unheard_of"}
MCKeys == {"enabled", "min_ms", "nudge_enabled", "cooldown_seconds", "min_score", "colour"}

Off == Only("enabled", "false")
Unknown == Only("colour", "number")

MCHandMade ==
  {[DefaultConfig EXCEPT !.engine = Blank, !.gain = MaxGain + 1,
                         !.plugins["term_explainer"] = Unknown],
   [DefaultConfig EXCEPT !.mode = "custom", !.key = TRUE, !.kb = TRUE, !.gain = -1,
                         !.custom = {"translator"},
                         !.plugins["translator"] = NotAnObject]}

MCUpdates ==
  {[part |-> "engine", value |-> Blank], [part |-> "gain", value |-> MaxGain + 1],
   [part |-> "llm", value |-> TRUE], [part |-> "recording", value |-> FALSE],
   [part |-> "custom", value |-> {"translator"}]}
  \cup [part : {"scene"}, value : {"dictation", "custom"}]
  \cup [part : {"plugins"}, id : {"term_explainer", "unheard_of"},
        value : {Off, Unknown, Only("enabled", "true"), NotAnObject}]
================================================================================
