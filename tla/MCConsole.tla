----------------------------- MODULE MCConsole -----------------------------
(***************************************************************************)
(* A small instance of five parts of the console that share no state: task *)
(* versions and subtasks, tasks and tags, API keys, the streams of         *)
(* episodes, and the statistics of the dashboard.  A behaviour is one of a *)
(* single part; the others stay as they are at the start.                  *)
(***************************************************************************)
EXTENDS TaskDrafts, TaskCatalog, ApiKeys, EpisodeStream, StatsAggregation

CONSTANTS n1, n2

VARIABLE part

consoleVars == <<part, vars, catalogVars, keyVars, streamVars, statsVars>>

Row(name, tags, categories, sound, deadline) ==
    [name |-> name, tags |-> tags, categories |-> categories,
     sound |-> sound, deadline |-> deadline]

\* Repeated names, a tag in both columns, a faulty row before a sound one of the
\* same name, and a missing deadline.
ImportedFiles ==
    {<<Row(n1, Tags, Tags, TRUE, TRUE), Row(n1, {}, {}, TRUE, TRUE), Row(n2, Tags, {}, TRUE, TRUE)>>,
     <<Row(n1, {}, {}, FALSE, TRUE), Row(n1, {}, Tags, TRUE, TRUE), Row(n2, {}, {}, TRUE, FALSE)>>}

ConsoleInit ==
    /\ part \in {"drafts", "catalog", "keys", "stream", "statistics"}
    /\ Init /\ CatalogInit /\ KeysInit /\ EpisodeStreamInit /\ StatsInit
    /\ part = "stream" \/ ~row.subTasks    \* no two copies of the other parts

\* No run, episode or edit has to come any more.
NobodyAggregates == \A j \in Jobs : batch[j] = Off

ConsoleNext ==
    /\ UNCHANGED part
    /\ \/ part = "drafts"  /\ Next        /\ UNCHANGED <<catalogVars, keyVars, streamVars, statsVars>>
       \/ part = "catalog" /\ CatalogNext /\ UNCHANGED <<vars, keyVars, streamVars, statsVars>>
       \/ part = "keys"    /\ KeysNext    /\ UNCHANGED <<vars, catalogVars, streamVars, statsVars>>
       \/ /\ part = "stream"
          /\ EpisodeStreamNext
          /\ UNCHANGED <<vars, catalogVars, keyVars, statsVars>>
       \/ /\ part = "statistics"
          /\ StatsNext \/ (NobodyAggregates /\ UNCHANGED statsVars)
          /\ UNCHANGED <<vars, catalogVars, keyVars, streamVars>>

ConsoleSpec == ConsoleInit /\ [][ConsoleNext]_consoleVars
=============================================================================
