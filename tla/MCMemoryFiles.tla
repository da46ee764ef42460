---------------------------- MODULE MCMemoryFiles ----------------------------
(* What is kept of memories, for TLC: daily logs, compiled notes, source   *)
(* pages, fused activities, importance and the sample of a search share no *)
(* state here, so a behaviour is about one of them.                        *)
EXTENDS DailyLog, CompiledNotes, EntityPages, Fusion, Importance, SearchSample

VARIABLE part

(* Entries of importance 8, 9 and 10, the first two of which fit in place. *)
ThreeNotable == <<8, 9, 10>>

(* Three compiles in one directory, two of them in one server; the second  *)
(* answer's own name is the second choice of the others.                   *)
TwoServers   == <<1, 1, 2>>
OneDirectory == [c \in Call |-> "decisions"]
SharedNames  == <<<<1, 2>>, <<2, 3>>, <<1, 2>>>>

(* The calendar's entries say Calendar, its events are queued as calendar; *)
(* and both sources have one plain file name.                              *)
Labelled  == "Calendar" :> "calendar" @@ "agent" :> "agent"
OneName   == [s \in Name |-> "page"]

(* Two events of one agent's call, and a message and a meeting after it.   *)
Minutes   == <<0, 2, 4, 9>>
Sources   == <<1, 2, 1, 2>>
Agents    == <<"x", "x", NoAgent, NoAgent>>

(* Two texts of one memory, both older than its checkout. *)
Dates     == <<1, 2>>
Ratings   == <<5, 9>>

FilesInit ==
  /\ part \in {"log", "notes", "pages", "fusion", "importance", "sample"}
  /\ LogInit /\ NotesInit /\ PagesInit /\ FusionInit /\ ImportanceInit /\ SampleInit
  /\ part # "notes" => linking
  /\ text.version = 1
  /\ part # "sample" => cap = 1

Others(p) ==
  /\ p # "log" => UNCHANGED logVars
  /\ p # "notes" => UNCHANGED noteVars
  /\ p # "pages" => UNCHANGED pageVars
  /\ p # "fusion" => UNCHANGED fusionVars
  /\ p # "importance" => UNCHANGED importanceVars
  /\ p # "sample" => UNCHANGED sampleVars

FilesNext ==
  /\ UNCHANGED part
  /\ \/ part = "log" /\ LogNext
     \/ part = "notes" /\ NotesNext
     \/ part = "pages" /\ PagesNext
     \/ part = "fusion" /\ FusionNext
     \/ part = "importance" /\ ImportanceNext
     \/ part = "sample" /\ SampleNext
  /\ Others(part)

filesVars ==
  <<part, logVars, noteVars, pageVars, fusionVars, importanceVars, sampleVars>>

FilesSpec ==
  /\ FilesInit /\ [][FilesNext]_filesVars
  /\ part = "notes" => NotesFairness
  /\ part = "pages" => PagesFairness
=============================================================================
