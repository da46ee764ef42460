------------------------------ MODULE DailyLog ------------------------------
(***************************************************************************)
(* One daily log and the processes that write it without a lock: entries   *)
(* are appended (createOrAppend), and a collected entry of high importance *)
(* raises the importance in the log's frontmatter (bumpFileImportance), in *)
(* place when the digits fit, else by replacing the file.                  *)
(*                                                                         *)
(* A process does one of these at a time, and every system call on the     *)
(* file is a step: an open file stays the file it was when the path leads  *)
(* to another.                                                             *)
(***************************************************************************)
EXTENDS Naturals, Sequences, FiniteSets

CONSTANTS
  Writer,             \* processes
  Entry,
  FromCollector,      \* entries the collector writes
  ImportanceOf,       \* importance of each entry
  BaseImportance,     \* of a log started by anything less than notable
  MaxFiles, MaxDeaths \* bounds

ASSUME LogAssumption ==
  /\ FromCollector \subseteq Entry
  /\ ImportanceOf \in [Entry -> 1 .. 10] /\ BaseImportance \in 1 .. 10
  /\ {MaxFiles, MaxDeaths} \subseteq Nat

VARIABLES
  path,       \* the file the log's path leads to, or 0
  file,       \* every file there has been: its frontmatter's importance
              \* (0: no frontmatter at its start) and its entries
  at,         \* what each process is doing
  written,    \* history: entries whose write returned
  late,       \* history: appended between a size check and its rename
  stray,      \* history: appended to a file opened before it was replaced
  deaths      \* bound

logVars == <<path, file, at, written, late, stray, deaths>>

Attempts == 3
Notable == 7
Digits(n) == IF n >= 10 THEN 2 ELSE 1
File == [importance : 0 .. 10, entries : SUBSET Entry]
Idle == [step |-> "idle"]
InHand == {at[v].entry : v \in {v \in Writer : at[v] # Idle}}

Goto(w, r) == at' = [at EXCEPT ![w] = r]
Write(f, r) == file' = [file EXCEPT ![f] = r]
UnchangedHistory == UNCHANGED <<written, late, stray>>

-----------------------------------------------------------------------------
(* createOrAppend.                                                         *)

(* Exactly one process creates the log; another opens it to append.        *)
Open(w, e) ==
  /\ at[w] = Idle
  /\ e \notin written \union InHand
  /\ IF path = 0
     THEN /\ Len(file) < MaxFiles
          /\ file' = Append(file, [importance |-> 0, entries |-> {}])
          /\ path' = Len(file) + 1
          /\ Goto(w, [step |-> "create", entry |-> e, on |-> Len(file) + 1])
     ELSE /\ Goto(w, [step |-> "append", entry |-> e, on |-> path])
          /\ UNCHANGED <<file, path>>
  /\ UNCHANGED deaths /\ UnchangedHistory

Heading(e) ==
  IF e \in FromCollector /\ ImportanceOf[e] >= Notable THEN ImportanceOf[e] ELSE BaseImportance

(* What the history keeps of a write to file f. *)
Recorded(w, e, f) ==
  /\ written' = written \union {e}
  /\ late' = IF \E v \in Writer \ {w} : at[v].step = "rename" THEN late \union {e} ELSE late
  /\ stray' = IF f # path THEN stray \union {e} ELSE stray

(* The creator's write is an append too: what came in between stays, and   *)
(* the frontmatter is then not at the start.                               *)
WriteFirst(w) ==
  LET e == at[w].entry  f == at[w].on
  IN  /\ at[w].step = "create"
      /\ Write(f, [importance |-> IF file[f].entries = {} THEN Heading(e) ELSE 0,
                   entries |-> file[f].entries \union {e}])
      /\ Recorded(w, e, f)
      /\ Goto(w, Idle)
      /\ UNCHANGED <<path, deaths>>

WriteEntry(w) ==
  LET e == at[w].entry  f == at[w].on
  IN  /\ at[w].step = "append"
      /\ Write(f, [file[f] EXCEPT !.entries = @ \union {e}])
      /\ Recorded(w, e, f)
      /\ Goto(w, IF e \in FromCollector /\ ImportanceOf[e] >= Notable
                 THEN [step |-> "read", entry |-> e, left |-> Attempts] ELSE Idle)
      /\ UNCHANGED <<path, deaths>>

-----------------------------------------------------------------------------
(* bumpFileImportance.                                                     *)

Again(w, n) == IF n = 0 THEN Idle ELSE [step |-> "read", entry |-> at[w].entry, left |-> n]

(* Read the log and decide: nothing to do, in place, or a new file.        *)
BumpRead(w) ==
  LET e == at[w].entry  now == file[path]
  IN  /\ at[w].step = "read"
      /\ Goto(w, IF now.importance = 0 \/ ImportanceOf[e] <= now.importance THEN Idle
                 ELSE [step |-> IF Digits(ImportanceOf[e]) = Digits(now.importance)
                                THEN "open" ELSE "check",
                       entry |-> e, left |-> at[w].left - 1, seen |-> now])
      /\ UNCHANGED <<path, file, deaths>> /\ UnchangedHistory

BumpOpen(w) ==
  /\ at[w].step = "open"
  /\ Goto(w, [step |-> "compare", entry |-> at[w].entry, left |-> at[w].left,
              seen |-> at[w].seen, on |-> path])
  /\ UNCHANGED <<path, file, deaths>> /\ UnchangedHistory

SameDigits(w) == file[at[w].on].importance = at[w].seen.importance

BumpCompare(w) ==
  /\ at[w].step = "compare"
  /\ Goto(w, IF SameDigits(w)
             THEN [at[w] EXCEPT !.step = "write", !.seen = file[at[w].on]]
             ELSE Again(w, at[w].left))
  /\ UNCHANGED <<path, file, deaths>> /\ UnchangedHistory

BumpWrite(w) ==
  /\ at[w].step = "write"
  /\ Write(at[w].on, [file[at[w].on] EXCEPT !.importance = ImportanceOf[at[w].entry]])
  /\ Goto(w, Idle)
  /\ UNCHANGED <<path, deaths>> /\ UnchangedHistory

(* Mutant: the file is replaced whatever became of it. *)
NoPrecondition(w) == TRUE

(* The size is that of what was read: no entry more, no digit more.        *)
SameSize(w) ==
  /\ file[path].entries = at[w].seen.entries
  /\ Digits(file[path].importance) = Digits(at[w].seen.importance)

(* writeFileAtomic, its precondition: the replacement is on disk. *)
BumpCheck(w) ==
  /\ at[w].step = "check"
  /\ Goto(w, IF SameSize(w) THEN [at[w] EXCEPT !.step = "rename"] ELSE Again(w, at[w].left))
  /\ UNCHANGED <<path, file, deaths>> /\ UnchangedHistory

BumpRename(w) ==
  /\ at[w].step = "rename" /\ Len(file) < MaxFiles
  /\ file' = Append(file, [at[w].seen EXCEPT !.importance = ImportanceOf[at[w].entry]])
  /\ path' = Len(file) + 1
  /\ Goto(w, Idle)
  /\ UNCHANGED deaths /\ UnchangedHistory

(* A process dies: an entry opened is not written, a bump not done.        *)
Die(w) ==
  /\ deaths < MaxDeaths /\ at[w] # Idle
  /\ Goto(w, Idle) /\ deaths' = deaths + 1
  /\ UNCHANGED <<path, file>> /\ UnchangedHistory

LogInit ==
  /\ path = 0 /\ file = <<>> /\ at = [w \in Writer |-> Idle]
  /\ written = {} /\ late = {} /\ stray = {} /\ deaths = 0

LogNext ==
  \E w \in Writer :
    \/ \E e \in Entry : Open(w, e)
    \/ WriteFirst(w) \/ WriteEntry(w)
    \/ BumpRead(w) \/ BumpOpen(w) \/ BumpCompare(w) \/ BumpWrite(w)
    \/ BumpCheck(w) \/ BumpRename(w) \/ Die(w)

-----------------------------------------------------------------------------
(* Properties.                                                             *)

(* The path leads to one of the files, and what processes hold of them     *)
(* exists.                                                                 *)
LogTypeOK ==
  /\ path \in 0 .. Len(file) /\ Len(file) <= MaxFiles
  /\ \A f \in 1 .. Len(file) : file[f] \in File
  /\ InHand \subseteq Entry
  /\ {written, late, stray} \subseteq SUBSET Entry /\ deaths \in 0 .. MaxDeaths
  /\ written \subseteq UNION {file[f].entries : f \in 1 .. Len(file)}

(* An entry whose append returned is in the log for good: neither the      *)
(* creation of the log by two processes nor a bump drops it, but for the   *)
(* instants around a rename (ingestion.ts:521-541, atomic-fs.ts:121-147).  *)
EntriesKept ==
  /\ LogTypeOK
  /\ \A e \in written : e \in file[path].entries \/ e \in late \/ e \in stray
=============================================================================
