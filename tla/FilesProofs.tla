----------------------------- MODULE FilesProofs -----------------------------
(***************************************************************************)
(* Proofs about what is kept of memories, of any number of processes,      *)
(* servers, builds and calls: an entry of a daily log stays in a file; a   *)
(* compiled note stays its call's; no build writes over a person's page;   *)
(* dates stay true and sweeps are once a day; a search's sample is even;   *)
(* events fuse once, in runs. The parts share no state: each theorem is    *)
(* about one of them.                                                      *)
(***************************************************************************)
EXTENDS DailyLog, CompiledNotes, EntityPages, Fusion, Importance, SearchSample,
        FiniteSetTheorems, TLAPS

-----------------------------------------------------------------------------
(* The daily log.                                                          *)

(* What a process can be doing, with the files there are.                  *)
Doing ==
  {Idle} \cup [step : {"create", "append"}, entry : Entry, on : 1 .. Len(file)]
  \cup [step : {"read"}, entry : Entry, left : Nat \ {0}]
  \cup [step : {"open", "check", "rename"}, entry : Entry, left : Nat, seen : File]
  \cup [step : {"compare", "write"}, entry : Entry, left : Nat, seen : File, on : 1 .. Len(file)]

LogParts ==
  /\ file \in Seq(File) /\ Len(file) <= MaxFiles /\ path \in 0 .. Len(file)
  /\ at \in [Writer -> Doing]
  /\ written \subseteq Entry /\ late \subseteq Entry /\ stray \subseteq Entry
  /\ deaths \in 0 .. MaxDeaths
  /\ \A w \in Writer : at[w] # Idle => path # 0
  /\ \A e \in written : \E f \in 1 .. Len(file) : e \in file[f].entries

(* The log has what was written to it, and so has the copy that is about   *)
(* to replace it.                                                          *)
InTheLog ==
  \A e \in written : \/ path # 0 /\ e \in file[path].entries
                     \/ e \in late \cup stray

InTheCopies ==
  \A w \in Writer : at[w].step = "rename"
    => \A e \in written : e \in at[w].seen.entries \/ e \in late \cup stray

LogInv == LogParts /\ InTheLog /\ InTheCopies

LEMMA DoingOf ==
  ASSUME LogInv, NEW w \in Writer
  PROVE  /\ at[w] \in Doing
         /\ at[w].step \in {"create", "append"} => at[w].on \in 1 .. Len(file)
         /\ at[w].step # "idle" => at[w] # Idle /\ path # 0 /\ at[w].entry \in Entry
         /\ at[w].step = "read" => at[w].left # 0
         /\ at[w].step \in {"read", "open", "check", "rename", "compare", "write"} =>
              at[w].left \in Nat
         /\ at[w].step \in {"open", "check", "rename", "compare", "write"} => at[w].seen \in File
         /\ at[w].step \in {"compare", "write"} => at[w].on \in 1 .. Len(file)
  <1>1. at[w] \in Doing
    BY DEF LogInv, LogParts
  <1>. QED
    BY <1>1 DEF LogInv, LogParts, Doing, Idle

LEMMA LogStarts == LogInit => LogInv
  BY LogAssumption DEF LogInit, LogInv, LogParts, InTheLog, InTheCopies, Doing, Idle,
     LogAssumption

(* Steps of a process that touch neither the files nor the histories.      *)
LEMMA GoOnStep ==
  ASSUME LogInv, NEW w \in Writer, NEW r \in Doing, at[w] # Idle, Goto(w, r),
         UNCHANGED <<path, file, written, late, stray>>, deaths' \in 0 .. MaxDeaths,
         r.step = "rename" => file[path].entries = r.seen.entries
  PROVE  LogInv'
  <1>1. Doing' = Doing
    BY DEF Doing
  <1>2. LogParts'
    BY <1>1 DEF LogInv, LogParts, Goto
  <1>3. InTheLog' /\ InTheCopies'
    BY DEF LogInv, LogParts, InTheLog, InTheCopies, Goto
  <1>. QED
    BY <1>2, <1>3 DEF LogInv

(* More files leave what processes are doing well typed.                   *)
LEMMA DoingGrows ==
  ASSUME LogInv, Len(file') \in Nat, Len(file') >= Len(file) PROVE Doing \subseteq Doing'
  BY DEF LogInv, LogParts, Doing

LEMMA OpenStep ==
  ASSUME LogInv, NEW w \in Writer, NEW e \in Entry, Open(w, e) PROVE LogInv'
  <1>1. CASE path = 0
    <2> DEFINE new == [importance |-> 0, entries |-> {}]
    <2>1. new \in File
      BY DEF File
    <2>2. /\ file' = Append(file, new) /\ path' = Len(file) + 1 /\ Len(file) < MaxFiles
          /\ at' = [at EXCEPT ![w] = [step |-> "create", entry |-> e, on |-> Len(file) + 1]]
          /\ UNCHANGED <<deaths, written, late, stray>>
      BY <1>1 DEF Open, Goto, UnchangedHistory
    <2> HIDE DEF new
    <2>3. /\ file' \in Seq(File) /\ Len(file') = Len(file) + 1
          /\ \A f \in 1 .. Len(file) : file'[f] = file[f]
      BY <2>1, <2>2 DEF LogInv, LogParts
    <2>4. at' \in [Writer -> Doing']
      BY <2>2, <2>3, DoingGrows DEF LogInv, LogParts, Doing
    <2>5. LogParts'
      BY <2>2, <2>3, <2>4, LogAssumption DEF LogInv, LogParts, LogAssumption
    <2>6. InTheLog' /\ InTheCopies'
      BY <1>1, <2>2 DEF LogInv, LogParts, InTheLog, InTheCopies
    <2>. QED
      BY <2>5, <2>6 DEF LogInv
  <1>2. CASE path # 0
    <2>1. /\ at' = [at EXCEPT ![w] = [step |-> "append", entry |-> e, on |-> path]]
          /\ UNCHANGED <<file, path, deaths, written, late, stray>>
      BY <1>2 DEF Open, Goto, UnchangedHistory
    <2>2. LogParts'
      BY <1>2, <2>1 DEF LogInv, LogParts, Doing
    <2>3. InTheLog' /\ InTheCopies'
      BY <2>1 DEF LogInv, LogParts, InTheLog, InTheCopies
    <2>. QED
      BY <2>2, <2>3 DEF LogInv
  <1>. QED
    BY <1>1, <1>2

(* A write to a file that keeps what it held.                              *)
LEMMA FileStep ==
  ASSUME LogInv, NEW w \in Writer, NEW f \in 1 .. Len(file), NEW r \in File,
         file[f].entries \subseteq r.entries, Write(f, r)
  PROVE  /\ file' \in Seq(File) /\ Len(file') = Len(file) /\ Doing' = Doing
         /\ file'[f] = r
         /\ \A g \in 1 .. Len(file) : file[g].entries \subseteq file'[g].entries
  BY DEF LogInv, LogParts, Write, Doing

LEMMA EntryStep ==
  ASSUME LogInv, NEW w \in Writer, at[w].step \in {"create", "append"},
         NEW r \in File, r.entries = file[at[w].on].entries \cup {at[w].entry},
         Write(at[w].on, r), Recorded(w, at[w].entry, at[w].on),
         NEW d \in Doing, d.step # "rename", Goto(w, d), UNCHANGED <<path, deaths>>
  PROVE  LogInv'
  <1> DEFINE e == at[w].entry  f == at[w].on
  <1>1. e \in Entry /\ f \in 1 .. Len(file) /\ at[w] # Idle /\ path # 0
    BY DoingOf
  <1>2. /\ file' \in Seq(File) /\ Len(file') = Len(file) /\ Doing' = Doing
        /\ file'[f] = r
        /\ \A g \in 1 .. Len(file) : file[g].entries \subseteq file'[g].entries
    BY <1>1, FileStep
  <1>3. /\ written' = written \cup {e}
        /\ late' = IF \E v \in Writer \ {w} : at[v].step = "rename" THEN late \cup {e} ELSE late
        /\ stray' = IF f # path THEN stray \cup {e} ELSE stray
        /\ at' = [at EXCEPT ![w] = d]
    BY DEF Recorded, Goto
  <1>4. r.entries = file[f].entries \cup {e}
    OBVIOUS
  <1> HIDE DEF e, f
  <1>5. LogParts'
    BY <1>1, <1>2, <1>3, <1>4 DEF LogInv, LogParts
  <1>6. InTheLog'
    BY <1>1, <1>2, <1>3, <1>4 DEF LogInv, LogParts, InTheLog
  <1>7. InTheCopies'
    BY <1>1, <1>3 DEF LogInv, LogParts, InTheCopies
  <1>. QED
    BY <1>5, <1>6, <1>7 DEF LogInv

LEMMA LogSteps == LogInv /\ [LogNext]_logVars => LogInv'
  <1>1. SUFFICES ASSUME LogInv, [LogNext]_logVars PROVE LogInv'
    OBVIOUS
  <1>2. Idle \in Doing /\ Idle.step = "idle" /\ deaths \in 0 .. MaxDeaths
    BY <1>1 DEF LogInv, LogParts, Doing, Idle
  <1>3. ASSUME NEW w \in Writer, NEW e \in Entry, Open(w, e) PROVE LogInv'
    BY <1>1, <1>3, OpenStep
  <1>4. ASSUME NEW w \in Writer, WriteFirst(w) PROVE LogInv'
    <2> DEFINE e == at[w].entry
               f == at[w].on
               r == [importance |-> IF file[f].entries = {} THEN Heading(e) ELSE 0,
                     entries |-> file[f].entries \cup {e}]
    <2>1. e \in Entry /\ f \in 1 .. Len(file) /\ file[f] \in File
      BY <1>1, <1>4, DoingOf DEF WriteFirst, LogInv, LogParts
    <2>2. r \in File
      BY <2>1, LogAssumption DEF File, Heading, LogAssumption
    <2>3. /\ at[w].step = "create" /\ Write(f, r) /\ Recorded(w, e, f) /\ Goto(w, Idle)
          /\ UNCHANGED <<path, deaths>>
      BY <1>4 DEF WriteFirst
    <2>4. r.entries = file[f].entries \cup {e}
      OBVIOUS
    <2> HIDE DEF r
    <2>. QED
      BY <1>1, <1>2, <2>2, <2>3, <2>4, EntryStep
  <1>5. ASSUME NEW w \in Writer, WriteEntry(w) PROVE LogInv'
    <2> DEFINE e == at[w].entry
               f == at[w].on
               r == [file[f] EXCEPT !.entries = @ \cup {e}]
    <2>1. e \in Entry /\ f \in 1 .. Len(file) /\ file[f] \in File
      BY <1>1, <1>5, DoingOf DEF WriteEntry, LogInv, LogParts
    <2>2. r \in File /\ r.entries = file[f].entries \cup {e}
      BY <2>1 DEF File
    <2>3. [step |-> "read", entry |-> e, left |-> Attempts] \in Doing
      BY <2>1 DEF Doing, Attempts
    <2>4. PICK d \in Doing : d.step # "rename" /\ Goto(w, d)
      BY <1>2, <1>5, <2>3 DEF WriteEntry
    <2>5. /\ at[w].step = "append" /\ Write(f, r) /\ Recorded(w, e, f)
          /\ UNCHANGED <<path, deaths>>
      BY <1>5 DEF WriteEntry
    <2> HIDE DEF r
    <2>. QED
      BY <1>1, <2>2, <2>4, <2>5, EntryStep
  <1>6. ASSUME NEW w \in Writer, BumpRead(w) PROVE LogInv'
    <2>1. /\ at[w] # Idle /\ at[w].entry \in Entry /\ at[w].left \in Nat /\ path # 0
          /\ UNCHANGED <<path, file, written, late, stray, deaths>>
      BY <1>1, <1>6, DoingOf DEF BumpRead, UnchangedHistory
    <2>2. file[path] \in File
      BY <1>1, <2>1 DEF LogInv, LogParts
    <2>3. CASE Goto(w, Idle)
      BY <1>1, <1>2, <2>1, <2>3, GoOnStep
    <2>4. CASE \E s \in {"open", "check"} :
                 Goto(w, [step |-> s, entry |-> at[w].entry, left |-> at[w].left - 1,
                          seen |-> file[path]])
      <3>1. at[w].left - 1 \in Nat
        BY <1>1, <1>6, DoingOf DEF BumpRead
      <3>2. PICK d \in Doing : Goto(w, d) /\ d.step # "rename"
        BY <2>1, <2>2, <2>4, <3>1 DEF Doing
      <3>. QED
        BY <1>1, <1>2, <2>1, <3>2, GoOnStep
    <2>. QED
      BY <1>6, <2>3, <2>4 DEF BumpRead
  <1>7. ASSUME NEW w \in Writer, BumpOpen(w) PROVE LogInv'
    <2> DEFINE d == [step |-> "compare", entry |-> at[w].entry, left |-> at[w].left,
                     seen |-> at[w].seen, on |-> path]
    <2>1. /\ at[w] # Idle /\ at[w].entry \in Entry /\ at[w].left \in Nat /\ at[w].seen \in File
          /\ path # 0 /\ UNCHANGED <<path, file, written, late, stray, deaths>> /\ Goto(w, d)
      BY <1>1, <1>7, DoingOf DEF BumpOpen, UnchangedHistory
    <2>2. path \in 1 .. Len(file)
      BY <1>1, <2>1 DEF LogInv, LogParts
    <2>3. d \in Doing /\ d.step = "compare"
      BY <2>1, <2>2 DEF Doing
    <2> HIDE DEF d
    <2>. QED
      BY <1>1, <1>2, <2>1, <2>3, GoOnStep
  <1>8. ASSUME NEW w \in Writer, BumpCompare(w) PROVE LogInv'
    <2> DEFINE d == [at[w] EXCEPT !.step = "write", !.seen = file[at[w].on]]
    <2>1. /\ at[w] # Idle /\ at[w].entry \in Entry /\ at[w].left \in Nat
          /\ at[w].on \in 1 .. Len(file) /\ at[w] \in Doing /\ at[w].step = "compare"
          /\ UNCHANGED <<path, file, written, late, stray, deaths>>
          /\ Goto(w, d) \/ Goto(w, Again(w, at[w].left))
      BY <1>1, <1>8, DoingOf DEF BumpCompare, UnchangedHistory
    <2>2. file[at[w].on] \in File
      BY <1>1, <2>1 DEF LogInv, LogParts
    <2>3. d \in Doing /\ d.step = "write"
      BY <2>1, <2>2 DEF Doing, Idle
    <2>4. Again(w, at[w].left) \in Doing /\ Again(w, at[w].left).step # "rename"
      BY <1>2, <2>1 DEF Again, Doing
    <2> HIDE DEF d
    <2>. QED
      BY <1>1, <1>2, <2>1, <2>3, <2>4, GoOnStep
  <1>9. ASSUME NEW w \in Writer, BumpWrite(w) PROVE LogInv'
    <2> DEFINE f == at[w].on
               r == [file[f] EXCEPT !.importance = ImportanceOf[at[w].entry]]
    <2>1. /\ at[w].entry \in Entry /\ f \in 1 .. Len(file) /\ file[f] \in File
          /\ Write(f, r) /\ at' = [at EXCEPT ![w] = Idle]
          /\ UNCHANGED <<path, written, late, stray, deaths>>
      BY <1>1, <1>9, DoingOf DEF BumpWrite, UnchangedHistory, Goto, LogInv, LogParts
    <2>2. r \in File /\ r.entries = file[f].entries
      BY <2>1, LogAssumption DEF File, LogAssumption
    <2> HIDE DEF f, r
    <2>3. /\ file' \in Seq(File) /\ Len(file') = Len(file) /\ Doing' = Doing
          /\ \A g \in 1 .. Len(file) : file[g].entries \subseteq file'[g].entries
      BY <1>1, <2>1, <2>2, FileStep
    <2>4. LogParts'
      BY <1>1, <1>2, <2>1, <2>3 DEF LogInv, LogParts
    <2>5. InTheLog' /\ InTheCopies'
      BY <1>1, <1>2, <2>1, <2>3 DEF LogInv, LogParts, InTheLog, InTheCopies
    <2>. QED
      BY <2>4, <2>5 DEF LogInv
  <1>10. ASSUME NEW w \in Writer, BumpCheck(w) PROVE LogInv'
    <2> DEFINE d == [at[w] EXCEPT !.step = "rename"]
    <2>1. /\ at[w] # Idle /\ at[w].entry \in Entry /\ at[w].left \in Nat
          /\ at[w] \in Doing /\ at[w].step = "check"
          /\ UNCHANGED <<path, file, written, late, stray, deaths>>
          /\ (SameSize(w) /\ Goto(w, d)) \/ Goto(w, Again(w, at[w].left))
      BY <1>1, <1>10, DoingOf DEF BumpCheck, UnchangedHistory
    <2>2. d \in Doing /\ d.seen = at[w].seen
      BY <2>1 DEF Doing, Idle
    <2>3. Again(w, at[w].left) \in Doing /\ Again(w, at[w].left).step # "rename"
      BY <1>2, <2>1 DEF Again, Doing
    <2> HIDE DEF d
    <2>. QED
      BY <1>1, <1>2, <2>1, <2>2, <2>3, GoOnStep DEF SameSize
  <1>11. ASSUME NEW w \in Writer, BumpRename(w) PROVE LogInv'
    <2> DEFINE new == [at[w].seen EXCEPT !.importance = ImportanceOf[at[w].entry]]
    <2>1. /\ at[w].seen \in File /\ at[w].entry \in Entry /\ at[w].step = "rename"
          /\ Len(file) < MaxFiles /\ file' = Append(file, new) /\ path' = Len(file) + 1
          /\ at' = [at EXCEPT ![w] = Idle]
          /\ UNCHANGED <<written, late, stray, deaths>>
      BY <1>1, <1>11, DoingOf DEF BumpRename, UnchangedHistory, Goto
    <2>2. new \in File /\ new.entries = at[w].seen.entries
      BY <2>1, LogAssumption DEF File, LogAssumption
    <2> HIDE DEF new
    <2>3. /\ file' \in Seq(File) /\ Len(file') = Len(file) + 1
          /\ file'[Len(file) + 1] = new
          /\ \A f \in 1 .. Len(file) : file'[f] = file[f]
      BY <1>1, <2>1, <2>2 DEF LogInv, LogParts
    <2>4. at' \in [Writer -> Doing']
      BY <1>1, <1>2, <2>1, <2>3, DoingGrows DEF LogInv, LogParts
    <2>5. LogParts'
      BY <1>1, <2>1, <2>3, <2>4, LogAssumption DEF LogInv, LogParts, LogAssumption
    <2>6. InTheLog' /\ InTheCopies'
      BY <1>1, <1>2, <2>1, <2>2, <2>3 DEF LogInv, LogParts, InTheLog, InTheCopies
    <2>. QED
      BY <2>5, <2>6 DEF LogInv
  <1>12. ASSUME NEW w \in Writer, Die(w) PROVE LogInv'
    <2>1. deaths' \in 0 .. MaxDeaths
      BY <1>2, <1>12, LogAssumption DEF Die, LogAssumption
    <2>. QED
      BY <1>1, <1>2, <1>12, <2>1, GoOnStep DEF Die, UnchangedHistory
  <1>13. CASE UNCHANGED logVars
    BY <1>1, <1>13 DEF logVars, LogInv, LogParts, Doing, InTheLog, InTheCopies
  <1>. QED
    BY <1>1, <1>3, <1>4, <1>5, <1>6, <1>7, <1>8, <1>9, <1>10, <1>11, <1>12, <1>13 DEF LogNext

(* An entry whose append returned is in the log for good, for any number   *)
(* of processes, entries and files, but for the instants around a rename   *)
(* that the histories late and stray name (ingestion.ts:521-590,           *)
(* atomic-fs.ts:121-147).                                                  *)
THEOREM EntriesStay == LogInit /\ [][LogNext]_logVars => []EntriesKept
  <1>1. LogInv => EntriesKept
    <2>1. SUFFICES ASSUME LogInv PROVE LogTypeOK
      BY DEF LogInv, InTheLog, EntriesKept
    <2>2. InHand \subseteq Entry
      BY <2>1, DoingOf DEF InHand, Doing, LogInv, LogParts, Idle
    <2>. QED
      BY <2>1, <2>2 DEF LogTypeOK, LogInv, LogParts
  <1>. QED
    BY LogStarts, LogSteps, <1>1, PTL

-----------------------------------------------------------------------------
(* Compiled notes: of calls in any number of servers that try any names,   *)
(* at most one is writing a name at a time, and nobody takes a name that   *)
(* holds something.                                                        *)

CallTypeOK ==
  /\ note \in [NoteFile -> Call \cup {Nobody, Torn, Theirs}]
  /\ call \in [Call -> InDoor \cup {"new", "waiting", "refused", "written", "died"}]
  /\ try \in [Call -> Nat]
  /\ \A c \in Call : try[c] \in DOMAIN TriesOf[c]
  /\ linking \in BOOLEAN

(* A file that is open for writing is torn, and its writer is alone.       *)
WritersAlone ==
  /\ \A c \in Call : call[c] = "write" => note[NameOf(c)] = Torn
  /\ \A c, d \in Call :
       call[c] = "write" /\ call[d] = "write" /\ NameOf(c) = NameOf(d) => c = d

NotesDone == \A c \in Call : call[c] \in {"index", "written"} => note[NameOf(c)] = c

NotesInv == CallTypeOK /\ WritersAlone /\ NotesDone

LEMMA NamesAreFiles ==
  ASSUME NEW c \in Call, NEW i \in DOMAIN TriesOf[c]
  PROVE  TriesOf[c][i] \in NoteFile /\ i \in Nat
  BY NotesAssumption DEF NoteFile, NotesAssumption

LEMMA NotesStart == NotesInit => NotesInv
  <1>1. SUFFICES ASSUME NotesInit PROVE NotesInv
    OBVIOUS
  <1>2. \A c \in Call : 1 \in DOMAIN TriesOf[c]
    BY NotesAssumption DEF NotesAssumption
  <1>. QED
    BY <1>1, <1>2 DEF NotesInit, NotesInv, CallTypeOK, WritersAlone, NotesDone, InDoor

(* Steps that leave the notes alone and move no call into a name.          *)
LEMMA NoNoteStep ==
  ASSUME NotesInv, note' = note, linking' = linking,
         call' \in [Call -> InDoor \cup {"new", "waiting", "refused", "written", "died"}],
         try' \in [Call -> Nat],
         \A c \in Call : try'[c] \in DOMAIN TriesOf[c],
         \A c \in Call : \/ call'[c] \notin {"write", "index", "written"}
                         \/ try'[c] = try[c] /\ call'[c] = call[c]
                         \/ try'[c] = try[c] /\ call[c] = "index" /\ call'[c] = "written"
  PROVE  NotesInv'
  <1>1. CallTypeOK'
    BY DEF NotesInv, CallTypeOK
  <1>2. \A c \in Call : call'[c] \in {"write", "index", "written"} => NameOf(c)' = NameOf(c)
    BY DEF NameOf
  <1>3. \A c \in Call : call'[c] = "write" => call[c] = "write"
    OBVIOUS
  <1>4. \A c \in Call : call'[c] \in {"index", "written"} => call[c] \in {"index", "written"}
    OBVIOUS
  <1>5. WritersAlone'
    BY <1>2, <1>3 DEF NotesInv, WritersAlone
  <1>6. NotesDone'
    BY <1>2, <1>4 DEF NotesInv, NotesDone
  <1>. QED
    BY <1>1, <1>5, <1>6 DEF NotesInv

LEMMA CreateStep ==
  ASSUME NotesInv, NEW c \in Call, Create(c) PROVE NotesInv'
  <1> DEFINE f == NameOf(c)
             v == IF linking THEN c ELSE Torn
             n == IF linking THEN "index" ELSE "write"
  <1>1. /\ call[c] = "create" /\ note[f] = Nobody
        /\ note' = [note EXCEPT ![f] = v]
        /\ call' = [call EXCEPT ![c] = n]
        /\ try' = try /\ linking' = linking
    BY DEF Create, NameTaken, Goes
  <1>2. f \in NoteFile
    BY NamesAreFiles DEF NotesInv, CallTypeOK, NameOf
  <1>3. \A d \in Call : NameOf(d)' = NameOf(d) /\ NameOf(d) \in NoteFile
    BY <1>1, NamesAreFiles DEF NotesInv, CallTypeOK, NameOf
  <1>4. \A d \in Call \ {c} : call'[d] = call[d]
    BY <1>1 DEF NotesInv, CallTypeOK
  <1>5. call'[c] = n /\ note'[f] = v
    BY <1>1, <1>2 DEF NotesInv, CallTypeOK
  <1>6. \A d \in Call \ {c} : call[d] \in {"write", "index", "written"}
                                => NameOf(d) # f /\ note'[NameOf(d)] = note[NameOf(d)]
    BY <1>1, <1>2, <1>3, NotesAssumption
       DEF NotesInv, CallTypeOK, WritersAlone, NotesDone, NotesAssumption
  <1>7. CallTypeOK'
    BY <1>1, <1>2 DEF NotesInv, CallTypeOK, InDoor
  <1>8. WritersAlone'
    BY <1>3, <1>4, <1>5, <1>6 DEF NotesInv, WritersAlone
  <1>9. NotesDone'
    BY <1>3, <1>4, <1>5, <1>6 DEF NotesInv, NotesDone
  <1>. QED
    BY <1>7, <1>8, <1>9 DEF NotesInv

LEMMA WriteBodyStep ==
  ASSUME NotesInv, NEW c \in Call, WriteBody(c) PROVE NotesInv'
  <1> DEFINE f == NameOf(c)
  <1>1. /\ call[c] = "write" /\ note[f] = Torn
        /\ note' = [note EXCEPT ![f] = c]
        /\ call' = [call EXCEPT ![c] = "index"]
        /\ try' = try /\ linking' = linking
    BY DEF WriteBody, Goes, NotesInv, WritersAlone
  <1>2. \A d \in Call : NameOf(d)' = NameOf(d) /\ NameOf(d) \in NoteFile
    BY <1>1, NamesAreFiles DEF NotesInv, CallTypeOK, NameOf
  <1>3. \A d \in Call \ {c} : call'[d] = call[d]
    BY <1>1 DEF NotesInv, CallTypeOK
  <1>4. call'[c] = "index" /\ note'[f] = c
    BY <1>1, <1>2 DEF NotesInv, CallTypeOK
  <1>5. \A d \in Call \ {c} : call[d] \in {"write", "index", "written"}
                                => NameOf(d) # f /\ note'[NameOf(d)] = note[NameOf(d)]
    BY <1>1, <1>2, NotesAssumption
       DEF NotesInv, CallTypeOK, WritersAlone, NotesDone, NotesAssumption
  <1>6. CallTypeOK'
    BY <1>1, <1>2 DEF NotesInv, CallTypeOK, InDoor
  <1>7. WritersAlone'
    BY <1>2, <1>3, <1>4, <1>5 DEF NotesInv, WritersAlone
  <1>8. NotesDone'
    BY <1>2, <1>3, <1>4, <1>5 DEF NotesInv, NotesDone
  <1>. QED
    BY <1>6, <1>7, <1>8 DEF NotesInv

LEMMA OthersWriteStep ==
  ASSUME NotesInv, NEW f \in NoteFile, OthersWrite(f) PROVE NotesInv'
  <1>1. /\ note[f] = Nobody /\ note' = [note EXCEPT ![f] = Theirs]
        /\ UNCHANGED <<call, try, linking>>
    BY DEF OthersWrite
  <1>2. \A d \in Call : NameOf(d)' = NameOf(d) /\ NameOf(d) \in NoteFile
    BY <1>1, NamesAreFiles DEF NotesInv, CallTypeOK, NameOf
  <1>3. \A d \in Call : call[d] \in {"write", "index", "written"}
                          => note'[NameOf(d)] = note[NameOf(d)]
    BY <1>1, <1>2, NotesAssumption
       DEF NotesInv, CallTypeOK, WritersAlone, NotesDone, NotesAssumption
  <1>. QED
    BY <1>1, <1>2, <1>3 DEF NotesInv, CallTypeOK, WritersAlone, NotesDone

LEMMA NotesStep == NotesInv /\ [NotesNext]_noteVars => NotesInv'
  <1>1. SUFFICES ASSUME NotesInv, [NotesNext]_noteVars PROVE NotesInv'
    OBVIOUS
  <1> DEFINE Places == InDoor \cup {"new", "waiting", "refused", "written", "died"}
  <1>2. ASSUME NEW c \in Call, AwaitDoor(c) PROVE NotesInv'
    BY <1>1, <1>2, NoNoteStep DEF AwaitDoor, Goes, NotesInv, CallTypeOK
  <1>3. ASSUME NEW c \in Call, Enter(c) PROVE NotesInv'
    <2>1. PICK i \in DOMAIN TriesOf[c] : try' = [try EXCEPT ![c] = i]
      BY <1>3 DEF Enter, Untaken
    <2>2. i \in Nat
      BY NamesAreFiles
    <2>3. call' = [call EXCEPT ![c] = "similar"] /\ note' = note /\ linking' = linking
      BY <1>3 DEF Enter, Goes
    <2>4. \A d \in Call : try'[d] \in DOMAIN TriesOf[d]
      BY <1>1, <2>1 DEF NotesInv, CallTypeOK
    <2>. QED
      BY <1>1, <2>1, <2>2, <2>3, <2>4, NoNoteStep DEF NotesInv, CallTypeOK, InDoor
  <1>4. ASSUME NEW c \in Call, EnterFails(c) PROVE NotesInv'
    BY <1>1, <1>4, NoNoteStep DEF EnterFails, Goes, NotesInv, CallTypeOK
  <1>5. ASSUME NEW c \in Call, FindSimilar(c) PROVE NotesInv'
    <2>1. call' = [call EXCEPT ![c] = "create"] \/ call' = [call EXCEPT ![c] = "refused"]
      BY <1>5 DEF FindSimilar, Goes
    <2>2. note' = note /\ linking' = linking /\ try' = try
      BY <1>5 DEF FindSimilar
    <2>. QED
      BY <1>1, <2>1, <2>2, NoNoteStep DEF NotesInv, CallTypeOK, InDoor
  <1>6. ASSUME NEW c \in Call, NextName(c) PROVE NotesInv'
    <2>1. note' = note /\ linking' = linking /\ call[c] = "create"
      BY <1>6 DEF NextName
    <2>2. CASE try[c] < Len(TriesOf[c])
      <3>1. call' = call /\ try' = [try EXCEPT ![c] = try[c] + 1]
        BY <1>6, <2>2 DEF NextName
      <3>2. try[c] + 1 \in DOMAIN TriesOf[c] /\ try[c] \in Nat
        BY <1>1, <2>2, NotesAssumption DEF NotesInv, CallTypeOK, NotesAssumption
      <3>3. \A d \in Call : try'[d] \in DOMAIN TriesOf[d]
        BY <1>1, <3>1, <3>2 DEF NotesInv, CallTypeOK
      <3>. QED
        BY <1>1, <2>1, <3>1, <3>2, <3>3, NoNoteStep DEF NotesInv, CallTypeOK
    <2>3. CASE ~(try[c] < Len(TriesOf[c]))
      <3>1. try' = try /\ call' = [call EXCEPT ![c] = "refused"]
        BY <1>6, <2>3 DEF NextName, Goes
      <3>. QED
        BY <1>1, <2>1, <3>1, NoNoteStep DEF NotesInv, CallTypeOK
    <2>. QED
      BY <2>2, <2>3
  <1>7. ASSUME NEW c \in Call, Answer(c) PROVE NotesInv'
    BY <1>1, <1>7, NoNoteStep DEF Answer, Goes, NotesInv, CallTypeOK
  <1>8. ASSUME NEW c \in Call, CreateThrows(c) PROVE NotesInv'
    BY <1>1, <1>8, NoNoteStep DEF CreateThrows, Goes, NotesInv, CallTypeOK
  <1>9. ASSUME NEW s \in {ServerOf[c] : c \in Call}, ServerDies(s) PROVE NotesInv'
    <2>1. \A c \in Call : call'[c] = call[c] \/ call'[c] = "died"
      BY <1>9 DEF ServerDies
    <2>2. call' \in [Call -> Places]
      BY <1>1, <1>9 DEF ServerDies, NotesInv, CallTypeOK
    <2>3. note' = note /\ try' = try /\ linking' = linking
      BY <1>9 DEF ServerDies
    <2>. QED
      BY <1>1, <2>1, <2>2, <2>3, NoNoteStep DEF NotesInv, CallTypeOK
  <1>10. CASE UNCHANGED noteVars
    BY <1>1, <1>10 DEF noteVars, NotesInv, CallTypeOK, WritersAlone, NotesDone, NameOf
  <1>. QED
    BY <1>1, <1>2, <1>3, <1>4, <1>5, <1>6, <1>7, <1>8, <1>9, <1>10,
       CreateStep, WriteBodyStep, OthersWriteStep DEF NotesNext, Proceed

(* A compiled note is whole from its creation and stays its call's: no     *)
(* compile of this server or another takes its name, with hard links or    *)
(* without, whatever dies (tools.ts:1453-1482, atomic-fs.ts:149-157).      *)
THEOREM CompiledNotesStay == NotesInit /\ [][NotesNext]_noteVars => []NotesKept
  <1>1. NotesInv => NotesKept
    BY DEF NotesInv, NotesDone, NotesKept
  <1>. QED
    BY NotesStart, NotesStep, <1>1, PTL

-----------------------------------------------------------------------------
(* Entity pages.                                                           *)

GeneratedPage == [owner : {"generated"}, source : Name, events : Nat]
HumanPage == [owner : {"human"}, source : Name \cup {NoSource}]

(* What a build is about to write over what it read: never a human's page. *)
PageWrite == [file : PageFile, text : GeneratedPage, before : {NoPage} \cup GeneratedPage]

BuildAt(step, writing) ==
  [step : step, seen : [Name -> Nat], scheduled : BOOLEAN,
   touched : SUBSET {QueuedAs[s] : s \in Name}, todo : SUBSET Name, writing : writing]

PagesParts ==
  /\ logged \in [Name -> Nat] /\ ingested \subseteq Name
  /\ queue \subseteq {QueuedAs[s] : s \in Name}
  /\ page \in [PageFile -> {NoPage} \cup GeneratedPage \cup HumanPage]
  /\ build \in [Builder -> {NoBuild} \cup BuildAt({"next"}, {Nothing})
                                     \cup BuildAt({"check", "rename"}, PageWrite)]

(* A page taken over after the precondition of a rename is in its window.  *)
TakenInWindow ==
  \A b \in Builder : \A f \in PageFile : Renames(b, f) /\ HasHuman(f) => f \in inWindow

PagesInv == PagesParts /\ TakenInWindow

LEMMA OwnersDiffer ==
  /\ NoPage.owner # "human" /\ NoPage.owner # "generated" /\ NoBuild.step = "none"
  /\ \A p \in GeneratedPage : p.owner = "generated"
  /\ \A p \in HumanPage : p.owner = "human"
  BY DEF NoPage, NoBuild, GeneratedPage, HumanPage

LEMMA FileOf == ASSUME NEW s \in Name PROVE FileFor(s) \in PageFile
  BY DEF FileFor, PageFile

(* A step that leaves the pages and the window alone, and begins no        *)
(* rename.                                                                 *)
LEMMA NoRename ==
  ASSUME PagesInv, PagesParts', UNCHANGED <<page, inWindow>>,
         \A b \in Builder : build'[b] = build[b] \/ build'[b].step # "rename"
  PROVE  PagesInv'
  BY DEF PagesInv, TakenInWindow, Renames, HasHuman

LEMMA PagesStart == PagesInit => PagesInv
  <1> SUFFICES ASSUME PagesInit PROVE PagesInv
    OBVIOUS
  <1>1. \A b \in Builder : build[b].step # "rename"
    BY OwnersDiffer DEF PagesInit
  <1>. QED
    BY <1>1 DEF PagesInit, PagesInv, PagesParts, TakenInWindow, Renames

LEMMA LogEntryStep == ASSUME PagesInv, NEW s \in Name, LogEntry(s) PROVE PagesInv'
  <1>1. /\ logged' = [logged EXCEPT ![s] = logged[s] + 1]
        /\ ingested' \in {ingested, ingested \union {s}}
        /\ UNCHANGED <<queue, page, build>>
    BY DEF LogEntry
  <1>2. logged' \in [Name -> Nat]
    BY <1>1 DEF PagesInv, PagesParts
  <1>3. PagesParts'
    BY <1>1, <1>2 DEF PagesInv, PagesParts
  <1>. QED
    BY <1>1, <1>3, NoRename DEF LogEntry

LEMMA EnqueueStep == ASSUME PagesInv, Enqueue \/ BecomesDue PROVE PagesInv'
  <1>1. PagesParts'
    BY DEF PagesInv, PagesParts, Enqueue, BecomesDue
  <1>. QED
    BY <1>1, NoRename DEF Enqueue, BecomesDue

LEMMA BuildBegins ==
  ASSUME PagesInv, NEW b \in Builder, NEW which \in SUBSET Name, NEW scheduled \in BOOLEAN,
         NEW touched \in SUBSET {QueuedAs[s] : s \in Name},
         Sets(b, Building("next", which, scheduled, touched)),
         UNCHANGED <<logged, ingested, page, inWindow>>, queue' \subseteq queue
  PROVE  PagesInv'
  <1>1. Building("next", which, scheduled, touched) \in BuildAt({"next"}, {Nothing})
    BY DEF PagesInv, PagesParts, Building, BuildAt
  <1>2. PagesParts'
    BY <1>1 DEF PagesInv, PagesParts, Sets
  <1>3. \A c \in Builder : build'[c] = build[c] \/ build'[c].step # "rename"
    BY <1>1 DEF PagesInv, PagesParts, Sets, BuildAt
  <1>. QED
    BY <1>2, <1>3, NoRename

LEMMA StartStep ==
  ASSUME PagesInv, StartCompile \/ \E b \in Builder : StartEntities(b) PROVE PagesInv'
  <1>1. CASE StartCompile
    <2>1. Chosen(queue) \in SUBSET Name /\ Primary \in Builder
      BY PagesAssumption DEF Chosen, PagesAssumption
    <2>2. /\ Sets(Primary, Building("next", Chosen(queue), TRUE, queue))
          /\ UNCHANGED <<logged, ingested, page, inWindow>> /\ queue' \subseteq queue
          /\ queue \in SUBSET {QueuedAs[s] : s \in Name}
      BY <1>1 DEF StartCompile, PagesInv, PagesParts
    <2>. QED
      BY <2>1, <2>2, BuildBegins
  <1>2. ASSUME NEW b \in Builder, StartEntities(b) PROVE PagesInv'
    <2>1. /\ Sets(b, Building("next", Name, FALSE, {}))
          /\ UNCHANGED <<logged, ingested, queue, page, inWindow>>
          /\ Name \in SUBSET Name /\ {} \in SUBSET {QueuedAs[s] : s \in Name}
      BY <1>2 DEF StartEntities
    <2>. QED
      BY <2>1, BuildBegins
  <1>. QED
    BY <1>1, <1>2

(* A step of one build that leaves the rest alone.                         *)
LEMMA BuildGoesOn ==
  ASSUME PagesInv, NEW b \in Builder, NEW r, Sets(b, r),
         r \in {NoBuild} \cup BuildAt({"next"}, {Nothing}) \cup BuildAt({"check"}, PageWrite),
         UNCHANGED <<logged, queue, page, inWindow>>, ingested' \subseteq ingested
  PROVE  PagesInv'
  <1>1. r \in {NoBuild} \cup BuildAt({"next"}, {Nothing}) \cup BuildAt({"check", "rename"}, PageWrite)
    BY DEF BuildAt
  <1>2. r.step # "rename"
    BY OwnersDiffer DEF BuildAt
  <1>3. PagesParts'
    BY <1>1 DEF PagesInv, PagesParts, Sets
  <1>4. \A c \in Builder : build'[c] = build[c] \/ build'[c].step # "rename"
    BY <1>2 DEF PagesInv, PagesParts, Sets
  <1>. QED
    BY <1>3, <1>4, NoRename

LEMMA ReadPageStep == ASSUME PagesInv, NEW b \in Builder, ReadPage(b) PROVE PagesInv'
  <1> DEFINE s == CHOOSE t \in build[b].todo : TRUE
             new == Rollup(s, build[b].seen[s])
             write == [file |-> FileFor(s), text |-> new, before |-> page[FileFor(s)]]
             skipped == [build[b] EXCEPT !.todo = @ \ {s}]
             wrote == [build[b] EXCEPT !.todo = @ \ {s}, !.step = "check", !.writing = write]
  <1>1. build[b] \in BuildAt({"next"}, {Nothing})
    BY OwnersDiffer DEF PagesInv, PagesParts, ReadPage, BuildAt
  <1>2. s \in Name /\ FileFor(s) \in PageFile /\ build[b].seen[s] \in Nat
    <2>1. s \in build[b].todo
      BY DEF ReadPage
    <2>. QED
      BY <1>1, <2>1, FileOf DEF BuildAt
  <1>3. new \in GeneratedPage
    BY <1>2 DEF Rollup, GeneratedPage
  <1>4. CASE HasHuman(FileFor(s)) \/ page[FileFor(s)] = new
    <2>1. Sets(b, skipped)
      BY <1>4 DEF ReadPage
    <2>2. skipped \in BuildAt({"next"}, {Nothing})
      BY <1>1 DEF BuildAt
    <2>. QED
      BY <2>1, <2>2, BuildGoesOn DEF ReadPage
  <1>5. CASE ~(HasHuman(FileFor(s)) \/ page[FileFor(s)] = new)
    <2>1. Sets(b, wrote)
      BY <1>5 DEF ReadPage
    <2>2. write \in PageWrite
      BY <1>2, <1>3, <1>5, OwnersDiffer DEF PageWrite, PagesInv, PagesParts, HasHuman
    <2> HIDE DEF s, new, write
    <2>3. wrote \in BuildAt({"check"}, PageWrite)
      BY <1>1, <2>2 DEF BuildAt
    <2>. QED
      BY <2>1, <2>3, BuildGoesOn DEF ReadPage
  <1>. QED
    BY <1>4, <1>5

LEMMA BackInLoop ==
  ASSUME PagesInv, NEW b \in Builder, build[b].step \in {"check", "rename"}
  PROVE  /\ build[b] \in BuildAt({"check", "rename"}, PageWrite)
         /\ build[b].writing \in PageWrite
         /\ BackToLoop(b) \in BuildAt({"next"}, {Nothing})
  <1>1. build[b] \in BuildAt({"check", "rename"}, PageWrite)
    BY OwnersDiffer DEF PagesInv, PagesParts, BuildAt
  <1>. QED
    BY <1>1 DEF BackToLoop, BuildAt

LEMMA CheckPageStep == ASSUME PagesInv, NEW b \in Builder, CheckPage(b) PROVE PagesInv'
  <1>1. CASE ~Precondition(b)
    BY <1>1, BackInLoop, BuildGoesOn DEF CheckPage
  <1>2. CASE Precondition(b)
    <2> DEFINE r == [build[b] EXCEPT !.step = "rename"]
    <2>1. /\ build[b] \in BuildAt({"check", "rename"}, PageWrite)
          /\ build[b].writing \in PageWrite
      BY BackInLoop DEF CheckPage
    <2>2. /\ r \in BuildAt({"check", "rename"}, PageWrite)
          /\ r.writing = build[b].writing
      BY <2>1 DEF BuildAt
    <2>3. build' = [build EXCEPT ![b] = r]
      BY <1>2 DEF CheckPage, Sets
    <2> HIDE DEF r
    <2>4. ~HasHuman(build[b].writing.file)
      BY <1>2, <2>1, OwnersDiffer DEF Precondition, PageWrite, HasHuman
    <2>5. PagesParts'
      BY <2>2, <2>3 DEF PagesInv, PagesParts, CheckPage
    <2>6. TakenInWindow'
      BY <2>2, <2>3, <2>4 DEF PagesInv, PagesParts, TakenInWindow, CheckPage, Renames,
         HasHuman
    <2>. QED
      BY <2>5, <2>6 DEF PagesInv
  <1>. QED
    BY <1>1, <1>2

LEMMA RenamePageStep == ASSUME PagesInv, NEW b \in Builder, RenamePage(b) PROVE PagesInv'
  <1> DEFINE w == build[b].writing
  <1>1. /\ w \in PageWrite /\ w.file \in PageFile /\ w.text \in GeneratedPage
        /\ BackToLoop(b) \in BuildAt({"next"}, {Nothing})
    BY BackInLoop DEF RenamePage, PageWrite
  <1>2. /\ page' = [page EXCEPT ![w.file] = w.text]
        /\ build' = [build EXCEPT ![b] = BackToLoop(b)]
        /\ inWindow' = inWindow \ {w.file}
        /\ UNCHANGED <<logged, ingested, queue>>
    BY DEF RenamePage, Sets
  <1> HIDE DEF w
  <1>3. PagesParts'
    BY <1>1, <1>2 DEF PagesInv, PagesParts
  <1>4. page'[w.file].owner # "human"
    BY <1>1, <1>2, OwnersDiffer DEF PagesInv, PagesParts
  <1>5. \A f \in PageFile \ {w.file} : page'[f] = page[f]
    BY <1>2 DEF PagesInv, PagesParts
  <1>6. \A c \in Builder : build'[c] = build[c] \/ build'[c].step # "rename"
    BY <1>1, <1>2 DEF PagesInv, PagesParts, BuildAt
  <1>7. TakenInWindow'
    BY <1>2, <1>4, <1>5, <1>6 DEF PagesInv, TakenInWindow, Renames, HasHuman
  <1>. QED
    BY <1>3, <1>7 DEF PagesInv

LEMMA EndBuildStep ==
  ASSUME PagesInv, NEW b \in Builder, EndBuild(b) PROVE PagesInv'
  BY BuildGoesOn DEF EndBuild

LEMMA BuildFailsStep == ASSUME PagesInv, NEW b \in Builder, BuildFails(b) PROVE PagesInv'
  <1>1. /\ build' = [build EXCEPT ![b] = NoBuild]
        /\ inWindow' = {f \in inWindow : \E c \in Builder \ {b} : Renames(c, f)}
        /\ ingested' \subseteq ingested
        /\ UNCHANGED <<logged, queue, page>>
    BY DEF BuildFails, Sets
  <1>2. PagesParts'
    BY <1>1 DEF PagesInv, PagesParts
  <1>3. TakenInWindow'
    BY <1>1, OwnersDiffer DEF PagesInv, PagesParts, TakenInWindow, Renames, HasHuman
  <1>. QED
    BY <1>2, <1>3 DEF PagesInv

LEMMA ByHandStep ==
  ASSUME PagesInv, NEW f \in PageFile,
         NEW p \in {NoPage} \union {Human(s) : s \in Name \union {NoSource}}, ByHand(f, p)
  PROVE  PagesInv'
  <1>1. p \in {NoPage} \cup HumanPage
    BY DEF Human, HumanPage
  <1>2. PagesParts'
    BY <1>1 DEF PagesInv, PagesParts, ByHand
  <1>3. TakenInWindow'
    BY DEF PagesInv, PagesParts, ByHand, TakenInWindow, Renames, HasHuman
  <1>. QED
    BY <1>2, <1>3 DEF PagesInv

LEMMA PagesInductive == PagesInv /\ [PagesNext]_pageVars => PagesInv'
  <1> SUFFICES ASSUME PagesInv, [PagesNext]_pageVars PROVE PagesInv'
    OBVIOUS
  <1>1. CASE UNCHANGED pageVars
    BY <1>1 DEF pageVars, PagesInv, PagesParts, TakenInWindow, Renames, HasHuman
  <1>. QED
    BY <1>1, LogEntryStep, EnqueueStep, StartStep, ReadPageStep, CheckPageStep,
       RenamePageStep,
       EndBuildStep, BuildFailsStep, ByHandStep
       DEF PagesNext, BuildStep

(* A page someone took over, or wrote, is theirs: no build of any server   *)
(* replaces it, unless they wrote it in the instant between a build's      *)
(* precondition and its rename (entities.ts:300-325).                      *)
THEOREM HumanPagesAreKept == PagesInit /\ [][PagesNext]_pageVars => HumanPagesStay
<1>1. ASSUME PagesInv, [PagesNext]_pageVars, NEW f \in PageFile, HasHuman(f),
             page'[f].owner = "generated"
      PROVE  f \in inWindow
  <2>1. page'[f] # page[f]
    BY <1>1 DEF HasHuman
  <2>2. ASSUME NEW b \in Builder, RenamePage(b) PROVE f \in inWindow
    BY <1>1, <2>1, <2>2 DEF RenamePage, Renames, PagesInv, PagesParts, TakenInWindow
  <2>3. ASSUME NEW g \in PageFile,
               NEW p \in {NoPage} \union {Human(s) : s \in Name \union {NoSource}}, ByHand(g, p)
        PROVE  FALSE
    <3>1. p.owner # "generated"
      BY OwnersDiffer DEF Human
    <3>. QED
      BY <1>1, <2>1, <2>3, <3>1 DEF ByHand, PagesInv, PagesParts
  <2>. QED
    BY <1>1, <2>1, <2>2, <2>3
       DEF PagesNext, BuildStep, pageVars, LogEntry, Enqueue, StartCompile, BecomesDue,
           StartEntities, ReadPage, CheckPage, EndBuild, BuildFails
<1>2. PagesInv /\ [PagesNext]_pageVars
        => [\A f \in PageFile : HasHuman(f) /\ page'[f].owner = "generated"
                                  => f \in inWindow]_pageVars
  BY <1>1
<1>. QED
  BY <1>2, PagesStart, PagesInductive, PTL DEF HumanPagesStay

-----------------------------------------------------------------------------
(* Importance, dates and reads.                                            *)

Ops == {Free} \cup [step : {"forget"}] \cup [step : {"meta"}, day : Nat]
       \cup [step : {"update", "stamp"}, kind : Kind, day : Nat]

InReads == {p \in Process : op[p].step = "meta"}

IndexRow == [version : Version, importance : 1 .. 10, updated : Nat, accessed : Nat, count : Nat]

(* Nothing is dated later than today; and a read that has not recorded     *)
(* itself is among what happened.                                          *)
ImportanceParts ==
  /\ today \in FirstDay .. LastDay /\ happenings \in 0 .. MaxHappenings
  /\ text \in [version : Version, mtime : Nat] /\ text.mtime <= today
  /\ row \in IndexRow \cup {NoIndexRow}
  /\ row # NoIndexRow => row.updated <= today /\ row.accessed <= today /\ row.count <= happenings
  /\ meta \in [hash : Version \cup {NoHash}, own : 1 .. 10, count : Nat, accessed : Nat]
  /\ meta.accessed <= today
  /\ op \in [Process -> Ops]
  /\ \A p \in Process : op[p].step \in {"meta", "update", "stamp"} => op[p].day <= today
  /\ embeds \in [Process -> SUBSET [version : Version, mtime : Nat]]
  /\ \A p \in Process : \A t \in embeds[p] : t.mtime <= today
  /\ lastRead \in 0 .. today /\ missed \in BOOLEAN

ReadsCounted == IsFiniteSet(InReads) /\ meta.count + Cardinality(InReads) <= happenings

(* A read is kept in the row, and beside it for the next index; so will be *)
(* one that is under way.                                                  *)
ReadsKept ==
  /\ row # NoIndexRow => row.accessed >= lastRead
  /\ lastRead = 0 \/ (meta.count > 0 /\ meta.accessed >= lastRead)
  /\ \A p \in InReads : row # NoIndexRow => row.accessed >= op[p].day

(* Only a first index is dated by the text.                                *)
DatesKept ==
  /\ meta.hash # NoHash => meta.hash \in since
  /\ row # NoIndexRow /\ since = {row.version} => row.updated <= DateOf[row.version]
  /\ ~missed => ReadsKept

(* A day whose run is done and not torn does not begin again: it is past,  *)
(* stamped, or about to be.                                                *)
RunsTyped ==
  /\ lastRun \in [Kind -> Nat] /\ torn \subseteq Nat
  /\ ranOn \in [Kind -> [once : SUBSET Nat, twice : SUBSET Nat]]
  /\ \A k \in Kind : ranOn[k].twice \subseteq torn /\ \A d \in ranOn[k].once : d <= today

OverlapsTorn ==
  \A p, q \in Process :
    p # q /\ RunUnderWay(p) /\ RunUnderWay(q) /\ op[p].kind = op[q].kind => op[p].day \in torn

LaterTorn ==
  \A p \in Process : RunUnderWay(p) =>
    \A d \in ranOn[op[p].kind].once : d > op[p].day => d \in torn

Underway(step, k, d) ==
  \E p \in Process : op[p].step = step /\ op[p].kind = k /\ op[p].day = d

DoneStaysDone ==
  \A k \in Kind : \A d \in ranOn[k].once \ torn :
    ~Underway("update", k, d) /\ (d < today \/ lastRun[k] = d \/ Underway("stamp", k, d))

RunsOnce == RunsTyped /\ OverlapsTorn /\ LaterTorn /\ DoneStaysDone

BoostBound == row # NoIndexRow => row.importance <= Bound("boost")

ImportanceInv == ImportanceParts /\ ReadsCounted /\ DatesKept /\ RunsOnce /\ BoostBound

LEMMA SmallerOfTwo ==
  ASSUME NEW a \in Nat, NEW b \in Nat PROVE Min({a, b}) = IF a <= b THEN a ELSE b
  <1>1. \E x \in {a, b} : \A y \in {a, b} : x <= y
    OBVIOUS
  <1>2. Min({a, b}) \in {a, b} /\ \A y \in {a, b} : Min({a, b}) <= y
    BY <1>1 DEF Min
  <1>. QED
    BY <1>2

LEMMA LargerOfTwo ==
  ASSUME NEW a \in Nat, NEW b \in Nat PROVE Max({a, b}) = IF a >= b THEN a ELSE b
  <1>1. \E x \in {a, b} : \A y \in {a, b} : x >= y
    OBVIOUS
  <1>2. Max({a, b}) \in {a, b} /\ \A y \in {a, b} : Max({a, b}) >= y
    BY <1>1 DEF Max
  <1>. QED
    BY <1>2

LEMMA OpOf ==
  ASSUME ImportanceInv, NEW p \in Process
  PROVE  /\ op[p] \in Ops
         /\ op[p].step \in {"meta", "update", "stamp"} => op[p].day \in Nat /\ op[p].day <= today
         /\ op[p].step \in {"update", "stamp"} => op[p].kind \in Kind
         /\ ~Busy(p) => op[p].step = "free"
  BY DEF ImportanceInv, ImportanceParts, Ops, Free, Busy

LEMMA Numbers ==
  /\ FirstDay \in Nat /\ LastDay \in Nat /\ FirstDay <= LastDay /\ MaxHappenings \in Nat
  /\ \A v \in Version : DateOf[v] \in Nat /\ OwnOf[v] \in 1 .. 10 /\ v # NoHash
  BY ImportanceAssumption DEF ImportanceAssumption

LEMMA BoostLimit ==
  ASSUME ImportanceInv
  PROVE  Bound("boost") = IF meta.own >= 8 THEN 10 ELSE meta.own + 2
  <1>1. meta.own \in 1 .. 10
    BY DEF ImportanceInv, ImportanceParts
  <1>. QED
    BY <1>1, SmallerOfTwo DEF Bound

LEMMA ImportanceStarts == ImportanceInit => ImportanceInv
  <1>1. SUFFICES ASSUME ImportanceInit PROVE ImportanceInv
    OBVIOUS
  <1>2. InReads = {}
    BY <1>1 DEF ImportanceInit, InReads, Free
  <1>3. ReadsCounted
    BY <1>1, <1>2, FS_EmptySet DEF ImportanceInit, ReadsCounted
  <1>4. ImportanceParts
    <2>1. text \in [version : Version, mtime : Nat] /\ text.mtime = today
      BY <1>1, Numbers DEF ImportanceInit
    <2>2. meta \in [hash : Version \cup {NoHash}, own : 1 .. 10, count : Nat, accessed : Nat]
      BY <1>1 DEF ImportanceInit, Never
    <2>3. op \in [Process -> Ops] /\ \A p \in Process : op[p].step = "free"
      BY <1>1 DEF ImportanceInit, Ops, Free
    <2>4. embeds \in [Process -> SUBSET [version : Version, mtime : Nat]]
          /\ \A p \in Process : embeds[p] = {}
      BY <1>1 DEF ImportanceInit
    <2>5. meta.accessed = 0
      BY <1>1 DEF ImportanceInit, Never
    <2>6. /\ today \in FirstDay .. LastDay /\ happenings \in 0 .. MaxHappenings
          /\ row = NoIndexRow /\ lastRead \in 0 .. today
      BY <1>1, Numbers DEF ImportanceInit, Never
    <2>7. missed \in BOOLEAN
      BY <1>1 DEF ImportanceInit
    <2>. QED
      BY <2>1, <2>2, <2>3, <2>4, <2>5, <2>6, <2>7, Numbers DEF ImportanceParts
  <1>5. DatesKept
    BY <1>1, <1>2 DEF ImportanceInit, DatesKept, ReadsKept, Never
  <1>6. RunsOnce /\ BoostBound
    BY <1>1 DEF ImportanceInit, RunsOnce, RunsTyped, OverlapsTorn, LaterTorn, DoneStaysDone,
       Underway, BoostBound, RunUnderWay, Free, Never
  <1>. QED
    BY <1>3, <1>4, <1>5, <1>6 DEF ImportanceInv

----------------------------------------------------------------------------
(* What steps that are about something else leave.                         *)

LEMMA CountsRest ==
  ASSUME ImportanceInv, meta'.count = meta.count, happenings' \in Nat, happenings' >= happenings,
         \A p \in Process : op'[p].step = "meta" <=> op[p].step = "meta"
  PROVE  ReadsCounted'
  <1>1. InReads' = InReads
    BY DEF InReads
  <1>2. Cardinality(InReads) \in Nat
    BY FS_CardinalityType DEF ImportanceInv, ReadsCounted
  <1>. QED
    BY <1>1, <1>2 DEF ImportanceInv, ImportanceParts, ReadsCounted

LEMMA DatesRest ==
  ASSUME ImportanceInv, UNCHANGED <<row, meta, since, lastRead, missed>>,
         \A p \in Process : op'[p].step = "meta" => op'[p] = op[p]
  PROVE  DatesKept'
  BY DEF ImportanceInv, DatesKept, ReadsKept, InReads

LEMMA RunsRest ==
  ASSUME ImportanceInv, UNCHANGED <<ranOn, torn, lastRun>>, today' \in Nat, today' >= today,
         \A p \in Process : \/ op'[p] = op[p]
                            \/ op[p].step \notin {"update", "stamp"} /\ op'[p].step \notin {"update", "stamp"}
  PROVE  RunsOnce'
  <1>1. \A p \in Process : \/ op'[p] = op[p]
                           \/ op'[p].step \notin {"update", "stamp"}
    OBVIOUS
  <1>2. today \in Nat
    BY Numbers DEF ImportanceInv, ImportanceParts
  <1>. QED
    BY <1>1, <1>2 DEF ImportanceInv, RunsOnce, RunsTyped, OverlapsTorn, LaterTorn,
       DoneStaysDone, Underway, RunUnderWay

LEMMA BoostRests ==
  ASSUME ImportanceInv, row' = NoIndexRow \/ row'.importance <= row.importance, meta'.own = meta.own,
         row' # NoIndexRow => row # NoIndexRow, row' # NoIndexRow => row' \in IndexRow
  PROVE  BoostBound'
  <1>1. row # NoIndexRow => row \in IndexRow
    BY DEF ImportanceInv, ImportanceParts
  <1>2. meta.own \in 1 .. 10 /\ Bound("boost") = IF meta.own >= 8 THEN 10 ELSE meta.own + 2
    BY BoostLimit DEF ImportanceInv, ImportanceParts
  <1>3. Bound("boost")' = Bound("boost")
    BY DEF Bound
  <1>4. CASE row' # NoIndexRow
    <2>1. row.importance \in Nat /\ row'.importance \in Nat /\ row.importance <= Bound("boost")
      BY <1>1, <1>4 DEF IndexRow, ImportanceInv, BoostBound
    <2>. QED
      BY <1>2, <1>3, <1>4, <2>1 DEF BoostBound
  <1>. QED
    BY <1>4 DEF BoostBound

----------------------------------------------------------------------------
(* Indexing.                                                               *)

LEMMA MidnightStep ==
  ASSUME ImportanceInv, Midnight PROVE ImportanceInv'
  <1>1. /\ today < LastDay /\ today' = today + 1 /\ today \in Nat /\ happenings \in Nat
        /\ UNCHANGED <<text, row, meta, lastRun, op, embeds, since, lastRead, missed, ranOn, torn,
                       happenings>>
    BY Numbers DEF Midnight, stored, readHistory, runHistory, ImportanceInv, ImportanceParts
  <1>2. ImportanceParts'
    BY <1>1, Numbers DEF ImportanceInv, ImportanceParts, IndexRow, Ops, Free
  <1>3. ReadsCounted'
    BY <1>1, CountsRest
  <1>4. DatesKept'
    BY <1>1, DatesRest
  <1>5. RunsOnce'
    BY <1>1, RunsRest
  <1>6. BoostBound'
    BY <1>1 DEF ImportanceInv, BoostBound, Bound
  <1>. QED
    BY <1>2, <1>3, <1>4, <1>5, <1>6 DEF ImportanceInv

LEMMA TextsStep ==
  ASSUME ImportanceInv, UNCHANGED <<today, row, meta, lastRun, op, since, lastRead, missed, ranOn, torn>>,
         text' \in [version : Version, mtime : Nat], text'.mtime <= today,
         embeds' \in [Process -> SUBSET [version : Version, mtime : Nat]],
         \A p \in Process : \A t \in embeds'[p] : t.mtime <= today,
         happenings' \in happenings .. MaxHappenings
  PROVE  ImportanceInv'
  <1>0. happenings \in Nat /\ today \in Nat
    BY Numbers DEF ImportanceInv, ImportanceParts
  <1>1. ImportanceParts'
    BY <1>0, Numbers DEF ImportanceInv, ImportanceParts, IndexRow, Ops, Free
  <1>2. ReadsCounted'
    BY <1>0, Numbers, CountsRest
  <1>3. DatesKept'
    BY DatesRest
  <1>4. RunsOnce'
    BY <1>0, RunsRest
  <1>5. BoostBound'
    BY DEF ImportanceInv, BoostBound, Bound
  <1>. QED
    BY <1>1, <1>2, <1>3, <1>4, <1>5 DEF ImportanceInv

LEMMA EditStep ==
  ASSUME ImportanceInv, NEW v \in Version, Edit(v) PROVE ImportanceInv'
  <1>1. today \in Nat /\ happenings \in 0 .. MaxHappenings
    BY Numbers DEF ImportanceInv, ImportanceParts
  <1>2. /\ text' = [version |-> v, mtime |-> today] /\ happenings' = happenings + 1
        /\ happenings < MaxHappenings /\ embeds' = embeds
        /\ UNCHANGED <<today, row, meta, lastRun, op, since, lastRead, missed, ranOn, torn>>
    BY DEF Edit, Happens, stored, readHistory, runHistory
  <1>3. text' \in [version : Version, mtime : Nat] /\ text'.mtime <= today
    BY <1>1, <1>2
  <1>4. happenings' \in happenings .. MaxHappenings
    BY <1>1, <1>2, Numbers
  <1>5. /\ embeds' \in [Process -> SUBSET [version : Version, mtime : Nat]]
        /\ \A p \in Process : \A t \in embeds'[p] : t.mtime <= today
    BY <1>2 DEF ImportanceInv, ImportanceParts
  <1>. QED
    BY <1>2, <1>3, <1>4, <1>5, TextsStep

LEMMA BeginReindexStep ==
  ASSUME ImportanceInv, NEW p \in Process, BeginReindex(p) PROVE ImportanceInv'
  <1>1. happenings \in 0 .. MaxHappenings
    BY DEF ImportanceInv, ImportanceParts
  <1>2. /\ embeds' = [embeds EXCEPT ![p] = @ \union {text}]
        /\ UNCHANGED <<today, text, row, meta, lastRun, op, since, lastRead, missed, ranOn, torn,
                       happenings>>
    BY DEF BeginReindex, stored, readHistory, runHistory
  <1>3. happenings' \in happenings .. MaxHappenings
    BY <1>1, <1>2, Numbers
  <1>4. /\ embeds' \in [Process -> SUBSET [version : Version, mtime : Nat]]
        /\ \A q \in Process : \A t \in embeds'[q] : t.mtime <= today
        /\ text' \in [version : Version, mtime : Nat] /\ text'.mtime <= today
    BY <1>2 DEF ImportanceInv, ImportanceParts
  <1>. QED
    BY <1>2, <1>3, <1>4, TextsStep

LEMMA CommitIndexStep ==
  ASSUME ImportanceInv, NEW p \in Process, NEW t \in embeds[p], CommitIndex(p, t)
  PROVE  ImportanceInv'
  <1>1. /\ today \in Nat /\ happenings \in 0 .. MaxHappenings /\ meta.accessed <= today
        /\ t \in [version : Version, mtime : Nat] /\ t.mtime <= today
        /\ meta.accessed \in Nat /\ meta.count \in Nat
    BY Numbers DEF ImportanceInv, ImportanceParts
  <1>2. /\ t.version \in Version /\ DateOf[t.version] \in Nat /\ OwnOf[t.version] \in 1 .. 10
        /\ t.version # NoHash /\ t.mtime \in Nat
    BY <1>1, Numbers
  <1>3. /\ embeds' = [embeds EXCEPT ![p] = @ \ {t}]
        /\ UNCHANGED <<today, text, lastRun, op, lastRead, ranOn, torn, happenings>>
    BY DEF CommitIndex, runHistory
  <1>4. /\ embeds' \in [Process -> SUBSET [version : Version, mtime : Nat]]
        /\ \A q \in Process : \A u \in embeds'[q] : u.mtime <= today
        /\ text \in [version : Version, mtime : Nat] /\ text.mtime <= today
    BY <1>3 DEF ImportanceInv, ImportanceParts
  <1>5. CASE IndexedMeanwhile(t)
    <2>1. UNCHANGED <<row, meta, since, missed>>
      BY <1>5 DEF CommitIndex
    <2>2. happenings' \in happenings .. MaxHappenings
      BY <1>1, <1>3, Numbers
    <2>. QED
      BY <1>3, <1>4, <2>1, <2>2, TextsStep
  <1>6. CASE ~IndexedMeanwhile(t)
    <2> DEFINE u == UpdatedAt(t)
               a == LastAccessed(t)
    <2>1. /\ row' = [version |-> t.version, importance |-> OwnOf[t.version],
                     updated |-> u, accessed |-> a, count |-> meta.count]
          /\ meta' = [hash |-> t.version, own |-> OwnOf[t.version], count |-> meta.count,
                      accessed |-> a]
          /\ since' = IF meta.hash = NoHash THEN {t.version} ELSE since \union {t.version}
          /\ missed' = (missed \/ \E q \in Process : op[q].step = "meta")
          /\ meta.hash # t.version
      BY <1>6 DEF CommitIndex, IndexedMeanwhile
    <2>2. /\ u \in Nat /\ u <= today
          /\ meta.hash = NoHash => u <= DateOf[t.version]
      BY <1>1, <1>2, SmallerOfTwo DEF UpdatedAt
    <2>3. /\ a \in Nat /\ a <= today
          /\ meta.count > 0 => a >= meta.accessed
      BY <1>1, <2>2, LargerOfTwo DEF LastAccessed, Never
    <2> HIDE DEF u, a
    <2>4. meta.count <= happenings
      <3>1. Cardinality(InReads) \in Nat
        BY FS_CardinalityType DEF ImportanceInv, ReadsCounted
      <3>. QED
        BY <1>1, <3>1 DEF ImportanceInv, ReadsCounted
    <2>5. /\ row' \in IndexRow /\ row'.updated = u /\ row'.accessed = a /\ row'.count = meta.count
          /\ row'.importance = OwnOf[t.version] /\ row'.version = t.version
      BY <1>1, <1>2, <2>1, <2>2, <2>3 DEF IndexRow
    <2>6. /\ meta' \in [hash : Version \cup {NoHash}, own : 1 .. 10, count : Nat, accessed : Nat]
          /\ meta'.hash = t.version /\ meta'.own = OwnOf[t.version] /\ meta'.count = meta.count
          /\ meta'.accessed = a
      BY <1>1, <1>2, <2>1, <2>3
    <2>7. ImportanceParts'
      BY <1>3, <1>4, <2>1, <2>2, <2>3, <2>4, <2>5, <2>6 DEF ImportanceInv, ImportanceParts,
         Ops, Free
    <2>8. ReadsCounted'
      BY <1>1, <1>3, <2>6, CountsRest
    <2>9. DatesKept'
      <3>1. meta'.hash # NoHash => meta'.hash \in since'
        BY <2>1, <2>6
      <3>2. row' # NoIndexRow /\ since' = {row'.version} => row'.updated <= DateOf[row'.version]
        BY <2>1, <2>2, <2>5 DEF ImportanceInv, DatesKept
      <3>3. ~missed' => ~missed /\ InReads = {} /\ InReads' = {}
        BY <1>3, <2>1 DEF InReads
      <3>4. ~missed' => /\ row' # NoIndexRow => row'.accessed >= lastRead'
                        /\ lastRead' = 0 \/ (meta'.count > 0 /\ meta'.accessed >= lastRead')
        <4>1. SUFFICES ASSUME ~missed' PROVE lastRead = 0 \/ (meta.count > 0 /\ a >= lastRead)
          BY <1>1, <1>3, <2>3, <2>5, <2>6
        <4>2. lastRead \in Nat /\ (lastRead = 0 \/ (meta.count > 0 /\ meta.accessed >= lastRead))
          BY <3>3, <4>1, <1>1 DEF ImportanceInv, ImportanceParts, DatesKept, ReadsKept
        <4>. QED
          BY <1>1, <2>3, <4>2
      <3>. QED
        BY <3>1, <3>2, <3>3, <3>4 DEF DatesKept, ReadsKept
    <2>10. RunsOnce'
      BY <1>1, <1>3, RunsRest
    <2>11. BoostBound'
      <3>1. Bound("boost")' = IF meta'.own >= 8 THEN 10 ELSE meta'.own + 2
        BY <1>2, <2>6, SmallerOfTwo DEF Bound
      <3>. QED
        BY <1>2, <2>5, <2>6, <3>1 DEF BoostBound
    <2>. QED
      BY <2>7, <2>8, <2>9, <2>10, <2>11 DEF ImportanceInv
  <1>. QED
    BY <1>5, <1>6

(* The chunks go, and then the hash.                                       *)
LEMMA RebuildRowStep ==
  ASSUME ImportanceInv, NEW p \in Process, Rebuild(p) PROVE ImportanceInv'
  <1>1. /\ today \in Nat /\ happenings \in 0 .. MaxHappenings
        /\ op[p].step = "free"
    BY Numbers, OpOf DEF ImportanceInv, ImportanceParts, Rebuild
  <1>2. /\ row' = NoIndexRow /\ op' = [op EXCEPT ![p] = [step |-> "forget"]]
        /\ happenings < MaxHappenings /\ happenings' = happenings + 1
        /\ UNCHANGED <<today, text, meta, lastRun, embeds, since, lastRead, missed, ranOn, torn>>
    BY DEF Rebuild, Now, Happens, readHistory, runHistory
  <1>3. \A q \in Process : op'[q] = op[q] \/ (q = p /\ op'[q].step = "forget" /\ op[q].step = "free")
    BY <1>1, <1>2 DEF ImportanceInv, ImportanceParts
  <1>4. op' \in [Process -> Ops]
    BY <1>2 DEF ImportanceInv, ImportanceParts, Ops
  <1>5. ImportanceParts'
    BY <1>1, <1>2, <1>3, <1>4, Numbers DEF ImportanceInv, ImportanceParts
  <1>6. ReadsCounted'
    BY <1>1, <1>2, <1>3, CountsRest
  <1>7. DatesKept'
    BY <1>2, <1>3 DEF ImportanceInv, DatesKept, ReadsKept, InReads
  <1>8. RunsOnce'
    BY <1>1, <1>2, <1>3, RunsRest
  <1>9. BoostBound'
    BY <1>2 DEF BoostBound
  <1>. QED
    BY <1>5, <1>6, <1>7, <1>8, <1>9 DEF ImportanceInv

LEMMA ForgetHashStep ==
  ASSUME ImportanceInv, NEW p \in Process, ForgetHash(p) PROVE ImportanceInv'
  <1>1. /\ today \in Nat /\ happenings \in 0 .. MaxHappenings
        /\ op[p].step = "forget"
    BY Numbers DEF ImportanceInv, ImportanceParts, ForgetHash
  <1>2. /\ meta' = [meta EXCEPT !.hash = NoHash] /\ since' = {}
        /\ op' = [op EXCEPT ![p] = Free]
        /\ UNCHANGED <<today, text, row, lastRun, embeds, lastRead, missed, ranOn, torn, happenings>>
    BY DEF ForgetHash, Now, runHistory
  <1>3. \A q \in Process : op'[q] = op[q] \/ (q = p /\ op'[q].step = "free" /\ op[q].step = "forget")
    BY <1>1, <1>2 DEF ImportanceInv, ImportanceParts, Free
  <1>4. op' \in [Process -> Ops]
    BY <1>2 DEF ImportanceInv, ImportanceParts, Ops
  <1>5. /\ meta' \in [hash : Version \cup {NoHash}, own : 1 .. 10, count : Nat, accessed : Nat]
        /\ meta'.accessed = meta.accessed /\ meta'.count = meta.count /\ meta'.own = meta.own
        /\ meta'.hash = NoHash
    BY <1>2 DEF ImportanceInv, ImportanceParts
  <1>6. ImportanceParts'
    BY <1>1, <1>2, <1>3, <1>4, <1>5, Numbers DEF ImportanceInv, ImportanceParts
  <1>7. ReadsCounted'
    BY <1>1, <1>2, <1>3, <1>5, CountsRest
  <1>8. DatesKept'
    BY <1>2, <1>3, <1>5 DEF ImportanceInv, DatesKept, ReadsKept, InReads
  <1>9. RunsOnce'
    BY <1>1, <1>2, <1>3, RunsRest
  <1>10. BoostBound'
    BY <1>2, <1>5 DEF ImportanceInv, BoostBound, Bound
  <1>. QED
    BY <1>6, <1>7, <1>8, <1>9, <1>10 DEF ImportanceInv

----------------------------------------------------------------------------
(* Reading.                                                                *)

LEMMA ReadRowTyped ==
  ASSUME ImportanceInv, row' = ReadRow, happenings' = happenings + 1
  PROVE  /\ row' \in IndexRow \cup {NoIndexRow}
         /\ row' # NoIndexRow => /\ row # NoIndexRow /\ row \in IndexRow /\ row' \in IndexRow
                                 /\ row'.updated = row.updated /\ row'.accessed = today
                                 /\ row'.importance = row.importance /\ row'.version = row.version
                                 /\ row'.count = row.count + 1 /\ row'.count <= happenings'
  <1>1. today \in Nat /\ happenings \in Nat
    BY Numbers DEF ImportanceInv, ImportanceParts
  <1>2. CASE row = NoIndexRow
    BY <1>2 DEF ReadRow
  <1>3. CASE row # NoIndexRow
    <2>1. row \in IndexRow /\ row.count <= happenings
      BY <1>3 DEF ImportanceInv, ImportanceParts
    <2>2. row' = [version |-> row.version, importance |-> row.importance,
                  updated |-> row.updated, accessed |-> today, count |-> row.count + 1]
      BY <1>3, <2>1 DEF ReadRow, IndexRow
    <2>. QED
      BY <1>1, <1>3, <2>1, <2>2 DEF IndexRow
  <1>. QED
    BY <1>2, <1>3

LEMMA BatchStep ==
  ASSUME ImportanceInv, NEW p \in Process, trackAccessBatch(p) PROVE ImportanceInv'
  <1>1. /\ today \in Nat /\ happenings \in 0 .. MaxHappenings /\ lastRead \in 0 .. today
        /\ \A q \in InReads : op[q].day <= today
    BY Numbers DEF ImportanceInv, ImportanceParts, InReads
  <1>2. /\ row' = ReadRow /\ meta' = [meta EXCEPT !.accessed = today, !.count = @ + 1]
        /\ lastRead' = today /\ happenings < MaxHappenings /\ happenings' = happenings + 1
        /\ UNCHANGED <<today, text, lastRun, op, embeds, since, missed, ranOn, torn>>
    BY DEF trackAccessBatch, Happens, runHistory
  <1>3. /\ row' \in IndexRow \cup {NoIndexRow}
        /\ row' # NoIndexRow => /\ row # NoIndexRow /\ row \in IndexRow /\ row' \in IndexRow
                                /\ row'.updated = row.updated /\ row'.accessed = today
                                /\ row'.importance = row.importance /\ row'.version = row.version
                                /\ row'.count = row.count + 1 /\ row'.count <= happenings'
    BY <1>2, ReadRowTyped
  <1>4. /\ meta' \in [hash : Version \cup {NoHash}, own : 1 .. 10, count : Nat, accessed : Nat]
        /\ meta'.accessed = today /\ meta'.own = meta.own /\ meta'.hash = meta.hash
        /\ meta'.count = meta.count + 1 /\ meta.count \in Nat
    <2>1. meta \in [hash : Version \cup {NoHash}, own : 1 .. 10, count : Nat, accessed : Nat]
      BY DEF ImportanceInv, ImportanceParts
    <2>2. meta' = [hash |-> meta.hash, own |-> meta.own, count |-> meta.count + 1,
                   accessed |-> today]
      BY <1>2, <2>1
    <2>. QED
      BY <1>1, <2>1, <2>2
  <1>5. ImportanceParts'
    BY <1>1, <1>2, <1>3, <1>4, Numbers DEF ImportanceInv, ImportanceParts
  <1>6. ReadsCounted'
    <2>1. InReads' = InReads /\ Cardinality(InReads) \in Nat
      BY <1>2, FS_CardinalityType DEF InReads, ImportanceInv, ReadsCounted
    <2>. QED
      BY <1>1, <1>2, <1>4, <2>1 DEF ImportanceInv, ReadsCounted
  <1>7. DatesKept'
    BY <1>1, <1>2, <1>3, <1>4 DEF ImportanceInv, DatesKept, ReadsKept, InReads
  <1>8. RunsOnce'
    BY <1>1, <1>2, RunsRest
  <1>9. BoostBound'
    BY <1>3, <1>4, BoostRests DEF IndexRow
  <1>. QED
    BY <1>5, <1>6, <1>7, <1>8, <1>9 DEF ImportanceInv

LEMMA TrackStep ==
  ASSUME ImportanceInv, NEW p \in Process, trackAccess(p) PROVE ImportanceInv'
  <1>1. /\ today \in Nat /\ happenings \in 0 .. MaxHappenings /\ lastRead \in 0 .. today
        /\ \A q \in InReads : op[q].day <= today
        /\ op[p].step = "free"
    BY Numbers, OpOf DEF ImportanceInv, ImportanceParts, InReads, trackAccess
  <1>2. /\ row' = ReadRow /\ op' = [op EXCEPT ![p] = [step |-> "meta", day |-> today]]
        /\ happenings < MaxHappenings /\ happenings' = happenings + 1
        /\ UNCHANGED <<today, text, meta, lastRun, embeds, since, lastRead, missed, ranOn, torn>>
    BY DEF trackAccess, Happens, Now, readHistory, runHistory
  <1>3. /\ row' \in IndexRow \cup {NoIndexRow}
        /\ row' # NoIndexRow => /\ row # NoIndexRow /\ row \in IndexRow /\ row' \in IndexRow
                                /\ row'.updated = row.updated /\ row'.accessed = today
                                /\ row'.importance = row.importance /\ row'.version = row.version
                                /\ row'.count = row.count + 1 /\ row'.count <= happenings'
    BY <1>2, ReadRowTyped
  <1>4. /\ \A q \in Process : q # p => op'[q] = op[q]
        /\ op'[p].step = "meta" /\ op'[p].day = today
    BY <1>2 DEF ImportanceInv, ImportanceParts
  <1>5. op' \in [Process -> Ops]
    BY <1>1, <1>2 DEF ImportanceInv, ImportanceParts, Ops
  <1>6. ImportanceParts'
    BY <1>1, <1>2, <1>3, <1>4, <1>5, Numbers DEF ImportanceInv, ImportanceParts
  <1>7. InReads' = InReads \cup {p} /\ p \notin InReads
    BY <1>1, <1>4 DEF InReads
  <1>8. ReadsCounted'
    <2>1. /\ IsFiniteSet(InReads) /\ meta.count + Cardinality(InReads) <= happenings
          /\ meta.count \in Nat
      BY DEF ImportanceInv, ImportanceParts, ReadsCounted
    <2>2. /\ IsFiniteSet(InReads') /\ Cardinality(InReads') = Cardinality(InReads) + 1
          /\ Cardinality(InReads) \in Nat
      BY <1>7, <2>1, FS_AddElement, FS_CardinalityType
    <2>. QED
      BY <1>1, <1>2, <2>1, <2>2 DEF ReadsCounted
  <1>9. DatesKept'
    BY <1>1, <1>2, <1>3, <1>4, <1>7 DEF ImportanceInv, DatesKept, ReadsKept, InReads
  <1>10. RunsOnce'
    BY <1>1, <1>2, <1>4, RunsRest
  <1>11. BoostBound'
    BY <1>2, <1>3, BoostRests DEF IndexRow
  <1>. QED
    BY <1>6, <1>8, <1>9, <1>10, <1>11 DEF ImportanceInv

LEMMA RecordReadStep ==
  ASSUME ImportanceInv, NEW p \in Process, RecordRead(p) PROVE ImportanceInv'
  <1> DEFINE d == op[p].day
  <1>1. /\ today \in Nat /\ happenings \in 0 .. MaxHappenings /\ lastRead \in 0 .. today
        /\ op[p].step = "meta" /\ d \in Nat /\ d <= today
    BY Numbers, OpOf DEF ImportanceInv, ImportanceParts, RecordRead
  <1>2. /\ meta' = [meta EXCEPT !.accessed = d, !.count = @ + 1]
        /\ lastRead' = Max({lastRead, d}) /\ op' = [op EXCEPT ![p] = Free]
        /\ missed' = (missed \/ d < lastRead)
        /\ UNCHANGED <<today, text, row, lastRun, embeds, since, ranOn, torn, happenings>>
    BY DEF RecordRead, Now, runHistory
  <1>3. lastRead' = IF lastRead >= d THEN lastRead ELSE d
    BY <1>1, <1>2, LargerOfTwo
  <1>4. /\ meta' \in [hash : Version \cup {NoHash}, own : 1 .. 10, count : Nat, accessed : Nat]
        /\ meta'.accessed = d /\ meta'.own = meta.own /\ meta'.hash = meta.hash
        /\ meta'.count = meta.count + 1 /\ meta.count \in Nat
    <2>1. meta \in [hash : Version \cup {NoHash}, own : 1 .. 10, count : Nat, accessed : Nat]
      BY DEF ImportanceInv, ImportanceParts
    <2>2. meta' = [hash |-> meta.hash, own |-> meta.own, count |-> meta.count + 1, accessed |-> d]
      BY <1>2, <2>1
    <2>. QED
      BY <1>1, <2>1, <2>2
  <1>5. /\ \A q \in Process : q # p => op'[q] = op[q]
        /\ op'[p].step = "free" /\ op' \in [Process -> Ops]
    BY <1>2 DEF ImportanceInv, ImportanceParts, Ops, Free
  <1>6. InReads' = InReads \ {p} /\ p \in InReads
    BY <1>1, <1>5 DEF InReads
  <1>7. ReadsCounted'
    <2>1. /\ IsFiniteSet(InReads) /\ meta.count + Cardinality(InReads) <= happenings
      BY DEF ImportanceInv, ReadsCounted
    <2>2. /\ IsFiniteSet(InReads') /\ Cardinality(InReads') = Cardinality(InReads) - 1
          /\ Cardinality(InReads) \in Nat
      BY <1>6, <2>1, FS_RemoveElement, FS_CardinalityType
    <2>. QED
      BY <1>1, <1>2, <1>4, <2>1, <2>2 DEF ReadsCounted
  <1>8. missed' \in BOOLEAN /\ (~missed' => ~missed /\ d >= lastRead)
    <2>1. CASE d < lastRead
      BY <1>1, <1>2, <2>1
    <2>2. CASE ~(d < lastRead)
      <3>1. missed' = missed /\ missed \in BOOLEAN
        BY <1>2, <2>2 DEF ImportanceInv, ImportanceParts
      <3>. QED
        BY <1>1, <2>2, <3>1
    <2>. QED
      BY <2>1, <2>2
  <1> HIDE DEF d
  <1>9. ImportanceParts'
    BY <1>1, <1>2, <1>3, <1>4, <1>5, <1>8, Numbers DEF ImportanceInv, ImportanceParts
  <1>10. DatesKept'
    <2>1. meta'.hash # NoHash => meta'.hash \in since'
      BY <1>2, <1>4 DEF ImportanceInv, DatesKept
    <2>2. row' # NoIndexRow /\ since' = {row'.version} => row'.updated <= DateOf[row'.version]
      BY <1>2 DEF ImportanceInv, DatesKept
    <2>3. ASSUME ~missed' PROVE ReadsKept'
      <3>1. lastRead' = d
        BY <1>1, <1>3, <1>8, <2>3
      <3>2. row # NoIndexRow => row.accessed >= d
        BY <1>6, <1>8, <2>3 DEF ImportanceInv, DatesKept, ReadsKept, d
      <3>3. meta'.count > 0 /\ meta'.accessed >= lastRead'
        BY <1>1, <1>4, <3>1
      <3>4. \A q \in InReads' : row' # NoIndexRow => row'.accessed >= op'[q].day
        BY <1>2, <1>5, <1>6, <1>8, <2>3 DEF ImportanceInv, DatesKept, ReadsKept
      <3>. QED
        BY <1>2, <3>1, <3>2, <3>3, <3>4 DEF ReadsKept
    <2>. QED
      BY <2>1, <2>2, <2>3 DEF DatesKept
  <1>11. RunsOnce'
    BY <1>1, <1>2, <1>5, RunsRest
  <1>12. BoostBound'
    BY <1>2, <1>4 DEF ImportanceInv, BoostBound, Bound
  <1>. QED
    BY <1>7, <1>9, <1>10, <1>11, <1>12 DEF ImportanceInv

----------------------------------------------------------------------------
(* Decay and boost.                                                        *)

LEMMA BeginRunStep ==
  ASSUME ImportanceInv, NEW p \in Process, NEW k \in Kind, BeginRun(p, k) PROVE ImportanceInv'
  <1> DEFINE others == OtherRuns(p, k)
  <1>1. /\ today \in Nat /\ happenings \in 0 .. MaxHappenings /\ op[p].step = "free"
        /\ lastRun[k] # today
    BY Numbers, OpOf DEF ImportanceInv, ImportanceParts, BeginRun
  <1>2. /\ op' = [op EXCEPT ![p] = [step |-> "update", kind |-> k, day |-> today]]
        /\ torn' = IF others = {} THEN torn
                   ELSE torn \union {today} \union {op[q].day : q \in others}
        /\ happenings < MaxHappenings /\ happenings' = happenings + 1
        /\ UNCHANGED <<today, text, row, meta, lastRun, embeds, since, lastRead, missed, ranOn>>
    BY DEF BeginRun, Happens, Now, stored, readHistory
  <1>3. /\ \A q \in Process : q # p => op'[q] = op[q]
        /\ op'[p].step = "update" /\ op'[p].kind = k /\ op'[p].day = today
        /\ op' \in [Process -> Ops]
    BY <1>1, <1>2 DEF ImportanceInv, ImportanceParts, Ops
  <1>4. ImportanceParts'
    <2>1. row # NoIndexRow => row.count <= happenings'
      BY <1>1, <1>2 DEF ImportanceInv, ImportanceParts, IndexRow
    <2>. QED
      BY <1>1, <1>2, <1>3, <2>1, Numbers DEF ImportanceInv, ImportanceParts
  <1>5. ReadsCounted'
    BY <1>1, <1>2, <1>3, CountsRest
  <1>6. DatesKept'
    BY <1>2, <1>3, DatesRest
  <1>7. BoostBound'
    BY <1>2 DEF ImportanceInv, BoostBound, Bound
  <1>8. RunsOnce'
    <2>1. /\ torn \subseteq torn' /\ torn' \subseteq Nat
          /\ \A q \in others : today \in torn' /\ op[q].day \in torn'
      <3>1. \A q \in others : op[q].day \in Nat
        BY OpOf DEF OtherRuns, RunUnderWay
      <3>2. torn \subseteq Nat
        BY DEF ImportanceInv, RunsOnce, RunsTyped, OverlapsTorn, LaterTorn, DoneStaysDone,
           Underway
      <3>3. CASE others = {}
        BY <1>2, <3>2, <3>3
      <3>4. CASE others # {}
        <4>1. torn' = torn \union {today} \union {op[q].day : q \in others}
          BY <1>2, <3>4
        <4>. QED
          BY <1>1, <3>1, <3>2, <4>1
      <3>. QED
        BY <3>3, <3>4
    <2>2. \A q \in Process : q # p /\ RunUnderWay(q)' /\ op'[q].kind = k => q \in others
      BY <1>3 DEF OtherRuns, RunUnderWay
    <2>3. ASSUME NEW q \in Process, NEW r \in Process, q # r, RunUnderWay(q)', RunUnderWay(r)',
                 op'[q].kind = op'[r].kind
          PROVE  op'[q].day \in torn'
      <3>1. CASE q # p /\ r # p
        BY <1>3, <2>1, <2>3, <3>1 DEF ImportanceInv, RunsOnce, RunsTyped, OverlapsTorn,
           LaterTorn, DoneStaysDone, Underway, RunUnderWay
      <3>2. CASE q = p
        BY <1>3, <2>1, <2>2, <2>3, <3>2
      <3>3. CASE r = p
        BY <1>3, <2>1, <2>2, <2>3, <3>3
      <3>. QED
        BY <3>1, <3>2, <3>3
    <2>4. ASSUME NEW q \in Process, RunUnderWay(q)', NEW d \in ranOn[op'[q].kind].once, d > op'[q].day
          PROVE  d \in torn'
      <3>1. CASE q # p
        BY <1>3, <2>1, <2>4, <3>1 DEF ImportanceInv, RunsOnce, RunsTyped, OverlapsTorn,
           LaterTorn, DoneStaysDone, Underway, RunUnderWay
      <3>2. CASE q = p
        <4>1. d <= today /\ d > today /\ d \in Nat
          BY <1>3, <2>4, <3>2 DEF ImportanceInv, RunsOnce, RunsTyped, OverlapsTorn,
             LaterTorn, DoneStaysDone, Underway
        <4>. QED
          BY <1>1, <4>1
      <3>. QED
        BY <3>1, <3>2
    <2>5. ASSUME NEW j \in Kind, NEW d \in ranOn[j].once \ torn'
          PROVE  /\ \A q \in Process : ~(op'[q].step = "update" /\ op'[q].kind = j /\ op'[q].day = d)
                 /\ \/ d < today
                    \/ lastRun[j] = d
                    \/ \E q \in Process : op'[q].step = "stamp" /\ op'[q].kind = j /\ op'[q].day = d
      <3>1. d \in ranOn[j].once \ torn
        BY <2>1
      <3>2. /\ \A q \in Process : ~(op[q].step = "update" /\ op[q].kind = j /\ op[q].day = d)
            /\ \/ d < today
               \/ lastRun[j] = d
               \/ \E q \in Process : op[q].step = "stamp" /\ op[q].kind = j /\ op[q].day = d
        BY <3>1 DEF ImportanceInv, RunsOnce, RunsTyped, OverlapsTorn, LaterTorn,
           DoneStaysDone, Underway
      <3>3. ~(j = k /\ d = today)
        <4>1. SUFFICES ASSUME j = k, d = today PROVE FALSE
          OBVIOUS
        <4>2. PICK q \in Process : op[q].step = "stamp" /\ op[q].kind = k /\ op[q].day = today
          BY <1>1, <3>2, <4>1
        <4>3. q \in others
          BY <1>1, <4>2 DEF OtherRuns, RunUnderWay
        <4>. QED
          BY <2>1, <2>5, <4>1, <4>3
      <3>. QED
        BY <1>1, <1>3, <3>2, <3>3
    <2>6. /\ lastRun' \in [Kind -> Nat] /\ ranOn' \in [Kind -> [once : SUBSET Nat, twice : SUBSET Nat]]
          /\ \A j \in Kind : ranOn'[j].twice \subseteq torn' /\ \A d \in ranOn'[j].once : d <= today'
      BY <1>2, <2>1 DEF ImportanceInv, RunsOnce, RunsTyped, OverlapsTorn, LaterTorn,
         DoneStaysDone, Underway
    <2>7. RunsTyped'
      BY <2>1, <2>6 DEF RunsTyped
    <2>8. OverlapsTorn' /\ LaterTorn'
      BY <1>2, <2>3, <2>4 DEF OverlapsTorn, LaterTorn
    <2>9. DoneStaysDone'
      BY <1>2, <2>5 DEF DoneStaysDone, Underway
    <2>. QED
      BY <2>7, <2>8, <2>9 DEF RunsOnce
  <1>. QED
    BY <1>4, <1>5, <1>6, <1>7, <1>8 DEF ImportanceInv

LEMMA UpdateRowsStep ==
  ASSUME ImportanceInv, NEW p \in Process, UpdateRows(p) PROVE ImportanceInv'
  <1> DEFINE k == op[p].kind
             day == op[p].day
  <1>1. /\ today \in Nat /\ happenings \in 0 .. MaxHappenings /\ op[p].step = "update"
        /\ k \in Kind /\ day \in Nat /\ day <= today
        /\ op[p] \in [step : {"update", "stamp"}, kind : Kind, day : Nat]
    BY Numbers, OpOf DEF ImportanceInv, ImportanceParts, UpdateRows, Ops, Free
  <1>2. /\ op' = [op EXCEPT ![p] = [op[p] EXCEPT !.step = "stamp"]]
        /\ row' = IF ~Concerned(k, day) THEN row
                  ELSE [row EXCEPT !.importance = IF k = "decay" THEN @ - 1 ELSE @ + 1]
        /\ ranOn' = [ranOn EXCEPT ![k] =
                        [once |-> ranOn[k].once \union {day},
                         twice |-> ranOn[k].twice \union (ranOn[k].once \intersect {day})]]
        /\ UNCHANGED <<today, text, meta, lastRun, embeds, since, lastRead, missed, torn, happenings>>
    BY DEF UpdateRows, Now, readHistory
  <1>3. /\ \A q \in Process : q # p => op'[q] = op[q]
        /\ op'[p].step = "stamp" /\ op'[p].kind = k /\ op'[p].day = day
        /\ op' \in [Process -> Ops]
    BY <1>1, <1>2 DEF ImportanceInv, ImportanceParts, Ops
  <1>4. /\ row' \in IndexRow \cup {NoIndexRow}
        /\ row' # NoIndexRow => /\ row # NoIndexRow /\ row \in IndexRow /\ row' \in IndexRow
                                /\ row'.updated = row.updated /\ row'.accessed = row.accessed
                                /\ row'.version = row.version /\ row'.count = row.count
                                /\ row'.importance <= Bound("boost")
    <2> DEFINE n == IF k = "decay" THEN row.importance - 1 ELSE row.importance + 1
    <2>1. CASE row = NoIndexRow
      BY <1>2, <2>1 DEF Concerned
    <2>2. CASE row # NoIndexRow
      <3>1. row \in IndexRow /\ row.importance <= Bound("boost") /\ Bound("boost") \in 1 .. 10
        BY <2>2, BoostLimit DEF ImportanceInv, ImportanceParts, BoostBound
      <3>2. CASE ~Concerned(k, day)
        BY <1>2, <2>2, <3>1, <3>2
      <3>3. CASE Concerned(k, day)
        <4>1. n \in 1 .. 10 /\ n <= Bound("boost")
          BY <1>1, <2>2, <3>1, <3>3 DEF Concerned, Kind, Bound, IndexRow
        <4>2. row' = [version |-> row.version, importance |-> n, updated |-> row.updated,
                      accessed |-> row.accessed, count |-> row.count]
          BY <1>2, <3>1, <3>3 DEF IndexRow
        <4> HIDE DEF n
        <4>3. row' \in IndexRow /\ row'.importance = n
          BY <3>1, <4>1, <4>2 DEF IndexRow
        <4>. QED
          BY <2>2, <3>1, <4>1, <4>2, <4>3
      <3>. QED
        BY <3>2, <3>3
    <2>. QED
      BY <2>1, <2>2
  <1>5. ImportanceParts'
    BY <1>1, <1>2, <1>3, <1>4, Numbers DEF ImportanceInv, ImportanceParts
  <1>6. ReadsCounted'
    BY <1>1, <1>2, <1>3, CountsRest
  <1>7. DatesKept'
    BY <1>1, <1>2, <1>3, <1>4 DEF ImportanceInv, DatesKept, ReadsKept, InReads
  <1>8. BoostBound'
    BY <1>2, <1>4 DEF BoostBound, Bound
  <1>9. RunsOnce'
    <2>1. /\ ranOn \in [Kind -> [once : SUBSET Nat, twice : SUBSET Nat]]
          /\ ranOn' \in [Kind -> [once : SUBSET Nat, twice : SUBSET Nat]]
          /\ \A j \in Kind : j # k => ranOn'[j] = ranOn[j]
          /\ ranOn'[k].once = ranOn[k].once \cup {day}
          /\ ranOn'[k].twice = ranOn[k].twice \cup (ranOn[k].once \cap {day})
      <3>1. ranOn \in [Kind -> [once : SUBSET Nat, twice : SUBSET Nat]]
        BY <1>1 DEF ImportanceInv, RunsOnce, RunsTyped
      <3>. QED
        BY <1>1, <1>2, <3>1
    <2>2. day \in ranOn[k].once => day \in torn
      BY <1>1 DEF ImportanceInv, RunsOnce, RunsTyped, OverlapsTorn, LaterTorn,
         DoneStaysDone, Underway
    <2>3. \A j \in Kind : ranOn'[j].twice \subseteq torn /\ \A d \in ranOn'[j].once : d <= today
      BY <1>1, <2>1, <2>2 DEF ImportanceInv, RunsOnce, RunsTyped, OverlapsTorn, LaterTorn,
         DoneStaysDone, Underway
    <2>4. \A q, r \in Process :
            q # r /\ RunUnderWay(q)' /\ RunUnderWay(r)' /\ op'[q].kind = op'[r].kind
              => op'[q].day \in torn
      BY <1>1, <1>3 DEF ImportanceInv, RunsOnce, RunsTyped, OverlapsTorn, LaterTorn,
         DoneStaysDone, Underway, RunUnderWay
    <2>5. ASSUME NEW q \in Process, RunUnderWay(q)', NEW d \in ranOn'[op'[q].kind].once,
                 d > op'[q].day
          PROVE  d \in torn
      <3>1. RunUnderWay(q) /\ op'[q].kind = op[q].kind /\ op'[q].day = op[q].day
        BY <1>1, <1>3, <2>5 DEF RunUnderWay
      <3>2. op[q].kind \in Kind
        BY <3>1, OpOf DEF RunUnderWay
      <3>3. CASE d \in ranOn[op[q].kind].once
        BY <2>5, <3>1, <3>3 DEF ImportanceInv, RunsOnce, RunsTyped, OverlapsTorn, LaterTorn,
           DoneStaysDone, Underway
      <3>4. CASE d \notin ranOn[op[q].kind].once
        <4>1. op[q].kind = k /\ d = day
          BY <2>1, <2>5, <3>1, <3>2, <3>4
        <4>2. q # p
          BY <1>1, <2>5, <3>1, <4>1
        <4>. QED
          BY <1>1, <3>1, <4>1, <4>2 DEF ImportanceInv, RunsOnce, RunsTyped, OverlapsTorn,
             LaterTorn, DoneStaysDone, Underway, RunUnderWay
      <3>. QED
        BY <3>3, <3>4
    <2>6. ASSUME NEW j \in Kind, NEW d \in ranOn'[j].once \ torn
          PROVE  /\ \A q \in Process : ~(op'[q].step = "update" /\ op'[q].kind = j /\ op'[q].day = d)
                 /\ \/ d < today
                    \/ lastRun[j] = d
                    \/ \E q \in Process : op'[q].step = "stamp" /\ op'[q].kind = j /\ op'[q].day = d
      <3>1. CASE j = k /\ d = day
        <4>1. \A q \in Process : ~(op'[q].step = "update" /\ op'[q].kind = j /\ op'[q].day = d)
          BY <1>1, <1>3, <2>6, <3>1 DEF ImportanceInv, RunsOnce, RunsTyped, OverlapsTorn,
             LaterTorn, DoneStaysDone, Underway, RunUnderWay
        <4>. QED
          BY <1>3, <3>1, <4>1
      <3>2. CASE ~(j = k /\ d = day)
        <4>1. d \in ranOn[j].once \ torn
          BY <2>1, <2>6, <3>2
        <4>2. /\ \A q \in Process : ~(op[q].step = "update" /\ op[q].kind = j /\ op[q].day = d)
              /\ \/ d < today
                 \/ lastRun[j] = d
                 \/ \E q \in Process : op[q].step = "stamp" /\ op[q].kind = j /\ op[q].day = d
          BY <4>1 DEF ImportanceInv, RunsOnce, RunsTyped, OverlapsTorn, LaterTorn,
             DoneStaysDone, Underway
        <4>. QED
          BY <1>1, <1>3, <4>2
      <3>. QED
        BY <3>1, <3>2
    <2>7. RunsTyped'
      BY <1>2, <2>1, <2>3 DEF ImportanceInv, RunsOnce, RunsTyped
    <2>8. OverlapsTorn' /\ LaterTorn'
      BY <1>2, <2>4, <2>5 DEF OverlapsTorn, LaterTorn
    <2>9. DoneStaysDone'
      BY <1>2, <2>6 DEF DoneStaysDone, Underway
    <2>. QED
      BY <2>7, <2>8, <2>9 DEF RunsOnce
  <1>. QED
    BY <1>5, <1>6, <1>7, <1>8, <1>9 DEF ImportanceInv

LEMMA StampRunStep ==
  ASSUME ImportanceInv, NEW p \in Process, StampRun(p) PROVE ImportanceInv'
  <1> DEFINE k == op[p].kind
             day == op[p].day
  <1>1. /\ today \in Nat /\ happenings \in 0 .. MaxHappenings /\ op[p].step = "stamp"
        /\ k \in Kind /\ day \in Nat /\ day <= today
    BY Numbers, OpOf DEF ImportanceInv, ImportanceParts, StampRun
  <1>2. /\ op' = [op EXCEPT ![p] = Free] /\ lastRun' = [lastRun EXCEPT ![k] = day]
        /\ UNCHANGED <<today, text, row, meta, embeds, since, lastRead, missed, ranOn, torn, happenings>>
    BY DEF StampRun, Now, readHistory, runHistory, RunKey
  <1>3. /\ \A q \in Process : q # p => op'[q] = op[q]
        /\ op'[p].step = "free" /\ op' \in [Process -> Ops]
    BY <1>2 DEF ImportanceInv, ImportanceParts, Ops, Free
  <1>4. ImportanceParts'
    BY <1>1, <1>2, <1>3, Numbers DEF ImportanceInv, ImportanceParts
  <1>5. ReadsCounted'
    BY <1>1, <1>2, <1>3, CountsRest
  <1>6. DatesKept'
    BY <1>1, <1>2, <1>3, DatesRest
  <1>7. BoostBound'
    BY <1>2 DEF ImportanceInv, BoostBound, Bound
  <1>8. RunsOnce'
    <2>1. lastRun' \in [Kind -> Nat] /\ lastRun'[k] = day
          /\ \A j \in Kind : j # k => lastRun'[j] = lastRun[j]
      BY <1>1, <1>2 DEF ImportanceInv, RunsOnce, RunsTyped, OverlapsTorn, LaterTorn,
         DoneStaysDone, Underway
    <2>2. \A q \in Process : RunUnderWay(q)' => q # p /\ RunUnderWay(q) /\ op'[q] = op[q]
      BY <1>3 DEF RunUnderWay
    <2>3. ASSUME NEW j \in Kind, NEW d \in ranOn[j].once \ torn
          PROVE  /\ \A q \in Process : ~(op'[q].step = "update" /\ op'[q].kind = j /\ op'[q].day = d)
                 /\ \/ d < today
                    \/ lastRun'[j] = d
                    \/ \E q \in Process : op'[q].step = "stamp" /\ op'[q].kind = j /\ op'[q].day = d
      <3>1. /\ \A q \in Process : ~(op[q].step = "update" /\ op[q].kind = j /\ op[q].day = d)
            /\ d \in Nat /\ d <= today
            /\ \/ d < today
               \/ lastRun[j] = d
               \/ \E q \in Process : op[q].step = "stamp" /\ op[q].kind = j /\ op[q].day = d
        BY <2>3 DEF ImportanceInv, RunsOnce, RunsTyped, OverlapsTorn, LaterTorn,
           DoneStaysDone, Underway
      <3>2. \A q \in Process : ~(op'[q].step = "update" /\ op'[q].kind = j /\ op'[q].day = d)
        BY <1>3, <3>1
      <3>3. j = k => d <= day
        BY <1>1, <2>3, <3>1 DEF ImportanceInv, RunsOnce, RunsTyped, OverlapsTorn, LaterTorn,
           DoneStaysDone, Underway, RunUnderWay
      <3>. QED
        BY <1>1, <1>3, <2>1, <3>1, <3>2, <3>3
    <2>4. /\ ranOn' \in [Kind -> [once : SUBSET Nat, twice : SUBSET Nat]] /\ torn' \subseteq Nat
          /\ \A j \in Kind : ranOn'[j].twice \subseteq torn' /\ \A d \in ranOn'[j].once : d <= today'
      BY <1>2 DEF ImportanceInv, RunsOnce, RunsTyped, OverlapsTorn, LaterTorn,
         DoneStaysDone, Underway
    <2>5. \A q, r \in Process :
            q # r /\ RunUnderWay(q)' /\ RunUnderWay(r)' /\ op'[q].kind = op'[r].kind
              => op'[q].day \in torn'
      BY <1>2, <2>2 DEF ImportanceInv, RunsOnce, RunsTyped, OverlapsTorn, LaterTorn,
         DoneStaysDone, Underway
    <2>6. \A q \in Process : RunUnderWay(q)' =>
            \A d \in ranOn'[op'[q].kind].once : d > op'[q].day => d \in torn'
      BY <1>2, <2>2 DEF ImportanceInv, RunsOnce, RunsTyped, OverlapsTorn, LaterTorn,
         DoneStaysDone, Underway
    <2>7. RunsTyped'
      BY <2>1, <2>4 DEF RunsTyped
    <2>8. OverlapsTorn' /\ LaterTorn'
      BY <2>5, <2>6 DEF OverlapsTorn, LaterTorn
    <2>9. DoneStaysDone'
      BY <1>2, <2>3 DEF DoneStaysDone, Underway
    <2>. QED
      BY <2>7, <2>8, <2>9 DEF RunsOnce
  <1>. QED
    BY <1>4, <1>5, <1>6, <1>7, <1>8 DEF ImportanceInv

LEMMA ProcessDiesStep ==
  ASSUME ImportanceInv, NEW p \in Process, ProcessDies(p) PROVE ImportanceInv'
  <1>1. /\ today \in Nat /\ happenings \in 0 .. MaxHappenings
    BY Numbers DEF ImportanceInv, ImportanceParts
  <1>2. /\ op' = [op EXCEPT ![p] = Free] /\ embeds' = [embeds EXCEPT ![p] = {}]
        /\ torn' = IF RunUnderWay(p) THEN torn \union {op[p].day} ELSE torn
        /\ happenings < MaxHappenings /\ happenings' = happenings + 1
        /\ UNCHANGED <<today, text, row, meta, lastRun, since, lastRead, missed, ranOn>>
    BY DEF ProcessDies, Happens, Now, stored, readHistory
  <1>3. /\ \A q \in Process : q # p => op'[q] = op[q] /\ embeds'[q] = embeds[q]
        /\ op'[p].step = "free" /\ op' \in [Process -> Ops] /\ embeds'[p] = {}
        /\ embeds' \in [Process -> SUBSET [version : Version, mtime : Nat]]
    BY <1>2 DEF ImportanceInv, ImportanceParts, Ops, Free
  <1>4. ImportanceParts'
    <2>1. row # NoIndexRow => row.count <= happenings'
      BY <1>1, <1>2 DEF ImportanceInv, ImportanceParts, IndexRow
    <2>. QED
      BY <1>1, <1>2, <1>3, <2>1, Numbers DEF ImportanceInv, ImportanceParts
  <1>5. ReadsCounted'
    <2>1. /\ IsFiniteSet(InReads) /\ meta.count + Cardinality(InReads) <= happenings
          /\ meta.count \in Nat
      BY DEF ImportanceInv, ImportanceParts, ReadsCounted
    <2>2. InReads' \in SUBSET InReads
      BY <1>3 DEF InReads
    <2>3. /\ IsFiniteSet(InReads') /\ Cardinality(InReads') <= Cardinality(InReads)
          /\ Cardinality(InReads) \in Nat /\ Cardinality(InReads') \in Nat
      BY <2>1, <2>2, FS_Subset, FS_CardinalityType
    <2>. QED
      BY <1>1, <1>2, <2>1, <2>3 DEF ReadsCounted
  <1>6. DatesKept'
    <2>1. \A q \in Process : op'[q].step = "meta" => op'[q] = op[q]
      BY <1>3
    <2>. QED
      BY <1>2, <2>1, DatesRest
  <1>7. BoostBound'
    BY <1>2 DEF ImportanceInv, BoostBound, Bound
  <1>8. RunsOnce'
    <2>1. torn \subseteq torn' /\ torn' \subseteq Nat /\ (RunUnderWay(p) => op[p].day \in torn')
      <3>1. torn \subseteq Nat
        BY DEF ImportanceInv, RunsOnce, RunsTyped
      <3>2. CASE RunUnderWay(p)
        BY <1>2, <3>1, <3>2, OpOf DEF RunUnderWay
      <3>3. CASE ~RunUnderWay(p)
        BY <1>2, <3>1, <3>3
      <3>. QED
        BY <3>2, <3>3
    <2>2. \A q \in Process : RunUnderWay(q)' => q # p /\ RunUnderWay(q) /\ op'[q] = op[q]
      BY <1>3 DEF RunUnderWay
    <2>3. ASSUME NEW j \in Kind, NEW d \in ranOn[j].once \ torn'
          PROVE  /\ \A q \in Process : ~(op'[q].step = "update" /\ op'[q].kind = j /\ op'[q].day = d)
                 /\ \/ d < today
                    \/ lastRun[j] = d
                    \/ \E q \in Process : op'[q].step = "stamp" /\ op'[q].kind = j /\ op'[q].day = d
      <3>1. /\ \A q \in Process : ~(op[q].step = "update" /\ op[q].kind = j /\ op[q].day = d)
            /\ \/ d < today
               \/ lastRun[j] = d
               \/ \E q \in Process : op[q].step = "stamp" /\ op[q].kind = j /\ op[q].day = d
        BY <2>1, <2>3 DEF ImportanceInv, RunsOnce, RunsTyped, OverlapsTorn, LaterTorn,
           DoneStaysDone, Underway
      <3>2. ~(RunUnderWay(p) /\ op[p].day = d)
        BY <2>1, <2>3
      <3>. QED
        BY <1>3, <3>1, <3>2 DEF RunUnderWay
    <2>4. /\ lastRun' \in [Kind -> Nat] /\ ranOn' \in [Kind -> [once : SUBSET Nat, twice : SUBSET Nat]]
          /\ \A j \in Kind : ranOn'[j].twice \subseteq torn' /\ \A d \in ranOn'[j].once : d <= today'
      BY <1>2, <2>1 DEF ImportanceInv, RunsOnce, RunsTyped, OverlapsTorn, LaterTorn,
         DoneStaysDone, Underway
    <2>5. \A q, r \in Process :
            q # r /\ RunUnderWay(q)' /\ RunUnderWay(r)' /\ op'[q].kind = op'[r].kind
              => op'[q].day \in torn'
      BY <1>2, <2>1, <2>2 DEF ImportanceInv, RunsOnce, RunsTyped, OverlapsTorn, LaterTorn,
         DoneStaysDone, Underway
    <2>6. \A q \in Process : RunUnderWay(q)' =>
            \A d \in ranOn'[op'[q].kind].once : d > op'[q].day => d \in torn'
      BY <1>2, <2>1, <2>2 DEF ImportanceInv, RunsOnce, RunsTyped, OverlapsTorn, LaterTorn,
         DoneStaysDone, Underway
    <2>7. RunsTyped'
      BY <2>1, <2>4 DEF RunsTyped
    <2>8. OverlapsTorn' /\ LaterTorn'
      BY <2>5, <2>6 DEF OverlapsTorn, LaterTorn
    <2>9. DoneStaysDone'
      BY <1>2, <2>3 DEF DoneStaysDone, Underway
    <2>. QED
      BY <2>7, <2>8, <2>9 DEF RunsOnce
  <1>. QED
    BY <1>4, <1>5, <1>6, <1>7, <1>8 DEF ImportanceInv

LEMMA ImportanceSteps == ImportanceInv /\ [ImportanceNext]_importanceVars => ImportanceInv'
  <1>1. SUFFICES ASSUME ImportanceInv, [ImportanceNext]_importanceVars PROVE ImportanceInv'
    OBVIOUS
  <1>2. CASE UNCHANGED importanceVars
    <2>1. happenings \in 0 .. MaxHappenings
      BY <1>1 DEF ImportanceInv, ImportanceParts
    <2>2. happenings' \in happenings .. MaxHappenings
      BY <1>2, <2>1, Numbers DEF importanceVars
    <2>3. /\ embeds' \in [Process -> SUBSET [version : Version, mtime : Nat]]
          /\ \A q \in Process : \A t \in embeds'[q] : t.mtime <= today
          /\ text' \in [version : Version, mtime : Nat] /\ text'.mtime <= today
      BY <1>1, <1>2 DEF ImportanceInv, ImportanceParts, importanceVars
    <2>. QED
      BY <1>1, <1>2, <2>2, <2>3, TextsStep DEF importanceVars, stored, readHistory, runHistory
  <1>. QED
    BY <1>1, <1>2, MidnightStep, EditStep, BeginReindexStep, CommitIndexStep, RebuildRowStep,
       ForgetHashStep, TrackStep, RecordReadStep, BatchStep, BeginRunStep, UpdateRowsStep,
       StampRunStep, ProcessDiesStep DEF ImportanceNext

(* A memory's dates are those it states or those of its reads, however     *)
(* many servers index it, read it and rebuild the index at once, unless a  *)
(* reindex or another read came between a read's two statements            *)
(* (store.ts:583-620, 685-694).                                            *)
THEOREM DatesStayTrue == ImportanceInit /\ [][ImportanceNext]_importanceVars => []DatesAreTrue
  <1>1. ImportanceInv => DatesAreTrue
    <2>1. SUFFICES ASSUME ImportanceInv PROVE ImportanceTypeOK
      BY DEF ImportanceInv, DatesKept, ReadsKept, DatesAreTrue, ImportanceParts
    <2>2. /\ today \in Nat /\ today <= LastDay /\ happenings \in 0 .. MaxHappenings
          /\ text \in [version : Version, mtime : Nat] /\ text.mtime <= today
          /\ meta \in [hash : Version \cup {NoHash}, own : 1 .. 10, count : Nat, accessed : Nat]
          /\ meta.accessed <= today /\ today \in FirstDay .. LastDay
      BY <2>1, Numbers DEF ImportanceInv, ImportanceParts
    <2>3. meta.count <= happenings
      <3>1. Cardinality(InReads) \in Nat
        BY <2>1, FS_CardinalityType DEF ImportanceInv, ReadsCounted
      <3>. QED
        BY <2>1, <2>2, <3>1 DEF ImportanceInv, ReadsCounted
    <2>4. row # NoIndexRow =>
            row \in [version : Version, importance : 1 .. 10, updated : Day, accessed : Day,
                     count : 0 .. MaxHappenings]
      BY <2>1, <2>2, Numbers DEF ImportanceInv, ImportanceParts, IndexRow, Day
    <2>5. text \in [version : Version, mtime : Day]
      BY <2>2, Numbers DEF Day
    <2>6. meta \in [hash : Version \union {NoHash}, own : 1 .. 10, count : 0 .. MaxHappenings,
                    accessed : Day]
      BY <2>2, <2>3, Numbers DEF Day
    <2>. QED
      BY <2>2, <2>4, <2>5, <2>6 DEF ImportanceTypeOK
  <1>. QED
    BY ImportanceStarts, ImportanceSteps, <1>1, PTL

(* No day's decay or boost is applied twice by any number of servers that  *)
(* run it in turn, and no boost leads beyond its bound (store.ts:1330-1395). *)
THEOREM RunsStayOncePerDay ==
  ImportanceInit /\ [][ImportanceNext]_importanceVars => []OncePerDay
  <1>1. ImportanceInv => OncePerDay
    BY DEF ImportanceInv, RunsOnce, RunsTyped, BoostBound, OncePerDay
  <1>. QED
    BY ImportanceStarts, ImportanceSteps, <1>1, PTL

-----------------------------------------------------------------------------
(* The sample of a search.                                                 *)

LEMMA TimesOrder ==
  ASSUME NEW x \in Nat, NEW y \in Nat, NEW c \in Nat
  PROVE  /\ x <= y => x * c <= y * c
         /\ x * c \in Nat
  <1>1. x * c \in Nat /\ y * c \in Nat
    OBVIOUS
  <1>2. ASSUME x <= y PROVE x * c <= y * c
    <2>1. y * c = x * c + (y - x) * c /\ y - x \in Nat
      BY <1>2
    <2>2. \A d \in Nat : d * c \in Nat
      OBVIOUS
    <2>. QED
      BY <1>1, <2>1, <2>2
  <1>. QED
    BY <1>1, <1>2

LEMMA Quotient ==
  ASSUME NEW a \in Nat, NEW t \in Nat \ {0}
  PROVE  /\ a \div t \in Nat
         /\ (a \div t) * t <= a
         /\ a < (a \div t) * t + t
  OBVIOUS

(* m is at most a quotient when so many times the divisor fit.             *)
LEMMA QuotientBound ==
  ASSUME NEW a \in Nat, NEW t \in Nat \ {0}, NEW m \in Nat
  PROVE  m <= a \div t <=> m * t <= a
  <1> DEFINE q == a \div t
  <1>1. q \in Nat /\ q * t <= a /\ a < q * t + t
    BY Quotient
  <1> HIDE DEF q
  <1>2. ASSUME m <= q PROVE m * t <= a
    <2>1. m * t <= q * t /\ m * t \in Nat /\ q * t \in Nat
      BY <1>1, <1>2, TimesOrder
    <2>. QED
      BY <1>1, <2>1
  <1>3. ASSUME m * t <= a PROVE m <= q
    <2>1. SUFFICES ASSUME q + 1 <= m PROVE FALSE
      BY <1>1
    <2>2. (q + 1) * t <= m * t /\ (q + 1) * t = q * t + t
      BY <1>1, <2>1, TimesOrder
    <2>3. q * t \in Nat /\ m * t \in Nat
      BY <1>1, TimesOrder
    <2>. QED
      BY <1>1, <1>3, <2>2, <2>3
  <1>. QED
    BY <1>2, <1>3 DEF q

LEMMA QuotientUp ==
  ASSUME NEW a \in Nat, NEW c \in Nat \ {0}, NEW b \in Nat
  PROVE  /\ (a + c - 1) \div c \in Nat
         /\ (a + c - 1) \div c <= b <=> a <= b * c
  <1> DEFINE q == (a + c - 1) \div c
  <1>1. a + c - 1 \in Nat /\ b + 1 \in Nat
    OBVIOUS
  <1>2. q \in Nat
    BY <1>1, Quotient
  <1>3. b + 1 <= q <=> (b + 1) * c <= a + c - 1
    BY <1>1, QuotientBound
  <1>4. (b + 1) * c = b * c + c /\ b * c \in Nat
    BY TimesOrder
  <1> HIDE DEF q
  <1>5. q <= b <=> a <= b * c
    BY <1>2, <1>3, <1>4
  <1>. QED
    BY <1>2, <1>5 DEF q

(* How far the sample is after n rows, and the rows it takes to reach k.   *)
Tick(n, c, t) == (n * c) \div t

Reach(k, c, t) == (k * t + c - 1) \div c

Sampled(c, t) == c \in Nat \ {0} /\ t \in Nat \ {0} /\ c <= t

LEMMA TickBound ==
  ASSUME NEW c, NEW t, Sampled(c, t), NEW n \in Nat, NEW m \in Nat
  PROVE  /\ Tick(n, c, t) \in Nat
         /\ m <= Tick(n, c, t) <=> m * t <= n * c
  <1>1. n * c \in Nat
    BY TimesOrder DEF Sampled
  <1>. QED
    BY <1>1, Quotient, QuotientBound DEF Tick, Sampled

LEMMA ReachBound ==
  ASSUME NEW c, NEW t, Sampled(c, t), NEW n \in Nat, NEW k \in Nat
  PROVE  /\ Reach(k, c, t) \in Nat
         /\ Reach(k, c, t) <= n <=> k <= Tick(n, c, t)
  <1>1. k * t \in Nat
    BY TimesOrder DEF Sampled
  <1>2. Reach(k, c, t) \in Nat /\ (Reach(k, c, t) <= n <=> k * t <= n * c)
    BY <1>1, QuotientUp DEF Reach, Sampled
  <1>. QED
    BY <1>2, TickBound

LEMMA TickOrder ==
  ASSUME NEW c, NEW t, Sampled(c, t), NEW a \in Nat, NEW b \in Nat, a <= b
  PROVE  Tick(a, c, t) <= Tick(b, c, t)
  <1>1. Tick(a, c, t) \in Nat /\ Tick(a, c, t) * t <= a * c
    BY TickBound
  <1>2. a * c <= b * c /\ a * c \in Nat /\ b * c \in Nat
    BY TimesOrder DEF Sampled
  <1>3. Tick(a, c, t) * t \in Nat
    BY <1>1, TimesOrder DEF Sampled
  <1>4. Tick(a, c, t) * t <= b * c
    BY <1>1, <1>2, <1>3
  <1>. QED
    BY <1>1, <1>4, TickBound

(* A row brings the sample at most one further, and t rows exactly c.      *)
LEMMA TickRises ==
  ASSUME NEW c, NEW t, Sampled(c, t), NEW n \in Nat
  PROVE  /\ Tick(n + 1, c, t) <= Tick(n, c, t) + 1
         /\ Tick(n + t, c, t) = Tick(n, c, t) + c
  <1> DEFINE g == Tick(n, c, t)
  <1>1. g \in Nat /\ n * c \in Nat /\ c * t \in Nat /\ g * t \in Nat
    BY TickBound, TimesOrder DEF Sampled
  <1>2. g * t <= n * c
    BY <1>1, TickBound
  <1>3. n * c < (g + 1) * t
    <2>1. ~ (g + 1 <= g)
      BY <1>1
    <2>2. ~ ((g + 1) * t <= n * c)
      BY <1>1, <2>1, TickBound
    <2>3. (g + 1) * t \in Nat
      BY <1>1, TimesOrder DEF Sampled
    <2>. QED
      BY <1>1, <2>2, <2>3
  <1>4. n + 1 \in Nat /\ n + t \in Nat
    BY DEF Sampled
  <1> HIDE DEF g
  <1>5. /\ (g + 1) * t = g * t + t
        /\ (g + 2) * t = g * t + t + t
        /\ (g + c) * t = g * t + c * t
        /\ (g + c + 1) * t = g * t + t + c * t
        /\ (n + 1) * c = n * c + c
        /\ (n + t) * c = n * c + c * t
    BY <1>1 DEF Sampled
  <1>6. Tick(n + 1, c, t) <= g + 1
    <2>1. ~ ((g + 2) * t <= (n + 1) * c)
      BY <1>1, <1>3, <1>5 DEF Sampled
    <2>2. ~ (g + 2 <= Tick(n + 1, c, t)) /\ Tick(n + 1, c, t) \in Nat
      BY <1>1, <1>4, <2>1, TickBound
    <2>. QED
      BY <1>1, <2>2
  <1>7. Tick(n + t, c, t) = g + c
    <2>1. (g + c) * t <= (n + t) * c
      BY <1>1, <1>2, <1>5
    <2>2. ~ ((g + c + 1) * t <= (n + t) * c)
      BY <1>1, <1>3, <1>5 DEF Sampled
    <2>3. g + c \in Nat /\ g + c + 1 \in Nat
      BY <1>1 DEF Sampled
    <2>4. /\ Tick(n + t, c, t) \in Nat /\ g + c <= Tick(n + t, c, t)
          /\ ~ (g + c + 1 <= Tick(n + t, c, t))
      BY <1>4, <2>1, <2>2, <2>3, TickBound
    <2>. QED
      BY <2>3, <2>4
  <1>. QED
    BY <1>6, <1>7 DEF g

(* Every k is reached, and at a row that increments.                       *)
LEMMA ReachIncrements ==
  ASSUME NEW c, NEW t, Sampled(c, t), NEW a \in Nat, NEW k \in Nat, Tick(a, c, t) < k
  PROVE  /\ Reach(k, c, t) \in Nat
         /\ a < Reach(k, c, t)
         /\ Tick(Reach(k, c, t), c, t) = k
         /\ Tick(Reach(k, c, t) - 1, c, t) < k
  <1> DEFINE n == Reach(k, c, t)
  <1>1. n \in Nat
    BY ReachBound
  <1>2. a < n
    <2>1. ~ (n <= a)
      <3>1. Tick(a, c, t) \in Nat
        BY TickBound
      <3>2. ~ (k <= Tick(a, c, t))
        BY <3>1
      <3>. QED
        BY <3>2, ReachBound
    <2>. QED
      BY <1>1, <2>1
  <1>3. n - 1 \in Nat /\ (n - 1) + 1 = n /\ n <= n /\ ~ (n <= n - 1)
    BY <1>1, <1>2
  <1>4. k <= Tick(n, c, t) /\ Tick(n, c, t) \in Nat
    BY <1>1, <1>3, ReachBound, TickBound
  <1>5. ~ (k <= Tick(n - 1, c, t)) /\ Tick(n - 1, c, t) \in Nat
    BY <1>3, ReachBound, TickBound
  <1>6. Tick((n - 1) + 1, c, t) <= Tick(n - 1, c, t) + 1
    BY <1>3, TickRises
  <1> HIDE DEF n
  <1>7. Tick(n, c, t) <= Tick(n - 1, c, t) + 1
    BY <1>3, <1>6
  <1>8. Tick(n, c, t) = k /\ Tick(n - 1, c, t) < k
    BY <1>4, <1>5, <1>7
  <1>. QED
    BY <1>1, <1>2, <1>8 DEF n

LEMMA SelectedIff ==
  ASSUME NEW c, NEW t, Sampled(c, t), NEW n \in Nat, NEW p \in Nat, NEW r
  PROVE  r \in Selected(n, p, c, t) <=>
           r \in 1 .. n /\ Tick(r + p - 1, c, t) < Tick(r + p, c, t)
  <1>1. ASSUME r \in 1 .. n
        PROVE  Tick(r + p, c, t) \in Nat /\ Tick(r + p - 1, c, t) \in Nat
    <2>1. r + p \in Nat /\ r + p - 1 \in Nat
      BY <1>1
    <2>. QED
      BY <2>1, TickBound
  <1>2. ASSUME r \in 1 .. n
        PROVE  Increments(r, p, c, t) <=> Tick(r + p - 1, c, t) < Tick(r + p, c, t)
    BY <1>1, <1>2 DEF Increments, Tick
  <1>. QED
    BY <1>2 DEF Selected

LEMMA StrictlySmaller ==
  ASSUME NEW S, IsFiniteSet(S), NEW T \in SUBSET S, T # S
  PROVE  /\ IsFiniteSet(T)
         /\ Cardinality(T) \in Nat /\ Cardinality(S) \in Nat
         /\ Cardinality(T) < Cardinality(S)
  <1>1. IsFiniteSet(T) /\ Cardinality(T) <= Cardinality(S) /\ Cardinality(S) # Cardinality(T)
    BY FS_Subset
  <1>2. Cardinality(S) \in Nat /\ Cardinality(T) \in Nat
    BY <1>1, FS_CardinalityType
  <1>. QED
    BY <1>1, <1>2

(* t rows are as many selected as the sample has: each brings it one       *)
(* further, and together they bring it c further.                          *)
LEMMA SelectedCount ==
  ASSUME NEW c, NEW t, Sampled(c, t), NEW p \in Nat
  PROVE  /\ IsFiniteSet(Selected(t, p, c, t))
         /\ Cardinality(Selected(t, p, c, t)) = c
  <1> DEFINE R == Selected(t, p, c, t)
             K == Tick(p, c, t) + 1 .. Tick(p, c, t) + c
             f == [r \in R |-> Tick(r + p, c, t)]
  <1>0. Tick(p, c, t) \in Nat /\ t \in Nat /\ c \in Nat
    BY TickBound DEF Sampled
  <1>1. \A r \in R : /\ r \in 1 .. t /\ r + p \in Nat /\ r + p - 1 \in Nat
                     /\ Tick(r + p - 1, c, t) < Tick(r + p, c, t)
                     /\ Tick(r + p - 1, c, t) \in Nat /\ Tick(r + p, c, t) \in Nat
    <2>1. TAKE r \in R
    <2>2. r \in 1 .. t /\ Tick(r + p - 1, c, t) < Tick(r + p, c, t)
      BY <1>0, <2>1, SelectedIff
    <2>3. r + p \in Nat /\ r + p - 1 \in Nat
      BY <1>0, <2>2
    <2>. QED
      BY <2>2, <2>3, TickBound
  <1>2. \A r \in R : Tick(r + p, c, t) \in K
    <2>1. TAKE r \in R
    <2>2. p <= r + p - 1 /\ r + p <= p + t /\ p + t \in Nat
      BY <1>0, <1>1
    <2>3. /\ Tick(p, c, t) <= Tick(r + p - 1, c, t)
          /\ Tick(r + p, c, t) <= Tick(p + t, c, t)
      BY <1>1, <2>2, TickOrder
    <2>4. Tick(p + t, c, t) = Tick(p, c, t) + c
      BY TickRises
    <2>. QED
      BY <1>0, <1>1, <2>3, <2>4
  <1>3. \A r, s \in R : r < s => Tick(r + p, c, t) < Tick(s + p, c, t)
    <2>1. TAKE r, s \in R
    <2>2. ASSUME r < s PROVE Tick(r + p, c, t) < Tick(s + p, c, t)
      <3>1. r + p <= s + p - 1
        BY <1>0, <1>1, <2>2
      <3>2. Tick(r + p, c, t) <= Tick(s + p - 1, c, t)
        BY <1>1, <3>1, TickOrder
      <3>. QED
        BY <1>1, <3>2
    <2>. QED
      BY <2>2
  <1>4. \A r, s \in R : Tick(r + p, c, t) = Tick(s + p, c, t) => r = s
    BY <1>1, <1>3
  <1>5. \A k \in K : \E r \in R : Tick(r + p, c, t) = k
    <2>1. TAKE k \in K
    <2> DEFINE n == Reach(k, c, t)
    <2>2. k \in Nat /\ Tick(p, c, t) < k /\ k <= Tick(p, c, t) + c
      BY <1>0
    <2>3. n \in Nat /\ p < n /\ Tick(n, c, t) = k /\ Tick(n - 1, c, t) < k
      BY <2>2, ReachIncrements
    <2>4. n <= p + t
      <3>1. p + t \in Nat /\ k <= Tick(p + t, c, t)
        BY <1>0, <2>2, TickRises
      <3>. QED
        BY <2>2, <3>1, ReachBound
    <2> HIDE DEF n
    <2>5. n - p \in 1 .. t /\ (n - p) + p = n /\ (n - p) + p - 1 = n - 1
      BY <1>0, <2>3, <2>4
    <2>6. n - p \in R
      BY <1>0, <2>3, <2>5, SelectedIff
    <2>. QED
      BY <2>3, <2>5, <2>6
  <1>10. IsFiniteSet(R)
    <2>1. R \in SUBSET (1 .. t) /\ IsFiniteSet(1 .. t)
      BY <1>0, <1>1, FS_Interval
    <2>. QED
      BY <2>1, FS_Subset
  <1>8. IsFiniteSet(K) /\ Cardinality(K) = c
    <2>1. /\ Tick(p, c, t) + 1 \in Int /\ Tick(p, c, t) + c \in Int
          /\ (Tick(p, c, t) + c) - (Tick(p, c, t) + 1) + 1 = c
          /\ ~ (Tick(p, c, t) + 1 > Tick(p, c, t) + c)
      BY <1>0 DEF Sampled
    <2>. QED
      BY <2>1, FS_Interval
  <1> HIDE DEF R, K
  <1>6. f \in Bijection(R, K)
    BY <1>2, <1>4, <1>5 DEF Bijection, Injection, Surjection, IsInjective
  <1>7. ExistsBijection(R, K)
    BY <1>6 DEF ExistsBijection
  <1>9. Cardinality(R) = Cardinality(K)
    BY <1>7, <1>10, FS_Bijection
  <1>. QED
    BY <1>8, <1>9, <1>10 DEF R

(* The first c of any rows are at most c: each has a number of its own of  *)
(* selected rows before it.                                                *)
LEMMA FirstAreFew ==
  ASSUME NEW c \in Nat, NEW n \in Nat, NEW R \in SUBSET (1 .. n)
  PROVE  /\ IsFiniteSet(FirstOf(c, R))
         /\ Cardinality(FirstOf(c, R)) <= c
  <1> DEFINE F == FirstOf(c, R)
             Earlier(r) == {q \in R : q < r}
             f == [r \in F |-> Cardinality(Earlier(r))]
  <1>1. IsFiniteSet(R)
    <2>1. IsFiniteSet(1 .. n)
      BY FS_Interval
    <2>. QED
      BY <2>1, FS_Subset
  <1>2. \A r : IsFiniteSet(Earlier(r)) /\ Cardinality(Earlier(r)) \in Nat
    <2>1. TAKE r
    <2>2. Earlier(r) \in SUBSET R
      OBVIOUS
    <2>3. IsFiniteSet(Earlier(r))
      BY <1>1, <2>2, FS_Subset
    <2>. QED
      BY <2>3, FS_CardinalityType
  <1>3. \A r, s \in R : r < s => Cardinality(Earlier(r)) < Cardinality(Earlier(s))
    <2>1. TAKE r, s \in R
    <2>2. ASSUME r < s PROVE Cardinality(Earlier(r)) < Cardinality(Earlier(s))
      <3>1. Earlier(r) \in SUBSET Earlier(s) /\ r \in Earlier(s) /\ r \notin Earlier(r)
        <4>1. r \in Nat /\ s \in Nat /\ \A q \in R : q \in Nat
          OBVIOUS
        <4>2. \A q \in R : q < r => q < s
          BY <2>2, <4>1
        <4>3. ~ (r < r)
          BY <4>1
        <4> HIDE DEF F
        <4>4. Earlier(r) \subseteq Earlier(s)
          BY <4>2
        <4>. QED
          BY <2>2, <4>3, <4>4
      <3>2. Earlier(r) # Earlier(s)
        BY <3>1
      <3>. QED
        BY <1>2, <3>1, <3>2, StrictlySmaller
    <2>. QED
      BY <2>2
  <1>4. F \in SUBSET R /\ \A r \in F : Cardinality(Earlier(r)) < c
    BY DEF FirstOf
  <1>5. IsFiniteSet(F)
    BY <1>1, <1>4, FS_Subset
  <1>6. IsFiniteSet(0 .. c - 1) /\ Cardinality(0 .. c - 1) = c
    BY FS_Interval
  <1> HIDE DEF F, Earlier
  <1>7. \A r \in F : Cardinality(Earlier(r)) \in 0 .. c - 1
    BY <1>2, <1>4
  <1>8. \A r, s \in F : Cardinality(Earlier(r)) = Cardinality(Earlier(s)) => r = s
    <2>1. TAKE r, s \in F
    <2>2. r \in Nat /\ s \in Nat /\ r \in R /\ s \in R
      BY <1>4
    <2>. QED
      BY <1>2, <1>3, <2>2
  <1>9. f \in Injection(F, 0 .. c - 1)
    BY <1>7, <1>8 DEF Injection, IsInjective
  <1>10. Cardinality(F) <= Cardinality(0 .. c - 1)
    BY <1>5, <1>6, <1>9, FS_Injection DEF ExistsInjection
  <1>. QED
    BY <1>5, <1>6, <1>10 DEF F

LEMMA FirstOfAll ==
  ASSUME NEW c \in Nat, NEW R, IsFiniteSet(R), Cardinality(R) = c, R \subseteq Nat
  PROVE  FirstOf(c, R) = R
  <1>1. ASSUME NEW r \in R PROVE Cardinality({q \in R : q < r}) < c
    <2>1. {q \in R : q < r} \in SUBSET R /\ r \notin {q \in R : q < r}
      BY <1>1
    <2>2. {q \in R : q < r} # R
      BY <1>1, <2>1
    <2>3. Cardinality({q \in R : q < r}) < Cardinality(R)
      BY <2>1, <2>2, StrictlySmaller
    <2>. QED
      BY <2>3
  <1>. QED
    BY <1>1 DEF FirstOf

LEMMA StrideReaches ==
  ASSUME NEW c, NEW t, Sampled(c, t)
  PROVE  /\ Stride(c, t) \in Nat
         /\ \A b \in Nat : Tick(b, c, t) + 1 <= Tick(b + Stride(c, t), c, t)
  <1> DEFINE S == Stride(c, t)
  <1>1. S \in Nat
    BY QuotientUp DEF Stride, Sampled
  <1>2. t <= S * c
    <2>1. S <= S
      BY <1>1
    <2>. QED
      BY <1>1, <2>1, QuotientUp DEF Stride, Sampled
  <1> HIDE DEF S
  <1>3. ASSUME NEW b \in Nat PROVE Tick(b, c, t) + 1 <= Tick(b + S, c, t)
    <2>1. Tick(b, c, t) \in Nat /\ Tick(b, c, t) * t <= b * c
      BY TickBound
    <2>2. /\ (Tick(b, c, t) + 1) * t = Tick(b, c, t) * t + t
          /\ (b + S) * c = b * c + S * c
          /\ b * c \in Nat /\ S * c \in Nat /\ Tick(b, c, t) * t \in Nat
      BY <1>1, <2>1, TimesOrder DEF Sampled
    <2>3. (Tick(b, c, t) + 1) * t <= (b + S) * c
      BY <1>2, <2>1, <2>2 DEF Sampled
    <2>4. b + S \in Nat /\ Tick(b, c, t) + 1 \in Nat
      BY <1>1, <2>1
    <2>. QED
      BY <2>3, <2>4, TickBound
  <1>. QED
    BY <1>1, <1>3 DEF S

LEMMA EveryWindow ==
  ASSUME NEW c, NEW t, Sampled(c, t), NEW p \in Nat,
         NEW r \in 1 .. t - Stride(c, t) + 1
  PROVE  r .. r + Stride(c, t) - 1 \cap Selected(t, p, c, t) # {}
  <1> DEFINE S == Stride(c, t)
             b == r + p - 1
             k == Tick(b, c, t) + 1
             n == Reach(k, c, t)
  <1>0. t \in Nat /\ S \in Nat
    BY StrideReaches DEF Sampled
  <1>1. b \in Nat /\ b + S \in Nat
    BY <1>0
  <1>2. Tick(b, c, t) \in Nat /\ k \in Nat /\ Tick(b, c, t) < k
    BY <1>1, TickBound
  <1>3. n \in Nat /\ b < n /\ Tick(n, c, t) = k /\ Tick(n - 1, c, t) < k
    BY <1>1, <1>2, ReachIncrements
  <1>4. n <= b + S
    BY <1>1, <1>2, StrideReaches, ReachBound
  <1> HIDE DEF n, S, k
  <1>5. /\ n - p \in 1 .. t /\ n - p \in r .. r + S - 1
        /\ (n - p) + p = n /\ (n - p) + p - 1 = n - 1
    BY <1>0, <1>3, <1>4 DEF S
  <1>6. n - p \in Selected(t, p, c, t)
    BY <1>0, <1>3, <1>5, SelectedIff
  <1>. QED
    BY <1>5, <1>6 DEF S

LEMMA EveryRow ==
  ASSUME NEW c, NEW t, Sampled(c, t), NEW r \in 1 .. t
  PROVE  \E p \in 0 .. t - 1 : r \in Selected(t, p, c, t)
  <1> DEFINE k == Tick(r - 1, c, t) + 1
             n == Reach(k, c, t)
  <1>0. t \in Nat /\ c \in Nat \ {0} /\ r - 1 \in Nat /\ (r - 1) + t \in Nat
    BY DEF Sampled
  <1>1. Tick(r - 1, c, t) \in Nat /\ k \in Nat /\ Tick(r - 1, c, t) < k
    BY <1>0, TickBound
  <1>2. n \in Nat /\ r - 1 < n /\ Tick(n, c, t) = k /\ Tick(n - 1, c, t) < k
    BY <1>0, <1>1, ReachIncrements
  <1>3. n <= (r - 1) + t
    <2>1. Tick((r - 1) + t, c, t) = Tick(r - 1, c, t) + c
      BY <1>0, TickRises
    <2>2. k <= Tick((r - 1) + t, c, t)
      BY <1>0, <1>1, <2>1
    <2>. QED
      BY <1>0, <1>1, <2>2, ReachBound
  <1> HIDE DEF n, k
  <1>4. n - r \in 0 .. t - 1 /\ r + (n - r) = n /\ r + (n - r) - 1 = n - 1 /\ n - r \in Nat
    BY <1>0, <1>2, <1>3
  <1>5. r \in Selected(t, n - r, c, t)
    BY <1>0, <1>2, <1>4, SelectedIff
  <1>. QED
    BY <1>4, <1>5

-----------------------------------------------------------------------------
SampleInv ==
  /\ cap \in ScanCap /\ size \in Nat /\ phase \in Nat
  /\ total \in Nat \cup {NotCounted} /\ there \in Nat \cup {NotCounted}
  /\ there # NotCounted =>
       /\ total # NotCounted
       /\ total <= cap => scanned = 1 .. there
       /\ total > cap => scanned = selectEvenSample(there, phase, cap, total)

LEMMA SampleStep == SampleInv /\ [SampleNext]_sampleVars => SampleInv'
  <1>1. SUFFICES ASSUME SampleInv, [SampleNext]_sampleVars PROVE SampleInv'
    OBVIOUS
  <1>2. ASSUME NEW p \in 0 .. MaxChunks, CountChunks(p) PROVE SampleInv'
    <2>1. size # 0 => p % size \in Nat
      BY <1>1 DEF SampleInv
    <2>2. phase' \in Nat
      BY <1>2, <2>1 DEF CountChunks
    <2>3. there = NotCounted
      BY <1>1, <1>2 DEF SampleInv, CountChunks
    <2>. QED
      BY <1>1, <1>2, <2>2, <2>3 DEF SampleInv, CountChunks
  <1>3. CASE SelectChunks
    <2>1. total \in Nat /\ cap \in Nat /\ size \in Nat
      BY <1>1, <1>3, SampleAssumption DEF SampleInv, SelectChunks
    <2>2. CASE total <= cap
      <3>1. scanned' = 1 .. size /\ ~ (total > cap)
        BY <1>3, <2>1, <2>2 DEF SelectChunks
      <3>. QED
        BY <1>1, <1>3, <2>1, <2>2, <3>1 DEF SampleInv, SelectChunks
    <2>3. CASE ~ (total <= cap)
      <3>1. scanned' = selectEvenSample(size, phase, cap, total)
        BY <1>3, <2>1, <2>3 DEF SelectChunks
      <3>. QED
        BY <1>1, <1>3, <2>1, <2>3, <3>1 DEF SampleInv, SelectChunks
    <2>. QED
      BY <2>2, <2>3
  <1>4. CASE AnswerSearch
    BY <1>1, <1>4 DEF SampleInv, AnswerSearch
  <1>5. ASSUME NEW n \in 0 .. MaxChunks, ChunksChange(n) PROVE SampleInv'
    BY <1>1, <1>5, SampleAssumption DEF SampleInv, ChunksChange
  <1>6. CASE UNCHANGED sampleVars
    BY <1>1, <1>6 DEF SampleInv, sampleVars
  <1>. QED
    BY <1>1, <1>2, <1>3, <1>4, <1>5, <1>6 DEF SampleNext

LEMMA SampleFollows == SampleInv => SampleIsEven
  <1>1. SUFFICES ASSUME SampleInv, there # NotCounted PROVE SampleIsEven
    BY DEF SampleIsEven
  <1>2. /\ cap \in Nat \ {0} /\ total \in Nat /\ there \in Nat /\ phase \in Nat
    BY <1>1, SampleAssumption DEF SampleInv
  <1>3. CASE total <= cap
    <2>1. ~ (total > cap) /\ scanned = 1 .. there
      BY <1>1, <1>2, <1>3 DEF SampleInv
    <2>. QED
      BY <2>1 DEF SampleIsEven
  <1>4. CASE ~ (total <= cap)
    <2> DEFINE R(n) == Selected(n, phase, cap, total)
    <2>1. total > cap /\ cap < total /\ Sampled(cap, total)
      BY <1>2, <1>4 DEF Sampled
    <2>2. scanned = FirstOf(cap, R(there))
      BY <1>1, <2>1 DEF SampleInv, selectEvenSample
    <2>3. Cardinality(scanned) <= cap /\ Cardinality(scanned) \in Nat
      <3>1. R(there) \in SUBSET (1 .. there)
        BY DEF Selected
      <3>2. IsFiniteSet(scanned) /\ Cardinality(scanned) <= cap
        BY <1>2, <2>2, <3>1, FirstAreFew
      <3>. QED
        BY <3>2, FS_CardinalityType
    <2>4. ASSUME there = total
          PROVE  /\ Cardinality(scanned) = cap
                 /\ \A rn \in 1 .. total - Stride(cap, total) + 1 :
                      rn .. rn + Stride(cap, total) - 1 \cap scanned # {}
                 /\ \A rn \in 1 .. total : \E p \in 0 .. total - 1 :
                      rn \in Selected(total, p, cap, total)
      <3>1. IsFiniteSet(R(total)) /\ Cardinality(R(total)) = cap /\ R(total) \subseteq Nat
        <4>1. IsFiniteSet(R(total)) /\ Cardinality(R(total)) = cap
          BY <1>2, <2>1, SelectedCount
        <4>2. R(total) \subseteq Nat
          BY <1>2 DEF Selected
        <4>. QED
          BY <4>1, <4>2
      <3>2. FirstOf(cap, R(total)) = R(total)
        BY <1>2, <3>1, FirstOfAll
      <3>3. scanned = R(total)
        BY <2>2, <2>4, <3>2
      <3>. QED
        BY <1>2, <2>1, <3>1, <3>3, EveryWindow, EveryRow
    <2>5. Cardinality(scanned) < total
      BY <1>2, <2>1, <2>3
    <2>. QED
      BY <2>3, <2>4, <2>5 DEF SampleIsEven
  <1>. QED
    BY <1>3, <1>4

(* For every cap and however the store changes while it searches, a search *)
(* compares as many chunks as it may, spread evenly (store.ts:67-110).     *)
THEOREM SamplesAreEven == SampleInit /\ [][SampleNext]_sampleVars => []SampleIsEven
  <1>1. SampleInit => SampleInv
    BY DEF SampleInit, SampleInv
  <1>. QED
    BY <1>1, SampleStep, SampleFollows, PTL

-----------------------------------------------------------------------------
(* Fused activities.                                                       *)

(* R orders S: strictly, and any two of it.                                *)
Orders(R, S) ==
  /\ \A x \in S : <<x, x>> \notin R
  /\ \A x, y, z \in S : <<x, y>> \in R /\ <<y, z>> \in R => <<x, z>> \in R
  /\ \A x, y \in S : x # y => <<x, y>> \in R \/ <<y, x>> \in R

(* s is the set S in the order R.                                          *)
IsInOrder(s, S, R) ==
  /\ s \in [1 .. Cardinality(S) -> S]
  /\ \A x \in S : \E k \in 1 .. Cardinality(S) : s[k] = x
  /\ \A i, j \in 1 .. Cardinality(S) : i < j => <<s[i], s[j]>> \in R

LEMMA InOrderFacts ==
  ASSUME NEW S, IsFiniteSet(S), NEW R, Orders(R, S)
  PROVE  IsInOrder(InOrder(S, R), S, R)
  <1> DEFINE n == Cardinality(S)
             below(x) == {y \in S : <<y, x>> \in R}
             rank(x) == Cardinality(below(x))
             s == InOrder(S, R)
  <1>1. n \in Nat
    BY FS_CardinalityType
  <1>2. \A x \in S : rank(x) \in 0 .. n - 1
    <2>1. TAKE x \in S
    <2>2. below(x) \in SUBSET S /\ below(x) # S
      BY DEF Orders
    <2>3. Cardinality(below(x)) \in Nat /\ Cardinality(below(x)) < n
      BY <2>2, StrictlySmaller
    <2>. QED
      BY <1>1, <2>3
  <1>3. \A x, y \in S : <<x, y>> \in R => rank(x) < rank(y)
    <2>1. TAKE x, y \in S
    <2>2. ASSUME <<x, y>> \in R PROVE Cardinality(below(x)) < Cardinality(below(y))
      <3>1. below(x) \in SUBSET below(y) /\ x \in below(y) /\ x \notin below(x)
        BY <2>2 DEF Orders
      <3>2. below(x) # below(y)
        BY <3>1
      <3>3. IsFiniteSet(below(y))
        <4>1. below(y) \in SUBSET S
          OBVIOUS
        <4>. QED
          BY <4>1, FS_Subset
      <3>. QED
        BY <3>1, <3>2, <3>3, StrictlySmaller
    <2>. QED
      BY <2>2
  <1>4. \A x, y \in S : rank(x) = rank(y) => x = y
    <2>1. TAKE x, y \in S
    <2>2. rank(x) \in Nat /\ rank(y) \in Nat
      BY <1>2
    <2> HIDE DEF rank
    <2>3. ASSUME rank(x) = rank(y) PROVE x = y
      <3>1. ~ (rank(x) < rank(y)) /\ ~ (rank(y) < rank(x))
        BY <2>2, <2>3
      <3>2. <<x, y>> \notin R /\ <<y, x>> \notin R
        BY <1>3, <3>1
      <3>. QED
        BY <3>2 DEF Orders
    <2>. QED
      BY <2>3
  <1>5. \A k \in 1 .. n : \E x \in S : rank(x) = k - 1
    <2> DEFINE f == [x \in S |-> rank(x)]
    <2>1. f \in Injection(S, 0 .. n - 1)
      BY <1>2, <1>4 DEF Injection, IsInjective
    <2>2. IsFiniteSet(0 .. n - 1) /\ Cardinality(0 .. n - 1) = n
      BY <1>1, FS_Interval
    <2>3. f \in Surjection(S, 0 .. n - 1)
      BY <2>1, <2>2, FS_Injection
    <2>4. \A k \in 1 .. n : k - 1 \in 0 .. n - 1
      BY <1>1
    <2>. QED
      BY <2>3, <2>4 DEF Surjection
  <1>6. s = [k \in 1 .. n |-> CHOOSE x \in S : rank(x) = k - 1]
    BY DEF InOrder
  <1> HIDE DEF rank, s
  <1>7. \A k \in 1 .. n : s[k] \in S /\ rank(s[k]) = k - 1
    BY <1>5, <1>6
  <1>8. s \in [1 .. n -> S]
    BY <1>6, <1>7
  <1>9. \A x \in S : \E k \in 1 .. n : s[k] = x
    <2>1. TAKE x \in S
    <2>2. rank(x) + 1 \in 1 .. n /\ (rank(x) + 1) - 1 = rank(x)
      BY <1>1, <1>2
    <2>3. s[rank(x) + 1] \in S /\ rank(s[rank(x) + 1]) = rank(x)
      BY <1>7, <2>2
    <2>. QED
      BY <1>4, <2>2, <2>3
  <1>10. \A i, j \in 1 .. n : i < j => <<s[i], s[j]>> \in R
    <2>1. TAKE i, j \in 1 .. n
    <2>2. ASSUME i < j PROVE <<s[i], s[j]>> \in R
      <3>1. i - 1 < j - 1 /\ ~ (j - 1 < i - 1) /\ i - 1 # j - 1
        BY <1>1, <2>2
      <3>2. s[i] \in S /\ s[j] \in S /\ rank(s[i]) = i - 1 /\ rank(s[j]) = j - 1
        BY <1>7
      <3>3. s[i] # s[j] /\ ~ (rank(s[j]) < rank(s[i]))
        BY <3>1, <3>2
      <3>. QED
        BY <1>3, <3>2, <3>3 DEF Orders
    <2>. QED
      BY <2>2
  <1>. QED
    BY <1>8, <1>9, <1>10 DEF IsInOrder, s

(* What Only leaves are elements at places of their own.                   *)
LEMMA OnlyFacts ==
  ASSUME NEW X, NEW s \in Seq(X), NEW T
  PROVE  /\ Only(s, T) \in Seq(X)
         /\ \A k \in DOMAIN Only(s, T) : \E a \in DOMAIN s : Only(s, T)[k] = s[a]
         /\ \A i, j \in DOMAIN Only(s, T) : i # j =>
              \E a, b \in DOMAIN s : /\ a # b
                                     /\ Only(s, T)[i] = s[a] /\ Only(s, T)[j] = s[b]
  <1> DEFINE places == {i \in DOMAIN s : s[i] \in T}
             R == {p \in places \X places : p[1] < p[2]}
             kept == InOrder(places, R)
             n == Cardinality(places)
  <1>1. IsFiniteSet(places) /\ places \subseteq Nat
    <2>1. DOMAIN s = 1 .. Len(s) /\ Len(s) \in Nat
      OBVIOUS
    <2>2. places \in SUBSET (1 .. Len(s)) /\ IsFiniteSet(1 .. Len(s))
      BY <2>1, FS_Interval
    <2>. QED
      BY <2>2, FS_Subset
  <1>2. \A x, y \in places : <<x, y>> \in R <=> x < y
    OBVIOUS
  <1>3. Orders(R, places)
    <2> HIDE DEF R, places
    <2>1. \A x \in places : ~ (x < x)
      BY <1>1
    <2>2. \A x, y, z \in places : x < y /\ y < z => x < z
      BY <1>1
    <2>3. \A x, y \in places : x # y => x < y \/ y < x
      BY <1>1
    <2>. QED
      BY <1>2, <2>1, <2>2, <2>3 DEF Orders
  <1>4. IsInOrder(kept, places, R)
    BY <1>1, <1>3, InOrderFacts
  <1>5. n \in Nat
    BY <1>1, FS_CardinalityType
  <1>6. Only(s, T) = [k \in 1 .. n |-> s[kept[k]]]
    BY DEF Only
  <1>7. \A k \in 1 .. n : kept[k] \in DOMAIN s /\ s[kept[k]] \in X
    <2>1. \A k \in 1 .. n : kept[k] \in places
      BY <1>4 DEF IsInOrder
    <2> HIDE DEF kept
    <2>. QED
      BY <2>1
  <1>8. \A i, j \in 1 .. n : i # j => kept[i] # kept[j]
    <2>1. TAKE i, j \in 1 .. n
    <2>2. ASSUME i # j PROVE kept[i] # kept[j]
      <3>1. i < j \/ j < i
        BY <1>5, <2>2
      <3>2. <<kept[i], kept[j]>> \in R \/ <<kept[j], kept[i]>> \in R
        BY <1>4, <3>1 DEF IsInOrder
      <3>3. kept[i] \in places /\ kept[j] \in places
        BY <1>4 DEF IsInOrder
      <3> HIDE DEF kept, R, places
      <3>. QED
        BY <1>3, <3>2, <3>3 DEF Orders
    <2>. QED
      BY <2>2
  <1> HIDE DEF kept, n
  <1>9. Only(s, T) \in Seq(X) /\ DOMAIN Only(s, T) = 1 .. n
    BY <1>5, <1>6, <1>7
  <1>. QED
    BY <1>6, <1>7, <1>8, <1>9

LEMMA LeastOf ==
  ASSUME NEW T \in SUBSET Nat, T # {}
  PROVE  \E x \in T : \A y \in T : x <= y
  <1> DEFINE F == {1 .. n : n \in T}
             R == StrictSubsetOrdering(Nat)
  <1>1. F \subseteq FiniteSubsetsOf(Nat) /\ F # {}
    <2>1. \A n \in T : IsFiniteSet(1 .. n) /\ 1 .. n \in SUBSET Nat
      BY FS_Interval
    <2>. QED
      BY <2>1 DEF FiniteSubsetsOf
  <1>2. PICK A \in F : \A B \in F : <<B, A>> \notin R
    BY <1>1, FS_StrictSubsetOrderingWellFounded, WFMin
  <1>3. PICK x \in T : A = 1 .. x
    OBVIOUS
  <1>4. ASSUME NEW y \in T, y < x PROVE FALSE
    <2>1. x \in 1 .. x /\ x \notin 1 .. y /\ 1 .. y \subseteq 1 .. x
      BY <1>4
    <2>2. 1 .. y # 1 .. x
      BY <2>1
    <2>3. 1 .. y \in SUBSET Nat /\ 1 .. x \in SUBSET Nat
      OBVIOUS
    <2>4. <<1 .. y, 1 .. x>> \in R
      BY <2>1, <2>2, <2>3 DEF StrictSubsetOrdering
    <2>. QED
      BY <1>2, <1>3, <2>4
  <1>. QED
    BY <1>4

Start == [clusters |-> <<>>, end |-> 0]

(* acc is what clusterEvents has after each of the first n events.         *)
Accumulates(acc, n, events, w) ==
  acc = [k \in 0 .. n |-> IF k = 0 THEN Start ELSE AddToClusters(acc[k - 1], events[k], w)]

(* Its recursion has a solution: there is no first event it lacks one for. *)
LEMMA Accumulation ==
  ASSUME NEW events, NEW w, NEW N \in Nat
  PROVE  \E acc : Accumulates(acc, N, events, w)
  <1> DEFINE T == {n \in 0 .. N : ~ \E acc : Accumulates(acc, n, events, w)}
  <1>1. SUFFICES ASSUME T # {} PROVE FALSE
    OBVIOUS
  <1>2. PICK n \in T : \A m \in T : n <= m
    <2>1. T \in SUBSET Nat
      OBVIOUS
    <2> HIDE DEF T
    <2>. QED
      BY <1>1, <2>1, LeastOf
  <1>3. n \in 0 .. N /\ ~ \E acc : Accumulates(acc, n, events, w)
    OBVIOUS
  <1>4. CASE n = 0
    <2>1. [k \in 0 .. 0 |-> Start] = [k \in 0 .. 0 |-> IF k = 0 THEN Start
             ELSE AddToClusters([j \in 0 .. 0 |-> Start][k - 1], events[k], w)]
      <3>1. \A k \in 0 .. 0 : k = 0
        OBVIOUS
      <3>. QED
        BY <3>1
    <2>2. Accumulates([k \in 0 .. 0 |-> Start], 0, events, w)
      BY <2>1 DEF Accumulates
    <2>. QED
      BY <1>3, <1>4, <2>2
  <1>5. CASE n # 0
    <2>1. n - 1 \in 0 .. N /\ ~ (n <= n - 1)
      BY <1>3, <1>5
    <2>2. n - 1 \notin T
      BY <1>2, <2>1
    <2>3. PICK h : Accumulates(h, n - 1, events, w)
      BY <2>1, <2>2
    <2> DEFINE g == [k \in 0 .. n |-> IF k = n THEN AddToClusters(h[n - 1], events[n], w)
                                               ELSE h[k]]
    <2>4. \A k \in 0 .. n - 1 : h[k] = IF k = 0 THEN Start
                                       ELSE AddToClusters(h[k - 1], events[k], w)
      <3>1. h = [k \in 0 .. n - 1 |-> IF k = 0 THEN Start
                                      ELSE AddToClusters(h[k - 1], events[k], w)]
        BY <2>3 DEF Accumulates
      <3> DEFINE F(k) == IF k = 0 THEN Start ELSE AddToClusters(h[k - 1], events[k], w)
      <3>2. h = [k \in 0 .. n - 1 |-> F(k)]
        BY <3>1
      <3> HIDE DEF F
      <3>3. \A k \in 0 .. n - 1 : h[k] = F(k)
        BY <3>2
      <3>. QED
        BY <3>3 DEF F
    <2>5. \A k \in 0 .. n : k # 0 => k - 1 \in 0 .. n /\ k - 1 # n /\ k - 1 \in 0 .. n - 1
      BY <1>3
    <2>6. \A k \in 0 .. n : k # n => k \in 0 .. n - 1
      BY <1>3
    <2>7. \A k \in 0 .. n : k # 0 => g[k - 1] = h[k - 1]
      BY <2>5
    <2>8. \A k \in 0 .. n : g[k] = IF k = 0 THEN Start ELSE AddToClusters(h[k - 1], events[k], w)
      <3>1. TAKE k \in 0 .. n
      <3>2. CASE k = n
        BY <1>5, <3>2
      <3>3. CASE k # n
        <4>1. g[k] = h[k] /\ k \in 0 .. n - 1
          BY <2>6, <3>3
        <4>. QED
          BY <2>4, <4>1
      <3>. QED
        BY <3>2, <3>3
    <2>9. g = [k \in 0 .. n |-> g[k]]
      OBVIOUS
    <2> HIDE DEF g
    <2>10. \A k \in 0 .. n : g[k] = IF k = 0 THEN Start ELSE AddToClusters(g[k - 1], events[k], w)
      BY <2>7, <2>8
    <2>11. g = [k \in 0 .. n |-> IF k = 0 THEN Start ELSE AddToClusters(g[k - 1], events[k], w)]
      BY <2>9, <2>10
    <2>12. Accumulates(g, n, events, w)
      BY <2>11 DEF Accumulates
    <2>. QED
      BY <1>3, <2>12
  <1>. QED
    BY <1>4, <1>5

LEMMA ClustersAccumulate ==
  ASSUME NEW E, NEW w, Len(Sorted(E)) \in Nat
  PROVE  \E acc : /\ Accumulates(acc, Len(Sorted(E)), Sorted(E), w)
                  /\ clusterEvents(E, w) = acc[Len(Sorted(E))].clusters
  <1> DEFINE events == Sorted(E)
             after == CHOOSE acc : Accumulates(acc, Len(events), events, w)
  <1>1. Accumulates(after, Len(events), events, w)
    BY Accumulation
  <1>2. clusterEvents(E, w) = after[Len(events)].clusters
    BY DEF clusterEvents, Accumulates, Start
  <1>. QED
    BY <1>1, <1>2

(* Events in the order of their times.                                     *)
InTime(events) ==
  /\ events \in Seq(FEvent)
  /\ \A i, j \in DOMAIN events : i < j => TimeOf[events[i]] <= TimeOf[events[j]]

LEMMA SortedFacts ==
  ASSUME NEW E \in SUBSET FEvent, IsFiniteSet(E)
  PROVE  InTime(Sorted(E)) /\ \A x : x \in E <=> \E i \in DOMAIN Sorted(E) : Sorted(E)[i] = x
  <1> DEFINE R == {p \in E \X E : Before(p[1], p[2])}
             s == Sorted(E)
  <1>1. \A x, y \in E : /\ <<x, y>> \in R <=> Before(x, y)
                        /\ x \in Nat /\ y \in Nat /\ TimeOf[x] \in Nat /\ TimeOf[y] \in Nat
    BY FusionAssumption
  <1>2. Orders(R, E)
    <2> HIDE DEF R
    <2>. QED
      BY <1>1 DEF Orders, Before
  <1>3. IsInOrder(s, E, R)
    BY <1>2, InOrderFacts DEF Sorted
  <1>4. Cardinality(E) \in Nat
    BY FS_CardinalityType
  <1> HIDE DEF s, R
  <1>5. s \in [1 .. Cardinality(E) -> E]
    BY <1>3 DEF IsInOrder
  <1>6. s \in Seq(FEvent) /\ DOMAIN s = 1 .. Cardinality(E)
    BY <1>4, <1>5
  <1>7. \A i, j \in DOMAIN s : i < j => TimeOf[s[i]] <= TimeOf[s[j]]
    <2>1. TAKE i, j \in DOMAIN s
    <2>2. ASSUME i < j PROVE TimeOf[s[i]] <= TimeOf[s[j]]
      <3>1. <<s[i], s[j]>> \in R /\ s[i] \in E /\ s[j] \in E
        BY <1>3, <1>5, <1>6, <2>2 DEF IsInOrder
      <3>. QED
        BY <1>1, <3>1 DEF Before
    <2>. QED
      BY <2>2
  <1>8. \A x : x \in E <=> \E i \in DOMAIN s : s[i] = x
    <2>1. \A x \in E : \E i \in DOMAIN s : s[i] = x
      BY <1>3, <1>6 DEF IsInOrder
    <2>. QED
      BY <1>5, <1>6, <2>1
  <1>. QED
    BY <1>6, <1>7, <1>8 DEF InTime, s

(* The clusters cs of a search window w are runs: linked inside, and each  *)
(* ends further than the window before the next begins.                    *)
Apart(cs, w) ==
  \A c, d \in DOMAIN cs : c < d =>
    \A x \in cs[c], y \in cs[d] : TimeOf[x] + w < TimeOf[y]

Runs(cs, w) ==
  /\ cs \in Seq(SUBSET FEvent)
  /\ \A c \in DOMAIN cs : Linked(cs[c], w)
  /\ Apart(cs, w)

(* They hold the first n events, the last of which can be extended.        *)
Holds(acc, n, events, w) ==
  /\ Runs(acc.clusters, w)
  /\ \A x : (\E c \in DOMAIN acc.clusters : x \in acc.clusters[c])
              <=> \E i \in 1 .. n : events[i] = x
  /\ acc.clusters = <<>> <=> n = 0
  /\ n # 0 => /\ events[n] \in acc.clusters[Len(acc.clusters)]
              /\ acc.end = TimeOf[events[n]] + w

LEMMA MaxOfTwo ==
  ASSUME NEW a \in Nat, NEW b \in Nat, a <= b
  PROVE  Max({a, b}) = b
  <1>1. b \in {a, b} /\ \A y \in {a, b} : b >= y
    OBVIOUS
  <1>2. \A x \in {a, b} : (\A y \in {a, b} : x >= y) => x = b
    OBVIOUS
  <1>. QED
    BY <1>1, <1>2 DEF Max

LEMMA AccumulateStep ==
  ASSUME NEW acc, NEW events, InTime(events), NEW w \in Nat,
         NEW n \in Nat, n + 1 \in DOMAIN events, Holds(acc, n, events, w)
  PROVE  Holds(AddToClusters(acc, events[n + 1], w), n + 1, events, w)
  <1> DEFINE cs == acc.clusters
             L == Len(acc.clusters)
             e == events[n + 1]
             new == AddToClusters(acc, e, w)
  <1>1. cs \in Seq(SUBSET FEvent) /\ L \in Nat /\ DOMAIN cs = 1 .. L /\ e \in FEvent
    BY DEF Holds, Runs, InTime
  <1>2. \A x \in FEvent : TimeOf[x] \in Nat
    BY FusionAssumption
  <1>3. \A i \in 1 .. n : i \in DOMAIN events /\ i < n + 1 /\ events[i] \in FEvent
    <2>1. DOMAIN events = 1 .. Len(events) /\ Len(events) \in Nat
      BY DEF InTime
    <2>. QED
      BY <2>1 DEF InTime
  <1>4. \A c \in DOMAIN cs : \A x \in cs[c] :
          /\ x \in FEvent /\ TimeOf[x] <= TimeOf[e]
          /\ n # 0 /\ TimeOf[x] <= TimeOf[events[n]]
    <2>1. TAKE c \in DOMAIN cs
    <2>2. TAKE x \in cs[c]
    <2>3. PICK i \in 1 .. n : events[i] = x
      BY <2>1, <2>2 DEF Holds
    <2>4. x \in FEvent /\ TimeOf[x] <= TimeOf[e]
      BY <1>3, <2>3 DEF InTime
    <2>5. n # 0 /\ n \in 1 .. n /\ n \in DOMAIN events /\ i \in DOMAIN events
      BY <1>3, <2>3
    <2>6. TimeOf[x] <= TimeOf[events[n]]
      <3>1. CASE i = n
        BY <1>2, <2>3, <2>4, <3>1
      <3>2. CASE i # n
        BY <2>3, <2>5, <3>2 DEF InTime
      <3>. QED
        BY <3>1, <3>2
    <2>. QED
      BY <2>4, <2>5, <2>6
  <1>5. n # 0 => /\ L \in DOMAIN cs /\ events[n] \in cs[L] /\ events[n] \in FEvent
                 /\ acc.end = TimeOf[events[n]] + w /\ TimeOf[events[n]] <= TimeOf[e]
    <2>1. ASSUME n # 0 PROVE L \in DOMAIN cs /\ events[n] \in cs[L]
      BY <1>1, <2>1 DEF Holds
    <2>. QED
      BY <1>4, <2>1 DEF Holds
  <1>6. CASE cs # <<>> /\ TimeOf[e] <= acc.end
    <2> DEFINE grown == [cs EXCEPT ![L] = @ \union {e}]
    <2>1. n # 0
      BY <1>6 DEF Holds
    <2>2. new = [clusters |-> grown, end |-> Extended(acc, e, w)]
      BY <1>6 DEF AddToClusters
    <2>3. Extended(acc, e, w) = TimeOf[e] + w
      <3>1. acc.end \in Nat /\ TimeOf[e] + w \in Nat /\ acc.end <= TimeOf[e] + w
        BY <1>1, <1>2, <1>5, <2>1
      <3>. QED
        BY <3>1, MaxOfTwo DEF Extended
    <2>4. /\ grown \in Seq(SUBSET FEvent) /\ DOMAIN grown = DOMAIN cs /\ Len(grown) = L
          /\ grown[L] = cs[L] \union {e}
          /\ \A c \in DOMAIN cs : c # L => grown[c] = cs[c]
      BY <1>1, <1>5, <2>1
    <2> HIDE DEF grown, e, cs, new
    <2>5. \A c \in DOMAIN grown : Linked(grown[c], w)
      <3>1. TAKE c \in DOMAIN grown
      <3>2. Linked(cs[c], w)
        BY <2>4, <3>1 DEF Holds, Runs, cs
      <3>3. CASE c # L
        BY <2>4, <3>2, <3>3
      <3>4. CASE c = L
        <4>1. SUFFICES ASSUME NEW x \in grown[L], NEW y \in grown[L], TimeOf[y] > TimeOf[x]
                       PROVE  \E f \in grown[L] : TimeOf[f] > TimeOf[x]
                                                  /\ TimeOf[f] - TimeOf[x] <= w
          BY <3>4 DEF Linked
        <4>2. x \in cs[L]
          BY <1>1, <1>2, <1>4, <1>5, <2>1, <2>4, <4>1
        <4>3. x \in FEvent /\ y \in FEvent /\ TimeOf[x] \in Nat /\ TimeOf[y] \in Nat
              /\ TimeOf[events[n]] \in Nat /\ TimeOf[e] \in Nat
          BY <1>1, <1>2, <1>4, <1>5, <2>1, <2>4, <4>1
        <4>4. CASE \E z \in cs[L] : TimeOf[z] > TimeOf[x]
          <5>1. \E f \in cs[L] : TimeOf[f] > TimeOf[x] /\ TimeOf[f] - TimeOf[x] <= w
            BY <3>2, <3>4, <4>2, <4>4 DEF Linked
          <5>. QED
            BY <2>4, <5>1
        <4>5. CASE ~ \E z \in cs[L] : TimeOf[z] > TimeOf[x]
          <5>1. y = e
            BY <2>4, <4>1, <4>5
          <5>2. TimeOf[x] >= TimeOf[events[n]]
            BY <1>5, <2>1, <4>3, <4>5
          <5>3. TimeOf[e] - TimeOf[x] <= w
            BY <1>5, <1>6, <2>1, <4>3, <5>2
          <5>. QED
            BY <2>4, <4>1, <5>1, <5>3
        <4>. QED
          BY <4>4, <4>5
      <3>. QED
        BY <3>3, <3>4
    <2>6. Apart(grown, w)
      <3>1. SUFFICES ASSUME NEW c \in DOMAIN cs, NEW d \in DOMAIN cs, c < d,
                            NEW x \in grown[c], NEW y \in grown[d]
                     PROVE  TimeOf[x] + w < TimeOf[y]
        BY <2>4 DEF Apart
      <3>2. c # L /\ grown[c] = cs[c]
        BY <1>1, <2>4, <3>1
      <3>3. \A z \in cs[d] : TimeOf[x] + w < TimeOf[z]
        BY <3>1, <3>2 DEF Holds, Runs, Apart, cs
      <3>4. CASE y \in cs[d]
        BY <3>3, <3>4
      <3>5. CASE y \notin cs[d]
        <4>1. d = L /\ y = e
          BY <2>4, <3>1, <3>5
        <4>2. TimeOf[x] + w < TimeOf[events[n]] /\ TimeOf[events[n]] <= TimeOf[e]
          BY <1>5, <2>1, <3>3, <4>1
        <4>3. TimeOf[x] \in Nat /\ TimeOf[events[n]] \in Nat /\ TimeOf[e] \in Nat
          BY <1>1, <1>2, <1>4, <1>5, <2>1, <3>1, <3>2
        <4>. QED
          BY <4>1, <4>2, <4>3
      <3>. QED
        BY <3>4, <3>5
    <2>7. \A x : (\E c \in DOMAIN grown : x \in grown[c]) <=> \E i \in 1 .. n + 1 : events[i] = x
      <3>1. \A x : (\E c \in DOMAIN grown : x \in grown[c])
                     <=> x = e \/ \E c \in DOMAIN cs : x \in cs[c]
        BY <1>5, <2>1, <2>4
      <3>2. \A x : (\E i \in 1 .. n + 1 : events[i] = x)
                     <=> x = e \/ \E i \in 1 .. n : events[i] = x
        <4>1. 1 .. n + 1 = (1 .. n) \union {n + 1}
          OBVIOUS
        <4>. QED
          BY <4>1 DEF e
      <3>. QED
        BY <3>1, <3>2 DEF Holds, cs
    <2>8. grown # <<>> /\ n + 1 # 0
      BY <1>5, <2>1, <2>4
    <2>9. e \in grown[Len(grown)]
      BY <2>4
    <2>10. new.clusters = grown /\ new.end = TimeOf[e] + w
      BY <2>2, <2>3
    <2>. QED
      BY <2>4, <2>5, <2>6, <2>7, <2>8, <2>9, <2>10 DEF Holds, Runs, new, e
  <1>7. CASE ~ (cs # <<>> /\ TimeOf[e] <= acc.end)
    <2> DEFINE more == Append(cs, {e})
    <2>1. new = [clusters |-> more, end |-> TimeOf[e] + w]
      BY <1>7 DEF AddToClusters
    <2>2. /\ more \in Seq(SUBSET FEvent) /\ DOMAIN more = 1 .. L + 1 /\ Len(more) = L + 1
          /\ more[L + 1] = {e} /\ \A c \in 1 .. L : more[c] = cs[c]
      BY <1>1
    <2> HIDE DEF more, e, cs, new
    <2>3. \A c \in 1 .. L + 1 : c # L + 1 => c \in 1 .. L
      BY <1>1
    <2>4. \A c \in DOMAIN more : Linked(more[c], w)
      <3>1. TAKE c \in DOMAIN more
      <3>2. CASE c = L + 1
        <4>1. ~ (TimeOf[e] > TimeOf[e])
          BY <1>1, <1>2
        <4>. QED
          BY <2>2, <3>2, <4>1 DEF Linked
      <3>3. CASE c # L + 1
        <4>1. more[c] = cs[c] /\ c \in DOMAIN cs
          BY <1>1, <2>2, <2>3, <3>1, <3>3
        <4>. QED
          BY <4>1 DEF Holds, Runs, cs
      <3>. QED
        BY <3>2, <3>3
    <2>5. Apart(more, w)
      <3>1. SUFFICES ASSUME NEW c \in 1 .. L + 1, NEW d \in 1 .. L + 1, c < d,
                            NEW x \in more[c], NEW y \in more[d]
                     PROVE  TimeOf[x] + w < TimeOf[y]
        BY <2>2 DEF Apart
      <3>2. c \in 1 .. L /\ more[c] = cs[c] /\ c \in DOMAIN cs /\ x \in cs[c]
        BY <1>1, <2>2, <3>1
      <3>3. CASE d # L + 1
        <4>1. more[d] = cs[d] /\ d \in DOMAIN cs
          BY <1>1, <2>2, <2>3, <3>1, <3>3
        <4>. QED
          BY <3>1, <3>2, <4>1 DEF Holds, Runs, Apart, cs
      <3>4. CASE d = L + 1
        <4>1. y = e /\ cs # <<>> /\ n # 0
          BY <1>1, <1>4, <2>2, <3>1, <3>2, <3>4
        <4>2. ~ (TimeOf[e] <= TimeOf[events[n]] + w)
          BY <1>5, <1>7, <4>1
        <4>3. /\ TimeOf[x] <= TimeOf[events[n]]
              /\ TimeOf[x] \in Nat /\ TimeOf[events[n]] \in Nat /\ TimeOf[e] \in Nat
          BY <1>1, <1>2, <1>4, <1>5, <3>2, <4>1
        <4>. QED
          BY <4>1, <4>2, <4>3
      <3>. QED
        BY <3>3, <3>4
    <2>6. \A x : (\E c \in DOMAIN more : x \in more[c]) <=> \E i \in 1 .. n + 1 : events[i] = x
      <3>1. \A x : (\E c \in DOMAIN more : x \in more[c])
                     <=> x = e \/ \E c \in DOMAIN cs : x \in cs[c]
        <4>1. 1 .. L + 1 = (1 .. L) \union {L + 1}
          BY <1>1
        <4>. QED
          BY <1>1, <2>2, <4>1
      <3>2. \A x : (\E i \in 1 .. n + 1 : events[i] = x)
                     <=> x = e \/ \E i \in 1 .. n : events[i] = x
        <4>1. 1 .. n + 1 = (1 .. n) \union {n + 1}
          OBVIOUS
        <4>. QED
          BY <4>1 DEF e
      <3>. QED
        BY <3>1, <3>2 DEF Holds, cs
    <2>7. more # <<>> /\ n + 1 # 0
      BY <1>1, <2>2
    <2>8. e \in more[Len(more)]
      BY <2>2
    <2>9. new.clusters = more /\ new.end = TimeOf[e] + w
      BY <2>1
    <2>. QED
      BY <2>2, <2>4, <2>5, <2>6, <2>7, <2>8, <2>9 DEF Holds, Runs, new, e
  <1>. QED
    BY <1>6, <1>7

LEMMA AccumulationHolds ==
  ASSUME NEW events, InTime(events), NEW w \in Nat,
         NEW acc, Accumulates(acc, Len(events), events, w)
  PROVE  Holds(acc[Len(events)], Len(events), events, w)
  <1> DEFINE N == Len(events)
             T == {n \in 0 .. N : ~ Holds(acc[n], n, events, w)}
             F(k) == IF k = 0 THEN Start ELSE AddToClusters(acc[k - 1], events[k], w)
  <1>1. N \in Nat /\ DOMAIN events = 1 .. N
    BY DEF InTime
  <1>2. \A k \in 0 .. N : acc[k] = F(k)
    <2>1. acc = [k \in 0 .. N |-> F(k)]
      BY DEF Accumulates
    <2> HIDE DEF F
    <2>. QED
      BY <2>1
  <1>3. SUFFICES ASSUME T # {} PROVE FALSE
    BY <1>1
  <1>4. PICK n \in T : \A m \in T : n <= m
    <2>1. T \in SUBSET Nat
      OBVIOUS
    <2> HIDE DEF T
    <2>. QED
      BY <1>3, <2>1, LeastOf
  <1>5. n \in 0 .. N /\ ~ Holds(acc[n], n, events, w)
    OBVIOUS
  <1>6. CASE n = 0
    <2>1. acc[n] = Start
      BY <1>2, <1>5, <1>6
    <2>2. Start.clusters = <<>> /\ DOMAIN Start.clusters = {} /\ <<>> \in Seq(SUBSET FEvent)
      BY DEF Start
    <2>3. Runs(Start.clusters, w)
      BY <2>2 DEF Runs, Apart
    <2>4. 1 .. 0 = {}
      OBVIOUS
    <2>5. Holds(Start, 0, events, w)
      BY <2>2, <2>3, <2>4 DEF Holds
    <2>. QED
      BY <1>5, <1>6, <2>1, <2>5
  <1>7. CASE n # 0
    <2>1. n - 1 \in Nat /\ n - 1 \in 0 .. N /\ (n - 1) + 1 = n /\ n \in DOMAIN events
          /\ ~ (n <= n - 1)
      BY <1>1, <1>5, <1>7
    <2>2. n - 1 \notin T
      BY <1>4, <2>1
    <2>3. Holds(acc[n - 1], n - 1, events, w)
      BY <2>1, <2>2
    <2>4. Holds(AddToClusters(acc[n - 1], events[(n - 1) + 1], w), (n - 1) + 1, events, w)
      BY <2>1, <2>3, AccumulateStep
    <2>5. acc[n] = AddToClusters(acc[n - 1], events[n], w)
      BY <1>2, <1>5, <1>7
    <2>6. Holds(acc[n], n, events, w)
      BY <2>1, <2>4, <2>5
    <2>. QED
      BY <1>5, <2>6
  <1>. QED
    BY <1>6, <1>7

(* clusterEvents divides any events into runs.                             *)
LEMMA ClusterFacts ==
  ASSUME NEW E \in SUBSET FEvent, IsFiniteSet(E), NEW w \in Nat
  PROVE  /\ Runs(clusterEvents(E, w), w)
         /\ \A x : x \in E <=> \E c \in DOMAIN clusterEvents(E, w) : x \in clusterEvents(E, w)[c]
  <1> DEFINE events == Sorted(E)
  <1>1. InTime(events) /\ \A x : x \in E <=> \E i \in DOMAIN events : events[i] = x
    BY SortedFacts
  <1>2. Len(events) \in Nat /\ DOMAIN events = 1 .. Len(events)
    BY <1>1 DEF InTime
  <1>3. PICK acc : /\ Accumulates(acc, Len(events), events, w)
                   /\ clusterEvents(E, w) = acc[Len(events)].clusters
    BY <1>2, ClustersAccumulate
  <1>4. Holds(acc[Len(events)], Len(events), events, w)
    BY <1>1, <1>3, AccumulationHolds
  <1>. QED
    BY <1>1, <1>2, <1>3, <1>4 DEF Holds

(* No event is in two clusters of what is fused, nor in one that is not    *)
(* offered; and the same of what is written of them.                       *)
Disjoint(cs) ==
  /\ cs \in Seq(SUBSET FEvent)
  /\ \A c, d \in DOMAIN cs : c # d => cs[c] \intersect cs[d] = {}

Within(cs, E) == \A c \in DOMAIN cs : cs[c] \subseteq E

LEMMA OnlyDisjoint ==
  ASSUME NEW cs, Disjoint(cs), NEW E, Within(cs, E), NEW T
  PROVE  Disjoint(Only(cs, T)) /\ Within(Only(cs, T), E)
  <1> DEFINE o == Only(cs, T)
  <1>1. /\ o \in Seq(SUBSET FEvent)
        /\ \A i, j \in DOMAIN o : i # j =>
             \E a, b \in DOMAIN cs : a # b /\ o[i] = cs[a] /\ o[j] = cs[b]
    BY OnlyFacts DEF Disjoint
  <1>2. \A i \in DOMAIN o : \E a \in DOMAIN cs : o[i] = cs[a]
    BY OnlyFacts DEF Disjoint
  <1> HIDE DEF o
  <1>. QED
    BY <1>1, <1>2 DEF Disjoint, Within, o

LEMMA FuseFacts ==
  ASSUME NEW E \in SUBSET FEvent, IsFiniteSet(E), NEW w \in Nat
  PROVE  Disjoint(fuse(E, w)) /\ Within(fuse(E, w), E)
  <1> DEFINE D == E \ LocalOnly
             cs == clusterEvents(D, w)
  <1>1. D \in SUBSET FEvent /\ IsFiniteSet(D)
    BY FS_Difference
  <1> HIDE DEF D
  <1>2. Runs(cs, w) /\ \A x : x \in D <=> \E c \in DOMAIN cs : x \in cs[c]
    BY <1>1, ClusterFacts
  <1> HIDE DEF cs
  <1>3. Within(cs, E)
    BY <1>2 DEF Within, D
  <1>4. Disjoint(cs)
    <2>1. cs \in Seq(SUBSET FEvent) /\ DOMAIN cs \subseteq Nat
      BY <1>2 DEF Runs
    <2>2. \A x \in FEvent : ~ (TimeOf[x] + w < TimeOf[x])
      BY FusionAssumption
    <2>3. \A c, d \in DOMAIN cs : c < d => cs[c] \intersect cs[d] = {}
      BY <1>2, <2>1, <2>2 DEF Runs, Apart
    <2>4. \A c, d \in DOMAIN cs : c # d => c < d \/ d < c
      BY <2>1
    <2>. QED
      BY <2>1, <2>3, <2>4 DEF Disjoint
  <1>5. fuse(E, w) = Only(cs, {C \in ToSet(cs) : Qualifies(C)})
    BY DEF fuse, cs, D
  <1>. QED
    BY <1>3, <1>4, <1>5, OnlyDisjoint

-----------------------------------------------------------------------------
(* An event of an activity is known to be fused, or its record was lost.   *)
FusionInv ==
  /\ arrived \in SUBSET FEvent /\ IsFiniteSet(arrived) /\ waiting \subseteq arrived
  /\ activities \in Seq(SUBSET FEvent)
  /\ Within(activities, fused \union unrecorded)
  /\ FusedOnce

LEMMA JoinFacts ==
  ASSUME NEW s \in Seq(SUBSET FEvent), NEW t \in Seq(SUBSET FEvent)
  PROVE  /\ s \o t \in Seq(SUBSET FEvent)
         /\ \A i \in DOMAIN (s \o t) : i \in Nat
         /\ \A i \in DOMAIN (s \o t) :
              \/ i \in DOMAIN s /\ (s \o t)[i] = s[i]
              \/ i \notin DOMAIN s /\ i - Len(s) \in DOMAIN t /\ (s \o t)[i] = t[i - Len(s)]
         /\ \A i, j \in DOMAIN (s \o t) : i < j /\ j \in DOMAIN s => i \in DOMAIN s
  OBVIOUS

(* Appending activities of events that were not known to be fused.         *)
LEMMA JoinFused ==
  ASSUME FusionInv, NEW new, Disjoint(new), Within(new, FEvent \ fused),
         activities' = activities \o new,
         \/ unrecorded' = unrecorded /\ fused' = fused \union UNION ToSet(new)
         \/ unrecorded' = unrecorded \union UNION ToSet(new) /\ fused' = fused
  PROVE  /\ activities' \in Seq(SUBSET FEvent)
         /\ Within(activities', fused' \union unrecorded')
         /\ FusedOnce'
  <1> DEFINE A == activities
  <1>1. A \in Seq(SUBSET FEvent) /\ new \in Seq(SUBSET FEvent)
    BY DEF FusionInv, Disjoint
  <1>2. activities' \in Seq(SUBSET FEvent)
    BY <1>1, JoinFacts
  <1>3. \A i \in DOMAIN activities' :
          \/ i \in DOMAIN A /\ activities'[i] = A[i]
          \/ i \notin DOMAIN A /\ i - Len(A) \in DOMAIN new /\ activities'[i] = new[i - Len(A)]
    BY <1>1, JoinFacts
  <1>4. \A i, j \in DOMAIN activities' : i < j /\ j \in DOMAIN A => i \in DOMAIN A
    BY <1>1, JoinFacts
  <1>5. \A i \in DOMAIN activities' : i \in Nat /\ Len(A) \in Nat
    BY <1>1, JoinFacts
  <1>6. fused \union unrecorded \subseteq fused' \union unrecorded' /\ unrecorded \subseteq unrecorded'
    OBVIOUS
  <1>7. \A k \in DOMAIN new : new[k] \subseteq fused' \union unrecorded'
    BY DEF ToSet
  <1>8. Within(activities', fused' \union unrecorded')
    <2>1. \A i \in DOMAIN A : A[i] \subseteq fused \union unrecorded
      BY DEF FusionInv, Within
    <2> HIDE DEF A
    <2>. QED
      BY <1>3, <1>6, <1>7, <2>1 DEF Within
  <1>9. \A i, j \in DOMAIN activities' : i < j =>
          activities'[i] \intersect activities'[j] \subseteq unrecorded'
    <2>1. SUFFICES ASSUME NEW i \in DOMAIN activities', NEW j \in DOMAIN activities', i < j
                   PROVE  activities'[i] \intersect activities'[j] \subseteq unrecorded'
      OBVIOUS
    <2>2. CASE j \in DOMAIN A
      <3>1. i \in DOMAIN A /\ activities'[i] = A[i] /\ activities'[j] = A[j]
        BY <1>3, <1>4, <2>1, <2>2
      <3>2. A[i] \intersect A[j] \subseteq unrecorded
        BY <2>1, <2>2, <3>1 DEF FusionInv, FusedOnce
      <3>. QED
        BY <1>6, <3>1, <3>2
    <2>3. CASE j \notin DOMAIN A /\ i \in DOMAIN A
      <3>1. activities'[i] = A[i] /\ A[i] \subseteq fused \union unrecorded
        BY <1>3, <2>3 DEF FusionInv, Within
      <3>2. activities'[j] \intersect fused = {}
        BY <1>3, <2>3 DEF Within
      <3>. QED
        BY <1>6, <3>1, <3>2
    <2>4. CASE j \notin DOMAIN A /\ i \notin DOMAIN A
      <3>1. /\ i - Len(A) \in DOMAIN new /\ activities'[i] = new[i - Len(A)]
            /\ j - Len(A) \in DOMAIN new /\ activities'[j] = new[j - Len(A)]
            /\ i - Len(A) # j - Len(A)
        BY <1>3, <1>5, <2>1, <2>4
      <3>. QED
        BY <3>1 DEF Disjoint
    <2>. QED
      BY <2>2, <2>3, <2>4
  <1>. QED
    BY <1>2, <1>8, <1>9 DEF FusedOnce

LEMMA WriteKeeps ==
  ASSUME FusionInv, NEW E \in SUBSET FEvent, IsFiniteSet(E), NEW w \in Nat,
         writeFusedActivities(fuse(unfusedEvents(E), w))
  PROVE  /\ activities' \in Seq(SUBSET FEvent)
         /\ Within(activities', fused' \union unrecorded')
         /\ FusedOnce'
  <1> DEFINE D == unfusedEvents(E)
             acts == fuse(D, w)
             fresh == Only(acts, {C \in ToSet(acts) : ~ C \subseteq fused})
  <1>1. D \in SUBSET FEvent /\ IsFiniteSet(D) /\ D \subseteq FEvent \ fused
    BY FS_Difference DEF unfusedEvents
  <1>2. Disjoint(acts) /\ Within(acts, D)
    BY <1>1, FuseFacts
  <1>3. Disjoint(fresh) /\ Within(fresh, D)
    BY <1>2, OnlyDisjoint
  <1>4. \/ /\ activities' = activities \o fresh
           /\ fused' = fused \union UNION ToSet(fresh)
           /\ UNCHANGED <<unrecorded, trouble>>
        \/ \E n \in 0 .. Len(fresh) :
             /\ activities' = activities \o SubSeq(fresh, 1, n)
             /\ unrecorded' = unrecorded \union UNION ToSet(SubSeq(fresh, 1, n))
             /\ UNCHANGED fused
    BY DEF writeFusedActivities
  <1> HIDE DEF D, acts, fresh
  <1>5. Within(fresh, FEvent \ fused)
    BY <1>1, <1>3 DEF Within
  <1>6. CASE /\ activities' = activities \o fresh
             /\ fused' = fused \union UNION ToSet(fresh)
             /\ UNCHANGED <<unrecorded, trouble>>
    BY <1>3, <1>5, <1>6, JoinFused
  <1>7. ASSUME NEW n \in 0 .. Len(fresh),
               activities' = activities \o SubSeq(fresh, 1, n),
               unrecorded' = unrecorded \union UNION ToSet(SubSeq(fresh, 1, n)),
               UNCHANGED fused
        PROVE  /\ activities' \in Seq(SUBSET FEvent)
               /\ Within(activities', fused' \union unrecorded')
               /\ FusedOnce'
    <2> DEFINE part == SubSeq(fresh, 1, n)
    <2>1. fresh \in Seq(SUBSET FEvent)
      BY <1>3 DEF Disjoint
    <2>2. /\ part \in Seq(SUBSET FEvent)
          /\ \A k \in DOMAIN part : k \in DOMAIN fresh /\ part[k] = fresh[k]
      BY <2>1
    <2> HIDE DEF part
    <2>3. Disjoint(part) /\ Within(part, FEvent \ fused)
      BY <1>3, <1>5, <2>2 DEF Disjoint, Within
    <2>. QED
      BY <1>7, <2>3, JoinFused DEF part
  <1>. QED
    BY <1>4, <1>6, <1>7

LEMMA FusionStep == FusionInv /\ [FusionNext]_fusionVars => FusionInv'
  <1>1. SUFFICES ASSUME FusionInv, [FusionNext]_fusionVars PROVE FusionInv'
    OBVIOUS
  <1>2. \A E \in SUBSET arrived : E \in SUBSET FEvent /\ IsFiniteSet(E)
    BY <1>1, FS_Subset DEF FusionInv
  <1>3. ASSUME NEW e \in FEvent, Arrive(e) PROVE FusionInv'
    <2>1. IsFiniteSet(arrived \union {e})
      BY <1>1, FS_AddElement DEF FusionInv
    <2>. QED
      BY <1>1, <1>3, <2>1 DEF FusionInv, Arrive, FusedOnce, Within
  <1>4. ASSUME NEW w \in Window, NEW from \in {TimeOf[e] : e \in FEvent}, MemoryFuse(from, w)
        PROVE  FusionInv'
    <2> DEFINE recent == {e \in waiting : TimeOf[e] >= from}
    <2>1. recent \in SUBSET arrived /\ w \in Nat
      BY <1>1, FusionAssumption DEF FusionInv
    <2>2. writeFusedActivities(fuse(unfusedEvents(recent), w)) /\ UNCHANGED <<waiting, arrived>>
      BY <1>4 DEF MemoryFuse
    <2> HIDE DEF recent
    <2>3. /\ activities' \in Seq(SUBSET FEvent)
          /\ Within(activities', fused' \union unrecorded')
          /\ FusedOnce'
      BY <1>1, <1>2, <2>1, <2>2, WriteKeeps
    <2>. QED
      BY <1>1, <2>2, <2>3 DEF FusionInv
  <1>5. ASSUME NEW E \in SUBSET waiting, DaemonFuse(E) PROVE FusionInv'
    <2>1. waiting' \subseteq arrived /\ arrived' = arrived
      BY <1>1, <1>5 DEF DaemonFuse, FusionInv
    <2>2. CASE Cardinality(unfusedEvents(E)) >= 2
      <3>1. writeFusedActivities(fuse(unfusedEvents(E), DaemonWindow))
        BY <1>5, <2>2 DEF DaemonFuse
      <3>2. E \in SUBSET arrived /\ DaemonWindow \in Nat
        BY <1>1, FusionAssumption DEF FusionInv
      <3>3. /\ activities' \in Seq(SUBSET FEvent)
            /\ Within(activities', fused' \union unrecorded')
            /\ FusedOnce'
        BY <1>1, <1>2, <3>1, <3>2, WriteKeeps
      <3>. QED
        BY <1>1, <2>1, <3>3 DEF FusionInv
    <2>3. CASE ~ (Cardinality(unfusedEvents(E)) >= 2)
      <3>1. UNCHANGED <<activities, fused, unrecorded, trouble>>
        BY <1>5, <2>3 DEF DaemonFuse
      <3>. QED
        BY <1>1, <2>1, <3>1 DEF FusionInv, FusedOnce, Within
    <2>. QED
      BY <2>2, <2>3
  <1>6. CASE Forget
    BY <1>1, <1>6 DEF FusionInv, Forget, FusedOnce, Within
  <1>7. CASE UNCHANGED fusionVars
    BY <1>1, <1>7 DEF FusionInv, fusionVars, FusedOnce, Within
  <1>. QED
    BY <1>1, <1>3, <1>4, <1>5, <1>6, <1>7 DEF FusionNext

LEMMA FusionStart == FusionInit => FusionInv
  <1>1. SUFFICES ASSUME FusionInit PROVE FusionInv
    OBVIOUS
  <1>2. activities = <<>> /\ DOMAIN activities = {} /\ activities \in Seq(SUBSET FEvent)
    BY <1>1 DEF FusionInit
  <1>3. IsFiniteSet({})
    BY FS_EmptySet
  <1>. QED
    BY <1>1, <1>2, <1>3 DEF FusionInit, FusionInv, FusedOnce, Within

(* Whatever arrives when, an event is in one activity as long as the       *)
(* record of the activities is kept (tools.ts:1986-2024).                  *)
THEOREM EventsFuseOnce == FusionInit /\ [][FusionNext]_fusionVars => []FusedOnce
  <1>1. FusionInv => FusedOnce
    BY DEF FusionInv
  <1>. QED
    BY <1>1, FusionStart, FusionStep, PTL

LEMMA WaitingRuns == FusionInv => ClustersAreRuns
  <1>1. SUFFICES ASSUME FusionInv, NEW w \in Window
                 PROVE  LET clusters == ToSet(clusterEvents(waiting, w))
                        IN  /\ UNION clusters = waiting
                            /\ \A C \in clusters : Linked(C, w)
                            /\ \A C, D \in clusters : C # D =>
                                 \A e \in C, f \in D :
                                   IF TimeOf[e] <= TimeOf[f] THEN TimeOf[f] - TimeOf[e] > w
                                                             ELSE TimeOf[e] - TimeOf[f] > w
    BY DEF ClustersAreRuns
  <1> DEFINE cs == clusterEvents(waiting, w)
  <1>2. waiting \in SUBSET FEvent /\ IsFiniteSet(waiting) /\ w \in Nat
    BY <1>1, FS_Subset, FusionAssumption DEF FusionInv
  <1>3. Runs(cs, w) /\ \A x : x \in waiting <=> \E c \in DOMAIN cs : x \in cs[c]
    BY <1>2, ClusterFacts
  <1> HIDE DEF cs
  <1>4. UNION ToSet(cs) = waiting /\ \A C \in ToSet(cs) : Linked(C, w)
    BY <1>3 DEF ToSet, Runs
  <1>5. ASSUME NEW c \in DOMAIN cs, NEW d \in DOMAIN cs, cs[c] # cs[d],
               NEW e \in cs[c], NEW f \in cs[d]
        PROVE  IF TimeOf[e] <= TimeOf[f] THEN TimeOf[f] - TimeOf[e] > w
                                         ELSE TimeOf[e] - TimeOf[f] > w
    <2>1. c \in Nat /\ d \in Nat /\ c # d
      BY <1>3, <1>5 DEF Runs
    <2>2. TimeOf[e] \in Nat /\ TimeOf[f] \in Nat
      <3>1. cs[c] \in SUBSET FEvent /\ cs[d] \in SUBSET FEvent
        BY <1>3, <1>5 DEF Runs
      <3>. QED
        BY <1>5, <3>1, FusionAssumption
    <2>3. TimeOf[e] + w < TimeOf[f] \/ TimeOf[f] + w < TimeOf[e]
      BY <1>3, <1>5, <2>1 DEF Runs, Apart
    <2>. QED
      BY <1>2, <2>2, <2>3
  <1>6. \A C, D \in ToSet(cs) : C # D =>
          \A e \in C, f \in D : IF TimeOf[e] <= TimeOf[f] THEN TimeOf[f] - TimeOf[e] > w
                                                          ELSE TimeOf[e] - TimeOf[f] > w
    BY <1>5 DEF ToSet
  <1>. QED
    BY <1>4, <1>6 DEF cs

(* The clusters of any events that wait are the runs of the gap rule       *)
(* (collector/fusion.ts:141-167).                                          *)
THEOREM ClustersRun == FusionInit /\ [][FusionNext]_fusionVars => []ClustersAreRuns
  <1>. QED
    BY WaitingRuns, FusionStart, FusionStep, PTL
=============================================================================
