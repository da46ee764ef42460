----------------------------- MODULE Importance -----------------------------
(***************************************************************************)
(* What the index knows of one memory beside its text: its importance, its *)
(* dates and its reads. The servers on a store index the file, count reads *)
(* of it, and let its importance decay or rise once a day                  *)
(* (memory_optimize, or the schedule of MEMORIA_AUTO_OPTIMIZE).            *)
(*                                                                         *)
(* A server is one thread, but a search or a decay is several statements,  *)
(* and others run between them. Days are numbered from 1.                  *)
(***************************************************************************)
EXTENDS Naturals, FiniteSets, FiniteSetsExt

CONSTANTS
  Process,            \* servers on the store
  Version,            \* texts of the file
  DateOf, OwnOf,      \* the date and the importance each states of itself
  FirstDay, LastDay,  \* bounds of time; the file was checked out on FirstDay
  DecayAfter,         \* days without a read
  BoostAt,            \* reads
  NoHash, NoIndexRow,
  MaxHappenings       \* bound: edits, reads, runs, rebuilds and deaths

ASSUME ImportanceAssumption ==
  /\ DateOf \in [Version -> Nat] /\ OwnOf \in [Version -> 1 .. 10]
  /\ {FirstDay, LastDay, DecayAfter, BoostAt} \subseteq Nat \ {0} /\ FirstDay <= LastDay
  /\ {NoHash} \cap Version = {}
  /\ MaxHappenings \in Nat

Never == 0
Kind == {"decay", "boost"}

VARIABLES
  today,
  text,         \* the file: its version and its mtime
  row,          \* its chunks: version, importance, updated, accessed, count
  meta,         \* its file_meta row
  lastRun,      \* store_meta: the day of the last decay and boost
  op,           \* the operation each process is in the middle of
  embeds,       \* reindexFile calls awaiting their embeddings
  since,        \* history: versions indexed since there was no hash
  lastRead,     \* history: the day of the last read that was recorded
  missed,       \* history: a reindex, or a later read, came into a read
  ranOn,        \* history: days each kind changed the rows on, and twice on
  torn,         \* history: days with overlapping or unfinished runs
  happenings    \* bounded

stored == <<row, meta, lastRun>>
readHistory == <<since, lastRead, missed>>
runHistory == <<ranOn, torn>>
importanceVars == <<today, text, stored, op, embeds, readHistory, runHistory, happenings>>

Free == [step |-> "free"]
Busy(p) == op[p] # Free
Happens == happenings < MaxHappenings /\ happenings' = happenings + 1
Now(p, r) == op' = [op EXCEPT ![p] = r]

-----------------------------------------------------------------------------
(* Indexing.                                                               *)

Edit(v) ==
  /\ Happens
  /\ v # text.version /\ text' = [version |-> v, mtime |-> today]
  /\ UNCHANGED <<today, stored, op, embeds, readHistory, runHistory>>

(* hasContentChanged, and the await of the embeddings. *)
BeginReindex(p) ==
  /\ ~Busy(p) /\ text.version # meta.hash
  /\ embeds' = [embeds EXCEPT ![p] = @ \union {text}]
  /\ UNCHANGED <<today, text, stored, op, readHistory, runHistory, happenings>>

(* indexDatesFor: a first index is dated by the memory itself, an edit by  *)
(* its mtime; a read later than that keeps it fresh.                       *)
UpdatedAt(t) == IF meta.hash = NoHash THEN Min({DateOf[t.version], today}) ELSE t.mtime
LastAccessed(t) == Max({UpdatedAt(t), IF meta.count > 0 THEN meta.accessed ELSE Never})

(* Mutant: what another server committed meanwhile is not looked at. *)
NeverLooked(t) == FALSE

IndexedMeanwhile(t) == meta.hash = t.version

(* indexChunks' transaction. *)
CommitIndex(p, t) ==
  /\ ~Busy(p) /\ t \in embeds[p]
  /\ embeds' = [embeds EXCEPT ![p] = @ \ {t}]
  /\ IF IndexedMeanwhile(t)
     THEN UNCHANGED <<row, meta, since, missed>>
     ELSE /\ row' = [version |-> t.version, importance |-> OwnOf[t.version],
                     updated |-> UpdatedAt(t), accessed |-> LastAccessed(t), count |-> meta.count]
          /\ meta' = [hash |-> t.version, own |-> OwnOf[t.version], count |-> meta.count,
                      accessed |-> LastAccessed(t)]
          /\ since' = IF meta.hash = NoHash THEN {t.version} ELSE since \union {t.version}
          /\ missed' = (missed \/ \E q \in Process : op[q].step = "meta")
  /\ UNCHANGED <<today, text, lastRun, op, lastRead, runHistory, happenings>>

(* A rebuilt index: the chunks go, and then the hashes.                    *)
Rebuild(p) ==
  /\ ~Busy(p) /\ Happens
  /\ row' = NoIndexRow /\ Now(p, [step |-> "forget"])
  /\ UNCHANGED <<today, text, meta, lastRun, embeds, readHistory, runHistory>>

ForgetHash(p) ==
  /\ op[p].step = "forget"
  /\ meta' = [meta EXCEPT !.hash = NoHash] /\ since' = {}
  /\ Now(p, Free)
  /\ UNCHANGED <<today, text, row, lastRun, embeds, lastRead, missed, runHistory, happenings>>

-----------------------------------------------------------------------------
(* Reading.                                                                *)

ReadRow == IF row = NoIndexRow THEN row ELSE [row EXCEPT !.accessed = today, !.count = @ + 1]

(* memory_search counts all it returns in one transaction.                 *)
trackAccessBatch(p) ==
  /\ ~Busy(p) /\ row # NoIndexRow /\ Happens
  /\ row' = ReadRow
  /\ meta' = [meta EXCEPT !.accessed = today, !.count = @ + 1]
  /\ lastRead' = today
  /\ UNCHANGED <<today, text, lastRun, op, embeds, since, missed, runHistory>>

(* memory_read in two statements. *)
trackAccess(p) ==
  /\ ~Busy(p) /\ Happens
  /\ row' = ReadRow
  /\ Now(p, [step |-> "meta", day |-> today])
  /\ UNCHANGED <<today, text, meta, lastRun, embeds, readHistory, runHistory>>

RecordRead(p) ==
  /\ op[p].step = "meta"
  /\ meta' = [meta EXCEPT !.accessed = op[p].day, !.count = @ + 1]
  /\ lastRead' = Max({lastRead, op[p].day}) /\ Now(p, Free)
  /\ missed' = (missed \/ op[p].day < lastRead)
  /\ UNCHANGED <<today, text, row, lastRun, embeds, since, runHistory, happenings>>

-----------------------------------------------------------------------------
(* decayImportance and boostImportance, each three statements.             *)

RunUnderWay(p) == op[p].step \in {"update", "stamp"}
OtherRuns(p, k) == {q \in Process \ {p} : RunUnderWay(q) /\ op[q].kind = k}

BeginRun(p, k) ==
  /\ ~Busy(p) /\ lastRun[k] # today /\ Happens
  /\ Now(p, [step |-> "update", kind |-> k, day |-> today])
  /\ torn' = IF OtherRuns(p, k) = {} THEN torn
              ELSE torn \union {today} \union {op[q].day : q \in OtherRuns(p, k)}
  /\ UNCHANGED <<today, text, stored, embeds, readHistory, ranOn>>

(* No lower than 1; no higher than two above the memory's own importance.  *)
Bound(k) == IF k = "decay" THEN 1 ELSE Min({10, meta.own + 2})

Concerned(k, day) ==
  /\ row # NoIndexRow
  /\ IF k = "decay" THEN row.accessed + DecayAfter < day /\ row.importance > Bound(k)
                    ELSE row.count >= BoostAt /\ row.importance < Bound(k)

UpdateRows(p) ==
  LET k == op[p].kind  day == op[p].day
  IN  /\ op[p].step = "update" /\ Now(p, [op[p] EXCEPT !.step = "stamp"])
      /\ row' = IF ~Concerned(k, day) THEN row
                ELSE [row EXCEPT !.importance = IF k = "decay" THEN @ - 1 ELSE @ + 1]
      /\ ranOn' = [ranOn EXCEPT ![k] = [once |-> @.once \union {day},
                                        twice |-> @.twice \union (@.once \intersect {day})]]
      /\ UNCHANGED <<today, text, meta, lastRun, embeds, readHistory, torn, happenings>>

(* Mutant: both stamp the decay. *)
DecayKey(k) == "decay"

RunKey(k) == k

StampRun(p) ==
  /\ op[p].step = "stamp"
  /\ lastRun' = [lastRun EXCEPT ![RunKey(op[p].kind)] = op[p].day]
  /\ Now(p, Free)
  /\ UNCHANGED <<today, text, row, meta, embeds, readHistory, runHistory, happenings>>

-----------------------------------------------------------------------------
ProcessDies(p) ==
  /\ Happens
  /\ Busy(p) \/ embeds[p] # {}
  /\ Now(p, Free) /\ embeds' = [embeds EXCEPT ![p] = {}]
  /\ torn' = IF RunUnderWay(p) THEN torn \union {op[p].day} ELSE torn
  /\ UNCHANGED <<today, text, stored, readHistory, ranOn>>

Midnight ==
  /\ today < LastDay /\ today' = today + 1
  /\ UNCHANGED <<text, stored, op, embeds, readHistory, runHistory, happenings>>

ImportanceInit ==
  /\ today = FirstDay /\ text \in [version : Version, mtime : {FirstDay}]
  /\ row = NoIndexRow /\ meta = [hash |-> NoHash, own |-> 5, count |-> 0, accessed |-> Never]
  /\ lastRun = [k \in Kind |-> Never]
  /\ op = [p \in Process |-> Free] /\ embeds = [p \in Process |-> {}]
  /\ since = {} /\ lastRead = Never /\ missed = FALSE
  /\ ranOn = [k \in Kind |-> [once |-> {}, twice |-> {}]] /\ torn = {}
  /\ happenings = 0

ImportanceNext ==
  \/ Midnight
  \/ \E v \in Version : Edit(v)
  \/ \E p \in Process :
       \/ BeginReindex(p) \/ (\E t \in embeds[p] : CommitIndex(p, t))
       \/ Rebuild(p) \/ ForgetHash(p)
       \/ trackAccess(p) \/ RecordRead(p) \/ trackAccessBatch(p)
       \/ (\E k \in Kind : BeginRun(p, k)) \/ UpdateRows(p) \/ StampRun(p)
       \/ ProcessDies(p)

-----------------------------------------------------------------------------
(* Properties.                                                             *)

Day == 0 .. LastDay

ImportanceTypeOK ==
  /\ today \in FirstDay .. LastDay /\ text \in [version : Version, mtime : Day]
  /\ row \in [version : Version, importance : 1 .. 10, updated : Day, accessed : Day,
              count : 0 .. MaxHappenings] \union {NoIndexRow}
  /\ meta \in [hash : Version \union {NoHash}, own : 1 .. 10, count : 0 .. MaxHappenings, accessed : Day]

(* A memory that was only ever indexed with one text looks no newer than   *)
(* it says, however many servers indexed it at once and whenever it was    *)
(* checked out; and no older than its last read, unless a reindex or       *)
(* another read came between the two statements of a read                  *)
(* (store.ts:583-620, 685-694).                                            *)
DatesAreTrue ==
  /\ ImportanceTypeOK
  /\ row # NoIndexRow =>
       /\ since = {row.version} => row.updated <= DateOf[row.version]
       /\ missed \/ row.accessed >= lastRead

(* No day lets an importance decay, or rise, twice ("won't double-decay    *)
(* if called multiple times"), unless two servers ran it at once or one    *)
(* died in it; and no rise leads further than two above the memory's own   *)
(* importance (store.ts:1330-1395).                                        *)
OncePerDay ==
  /\ \A k \in Kind : ranOn[k].twice \subseteq torn
  /\ row # NoIndexRow => row.importance <= Bound("boost")
=============================================================================
