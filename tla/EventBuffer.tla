----------------------------- MODULE EventBuffer -----------------------------
(***************************************************************************)
(* The collector's event buffer (mcp-server/src/collector/buffer.ts): a    *)
(* SQLite table of captured events that pollers fill and ingestion drains. *)
(*                                                                         *)
(* A row is unsynced (waiting for ingestion), synced (delivered, given up  *)
(* on, or deliberately skipped) or held (it does not decrypt under the     *)
(* master key now in use).  Rows are not claimed when they are fetched: a  *)
(* consumer keeps the rowids it was handed and settles them after an       *)
(* await, by when the rows may have been settled by another consumer,      *)
(* evicted at capacity, or deleted.                                        *)
(*                                                                         *)
(* One process owns the buffer and every operation is synchronous, so each *)
(* operation is one action.  The exception is a push: the insert and the   *)
(* eviction are two transactions, and the process may die between them     *)
(* (PushTorn).                                                             *)
(***************************************************************************)
EXTENDS Integers, FiniteSets, Functions

CONSTANTS
  Source,      \* sources, numbered in the order of their names
  EventId,     \* the ids a source gives its events
  Importance,  \* importance estimates
  MasterKey,   \* master keys the collector may be started with
  Consumer,    \* those who fetch rows: the daemon, the memory_ingest tool
  Capacity,    \* maxEvents
  BatchSize,   \* rows per fetch
  MaxAttempts, \* failed ingests after which a row is dead-lettered
  Retention,   \* how long a synced row is kept
  MaxBatch,    \* bound: events per push
  MaxRowid,    \* bound: rows ever inserted
  MaxClock     \* bound: the last instant

ASSUME SourceAssumption     == Source \subseteq Nat /\ IsFiniteSet(Source)
ASSUME EventIdAssumption    == IsFiniteSet(EventId)
ASSUME ImportanceAssumption == Importance \subseteq Nat /\ IsFiniteSet(Importance)
ASSUME CapacityAssumption   == Capacity \in Nat \ {0}
ASSUME BatchAssumption      == BatchSize \in Nat \ {0}
ASSUME AttemptsAssumption   == MaxAttempts \in Nat \ {0}
ASSUME RetentionAssumption  == Retention \in Nat
ASSUME BoundsAssumption     == MaxBatch \in Nat /\ MaxRowid \in Nat /\ MaxClock \in Nat

VARIABLES
  rows,            \* the table: a function from rowids to rows
  nextRowid,       \* AUTOINCREMENT's next value
  clock,           \* datetime('now')
  open,            \* is the database open
  masterKey,       \* the key in use
  handed,          \* the rowids each consumer was handed and has not settled
  droppedUnsynced, \* counters of this process, for getStats()
  droppedHeld,
  deadLettered

counters   == <<droppedUnsynced, droppedHeld, deadLettered>>
bufferVars == <<rows, nextRowid, clock, open, masterKey, handed, counters>>

UNSYNCED == 0
SYNCED   == 1
HELD     == 2

Event   == [source : Source, id : EventId, importance : Importance]
Batches == {batch \in SUBSET Event : Cardinality(batch) \in 1 .. MaxBatch}

Row == [source : Source, id : EventId, importance : Importance,
        status : {UNSYNCED, SYNCED, HELD}, attempts : Nat,
        bufferedAt : Nat, syncedAt : Nat, key : MasterKey]

-----------------------------------------------------------------------------
(* Reading the table *)

MinOf(m, n) == IF m <= n THEN m ELSE n
MaxOf(m, n) == IF m >= n THEN m ELSE n
Monus(m, n) == MaxOf(m, n) - n

WithStatus(rs, st) == {r \in DOMAIN rs : rs[r].status = st}

(* UNIQUE(source, event_id) *)
SameEvent(x, y) == x.source = y.source /\ x.id = y.id

IsBuffered(rs, e) == \E r \in DOMAIN rs : SameEvent(rs[r], e)

(* ORDER BY importance DESC, buffered_at ASC.  buffered_at has a          *)
(* granularity of a second, so rows may tie.                              *)
FetchedBefore(x, y) ==
  \/ x.importance > y.importance
  \/ x.importance = y.importance /\ x.bufferedAt < y.bufferedAt

(* The first n of the rows R, for each way of breaking ties. *)
FirstRows(R, n) ==
  {B \in SUBSET R :
     /\ Cardinality(B) = MinOf(n, Cardinality(R))
     /\ \A b \in B, r \in R \ B : ~FetchedBefore(rows[r], rows[b])}

UnsyncedRows     == WithStatus(rows, UNSYNCED)
UnsyncedOf(s)    == {r \in UnsyncedRows : rows[r].source = s}
unsyncedCount    == Cardinality(UnsyncedRows)
BackloggedSource == {rows[r].source : r \in UnsyncedRows}

fetchUnsynced(n)            == FirstRows(UnsyncedRows, n)
fetchUnsyncedBySource(s, n) == FirstRows(UnsyncedOf(s), n)

(* The even split: so many rows of each backlogged source, or one row of   *)
(* the first n sources when there are more sources than slots.             *)
EvenSplits(n) ==
  LET perSource == MaxOf(1, n \div Cardinality(BackloggedSource))
      served    == {s \in BackloggedSource :
                      Cardinality({t \in BackloggedSource : t < s}) < n}
  IN  {A \in SUBSET UnsyncedRows :
         \A s \in BackloggedSource :
           {r \in A : rows[r].source = s} \in
             (IF s \in served THEN fetchUnsyncedBySource(s, perSource) ELSE {{}})}

(* Mutant: the batch is filled by priority alone. *)
FilledByPriority(n) == fetchUnsynced(n)

fetchUnsyncedFair(n) ==
  IF Cardinality(BackloggedSource) <= 1
  THEN fetchUnsynced(n)
  ELSE {B \in SUBSET UnsyncedRows :
          \E A \in EvenSplits(n) :
            /\ A \subseteq B
            /\ B \ A \in FirstRows(UnsyncedRows \ A, Monus(n, Cardinality(A)))}

-----------------------------------------------------------------------------
(* Pushing *)

(* INSERT OR IGNORE: an event already buffered is skipped, and of several  *)
(* events of a batch with one identity, the first is inserted.             *)
Insertions(batch) ==
  LET new == {e \in batch : ~IsBuffered(rows, e)}
  IN  {F \in SUBSET new :
         \A e \in new : \E f \in F : /\ SameEvent(e, f)
                                     /\ \A g \in F : SameEvent(f, g) => f = g}

(* Mutant: without AUTOINCREMENT a rowid follows the largest in the table. *)
RowidsAfterLargest(n) ==
  LET first == 1 + CHOOSE m \in DOMAIN rows \cup {0} : \A r \in DOMAIN rows : r <= m
  IN  first .. (first + n - 1)

FreshRowids(n) == nextRowid .. (nextRowid + n - 1)

Numberings(F) == Bijection(FreshRowids(Cardinality(F)), F)

NewRow(e) ==
  [source |-> e.source, id |-> e.id, importance |-> e.importance,
   status |-> UNSYNCED, attempts |-> 0, bufferedAt |-> clock, syncedAt |-> 0,
   key |-> masterKey]

Inserted(f) ==
  [r \in DOMAIN rows \cup DOMAIN f |->
     IF r \in DOMAIN rows THEN rows[r] ELSE NewRow(f[r])]

(* Mutant: the order synced DESC, which drops held rows before synced ones. *)
RankHeldFirst(st) == CASE st = HELD -> 0 [] st = SYNCED -> 1 [] OTHER -> 2

EvictionRank(st) == CASE st = SYNCED -> 0 [] st = HELD -> 1 [] OTHER -> 2

EvictedBefore(x, y) ==
  \/ EvictionRank(x.status) < EvictionRank(y.status)
  \/ /\ x.status = y.status
     /\ \/ x.importance < y.importance
        \/ x.importance = y.importance /\ x.bufferedAt < y.bufferedAt

Excess(rs) == Monus(Cardinality(DOMAIN rs), Capacity)

Victims(rs) ==
  {V \in SUBSET DOMAIN rs :
     /\ Cardinality(V) = Excess(rs)
     /\ \A v \in V, r \in DOMAIN rs \ V : ~EvictedBefore(rs[r], rs[v])}

(* Mutant: the rows beyond the synced ones are not clamped at none. *)
HeldToDropUnclamped(rs) ==
  MinOf(Cardinality(WithStatus(rs, HELD)),
        Excess(rs) - Cardinality(WithStatus(rs, SYNCED)))

HeldToDrop(rs) ==
  MinOf(Cardinality(WithStatus(rs, HELD)),
        Monus(Excess(rs), Cardinality(WithStatus(rs, SYNCED))))

UnsyncedToDrop(rs) ==
  Monus(Excess(rs),
        Cardinality(WithStatus(rs, SYNCED)) + Cardinality(WithStatus(rs, HELD)))

(* enforceCapacity on the table rs *)
EnforceCapacity(rs) ==
  \E V \in Victims(rs) :
    /\ rows' = Restrict(rs, DOMAIN rs \ V)
    /\ droppedHeld' = droppedHeld + HeldToDrop(rs)
    /\ droppedUnsynced' = droppedUnsynced + UnsyncedToDrop(rs)
    /\ UNCHANGED deadLettered

(* push and pushBatch *)
PushBatch(batch) ==
  /\ open
  /\ \E F \in Insertions(batch) :
       /\ nextRowid + Cardinality(F) <= MaxRowid + 1
       /\ nextRowid' = nextRowid + Cardinality(F)
       /\ \E f \in Numberings(F) : EnforceCapacity(Inserted(f))
  /\ UNCHANGED <<clock, open, masterKey, handed>>

(* The process dies after the inserting transaction, before the evicting   *)
(* one.                                                                    *)
PushTorn(batch) ==
  /\ open
  /\ \E F \in Insertions(batch) :
       /\ nextRowid + Cardinality(F) <= MaxRowid + 1
       /\ nextRowid' = nextRowid + Cardinality(F)
       /\ \E f \in Numberings(F) : rows' = Inserted(f)
  /\ open' = FALSE
  /\ handed' = [c \in Consumer |-> {}]
  /\ UNCHANGED <<clock, masterKey, counters>>

-----------------------------------------------------------------------------
(* Fetching and settling *)

Decrypts(r) == rows[r].key = masterKey

(* decryptRows: the undecryptable rows of the batch are held. *)
Held(B) ==
  [r \in DOMAIN rows |->
     IF r \in B /\ ~Decrypts(r) THEN [rows[r] EXCEPT !.status = HELD] ELSE rows[r]]

Fetch(c, B) ==
  /\ open
  /\ B # {}
  /\ handed[c] = {}
  /\ rows' = Held(B)
  /\ handed' = [handed EXCEPT ![c] = {r \in B : Decrypts(r)}]
  /\ UNCHANGED <<nextRowid, clock, open, masterKey, counters>>

MarkedSynced(rs, S) ==
  [r \in DOMAIN rs |->
     IF r \in S THEN [rs[r] EXCEPT !.status = SYNCED, !.syncedAt = clock] ELSE rs[r]]

ExhaustedBy(rs, S) == {r \in S \cap DOMAIN rs : rs[r].attempts + 1 >= MaxAttempts}

AttemptsRecorded(rs, S) ==
  LET bumped == [r \in DOMAIN rs |->
                   IF r \in S THEN [rs[r] EXCEPT !.attempts = @ + 1] ELSE rs[r]]
  IN  MarkedSynced(bumped, ExhaustedBy(rs, S))

(* A consumer applies the outcomes of its batch: markSynced for the rows   *)
(* that are done with, then recordFailedAttempts for those that failed, in *)
(* one turn of the event loop.  The rest of what it was handed waits.      *)
Settle(c, done, failed) ==
  /\ open
  /\ done \cup failed \subseteq handed[c]
  /\ done \cap failed = {}
  /\ rows' = AttemptsRecorded(MarkedSynced(rows, done), failed)
  /\ deadLettered' = deadLettered + Cardinality(ExhaustedBy(rows, failed))
  /\ handed' = [handed EXCEPT ![c] = {}]
  /\ UNCHANGED <<nextRowid, clock, open, masterKey, droppedUnsynced, droppedHeld>>

(* A consumer's cycle fails (its handler throws): nothing is settled. *)
EndCycle(c) ==
  /\ handed[c] # {}
  /\ handed' = [handed EXCEPT ![c] = {}]
  /\ UNCHANGED <<rows, nextRowid, clock, open, masterKey, counters>>

Expired(r) == rows[r].status = SYNCED /\ rows[r].syncedAt + Retention < clock

cleanup ==
  /\ open
  /\ rows' = Restrict(rows, {r \in DOMAIN rows : ~Expired(r)})
  /\ UNCHANGED <<nextRowid, clock, open, masterKey, handed, counters>>

-----------------------------------------------------------------------------
(* Opening, closing, time *)

Unsynced(S) ==
  [r \in DOMAIN rows |->
     IF r \in S THEN [rows[r] EXCEPT !.status = UNSYNCED] ELSE rows[r]]

(* Mutants: every row is put back; no row is. *)
ReleasedAll(k)  == {Unsynced(DOMAIN rows)}
ReleasedNone(k) == {rows}

(* init: one held row is tried, and decides for all of them.  SQLite finds *)
(* it in idx_events_unsynced, whose order is that of a fetch.              *)
Released(k) ==
  LET held   == WithStatus(rows, HELD)
      probes == {p \in held : \A r \in held : ~FetchedBefore(rows[r], rows[p])}
  IN  IF held = {} THEN {rows}
      ELSE {IF rows[p].key = k THEN Unsynced(held) ELSE rows : p \in probes}

(* The process starts, with the key the environment or key file gives. *)
Open(k) ==
  /\ ~open
  /\ open' = TRUE
  /\ masterKey' = k
  /\ rows' \in Released(k)
  /\ droppedUnsynced' = 0 /\ droppedHeld' = 0 /\ deadLettered' = 0
  /\ UNCHANGED <<nextRowid, clock, handed>>

(* destroy, or the process dies: what consumers hold in memory is gone. *)
Close ==
  /\ open
  /\ open' = FALSE
  /\ handed' = [c \in Consumer |-> {}]
  /\ UNCHANGED <<rows, nextRowid, clock, masterKey, counters>>

Tick ==
  /\ clock < MaxClock
  /\ clock' = clock + 1
  /\ UNCHANGED <<rows, nextRowid, open, masterKey, handed, counters>>

-----------------------------------------------------------------------------
BufferInit ==
  /\ rows = [r \in {} |-> 0]
  /\ nextRowid = 1
  /\ clock = 0
  /\ open = TRUE
  /\ masterKey \in MasterKey
  /\ handed = [c \in Consumer |-> {}]
  /\ droppedUnsynced = 0 /\ droppedHeld = 0 /\ deadLettered = 0

BufferNext ==
  \/ \E batch \in Batches : PushBatch(batch)
  \/ \E batch \in Batches : PushTorn(batch)
  \/ \E c \in Consumer : \E B \in fetchUnsyncedFair(BatchSize) : Fetch(c, B)
  \/ \E c \in Consumer : \E B \in fetchUnsynced(BatchSize) : Fetch(c, B)
  \/ \E c \in Consumer, s \in Source :
       \E B \in fetchUnsyncedBySource(s, BatchSize) : Fetch(c, B)
  \/ \E c \in Consumer : \E done, failed \in SUBSET handed[c] : Settle(c, done, failed)
  \/ \E c \in Consumer : EndCycle(c)
  \/ cleanup
  \/ \E k \in MasterKey : Open(k)
  \/ Close
  \/ Tick

BufferSpec == BufferInit /\ [][BufferNext]_bufferVars

-----------------------------------------------------------------------------
(* Properties *)

(* The table, the counters and the consumers' hands hold what they should. *)
BufferTypeOK ==
  /\ nextRowid \in Nat \ {0}
  /\ DOMAIN rows \subseteq 1 .. (nextRowid - 1)
  /\ rows \in [DOMAIN rows -> Row]
  /\ clock \in Nat
  /\ open \in BOOLEAN
  /\ masterKey \in MasterKey
  /\ handed \in [Consumer -> SUBSET (1 .. (nextRowid - 1))]
  /\ droppedUnsynced \in Nat /\ droppedHeld \in Nat /\ deadLettered \in Nat

(* One identity has one row, whatever is pushed, dropped and pushed again  *)
(* (UNIQUE with INSERT OR IGNORE), and no consumer is left holding rows of *)
(* a buffer that was closed under it.                                      *)
OneRowPerEvent ==
  /\ \A r, q \in DOMAIN rows : SameEvent(rows[r], rows[q]) => r = q
  /\ \A c \in Consumer : ~open => handed[c] = {}

(* A rowid a consumer still holds never comes to name another event: a row *)
(* keeps its identity, and an inserted row gets a rowid no row ever had    *)
(* (AUTOINCREMENT).  Otherwise a late markSynced would retire an event     *)
(* nobody ingested.                                                        *)
RowidsNeverReused ==
  [][\A r \in DOMAIN rows' :
       IF r \in DOMAIN rows THEN SameEvent(rows'[r], rows[r]) ELSE r >= nextRowid
    ]_bufferVars

(* The rows a push evicted that were still waiting, respectively held: of  *)
(* the table before it and of the rows it inserted itself.                 *)
Evicted(st) ==
  {r \in DOMAIN rows : rows[r].status = st} \ DOMAIN rows'

EvictedOnArrival == (nextRowid .. (nextRowid' - 1)) \ DOMAIN rows'

(* No event is lost at capacity without being counted.  enforceCapacity    *)
(* deletes by one query and counts by arithmetic on other queries; the     *)
(* counters must grow by exactly the waiting and the held rows deleted.    *)
EvictionsCounted ==
  [][open /\ open' =>
       /\ droppedUnsynced' - droppedUnsynced =
            Cardinality(Evicted(UNSYNCED) \cup EvictedOnArrival)
       /\ droppedHeld' - droppedHeld = Cardinality(Evicted(HELD))
    ]_bufferVars

(* A push never drops an event that ingestion still owes a verdict while a *)
(* row that is safe to drop stays in the table, and leaves the table       *)
(* within capacity even when an earlier push was torn.                     *)
SafeRowsGoFirst ==
  [][nextRowid' # nextRowid /\ open' =>
       /\ Cardinality(DOMAIN rows') <= Capacity
       /\ (Evicted(UNSYNCED) \cup Evicted(HELD) \cup EvictedOnArrival # {}
             => \A r \in DOMAIN rows' : rows'[r].status # SYNCED)
       /\ (Evicted(UNSYNCED) \cup EvictedOnArrival # {}
             => \A r \in DOMAIN rows' : rows'[r].status # HELD)
    ]_bufferVars

(* An event that left the queue stays out of it until its row is deleted:  *)
(* no release of held rows, no late settlement by a second consumer puts a *)
(* synced row back, so nothing is ingested again within the retention.     *)
SyncedIsFinal ==
  [][\A r \in DOMAIN rows \cap DOMAIN rows' :
       rows[r].status = SYNCED => rows'[r].status = SYNCED]_bufferVars

(* One backlogged source cannot fill the daemon's batch: every source with *)
(* waiting rows gets its even share of the slots or all its rows, and the  *)
(* slots a short source leaves are used by the others.                     *)
FairShare ==
  Cardinality(BackloggedSource) \in 1 .. BatchSize =>
    \A B \in fetchUnsyncedFair(BatchSize) :
      /\ Cardinality(B) = MinOf(BatchSize, unsyncedCount)
      /\ \A s \in BackloggedSource :
           Cardinality(B \cap UnsyncedOf(s)) >=
             MinOf(Cardinality(UnsyncedOf(s)), BatchSize \div Cardinality(BackloggedSource))

(* Held rows come back once the key that wrote them is in use again (the   *)
(* comment in init), as far as one probe can tell: when all held rows were *)
(* written under one key, starting with it leaves none of them held.       *)
HeldRowsOfOneKeyComeBack ==
  [][~open /\ open' /\ (\A r \in WithStatus(rows, HELD) : rows[r].key = masterKey')
       => \A r \in DOMAIN rows' : rows'[r].status # HELD]_bufferVars
=============================================================================
