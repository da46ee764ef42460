----------------------------- MODULE IngestQueue -----------------------------
(***************************************************************************)
(* The way of an event from the buffer to the daily log: the consumers'    *)
(* cycles (collector/daemon.ts, the memory_ingest tool of tools.ts, the    *)
(* POST /ingest handler of http.ts) and the ingestion pipeline they share  *)
(* (collector/ingestion.ts).                                               *)
(*                                                                         *)
(* A consumer fetches rows, hands them to the pipeline and settles them    *)
(* with the outcomes.  The pipeline runs one batch at a time, in arrival   *)
(* order, one event after another; between the checks of an event and its  *)
(* write it awaits a search of the memory.  /ingest buffers its events and *)
(* puts them through the pipeline, and leaves their rows to the daemon.    *)
(***************************************************************************)
EXTENDS EventBuffer, SequencesExt

CONSTANTS
  Daemon,         \* the consumer that is the daemon; the others are tool calls
  ContentOf,      \* the content of the event with an id
  Known,          \* contents the memory has something similar to
  LowValue,       \* the ids of events whose rescored importance is too low
  PerSourceLimit, \* writes per source and minute
  MaxPosts,       \* bound: POST /ingest requests
  MaxLapses       \* bound: restarts, and expiries of remembered hashes

ASSUME DaemonAssumption   == Daemon \in Consumer
ASSUME ContentAssumption  == DOMAIN ContentOf = EventId
ASSUME LowValueAssumption == LowValue \subseteq EventId
ASSUME LimitAssumption    == PerSourceLimit \in Nat \ {0}
ASSUME IngestBounds       == MaxPosts \in Nat /\ MaxLapses \in Nat

VARIABLES
  chain,       \* ingestChain: the batches given to the pipeline
  outcomes,    \* batches the pipeline is done with, not settled yet
  spent,       \* rateState.counts
  seen,        \* recentBySource: accepted contents
  seenOnDisk,  \* .ingest-dedup.json
  log,         \* the daily logs: how often a content was written
  dead,        \* .dead-letter.jsonl
  posts,       \* POST /ingest requests so far
  lapses       \* restarts and expiries so far

pipelineVars == <<chain, outcomes, spent, seen, seenOnDisk, log>>
ingestVars   == <<bufferVars, pipelineVars, dead, posts, lapses>>

Key     == Source \X {ContentOf[id] : id \in EventId}
KeyOf(e) == <<e.source, ContentOf[e.id]>>

EventOf(r)    == [source |-> rows[r].source, id |-> rows[r].id,
                  importance |-> rows[r].importance]
IdentityOf(r) == <<rows[r].source, rows[r].id>>

(* Something similar to the content is in the memory: it was written, or   *)
(* was known anyway.  The search may miss it, and finds nothing else.      *)
InMemory(k) == log[k] > 0 \/ k[2] \in Known

(* A work item is an event with the rowid it will be settled under; those  *)
(* of a POST have none.                                                    *)
NoRowid == 0
Rowids  == 1 .. MaxRowid
Items   == (Rowids \cup {NoRowid}) \X Event

(* by: the consumer waiting for the outcomes, if any; at: the item being   *)
(* searched for, if any.                                                   *)
Batch ==
  [by : {{}} \cup {{c} : c \in Consumer}, begun : BOOLEAN, todo : SUBSET Items,
   at : SUBSET Items, done : SUBSET (Rowids \cup {NoRowid}),
   failed : SUBSET (Rowids \cup {NoRowid})]

NewBatch(by, items) ==
  [by |-> by, begun |-> FALSE, todo |-> items, at |-> {}, done |-> {}, failed |-> {}]

NoOutcome == [ready |-> FALSE, done |-> {}, failed |-> {}]

-----------------------------------------------------------------------------
(* Filling the buffer, and handing batches to the pipeline *)

(* A poll's events reach the buffer. *)
Poll(batch) ==
  /\ PushBatch(batch)
  /\ UNCHANGED <<pipelineVars, dead, posts, lapses>>

(* POST /ingest *)
Post(batch) ==
  /\ posts < MaxPosts
  /\ posts' = posts + 1
  /\ PushBatch(batch)
  /\ chain' = Append(chain, NewBatch({}, {<<NoRowid, e>> : e \in batch}))
  /\ UNCHANGED <<outcomes, spent, seen, seenOnDisk, log, dead, lapses>>

(* A cycle begins: of the daemon, which joins the cycle in flight instead  *)
(* of starting a second one; or of a memory_ingest call.                   *)
StartCycle(c, B) ==
  /\ Fetch(c, B)
  /\ LET items == {<<r, EventOf(r)>> : r \in {b \in B : Decrypts(b)}}
     IN  chain' = IF items = {} THEN chain ELSE Append(chain, NewBatch({c}, items))
  /\ UNCHANGED <<outcomes, spent, seen, seenOnDisk, log,
                 dead, posts, lapses>>

DaemonCycle == \E B \in fetchUnsyncedFair(BatchSize) : StartCycle(Daemon, B)

ToolCycle(c) ==
  /\ c # Daemon
  /\ \/ \E B \in fetchUnsynced(BatchSize) : StartCycle(c, B)
     \/ \E s \in Source : \E B \in fetchUnsyncedBySource(s, BatchSize) : StartCycle(c, B)

-----------------------------------------------------------------------------
(* The pipeline: doIngest *)

(* Mutant: calls are not serialized. *)
RunningAll == DOMAIN chain

(* The batches being ingested: the first of the chain. *)
Running == DOMAIN chain \cap {1}

(* A batch begins: within the rate window of the last one, or in a fresh   *)
(* window, more than a minute after the old one was opened.                *)
Begin(i, window) ==
  /\ ~chain[i].begun
  /\ chain' = [chain EXCEPT ![i].begun = TRUE]
  /\ spent' = window
  /\ UNCHANGED <<bufferVars, outcomes, seen, seenOnDisk, log, dead, posts, lapses>>

Reading(i) == chain[i].begun /\ chain[i].at = {}

Limited(e) == spent[e.source] >= PerSourceLimit
Spend(e)   == spent' = [spent EXCEPT ![e.source] = @ + 1]

(* Below the threshold: done with, for free. *)
Dismiss(i, p) ==
  /\ p[2].id \in LowValue
  /\ chain' = [chain EXCEPT ![i].todo = @ \ {p}, ![i].done = @ \cup {p[1]}]
  /\ UNCHANGED spent

(* Over budget: neither done nor failed. *)
Defer(i, p) ==
  /\ p[2].id \notin LowValue
  /\ Limited(p[2])
  /\ chain' = [chain EXCEPT ![i].todo = @ \ {p}]
  /\ UNCHANGED spent

(* Accepted within the window already. *)
Duplicate(i, p) ==
  /\ p[2].id \notin LowValue
  /\ ~Limited(p[2])
  /\ KeyOf(p[2]) \in seen
  /\ chain' = [chain EXCEPT ![i].todo = @ \ {p}, ![i].done = @ \cup {p[1]}]
  /\ Spend(p[2])

(* Not seen: the memory is searched for something similar (decideAction). *)
Search(i, p) ==
  /\ p[2].id \notin LowValue
  /\ ~Limited(p[2])
  /\ KeyOf(p[2]) \notin seen
  /\ chain' = [chain EXCEPT ![i].todo = @ \ {p}, ![i].at = {p}]
  /\ UNCHANGED spent

(* The checks of an event, up to the search. *)
Judge(i) ==
  /\ Reading(i)
  /\ \E p \in chain[i].todo :
       Dismiss(i, p) \/ Defer(i, p) \/ Duplicate(i, p) \/ Search(i, p)
  /\ UNCHANGED <<bufferVars, outcomes, seen, seenOnDisk, log,
                 dead, posts, lapses>>

(* Mutants: the hash is recorded before the write, so it stays when the    *)
(* write fails; it is never recorded.                                      *)
RecordedEarly(p, ok) == seen \cup {KeyOf(p[2])}
(* The hash is recorded only with a verdict. *)
Recorded(p, ok) == IF ok THEN seen \cup {KeyOf(p[2])} ELSE seen

(* The search is back: the event is written, skipped, or the write fails. *)
Conclude(i) ==
  \E p \in chain[i].at, ok \in BOOLEAN :
    /\ chain' = [chain EXCEPT ![i].at = {},
                              ![i].done = IF ok THEN @ \cup {p[1]} ELSE @,
                              ![i].failed = IF ok THEN @ ELSE @ \cup {p[1]}]
    /\ seen' = Recorded(p, ok)
    /\ IF ok
       THEN /\ Spend(p[2])
            /\ \/ log' = [log EXCEPT ![KeyOf(p[2])] = @ + 1]
               \/ InMemory(KeyOf(p[2])) /\ UNCHANGED log
       ELSE UNCHANGED <<spent, log>>
    /\ UNCHANGED <<bufferVars, outcomes, seenOnDisk, dead, posts, lapses>>

(* The batch is through: saveDedupState, which may fail (as long as a      *)
(* restart is to come that could tell), and the outcomes go to the caller. *)
Return(i) ==
  /\ Reading(i)
  /\ chain[i].todo = {}
  /\ chain' = RemoveAt(chain, i)
  /\ seenOnDisk' = seen \/ (lapses < MaxLapses /\ UNCHANGED seenOnDisk)
  /\ outcomes' = [c \in Consumer |->
                    IF chain[i].by = {c}
                    THEN [ready |-> TRUE, done |-> chain[i].done, failed |-> chain[i].failed]
                    ELSE outcomes[c]]
  /\ UNCHANGED <<bufferVars, spent, seen, log, dead, posts, lapses>>

(* Mutant: the counts are never reset. *)
WindowKept == spent

FreshWindow == [s \in Source |-> 0]

BeginInFreshWindow == \E i \in Running : Begin(i, FreshWindow)

Ingest == \E i \in Running : Begin(i, spent) \/ Judge(i) \/ Conclude(i) \/ Return(i)

-----------------------------------------------------------------------------
(* Settling *)

(* Mutant: the rows of the batch that were deferred are settled, too. *)
SettledAll(c) == handed[c] \ outcomes[c].failed

(* written, duplicate, below_threshold *)
Handled(c) == outcomes[c].done

Settling(c) == outcomes[c].done \cup outcomes[c].failed

(* Once the transactions are through, the rows given up on are appended to *)
(* the dead-letter file; when that fails, it is only logged.               *)
SettleCycle(c) ==
  /\ outcomes[c].ready
  /\ Settle(c, Handled(c), outcomes[c].failed)
  /\ dead' \in {dead,
                dead \cup {IdentityOf(r) : r \in ExhaustedBy(rows, outcomes[c].failed)}}
  /\ outcomes' = [outcomes EXCEPT ![c] = NoOutcome]
  /\ UNCHANGED <<chain, spent, seen, seenOnDisk, log, posts, lapses>>

(* A settling transaction fails: the first, and the rows stay as they are, *)
(* or only the second, and the failed attempts are not recorded.           *)
FailCycle(c) ==
  /\ outcomes[c].ready
  /\ \/ Settling(c) # {} /\ EndCycle(c)
     \/ outcomes[c].failed # {} /\ Settle(c, Handled(c), {})
  /\ outcomes' = [outcomes EXCEPT ![c] = NoOutcome]
  /\ UNCHANGED <<chain, spent, seen, seenOnDisk, log,
                 dead, posts, lapses>>

-----------------------------------------------------------------------------
(* Restarts and time *)

ForgetMemory ==
  /\ chain' = <<>>
  /\ outcomes' = [c \in Consumer |-> NoOutcome]
  /\ spent' = [s \in Source |-> 0]
  /\ seen' = {}
  /\ lapses < MaxLapses
  /\ lapses' = lapses + 1
  /\ UNCHANGED <<seenOnDisk, log, dead>>

(* The process dies, maybe between the two transactions of a push. *)
Crash == Close /\ ForgetMemory /\ UNCHANGED posts

CrashInPush(batch) == PushTorn(batch) /\ ForgetMemory /\ UNCHANGED posts

(* Mutant: the remembered hashes are not loaded. *)
LoadedNothing == {}

(* loadDedupState *)
Loaded == seenOnDisk

Restart(k) ==
  /\ Open(k)
  /\ seen' = Loaded
  /\ UNCHANGED <<chain, outcomes, spent, seenOnDisk, log,
                 dead, posts, lapses>>

(* Hashes accepted more than RECENT_DEDUP_WINDOW_MS ago no longer count,   *)
(* nor are they loaded.                                                    *)
HashesExpire ==
  /\ lapses < MaxLapses
  /\ lapses' = lapses + 1
  /\ \E old \in SUBSET (seen \cup seenOnDisk) \ {{}} :
       seen' = seen \ old /\ seenOnDisk' = seenOnDisk \ old
  /\ UNCHANGED <<bufferVars, chain, outcomes, spent, log,
                 dead, posts>>

Retire == (cleanup \/ Tick) /\ UNCHANGED <<pipelineVars, dead, posts, lapses>>

-----------------------------------------------------------------------------
IngestInit ==
  /\ BufferInit
  /\ chain = <<>>
  /\ outcomes = [c \in Consumer |-> NoOutcome]
  /\ spent = [s \in Source |-> 0]
  /\ seen = {} /\ seenOnDisk = {}
  /\ log = [k \in Key |-> 0]
  /\ dead = {}
  /\ posts = 0 /\ lapses = 0

IngestNext ==
  \/ \E batch \in Batches : Poll(batch)
  \/ \E batch \in Batches : Post(batch)
  \/ DaemonCycle
  \/ \E c \in Consumer : ToolCycle(c)
  \/ Ingest
  \/ BeginInFreshWindow
  \/ \E c \in Consumer : SettleCycle(c)
  \/ \E c \in Consumer : FailCycle(c)
  \/ Crash
  \/ \E batch \in Batches : CrashInPush(batch)
  \/ \E k \in MasterKey : Restart(k)
  \/ HashesExpire
  \/ Retire

IngestSpec == IngestInit /\ [][IngestNext]_ingestVars

(* The daemon's timer fires every ingestion interval, the pipeline's       *)
(* promises are run, and not every batch begins in the same minute.  The   *)
(* transactions that settle rows may fail now and then, not for ever.      *)
Fairness ==
  /\ WF_ingestVars(DaemonCycle)
  /\ WF_ingestVars(Ingest)
  /\ SF_ingestVars(BeginInFreshWindow)
  /\ \A c \in Consumer : /\ WF_ingestVars(SettleCycle(c))
                         /\ SF_ingestVars(SettleCycle(c) /\ Settling(c) # {})

FairIngestSpec == IngestSpec /\ Fairness

-----------------------------------------------------------------------------
(* Properties *)

(* No event leaves the queue without a verdict: a row is synced only when  *)
(* its event is in the memory, was too unimportant, or failed MaxAttempts  *)
(* times.  A rate-limited or failed event is never retired as if it had    *)
(* been ingested, and neither is its duplicate.                            *)
NoSilentLoss ==
  \A r \in WithStatus(rows, SYNCED) :
    \/ InMemory(KeyOf(rows[r]))
    \/ rows[r].id \in LowValue
    \/ rows[r].attempts >= MaxAttempts

(* A content is written once, however often its events are posted, fetched *)
(* by overlapping cycles or retried (H-05): it is written again only after *)
(* a restart, or after the dedup window.                                   *)
WrittenOnce == \A k \in Key : log[k] <= 1 + lapses

(* What a restart remembers is not ingested again: no content whose hash   *)
(* has reached the sidecar is written once more within the dedup window.   *)
RememberedNotRewritten ==
  [][\A k \in seenOnDisk : log'[k] = log[k]]_ingestVars

(* A waiting row leaves the queue: it is ingested, dead-lettered, held or  *)
(* evicted.  Neither failures, deferrals, overlapping cycles nor the rows  *)
(* ahead of it make it wait for ever.                                      *)
RowsLeaveQueue ==
  \A r \in Rowids :
    (open /\ r \in UnsyncedRows) ~> (~open \/ r \notin UnsyncedRows)

(* What all this is for: an accepted event is owed until its content is in *)
(* the memory, it failed MaxAttempts times, or it was dropped and counted, *)
(* across restarts and whoever settles what after whom.                    *)
OwedRows == DOMAIN rows \ WithStatus(rows, SYNCED)

Delivery == INSTANCE EventDelivery WITH
  Event     <- Source \X EventId,
  Content   <- [e \in Source \X EventId |-> <<e[1], ContentOf[e[2]]>>],
  Worthless <- Source \X LowValue,
  Known     <- {k \in Key : k[2] \in Known},
  MaxTries  <- MaxAttempts,
  owed      <- [e \in {IdentityOf(r) : r \in OwedRows} |->
                  rows[CHOOSE r \in OwedRows : IdentityOf(r) = e].attempts],
  memory    <- {k \in Key : InMemory(k)},
  dropped   <- droppedUnsynced + droppedHeld

EventsAreDelivered == Delivery!DeliverySpec
=============================================================================
