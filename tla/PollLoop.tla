------------------------------- MODULE PollLoop -------------------------------
(***************************************************************************)
(* How events get into the buffer: the collector daemon's poll loop        *)
(* (mcp-server/src/collector/daemon.ts), the adapters it polls and the     *)
(* part of the registry (registry.ts) that switches adapters on and off    *)
(* and persists their cursors.                                             *)
(*                                                                         *)
(* What a source has to offer is a stream, events 1, 2, 3, ...; a cursor   *)
(* is a position in it, and the id of an event is its position.  A poll    *)
(* awaits the source, so anything may happen between its start and its     *)
(* return; from its return on, pushing the events and saving the cursor is *)
(* one synchronous step.  Most adapters move their cursor when they        *)
(* return, some (Eager: email, google-calendar) while they read.           *)
(*                                                                         *)
(* An adapter is one object for the life of the process.  The loop and the *)
(* user's enable and disable calls share it, and a disabled source's poll  *)
(* is not cancelled.                                                       *)
(***************************************************************************)
EXTENDS EventBuffer, SequencesExt

CONSTANTS
  Eager,       \* the sources whose adapter moves its cursor while it reads
  Threshold,   \* backpressureThreshold * maxCapacity, in rows
  Daemon,      \* the consumer that is the daemon's ingestion cycle
  NoCursor,    \* no cursor was ever saved
  MaxProduced, \* bound: events per source
  MaxToggles   \* bound: disables and re-enables of a running source

ASSUME EagerAssumption     == Eager \subseteq Source
ASSUME ThresholdAssumption == Threshold \in 1 .. Capacity
ASSUME PollerAssumption    == Daemon \in Consumer
ASSUME PollBounds ==
  /\ MaxProduced \in Nat /\ MaxToggles \in Nat
  /\ 1 .. MaxProduced \subseteq EventId
  /\ Cardinality(Importance) = 1
  /\ NoCursor \notin Nat

VARIABLES
  produced,  \* how many events each source has to offer
  live,      \* the cursor in the adapter object
  saved,     \* the cursor in the encrypted registry file
  since,     \* where collection of the source began
  active,    \* is the adapter in activeAdapters
  op,        \* the lifecycle operation in progress under the source's lock
  scheduled, \* does the source have a PollTimer
  polls,     \* the polls in flight, by source
  buffered,  \* every event ever pushed, by source
  toggles

adapterVars == <<produced, live, saved, since, active, op, scheduled, polls, buffered, toggles>>
pollVars    == <<bufferVars, adapterVars>>

(* cursorBefore, how far the poll has read, how far it has to read (what   *)
(* was there when it began, up to a poll's limit), and whether it runs for *)
(* the source's present PollTimer (whose inFlight flag it holds).          *)
PollState == [before : Nat, at : Nat, upTo : Nat, owns : BOOLEAN]

NewPoll(s) ==
  [before |-> live[s], at |-> live[s],
   upTo |-> MinOf(produced[s], live[s] + MaxBatch), owns |-> TRUE]

Ops == {"none", "destroying", "initialising", "disabling"}

Polling(s) == {polls[s][i] : i \in DOMAIN polls[s]}

InFlight(s) == \E p \in Polling(s) : p.owns

ReadBy(s, p) == {e \in Event : e.source = s /\ e.id \in (p.before + 1) .. p.at}

-----------------------------------------------------------------------------
(* Timers *)

(* Mutant: timers are removed, never added. *)
TimersOnlyRemoved(nowActive) ==
  /\ scheduled' = [s \in Source |-> scheduled[s] /\ nowActive[s]]
  /\ UNCHANGED polls

(* syncPollTimers, given who is active after the step *)
SyncTimers(nowActive) ==
  /\ scheduled' = nowActive
  /\ polls' = [s \in Source |->
                 IF nowActive[s] THEN polls[s]
                 ELSE [i \in DOMAIN polls[s] |-> [polls[s][i] EXCEPT !.owns = FALSE]]]

(* A configure call, or one that changed nothing, syncs the timers too. *)
Configure ==
  /\ open
  /\ SyncTimers(active)
  /\ UNCHANGED <<bufferVars, produced, live, saved, since, active, op, buffered, toggles>>

-----------------------------------------------------------------------------
(* Polling *)

(* Mutant: polling never pauses. *)
NeverBackpressured == FALSE

Backpressured == unsyncedCount >= Threshold

Produce(s) ==
  /\ produced[s] < MaxProduced
  /\ produced' = [produced EXCEPT ![s] = @ + 1]
  /\ UNCHANGED <<bufferVars, live, saved, since, active, op, scheduled, polls, buffered, toggles>>

(* pollSource and pollSourceInner, up to the await of adapter.poll() *)
BeginPoll(s) ==
  /\ open /\ scheduled[s] /\ ~InFlight(s)
  /\ ~Backpressured
  /\ active[s]
  /\ polls' = [polls EXCEPT ![s] = Append(@, NewPoll(s))]
  /\ UNCHANGED <<bufferVars, produced, live, saved, since, active, op, scheduled, buffered, toggles>>

(* The adapter reads the next event of the stream. *)
ReadOn(s, i) ==
  LET p == polls[s][i] IN
  /\ p.at < produced[s] /\ p.at - p.before < MaxBatch
  /\ polls' = [polls EXCEPT ![s][i].at = p.at + 1]
  /\ live' = IF s \in Eager THEN [live EXCEPT ![s] = p.at + 1] ELSE live
  /\ UNCHANGED <<bufferVars, produced, saved, since, active, op, scheduled, buffered, toggles>>

Buffering(s, p) ==
  buffered' = [buffered EXCEPT ![s] = @ \cup {e.id : e \in ReadBy(s, p)}]

(* Where a poll's return leaves the adapter's cursor *)
Advanced(s, p) == IF s \in Eager THEN live[s] ELSE p.at

(* saveCheckpoint: only of an adapter that is active *)
Checkpointed(s, cursor) ==
  IF active[s] THEN [saved EXCEPT ![s] = cursor] ELSE saved

(* The poll returns: pushBatch, then saveCheckpoint. *)
ReturnPoll(s, i) ==
  LET p == polls[s][i] IN
  /\ p.at >= p.upTo
  /\ IF ReadBy(s, p) = {} THEN UNCHANGED bufferVars ELSE PushBatch(ReadBy(s, p))
  /\ Buffering(s, p)
  /\ live' = [live EXCEPT ![s] = Advanced(s, p)]
  /\ saved' = Checkpointed(s, Advanced(s, p))
  /\ polls' = [polls EXCEPT ![s] = RemoveAt(@, i)]
  /\ UNCHANGED <<produced, since, active, op, scheduled, toggles>>

(* Mutant: a failed poll leaves the cursor where the poll had got to. *)
NotRewound(s, p) == p.at

Rewound(s, p) == p.before

(* The poll, or the push of its events, throws. *)
FailPoll(s, i) ==
  /\ live' = [live EXCEPT ![s] = Rewound(s, polls[s][i])]
  /\ polls' = [polls EXCEPT ![s] = RemoveAt(@, i)]
  /\ UNCHANGED <<bufferVars, produced, saved, since, active, op, scheduled, buffered, toggles>>

-----------------------------------------------------------------------------
(* Switching sources on and off; the operations on one source run one at a *)
(* time (withSourceLock).                                                  *)

Toggling(s) ==
  IF active[s] THEN toggles < MaxToggles /\ toggles' = toggles + 1
  ELSE UNCHANGED toggles

(* enableSourceUnlocked up to the await of the old instance's destroy *)
BeginEnable(s) ==
  /\ open /\ op[s] = "none"
  /\ Toggling(s)
  /\ active' = [active EXCEPT ![s] = FALSE]
  /\ op' = [op EXCEPT ![s] = "destroying"]
  /\ UNCHANGED <<bufferVars, produced, live, saved, since, scheduled, polls, buffered>>

(* The cursor is put back to the saved one.  Without one an adapter that   *)
(* never read anything begins where its init says: at the start of its     *)
(* window, or after what there is now.                                     *)
Initialise(s) ==
  /\ op[s] = "destroying"
  /\ op' = [op EXCEPT ![s] = "initialising"]
  /\ \/ /\ saved[s] # NoCursor
        /\ live' = [live EXCEPT ![s] = saved[s]]
        /\ UNCHANGED since
     \/ /\ saved[s] = NoCursor /\ live[s] # 0
        /\ UNCHANGED <<live, since>>
     \/ /\ saved[s] = NoCursor /\ live[s] = 0
        /\ \E start \in {0, produced[s]} :
             /\ live' = [live EXCEPT ![s] = start]
             /\ since' = [since EXCEPT ![s] = MaxOf(@, start)]
  /\ UNCHANGED <<bufferVars, produced, saved, active, scheduled, polls, buffered, toggles>>

(* init succeeds, and the caller syncs the timers. *)
EndEnable(s) ==
  /\ op[s] = "initialising"
  /\ op' = [op EXCEPT ![s] = "none"]
  /\ active' = [active EXCEPT ![s] = TRUE]
  /\ SyncTimers(active')
  /\ UNCHANGED <<bufferVars, produced, live, saved, since, buffered, toggles>>

(* init throws: the timers are left as they are. *)
FailEnable(s) ==
  /\ op[s] = "initialising"
  /\ op' = [op EXCEPT ![s] = "none"]
  /\ UNCHANGED <<bufferVars, produced, live, saved, since, active, scheduled, polls, buffered, toggles>>

(* disableSourceUnlocked up to the await of destroy *)
BeginDisable(s) ==
  /\ open /\ op[s] = "none" /\ active[s]
  /\ Toggling(s)
  /\ active' = [active EXCEPT ![s] = FALSE]
  /\ op' = [op EXCEPT ![s] = "disabling"]
  /\ UNCHANGED <<bufferVars, produced, live, saved, since, scheduled, polls, buffered>>

EndDisable(s) ==
  /\ op[s] = "disabling"
  /\ op' = [op EXCEPT ![s] = "none"]
  /\ SyncTimers(active)
  /\ UNCHANGED <<bufferVars, produced, live, saved, since, active, buffered, toggles>>

-----------------------------------------------------------------------------
(* The process *)

ForgetAdapters ==
  /\ live' = [s \in Source |-> 0]
  /\ active' = [s \in Source |-> FALSE]
  /\ op' = [s \in Source |-> "none"]
  /\ scheduled' = [s \in Source |-> FALSE]
  /\ polls' = [s \in Source |-> <<>>]
  /\ UNCHANGED <<produced, saved, since, toggles>>

(* The process ends; a poll in flight is not waited for, even by stop(). *)
Crash ==
  /\ Close
  /\ ForgetAdapters
  /\ UNCHANGED buffered

(* It dies while the events of a poll are pushed. *)
CrashInPush(s, i) ==
  /\ ReadBy(s, polls[s][i]) # {}
  /\ PushTorn(ReadBy(s, polls[s][i]))
  /\ Buffering(s, polls[s][i])
  /\ ForgetAdapters

Restart ==
  /\ Open(masterKey)
  /\ UNCHANGED adapterVars

(* The daemon's ingestion cycle, seen from the buffer *)
FetchBatch ==
  /\ \E B \in fetchUnsyncedFair(BatchSize) : Fetch(Daemon, B)
  /\ UNCHANGED adapterVars

SettleBatch ==
  /\ \E done, failed \in SUBSET handed[Daemon] : Settle(Daemon, done, failed)
  /\ UNCHANGED adapterVars

FailCycle ==
  /\ EndCycle(Daemon)
  /\ UNCHANGED adapterVars

Housekeeping ==
  /\ cleanup \/ Tick
  /\ UNCHANGED adapterVars

-----------------------------------------------------------------------------
PollInit ==
  /\ BufferInit
  /\ produced = [s \in Source |-> 0] /\ live = [s \in Source |-> 0]
  /\ saved = [s \in Source |-> NoCursor] /\ since = [s \in Source |-> 0]
  /\ active = [s \in Source |-> FALSE] /\ op = [s \in Source |-> "none"]
  /\ scheduled = [s \in Source |-> FALSE] /\ polls = [s \in Source |-> <<>>]
  /\ buffered = [s \in Source |-> {}]
  /\ toggles = 0

PollNext ==
  \/ \E s \in Source :
       \/ Produce(s) \/ BeginPoll(s)
       \/ BeginEnable(s) \/ Initialise(s) \/ EndEnable(s) \/ FailEnable(s)
       \/ BeginDisable(s) \/ EndDisable(s)
       \/ \E i \in DOMAIN polls[s] :
            ReadOn(s, i) \/ ReturnPoll(s, i) \/ FailPoll(s, i) \/ CrashInPush(s, i)
  \/ Configure
  \/ Crash \/ Restart
  \/ FetchBatch \/ SettleBatch \/ FailCycle \/ Housekeeping

PollSpec == PollInit /\ [][PollNext]_pollVars

(* A source that could answer again and again does answer, the interval    *)
(* timers keep firing, and ingestion settles what it was handed.           *)
PollFairness ==
  /\ \A s \in Source :
       /\ WF_pollVars(BeginPoll(s))
       /\ \A n \in 0 .. MaxBatch :
            SF_pollVars(\E i \in DOMAIN polls[s] :
                          polls[s][i].at - polls[s][i].before = n /\ ReadOn(s, i))
       /\ SF_pollVars(\E i \in DOMAIN polls[s] : ReturnPoll(s, i))
  /\ WF_pollVars(FetchBatch)
  /\ SF_pollVars(SettleBatch /\ rows' # rows)

FairPollSpec == PollSpec /\ PollFairness

-----------------------------------------------------------------------------
(* Properties *)

(* The adapters' state is what it should be; a source has at most one poll *)
(* running for its timer, and none when it has no timer.                   *)
PollTypeOK ==
  /\ produced \in [Source -> Nat] /\ live \in [Source -> Nat]
  /\ saved \in [Source -> Nat \cup {NoCursor}] /\ since \in [Source -> Nat]
  /\ active \in [Source -> BOOLEAN] /\ op \in [Source -> Ops]
  /\ scheduled \in [Source -> BOOLEAN]
  /\ buffered \in [Source -> SUBSET Nat] /\ toggles \in Nat
  /\ \A s \in Source :
       /\ polls[s] \in Seq(PollState)
       /\ \A i, j \in DOMAIN polls[s] : polls[s][i].owns /\ polls[s][j].owns => i = j
       /\ InFlight(s) => scheduled[s]

(* The saved cursor, from which a restart reads on, is never past an event *)
(* that did not reach the buffer: whatever fails, crashes or is switched   *)
(* off and on while polls are in flight, no event of the source is skipped *)
(* (saveCheckpoint: "after its events reached the buffer").                *)
CursorBehindBuffer ==
  \A s \in Source :
    saved[s] # NoCursor => (since[s] + 1) .. saved[s] \subseteq buffered[s]

(* Nor does the adapter object begin its next poll past one: an event      *)
(* behind its cursor is buffered, or a poll in flight has read it and      *)
(* will rewind the cursor when it fails.                                   *)
NothingSkipped ==
  /\ PollTypeOK
  /\ \A s \in Source :
       \A n \in (since[s] + 1) .. live[s] :
         n \in buffered[s] \/ \E p \in Polling(s) : n \in (p.before + 1) .. p.at

(* While polling pauses at the threshold the buffer never evicts an        *)
(* unsynced event.                                                         *)
NothingWaitingEvicted == droppedUnsynced = 0

(* An event a source has to offer is collected in the end, when the source *)
(* stays switched on: no pause, no failed poll, no timer removed under a   *)
(* re-enable stops the polling of it for good.                             *)
AllCollected ==
  \A s \in Source : \A n \in 1 .. MaxProduced :
    <>[](open /\ active[s]) =>
      (n <= produced[s] ~> n \in buffered[s] \/ n <= since[s])
=============================================================================
