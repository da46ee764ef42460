------------------------------- MODULE StoreLock -------------------------------
(***************************************************************************)
(* Who is the primary of a store: the lock file beside the database        *)
(* (mcp-server/src/store-lock.ts) and what a server does with it           *)
(* (store.ts: the constructor, tryBecomePrimary, close; tools.ts:          *)
(* setupPrimaryTakeover).                                                  *)
(*                                                                         *)
(* Servers are processes on one or more hosts that share the directory.    *)
(* Each system call is a step, and between two of them another process may *)
(* act, or this one be paused or die.  A process creates a lock file at    *)
(* most once (it never acquires again after it was primary), so a file is  *)
(* named by its creator.  The path and what has been moved aside are       *)
(* directory entries; a file lives on when it has none.                    *)
(*                                                                         *)
(* Time passes in ticks.  System calls take none: the clock waits for      *)
(* every running process that is in the middle of them, or whose heartbeat *)
(* is due.  A paused process (SIGSTOP, a sleeping laptop, a blocked event  *)
(* loop) holds up nothing.                                                 *)
(***************************************************************************)
EXTENDS Integers, FiniteSets

CONSTANTS
  Process,        \* server processes, each for one life
  PidSpace,       \* whose pids mean something to a process: its host
  Takeover,       \* those started with MEMORIA_LOCK_TAKEOVER
  Nobody,
  Heartbeat,      \* HEARTBEAT_MS
  StaleAfter,     \* STALE_MS
  UnwrittenGrace, \* UNWRITTEN_GRACE_MS
  TakeoverGrace,  \* takeoverGraceMs
  ForeignWait,    \* foreignWaitMs at startup
  RetryPeriod,    \* the timer of setupPrimaryTakeover
  MaxReclaims,    \* MAX_RECLAIMS
  MaxExits,       \* bound: processes that die or are stopped
  MaxPauses       \* bound: pauses

ASSUME LockAssumption ==
  /\ IsFiniteSet(Process) /\ Nobody \notin Process /\ Takeover \subseteq Process
  /\ DOMAIN PidSpace = Process
ASSUME TimingAssumption ==
  /\ {Heartbeat, RetryPeriod, MaxReclaims} \subseteq Nat \ {0}
  /\ {StaleAfter, UnwrittenGrace, TakeoverGrace, ForeignWait} \subseteq Nat
  /\ Heartbeat < TakeoverGrace /\ TakeoverGrace < StaleAfter
ASSUME LockBounds == MaxExits \in Nat /\ MaxPauses \in Nat

VARIABLES
  path,      \* the file at the lock's path
  written,   \* the files with content
  age,       \* time since a file's mtime
  pc,        \* where each process is
  aside,     \* the file a process has moved aside
  observed,  \* the content it judged
  forced,    \* is it taking over a live lock
  displaced, \* the holders it took the lock from while they were alive
  reclaims,  \* failed reclaims of the acquisition in progress
  timer,     \* time to its next heartbeat, retry or deadline
  joined,    \* has it opened the database
  paused,
  inPlace,   \* history: the lock, if at the path ever since it was created
  exits, pauses \* so far

lockVars == <<path, written, age, pc, aside, observed, forced, displaced,
              reclaims, timer, joined, paused, inPlace, exits, pauses>>

Calling == {"opening", "judged", "moved", "created", "releasing"}
Places  == Calling \cup {"off", "waiting", "grace", "primary", "secondary", "fenced", "gone"}

Empty      == Nobody
Content(f) == IF f \in written THEN f ELSE Empty

Least(m, n) == IF m <= n THEN m ELSE n

(* Ages beyond the stale limit are all alike. *)
Older(n) == Least(n + 1, StaleAfter + 1)
Less(n)  == IF n = 0 THEN 0 ELSE n - 1

Running(p) == ~paused[p]
At(p, l)   == pc[p] = l /\ Running(p)
Go(p, l)   == pc' = [pc EXCEPT ![p] = l]

-----------------------------------------------------------------------------
(* Judging the lock at the path: inspect *)

Alive(p)    == pc[p] \notin {"off", "gone"}
Local(p, f) == PidSpace[f] = PidSpace[p]

(* Mutant: a lock without content is never given up. *)
WaitedForWriter(p, f) == f \in written /\ IF Local(p, f) THEN ~Alive(f) ELSE age[f] > StaleAfter

Stale(p, f) ==
  IF f \notin written THEN age[f] > UnwrittenGrace
  ELSE IF Local(p, f) THEN ~Alive(f)
  ELSE age[f] > StaleAfter

Pending(f)         == f \notin written /\ age[f] <= UnwrittenGrace
HeldLocally(p, f)  == f \in written /\ Local(p, f) /\ Alive(f)
FreshForeign(p, f) == f \in written /\ ~Local(p, f) /\ age[f] <= StaleAfter

(* The acquisition is given up (StoreInUseError): a secondary stays one, a *)
(* starting server becomes one unless the holder is on another host.       *)
GiveUp(p, foreign) ==
  IF foreign /\ ~joined[p]
  THEN Go(p, "gone") /\ UNCHANGED <<timer, joined>>
  ELSE /\ Go(p, "secondary")
       /\ timer' = [timer EXCEPT ![p] = RetryPeriod]
       /\ joined' = [joined EXCEPT ![p] = TRUE]

-----------------------------------------------------------------------------
(* acquireStoreLock *)

Acquire(p, wait) ==
  /\ Go(p, "opening")
  /\ timer' = [timer EXCEPT ![p] = wait]
  /\ reclaims' = [reclaims EXCEPT ![p] = 0]
  /\ displaced' = [displaced EXCEPT ![p] = {}]
  /\ UNCHANGED <<path, inPlace, written, age, aside, observed, forced, joined,
                 paused, exits, pauses>>

Start(p) == At(p, "off") /\ Acquire(p, ForeignWait)

(* tryBecomePrimary *)
Retry(p) == At(p, "secondary") /\ timer[p] = 0 /\ Acquire(p, 0)

(* openSync(lockPath, "wx") *)
Create(p) ==
  /\ At(p, "opening") /\ path = Nobody
  /\ path' = p /\ inPlace' = p
  /\ age' = [age EXCEPT ![p] = 0]
  /\ Go(p, "created")
  /\ UNCHANGED <<written, aside, observed, forced, displaced, reclaims, timer,
                 joined, paused, exits, pauses>>

(* The lock is to be reclaimed, or taken over from a live holder. *)
Judge(p) ==
  /\ At(p, "opening") /\ path # Nobody
  /\ \/ Stale(p, path) /\ forced' = [forced EXCEPT ![p] = FALSE]
     \/ FreshForeign(p, path) /\ p \in Takeover /\ forced' = [forced EXCEPT ![p] = TRUE]
  /\ observed' = [observed EXCEPT ![p] = Content(path)]
  /\ Go(p, "judged")
  /\ UNCHANGED <<path, inPlace, written, age, aside, displaced, reclaims, timer, joined,
                 paused, exits, pauses>>

(* Held by a live process of this host, or by another host for too long. *)
Refuse(p) ==
  /\ At(p, "opening") /\ path # Nobody
  /\ \/ HeldLocally(p, path) /\ GiveUp(p, FALSE)
     \/ FreshForeign(p, path) /\ p \notin Takeover /\ timer[p] = 0 /\ GiveUp(p, TRUE)
  /\ UNCHANGED <<path, inPlace, written, age, aside, observed, forced, displaced, reclaims,
                 paused, exits, pauses>>

(* Sleep, then look again.  That a wait was announced is kept in reclaims. *)
Await(p) ==
  /\ At(p, "opening") /\ path # Nobody
  /\ \/ Pending(path) /\ UNCHANGED reclaims
     \/ /\ FreshForeign(p, path) /\ p \notin Takeover /\ timer[p] > 0
        /\ reclaims' = [reclaims EXCEPT ![p] = IF @ = 0 THEN -1 ELSE @]
  /\ Go(p, "waiting")
  /\ UNCHANGED <<path, inPlace, written, age, aside, observed, forced, displaced, timer,
                 joined, paused, exits, pauses>>

(* reclaim: renameSync to a name of its own *)
MoveAside(p) ==
  /\ At(p, "judged") /\ path # Nobody
  /\ aside' = [aside EXCEPT ![p] = path]
  /\ path' = Nobody /\ inPlace' = Nobody
  /\ Go(p, "moved")
  /\ UNCHANGED <<written, age, observed, forced, displaced, reclaims, timer,
                 joined, paused, exits, pauses>>

ReclaimFailed(p) ==
  /\ reclaims' = [reclaims EXCEPT ![p] = @ + 1]
  /\ IF reclaims[p] + 1 < MaxReclaims
     THEN Go(p, "opening") /\ UNCHANGED <<timer, joined>>
     ELSE GiveUp(p, forced[p])

(* Another process moved the lock first. *)
MovedAlready(p) ==
  /\ At(p, "judged") /\ path = Nobody
  /\ ReclaimFailed(p)
  /\ UNCHANGED <<path, inPlace, written, age, aside, observed, forced, displaced,
                 paused, exits, pauses>>

(* What was moved is the lock that was judged: it is removed. *)
Discard(p) ==
  /\ At(p, "moved") /\ Content(aside[p]) = observed[p]
  /\ displaced' = [displaced EXCEPT ![p] = IF forced[p] THEN @ \cup {observed[p]} ELSE @]
  /\ aside' = [aside EXCEPT ![p] = Nobody]
  /\ Go(p, "opening")
  /\ UNCHANGED <<path, inPlace, written, age, observed, forced, reclaims, timer, joined,
                 paused, exits, pauses>>

(* It is another: it is put back, unless there is yet another by now. *)
PutBack(p) ==
  /\ At(p, "moved") /\ Content(aside[p]) # observed[p]
  /\ path' = IF path = Nobody THEN aside[p] ELSE path
  /\ aside' = [aside EXCEPT ![p] = Nobody]
  /\ ReclaimFailed(p)
  /\ UNCHANGED <<inPlace, written, age, observed, forced, displaced,
                 paused, exits, pauses>>

(* Mutant: a new holder opens the database before the old one's heartbeat  *)
(* is due.                                                                 *)
HalfGrace(p) == IF displaced[p] = {} THEN 0 ELSE Heartbeat - 1

Grace(p) == IF displaced[p] = {} THEN 0 ELSE TakeoverGrace

(* writeFileSync; after a takeover the process then sleeps. *)
Write(p) ==
  /\ At(p, "created")
  /\ written' = written \cup {p}
  /\ age' = [age EXCEPT ![p] = 0]
  /\ IF Grace(p) = 0
     THEN /\ Go(p, "primary")
          /\ timer' = [timer EXCEPT ![p] = Heartbeat]
          /\ joined' = [joined EXCEPT ![p] = TRUE]
     ELSE /\ Go(p, "grace")
          /\ timer' = [timer EXCEPT ![p] = Grace(p)]
          /\ UNCHANGED joined
  /\ UNCHANGED <<path, inPlace, aside, observed, forced, displaced, reclaims,
                 paused, exits, pauses>>

(* The sleep is over; the interval timer is overdue. *)
OpenAfterGrace(p) ==
  /\ At(p, "grace") /\ timer[p] = 0
  /\ Go(p, "primary")
  /\ joined' = [joined EXCEPT ![p] = TRUE]
  /\ UNCHANGED <<path, inPlace, written, age, aside, observed, forced, displaced, reclaims,
                 timer, paused, exits, pauses>>

-----------------------------------------------------------------------------
(* Holding and releasing *)

TakenOver(p) == path # Nobody /\ Content(path) # p

StillOurs(p) == path = p

(* The interval's callback: step down (onLost), refresh, or leave it when  *)
(* there is no file to read.                                               *)
Beat(p) ==
  /\ At(p, "primary") /\ timer[p] = 0
  /\ IF TakenOver(p)
     THEN Go(p, "fenced") /\ UNCHANGED <<age, timer>>
     ELSE /\ timer' = [timer EXCEPT ![p] = Heartbeat]
          /\ age' = IF StillOurs(p) THEN [age EXCEPT ![p] = 0] ELSE age
          /\ UNCHANGED pc
  /\ UNCHANGED <<path, inPlace, written, aside, observed, forced, displaced, reclaims,
                 joined, paused, exits, pauses>>

Exiting == exits < MaxExits /\ exits' = exits + 1

(* close: the database is closed; then the lock is read, and removed if it *)
(* is this process's.                                                      *)
Close(p) ==
  /\ At(p, "primary") /\ Exiting
  /\ Go(p, IF StillOurs(p) THEN "releasing" ELSE "gone")
  /\ UNCHANGED <<path, inPlace, written, age, aside, observed, forced, displaced, reclaims,
                 timer, joined, paused, pauses>>

RemoveLock(p) ==
  /\ At(p, "releasing")
  /\ path' = Nobody /\ inPlace' = Nobody
  /\ Go(p, "gone")
  /\ UNCHANGED <<written, age, aside, observed, forced, displaced, reclaims, timer,
                 joined, paused, exits, pauses>>

(* The process is killed; so is a fenced or a secondary one that stops. *)
Die(p) ==
  /\ Alive(p) /\ Exiting
  /\ Go(p, "gone")
  /\ paused' = [paused EXCEPT ![p] = FALSE]
  /\ UNCHANGED <<path, inPlace, written, age, aside, observed, forced, displaced, reclaims,
                 timer, joined, pauses>>

Pause(p) ==
  /\ Alive(p) /\ Running(p) /\ pauses < MaxPauses
  /\ pauses' = pauses + 1
  /\ paused' = [paused EXCEPT ![p] = TRUE]
  /\ UNCHANGED <<path, inPlace, written, age, pc, aside, observed, forced, displaced,
                 reclaims, timer, joined, exits>>

Resume(p) ==
  /\ paused[p]
  /\ paused' = [paused EXCEPT ![p] = FALSE]
  /\ UNCHANGED <<path, inPlace, written, age, pc, aside, observed, forced, displaced,
                 reclaims, timer, joined, exits, pauses>>

(* What a running process does before time passes *)
Urgent(p) ==
  /\ Running(p)
  /\ \/ pc[p] \in Calling
     \/ pc[p] \in {"primary", "grace", "secondary"} /\ timer[p] = 0

Tick ==
  /\ \A p \in Process : ~Urgent(p)
  /\ age' = [f \in Process |-> Older(age[f])]
  /\ timer' = [p \in Process |-> Less(timer[p])]
  /\ pc' = [p \in Process |-> IF At(p, "waiting") THEN "opening" ELSE pc[p]]
  /\ UNCHANGED <<path, inPlace, written, aside, observed, forced, displaced, reclaims,
                 joined, paused, exits, pauses>>

-----------------------------------------------------------------------------
LockInit ==
  /\ path = Nobody /\ inPlace = Nobody /\ written = {}
  /\ age = [f \in Process |-> 0]
  /\ pc = [p \in Process |-> "off"]
  /\ aside = [p \in Process |-> Nobody] /\ observed = [p \in Process |-> Empty]
  /\ forced = [p \in Process |-> FALSE] /\ displaced = [p \in Process |-> {}]
  /\ reclaims = [p \in Process |-> 0] /\ timer = [p \in Process |-> 0]
  /\ joined = [p \in Process |-> FALSE] /\ paused = [p \in Process |-> FALSE]
  /\ exits = 0 /\ pauses = 0

Step(p) ==
  \/ Retry(p) \/ Create(p) \/ Judge(p) \/ Refuse(p) \/ Await(p)
  \/ MoveAside(p) \/ MovedAlready(p) \/ Discard(p) \/ PutBack(p)
  \/ Write(p) \/ OpenAfterGrace(p) \/ Beat(p) \/ RemoveLock(p)

LockNext ==
  \/ \E p \in Process : Start(p) \/ Step(p) \/ Close(p) \/ Die(p) \/ Pause(p) \/ Resume(p)
  \/ Tick

LockSpec == LockInit /\ [][LockNext]_lockVars

(* A running process goes on, timers fire, time passes, and pauses end.    *)
(* Nobody has to start, stop or die.                                       *)
FairLockSpec ==
  /\ LockSpec
  /\ \A p \in Process : WF_lockVars(Step(p)) /\ WF_lockVars(Resume(p))
  /\ WF_lockVars(Tick)

-----------------------------------------------------------------------------
(* Properties *)

(* Types; moreover primaries and secondaries have the database open, a     *)
(* process comparing a lock has one aside, and only one that displaced a   *)
(* live holder waits before it opens the database.                         *)
LockTypeOK ==
  /\ path \in Process \cup {Nobody} /\ written \subseteq Process
  /\ inPlace \in {path, Nobody}
  /\ age \in [Process -> 0 .. (StaleAfter + 1)]
  /\ pc \in [Process -> Places]
  /\ aside \in [Process -> Process \cup {Nobody}]
  /\ observed \in [Process -> Process \cup {Empty}]
  /\ forced \in [Process -> BOOLEAN] /\ displaced \in [Process -> SUBSET Process]
  /\ reclaims \in [Process -> -1 .. MaxReclaims] /\ timer \in [Process -> Nat]
  /\ joined \in [Process -> BOOLEAN] /\ paused \in [Process -> BOOLEAN]
  /\ exits \in 0 .. MaxExits /\ pauses \in 0 .. MaxPauses
  /\ \A p \in Process : pc[p] \in {"primary", "secondary", "fenced"} => joined[p]
  /\ \A p \in Process : pc[p] = "moved" => aside[p] # Nobody
  /\ \A p \in Process : pc[p] = "grace" => displaced[p] # {} /\ p \in Takeover

(* A server that took the lock over opens the database only when the       *)
(* holder it displaced has noticed and stepped down (the wait of one       *)
(* heartbeat in acquireStoreLock), or is overdue to notice after a pause.  *)
(* Its own lock must have been in place all the while: it is not looked at *)
(* after the wait, and an old holder whose heartbeat comes while it is     *)
(* moved aside has nothing to notice.                                      *)
DisplacedHasStopped ==
  /\ LockTypeOK
  /\ \A p, q \in Process :
       pc[p] = "primary" /\ q \in displaced[p] /\ inPlace = p => ~At(q, "primary") \/ timer[q] = 0

(* A store whose primary went away gets another from its secondaries: when *)
(* a process stays in it, in the end there is always a primary.            *)
Staying(p) == joined[p] /\ pc[p] \notin {"gone", "fenced"}

PrimaryIsReplaced ==
  \A p \in Process : <>[]Staying(p) => <>[](\E q \in Process : pc[q] = "primary")
=============================================================================
