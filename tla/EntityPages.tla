----------------------------- MODULE EntityPages -----------------------------
(***************************************************************************)
(* The pages memory_entities and the scheduled compile roll the daily logs *)
(* up into, one per source, and the queue that tells the compile which     *)
(* sources the collector wrote.                                            *)
(*                                                                         *)
(* A server builds without yielding, but people and other servers work on  *)
(* the same files: every read of a page, every precondition and every      *)
(* rename is a step.                                                       *)
(***************************************************************************)
EXTENDS Naturals, FiniteSets, Functions

CONSTANTS
  Builder,      \* servers that build pages
  Primary,      \* the one with the collector and the schedule
  Name,         \* sources, by the name in their entries' headings
  Collected,    \* those the collector writes
  QueuedAs,     \* the name each of them has in the queue
  BaseOf,       \* the plain file name each is turned into
  NoSource,     \* in a page that names none
  MinEvents,    \* events before a source has a page
  MaxEvents, MaxByHand, MaxAsked, MaxFailures  \* bounds

ASSUME PagesAssumption ==
  /\ Primary \in Builder /\ Collected \subseteq Name
  /\ {MinEvents, MaxEvents, MaxByHand, MaxAsked, MaxFailures} \subseteq Nat
  /\ MinEvents > 0

VARIABLES
  logged,      \* events of each source in the logs of the last days
  ingested,    \* sources written by a batch whose handler has not returned
  queue,       \* .compile-queue.json
  due,         \* the scheduled compile's interval has passed
  page,        \* each file under entities/
  build,       \* each server's build under way
  inWindow,    \* history: files taken over between a precondition and its rename
  byHand, asked, failures  \* bounds

pageVars == <<logged, ingested, queue, due, page, build, inWindow, byHand, asked, failures>>

(* Two sources of one plain name: the second's file name has a hash of its *)
(* own name added, here the name itself.                                   *)
PageFile == {BaseOf[s] : s \in Name} \union Name
NoPage == [owner |-> "none"]
Rollup(s, n) == [owner |-> "generated", source |-> s, events |-> n]
Human(s) == [owner |-> "human", source |-> s]
NoBuild == [step |-> "none"]
Nothing == [file |-> "none"]

HasHuman(f) == page[f].owner = "human"
Sets(b, r) == build' = [build EXCEPT ![b] = r]
Renames(b, f) == build[b].step = "rename" /\ build[b].writing.file = f

-----------------------------------------------------------------------------
(* The collector writes an entry: its source is queued once the batch is   *)
(* through. The dashboard's journal and memory_daily just write.           *)
LogEntry(s) ==
  /\ FoldFunction(+, 0, logged) < MaxEvents
  /\ logged' = [logged EXCEPT ![s] = @ + 1]
  /\ ingested' = IF s \in Collected THEN ingested \union {s} ELSE ingested
  /\ UNCHANGED <<queue, due, page, build, inWindow, byHand, asked, failures>>

(* enqueueCompileSources, whose own failure is only logged. *)
Enqueue ==
  /\ ingested # {} /\ ingested' = {}
  /\ \/ queue' = queue \union {QueuedAs[s] : s \in ingested} /\ UNCHANGED failures
     \/ failures < MaxFailures /\ failures' = failures + 1 /\ UNCHANGED queue
  /\ UNCHANGED <<logged, due, page, build, inWindow, byHand, asked>>

(* aggregate: what a build sees of the logs; sources below the threshold   *)
(* have no page.                                                           *)
Building(step, which, scheduled, touched) ==
  [step |-> step, seen |-> logged, scheduled |-> scheduled, touched |-> touched,
   todo |-> {s \in which : logged[s] >= MinEvents}, writing |-> Nothing]

(* Mutant: a compile that finds no hints builds nothing. *)
HintedOnly(touched) == Name \intersect touched

Chosen(touched) == IF touched = {} THEN Name ELSE Name \intersect touched

(* The scheduled compile claims the queue, and builds the pages of the     *)
(* sources in it, or all of them.                                          *)
StartCompile ==
  /\ due /\ build[Primary] = NoBuild
  /\ queue' = {}
  /\ Sets(Primary, Building("next", Chosen(queue), TRUE, queue))
  /\ UNCHANGED <<logged, ingested, due, page, inWindow, byHand, asked, failures>>

(* memory_entities, in any server: all pages. *)
StartEntities(b) ==
  /\ asked < MaxAsked /\ asked' = asked + 1
  /\ build[b] = NoBuild
  /\ Sets(b, Building("next", Name, FALSE, {}))
  /\ UNCHANGED <<logged, ingested, queue, due, page, inWindow, byHand, failures>>

(* slugFor: the plain name, unless a page there says it is another's.      *)
FileFor(s) ==
  IF page[BaseOf[s]] # NoPage /\ page[BaseOf[s]].source \notin {s, NoSource}
  THEN s ELSE BaseOf[s]

(* A page of the source is read: a human's is skipped, one that would not  *)
(* change is left, and of any other a new text is written to disk. The     *)
(* order of the sources is that of the logs: any, but fixed.               *)
ReadPage(b) ==
  /\ build[b].step = "next" /\ build[b].todo # {}
  /\ LET s == CHOOSE t \in build[b].todo : TRUE
         new == Rollup(s, build[b].seen[s])
         write == [file |-> FileFor(s), text |-> new, before |-> page[FileFor(s)]]
     IN Sets(b, IF HasHuman(FileFor(s)) \/ page[FileFor(s)] = new
                THEN [build[b] EXCEPT !.todo = @ \ {s}]
                ELSE [build[b] EXCEPT !.todo = @ \ {s}, !.step = "check", !.writing = write])
  /\ UNCHANGED <<logged, ingested, queue, due, page, inWindow, byHand, asked, failures>>

(* Back to the loop over the sources. *)
BackToLoop(b) == [build[b] EXCEPT !.step = "next", !.writing = Nothing]

(* Mutant: the rename asks nothing. *)
AnyPage(b) == TRUE

(* The page is what was read; one that was not there may be generated by   *)
(* now.                                                                    *)
Precondition(b) ==
  IF build[b].writing.before = NoPage THEN ~HasHuman(build[b].writing.file)
                              ELSE page[build[b].writing.file] = build[b].writing.before

CheckPage(b) ==
  /\ build[b].step = "check"
  /\ Sets(b, IF Precondition(b) THEN [build[b] EXCEPT !.step = "rename"] ELSE BackToLoop(b))
  /\ UNCHANGED <<logged, ingested, queue, due, page, inWindow, byHand, asked, failures>>

RenamePage(b) ==
  /\ build[b].step = "rename"
  /\ page' = [page EXCEPT ![build[b].writing.file] = build[b].writing.text]
  /\ inWindow' = inWindow \ {build[b].writing.file}
  /\ Sets(b, BackToLoop(b))
  /\ UNCHANGED <<logged, ingested, queue, due, byHand, asked, failures>>

(* The pages written are indexed, and a scheduled run is done for its      *)
(* interval.                                                               *)
EndBuild(b) ==
  /\ build[b].step = "next" /\ build[b].todo = {}
  /\ due' = (due /\ ~build[b].scheduled)
  /\ Sets(b, NoBuild)
  /\ UNCHANGED <<logged, ingested, queue, page, inWindow, byHand, asked, failures>>

(* A build that throws, or whose process dies: what was claimed of the     *)
(* queue is lost, a scheduled run is still due.                            *)
BuildFails(b) ==
  /\ failures < MaxFailures /\ build[b] # NoBuild
  /\ failures' = failures + 1
  /\ Sets(b, NoBuild)
  /\ ingested' \in IF b = Primary THEN {ingested, {}} ELSE {ingested}
  /\ inWindow' = {f \in inWindow : \E c \in Builder \ {b} : Renames(c, f)}
  /\ UNCHANGED <<logged, queue, due, page, byHand, asked>>

BecomesDue ==
  /\ ~due /\ due' = TRUE
  /\ UNCHANGED <<logged, ingested, queue, page, build, inWindow, byHand, asked, failures>>

(* Someone takes a page over, writes one of their own, or deletes one: a   *)
(* page taken over still names its source.                                 *)
ByHand(f, p) ==
  /\ byHand < MaxByHand /\ byHand' = byHand + 1
  /\ p \in {Human(NoSource), NoPage}
            \union IF page[f] = NoPage THEN {} ELSE {Human(page[f].source)}
  /\ page[f] # p
  /\ page' = [page EXCEPT ![f] = p]
  /\ inWindow' = IF \E b \in Builder : Renames(b, f) THEN inWindow \union {f}
                                                      ELSE inWindow \ {f}
  /\ UNCHANGED <<logged, ingested, queue, due, build, asked, failures>>

PagesInit ==
  /\ logged = [s \in Name |-> 0] /\ ingested = {} /\ queue = {} /\ due = FALSE
  /\ page = [f \in PageFile |-> NoPage] /\ build = [b \in Builder |-> NoBuild]
  /\ inWindow = {} /\ byHand = 0 /\ asked = 0 /\ failures = 0

BuildStep(b) ==
  \/ ReadPage(b) \/ CheckPage(b) \/ RenamePage(b) \/ EndBuild(b)

PagesNext ==
  \/ \E s \in Name : LogEntry(s)
  \/ Enqueue \/ StartCompile \/ BecomesDue
  \/ \E b \in Builder : StartEntities(b) \/ BuildStep(b) \/ BuildFails(b)
  \/ \E f \in PageFile, p \in {NoPage} \union {Human(s) : s \in Name \union {NoSource}} : ByHand(f, p)

(* The interval passes, the timer fires, and a build goes on to its end.   *)
(* Nobody need ever call memory_entities.                                  *)
PagesFairness ==
  /\ WF_pageVars(Enqueue) /\ WF_pageVars(BecomesDue) /\ SF_pageVars(StartCompile)
  /\ \A b \in Builder : WF_pageVars(BuildStep(b))

-----------------------------------------------------------------------------
(* Properties.                                                             *)

(* A page someone took over, or wrote, is theirs: no build replaces it,    *)
(* unless they wrote it in the instant between a precondition and its      *)
(* rename (entities.ts:300-325).                                           *)
HumanPagesStay ==
  [][\A f \in PageFile : HasHuman(f) /\ page'[f].owner = "generated"
                           => f \in inWindow]_pageVars

UpToDate(s) == HasHuman(FileFor(s)) \/ page[FileFor(s)] = Rollup(s, logged[s])

(* When no more is logged every source has an up-to-date page, or a human  *)
(* has the file: a claimed queue that was lost, a takeover, two sources of *)
(* one plain name or names the queue knows otherwise only delay it         *)
(* (tools.ts:619-631, entities.ts:236-256).                                *)
PagesConverge == <>[](\A s \in Name : logged[s] >= MinEvents => UpToDate(s))

(* A compile that ran to its end refreshed the pages of the sources whose  *)
(* facts were queued (the comment at tools.ts:653-659).                    *)
TouchedAreRefreshed ==
  [][build[Primary] # NoBuild /\ build'[Primary] = NoBuild /\ failures' = failures
       => \A s \in Collected :
            QueuedAs[s] \in build[Primary].touched /\ build[Primary].seen[s] >= MinEvents
              => \/ HasHuman(FileFor(s))
                 \/ page[FileFor(s)] = Rollup(s, build[Primary].seen[s])]_pageVars
=============================================================================
