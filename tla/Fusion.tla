------------------------------- MODULE Fusion -------------------------------
(***************************************************************************)
(* Temporal fusion: events of several sources that lie close together in   *)
(* time become one activity in the daily log. memory_fuse fuses events     *)
(* still waiting in the buffer, the daemon those it just wrote, and a      *)
(* sidecar remembers which events are part of an activity already.         *)
(***************************************************************************)
EXTENDS Naturals, Sequences, FiniteSets, SequencesExt, FiniteSetsExt

CONSTANTS
  FEvent,       \* collected events, numbered
  TimeOf,       \* of each
  SourceOf, AgentOf, NoAgent,
  LocalOnly,    \* events whose effective tier is local-only
  Window,       \* windows memory_fuse may ask for; the daemon's is among them
  DaemonWindow,
  MaxTrouble    \* bound on failures and lapses

ASSUME FusionAssumption ==
  /\ FEvent \subseteq Nat /\ LocalOnly \subseteq FEvent
  /\ TimeOf \in [FEvent -> Nat] /\ Window \subseteq Nat /\ DaemonWindow \in Window

VARIABLES
  waiting,     \* events in the buffer nobody wrote yet
  arrived,     \* events that ever came to the buffer
  activities,  \* the activities in the daily log, in order
  fused,       \* .fused-events.json: events known to be part of one
  unrecorded,  \* history: events of an activity the sidecar does not, or no longer, have
  trouble      \* bound

fusionVars == <<waiting, arrived, activities, fused, unrecorded, trouble>>

-----------------------------------------------------------------------------
(* TemporalFusion.fuse.                                                    *)

(* A finite set in the order of the pairs of R.                            *)
InOrder(S, R) ==
  [k \in 1 .. Cardinality(S) |-> CHOOSE x \in S : Cardinality({y \in S : <<y, x>> \in R}) = k - 1]

(* The elements of a sequence that are in T.                               *)
Only(s, T) ==
  LET places == {i \in DOMAIN s : s[i] \in T}
      kept   == InOrder(places, {p \in places \X places : p[1] < p[2]})
  IN  [k \in 1 .. Cardinality(places) |-> s[kept[k]]]

Before(e, f) == TimeOf[e] < TimeOf[f] \/ (TimeOf[e] = TimeOf[f] /\ e < f)

Sorted(E) == InOrder(E, {p \in E \X E : Before(p[1], p[2])})

(* Mutant: a cluster ends a window after its first event. *)
NoExtension(acc, e, w) == acc.end

(* An event in the window extends it.                                      *)
Extended(acc, e, w) == Max({acc.end, TimeOf[e] + w})

AddToClusters(acc, e, w) ==
  IF acc.clusters # <<>> /\ TimeOf[e] <= acc.end
  THEN [clusters |-> [acc.clusters EXCEPT ![Len(acc.clusters)] = @ \union {e}],
        end |-> Extended(acc, e, w)]
  ELSE [clusters |-> Append(acc.clusters, {e}), end |-> TimeOf[e] + w]

clusterEvents(E, w) ==
  LET events == Sorted(E)
      after[n \in 0 .. Len(events)] ==
        IF n = 0 THEN [clusters |-> <<>>, end |-> 0]
                 ELSE AddToClusters(after[n - 1], events[n], w)
  IN  after[Len(events)].clusters

(* Of two sources at least, and not one agent's result and metric.         *)
Qualifies(C) ==
  /\ Cardinality({SourceOf[e] : e \in C}) >= 2
  /\ ~ (\E a \in {AgentOf[e] : e \in C} \ {NoAgent} : \A e \in C : AgentOf[e] = a)

fuse(E, w) ==
  LET clusters == clusterEvents(E \ LocalOnly, w)
  IN  Only(clusters, {C \in ToSet(clusters) : Qualifies(C)})

-----------------------------------------------------------------------------
(* Writing.                                                                *)

(* Mutant: every event is offered to fusion again. *)
EverythingAgain(E) == E

unfusedEvents(E) == E \ fused

(* writeFusedActivities: the fresh activities are appended one by one, and *)
(* then the sidecar is saved. An append that fails leaves those before it  *)
(* unrecorded, as does a sidecar that cannot be saved.                     *)
writeFusedActivities(acts) ==
  LET fresh == Only(acts, {C \in ToSet(acts) : ~ C \subseteq fused})
  IN  \/ /\ activities' = activities \o fresh
         /\ fused' = fused \union UNION ToSet(fresh)
         /\ UNCHANGED <<unrecorded, trouble>>
      \/ \E n \in 0 .. Len(fresh) :
           /\ trouble < MaxTrouble /\ trouble' = trouble + 1
           /\ activities' = activities \o SubSeq(fresh, 1, n)
           /\ unrecorded' = unrecorded \union UNION ToSet(SubSeq(fresh, 1, n))
           /\ UNCHANGED fused

Arrive(e) ==
  /\ e \notin arrived
  /\ arrived' = arrived \union {e} /\ waiting' = waiting \union {e}
  /\ UNCHANGED <<activities, fused, unrecorded, trouble>>

(* memory_fuse: of the waiting events the recent ones, and what is fused   *)
(* stays in the buffer.                                                    *)
MemoryFuse(since, w) ==
  LET recent == {e \in waiting : TimeOf[e] >= since}
  IN  /\ Cardinality(waiting) >= 2
      /\ writeFusedActivities(fuse(unfusedEvents(recent), w))
      /\ UNCHANGED <<waiting, arrived>>

(* A cycle wrote these, and fuses them with one another.                   *)
DaemonFuse(E) ==
  /\ E # {} /\ E \subseteq waiting
  /\ waiting' = waiting \ E /\ UNCHANGED arrived
  /\ IF Cardinality(unfusedEvents(E)) >= 2
     THEN writeFusedActivities(fuse(unfusedEvents(E), DaemonWindow))
     ELSE UNCHANGED <<activities, fused, unrecorded, trouble>>

(* Three days on, or the sidecar lost: the events are not known any more.  *)
Forget ==
  /\ fused # {} /\ trouble < MaxTrouble /\ trouble' = trouble + 1
  /\ fused' = {} /\ unrecorded' = unrecorded \union fused
  /\ UNCHANGED <<waiting, arrived, activities>>

FusionInit ==
  /\ waiting = {} /\ arrived = {} /\ activities = <<>> /\ fused = {}
  /\ unrecorded = {} /\ trouble = 0

FusionNext ==
  \/ \E e \in FEvent : Arrive(e)
  \/ \E w \in Window, since \in {TimeOf[e] : e \in FEvent} : MemoryFuse(since, w)
  \/ \E E \in SUBSET waiting : DaemonFuse(E)
  \/ Forget

-----------------------------------------------------------------------------
(* Properties.                                                             *)

(* An event is part of one activity, whichever of the tool and the daemon  *)
(* saw it first and whatever windows they used, unless the record of the   *)
(* activity was never saved or has lapsed (tools.ts:1986-2024).            *)
FusedOnce ==
  \A i, j \in DOMAIN activities :
    i < j => activities[i] \intersect activities[j] \subseteq unrecorded

(* What the events that were fused together have in common: reached from   *)
(* one another by gaps of the window at most, when no other event is       *)
(* offered between them.                                                   *)
Linked(C, w) ==
  \A e \in C : (\E f \in C : TimeOf[f] > TimeOf[e]) =>
     \E f \in C : TimeOf[f] > TimeOf[e] /\ TimeOf[f] - TimeOf[e] <= w

(* The clusters of any events offered are the runs of a gap rule: linked   *)
(* inside, and further than the window from everything else                *)
(* (collector/fusion.ts:141-167).                                          *)
ClustersAreRuns ==
  \A w \in Window :
    LET clusters == ToSet(clusterEvents(waiting, w))
    IN  /\ UNION clusters = waiting
        /\ \A C \in clusters : Linked(C, w)
        /\ \A C, D \in clusters : C # D =>
             \A e \in C, f \in D : IF TimeOf[e] <= TimeOf[f] THEN TimeOf[f] - TimeOf[e] > w
                                                             ELSE TimeOf[e] - TimeOf[f] > w
=============================================================================
