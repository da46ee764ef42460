---------------------------- MODULE SearchSample ----------------------------
(***************************************************************************)
(* The chunks a search compares its query with: all of them, or of a store *)
(* with more than MEMORIA_VECTOR_SCAN_CAP an even sample that depends on   *)
(* the query. The chunks are counted and then selected, and other servers  *)
(* write in between. The rows are numbered in the order of their ids.      *)
(***************************************************************************)
EXTENDS Naturals, FiniteSets, FiniteSetsExt

CONSTANTS
  ScanCap,      \* values of MEMORIA_VECTOR_SCAN_CAP
  MaxChunks,    \* bound
  NotCounted

ASSUME SampleAssumption == ScanCap \subseteq Nat \ {0} /\ MaxChunks \in Nat /\ NotCounted \notin Nat

VARIABLES
  cap,          \* this server's
  size,         \* chunks in the store
  total,        \* what the search counted
  phase,        \* samplePhase of its query
  scanned,      \* the rows it compared with
  there         \* history: the chunks there were when it selected

sampleVars == <<cap, size, total, phase, scanned, there>>

-----------------------------------------------------------------------------
(* Mutant: bound as REAL the parameters are divided exactly, and every row *)
(* increments.                                                             *)
RealStep(rn, p, c, t) == TRUE

(* floor((rn + phase) * cap / total) increments at rn.                     *)
Increments(rn, p, c, t) == ((rn + p) * c) \div t > ((rn + p - 1) * c) \div t

Selected(n, p, c, t) == {rn \in 1 .. n : Increments(rn, p, c, t)}

FirstOf(c, R) == {r \in R : Cardinality({q \in R : q < r}) < c}

selectEvenSample(n, p, c, t) == FirstOf(c, Selected(n, p, c, t))

-----------------------------------------------------------------------------
CountChunks(p) ==
  /\ total = NotCounted /\ total' = size
  /\ phase' = IF size = 0 THEN 0 ELSE p % size
  /\ UNCHANGED <<cap, size, scanned, there>>

SelectChunks ==
  /\ total # NotCounted /\ there = NotCounted /\ there' = size
  /\ scanned' = IF total <= cap THEN 1 .. size ELSE selectEvenSample(size, phase, cap, total)
  /\ UNCHANGED <<cap, size, total, phase>>

(* The results are returned, with the coverage of the scan. *)
AnswerSearch ==
  /\ there # NotCounted
  /\ total' = NotCounted /\ phase' = 0 /\ scanned' = {} /\ there' = NotCounted
  /\ UNCHANGED <<cap, size>>

(* Another server indexes or drops a file. *)
ChunksChange(n) ==
  /\ n # size /\ size' = n
  /\ UNCHANGED <<cap, total, phase, scanned, there>>

SampleInit ==
  /\ cap \in ScanCap /\ size = 0 /\ total = NotCounted /\ phase = 0
  /\ scanned = {} /\ there = NotCounted

SampleNext ==
  \/ \E p \in 0 .. MaxChunks : CountChunks(p)
  \/ SelectChunks \/ AnswerSearch
  \/ \E n \in 0 .. MaxChunks : ChunksChange(n)

-----------------------------------------------------------------------------
(* The most rows in a row that a sample of c of t rows may leave out, and  *)
(* one.                                                                    *)
Stride(c, t) == (t + c - 1) \div c

(* A search of a large store compares exactly as many chunks as it may,    *)
(* spread over all of them, none of them out of every query's reach; one   *)
(* whose count was overtaken by another server's writes compares no more.  *)
(* What it reports as covered is less than what it counted whenever        *)
(* something was left out (store.ts:67-110, 868-890).                      *)
SampleIsEven ==
  there # NotCounted =>
    /\ scanned # 1 .. there => Cardinality(scanned) < total
    /\ total > cap => Cardinality(scanned) <= cap
    /\ total > cap /\ there = total =>
         /\ Cardinality(scanned) = cap
         /\ \A rn \in 1 .. total - Stride(cap, total) + 1 :
              rn .. rn + Stride(cap, total) - 1 \cap scanned # {}
         /\ \A rn \in 1 .. total : \E p \in 0 .. total - 1 : rn \in Selected(total, p, cap, total)
=============================================================================
