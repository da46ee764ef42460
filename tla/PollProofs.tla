------------------------------ MODULE PollProofs ------------------------------
(***************************************************************************)
(* Proofs about the poll loop, for any number of sources, polls in flight, *)
(* failures, crashes and restarts.                                         *)
(*                                                                         *)
(* It skips no event of a source, whatever is switched off and on, as long *)
(* as no adapter moves its cursor while it reads; or, with such adapters   *)
(* too, as long as no running source is switched off or enabled again.     *)
(* Without either it is not so: a poll of a re-enabled source then reads   *)
(* from a cursor the old poll moved.                                       *)
(*                                                                         *)
(* To the buffer it is one more user, and as long as the polls in flight   *)
(* fit above the threshold the buffer evicts nothing that waits.           *)
(***************************************************************************)
EXTENDS PollLoop, EventBufferProofs, SequenceTheorems, TLAPS

Undisturbed == Eager = {} \/ MaxToggles = 0

AdaptersTyped ==
  /\ produced \in [Source -> Nat] /\ live \in [Source -> Nat]
  /\ saved \in [Source -> Nat \cup {NoCursor}] /\ since \in [Source -> Nat]
  /\ active \in [Source -> BOOLEAN] /\ op \in [Source -> Ops]
  /\ scheduled \in [Source -> BOOLEAN]
  /\ polls \in [Source -> Seq(PollState)]
  /\ buffered \in [Source -> SUBSET Nat] /\ toggles \in Nat

(* All the events of a source from where collection began up to one. *)
Behind(s, n) == (since[s] + 1) .. n \subseteq buffered[s]

PollOK(s, i) ==
  /\ polls[s][i].before <= polls[s][i].at /\ polls[s][i].at <= produced[s]
  /\ Behind(s, polls[s][i].before)
  /\ polls[s][i].owns => scheduled[s]

PollsOK(s) ==
  /\ \A i \in DOMAIN polls[s] : PollOK(s, i)
  /\ \A i, j \in DOMAIN polls[s] : polls[s][i].owns /\ polls[s][j].owns => i = j

CursorsOK(s) ==
  /\ live[s] <= produced[s] /\ since[s] <= produced[s] /\ produced[s] <= MaxProduced
  /\ saved[s] # NoCursor => saved[s] <= produced[s] /\ Behind(s, saved[s])
  /\ s \notin Eager \/ polls[s] = <<>> => Behind(s, live[s])

(* An adapter that moves its cursor while it reads has one poll in flight, *)
(* which is as far as the cursor.                                          *)
EagerOK(s) ==
  s \in Eager =>
    /\ polls[s] # <<>> =>
         /\ Len(polls[s]) = 1 /\ polls[s][1].owns /\ polls[s][1].at = live[s]
         /\ active[s]
    /\ active[s] => op[s] = "none"
    /\ op[s] # "disabling"

SourceOK(s) == PollsOK(s) /\ CursorsOK(s) /\ EagerOK(s)

PollInv == AdaptersTyped /\ \A s \in Source : SourceOK(s)

-----------------------------------------------------------------------------
(* Sequences and batches.                                                  *)

LEMMA Removed ==
  ASSUME NEW S, NEW q \in Seq(S), NEW i \in DOMAIN q
  PROVE  /\ RemoveAt(q, i) \in Seq(S) /\ Len(RemoveAt(q, i)) = Len(q) - 1
         /\ DOMAIN RemoveAt(q, i) = 1 .. (Len(q) - 1)
         /\ \A j \in 1 .. (Len(q) - 1) :
              RemoveAt(q, i)[j] = q[IF j < i THEN j ELSE j + 1]
  <1> DEFINE a == SubSeq(q, 1, i - 1)
             b == SubSeq(q, i + 1, Len(q))
  <1>1. Len(q) \in Nat /\ i \in 1 .. Len(q)
    BY LenProperties
  <1>2. a \in Seq(S) /\ Len(a) = i - 1 /\ \A j \in 1 .. (i - 1) : a[j] = q[j]
    BY <1>1, SubSeqProperties
  <1>3. /\ b \in Seq(S) /\ Len(b) = Len(q) - i
        /\ \A j \in 1 .. (Len(q) - i) : b[j] = q[j + i]
    BY <1>1, SubSeqProperties
  <1>4. RemoveAt(q, i) = a \o b
    BY DEF RemoveAt
  <1> HIDE DEF a, b
  <1>5. /\ a \o b \in Seq(S) /\ Len(a \o b) = Len(a) + Len(b)
        /\ \A j \in 1 .. Len(a) + Len(b) : (a \o b)[j] = IF j <= Len(a) THEN a[j] ELSE b[j - Len(a)]
    BY <1>2, <1>3, ConcatProperties
  <1>6. Len(a) + Len(b) = Len(q) - 1
    BY <1>1, <1>2, <1>3
  <1>7. ASSUME NEW j \in 1 .. (Len(q) - 1)
        PROVE  (a \o b)[j] = q[IF j < i THEN j ELSE j + 1]
    <2>1. CASE j < i
      BY <1>1, <1>2, <1>5, <1>6, <2>1
    <2>2. CASE ~(j < i)
      <3>1. j - (i - 1) \in 1 .. (Len(q) - i)
        BY <1>1, <2>2
      <3>2. (a \o b)[j] = b[j - (i - 1)]
        BY <1>1, <1>2, <1>5, <1>6, <2>2
      <3>3. b[j - (i - 1)] = q[(j - (i - 1)) + i]
        BY <1>3, <3>1
      <3>4. (j - (i - 1)) + i = j + 1
        BY <1>1
      <3>. QED
        BY <2>2, <3>2, <3>3, <3>4
    <2>. QED
      BY <2>1, <2>2
  <1>8. DOMAIN (a \o b) = 1 .. (Len(q) - 1)
    BY <1>5, <1>6, LenProperties
  <1>. QED
    BY <1>4, <1>5, <1>6, <1>7, <1>8

(* A poll's batch holds every event it has read. *)
LEMMA BatchHolds ==
  ASSUME NEW s \in Source, NEW p \in PollState, p.at <= MaxProduced
  PROVE  {e.id : e \in ReadBy(s, p)} = (p.before + 1) .. p.at
  <1>1. PICK w \in Importance : TRUE
    <2>1. Importance # {}
      BY FS_EmptySet, PollBounds DEF PollBounds
    <2>. QED
      BY <2>1
  <1>2. ASSUME NEW n \in (p.before + 1) .. p.at PROVE \E e \in ReadBy(s, p) : e.id = n
    <2>1. n \in 1 .. MaxProduced
      BY PollBounds DEF PollBounds, PollState
    <2>2. n \in EventId
      BY <2>1, PollBounds DEF PollBounds
    <2>3. [source |-> s, id |-> n, importance |-> w] \in ReadBy(s, p)
      BY <1>2, <2>2 DEF ReadBy, Event
    <2>. QED
      BY <2>3
  <1>3. \A e \in ReadBy(s, p) : e.id \in (p.before + 1) .. p.at
    BY DEF ReadBy
  <1>. QED
    BY <1>2, <1>3

-----------------------------------------------------------------------------
(* Steps about one source.                                                 *)

Untouched(t) ==
  /\ produced'[t] = produced[t] /\ live'[t] = live[t] /\ saved'[t] = saved[t]
  /\ since'[t] = since[t] /\ active'[t] = active[t] /\ op'[t] = op[t]
  /\ scheduled'[t] = scheduled[t] /\ polls'[t] = polls[t] /\ buffered'[t] = buffered[t]

LEMMA Elsewhere ==
  ASSUME NEW t \in Source, SourceOK(t), Untouched(t) PROVE SourceOK(t)'
  <1>1. \A n : Behind(t, n)' <=> Behind(t, n)
    BY DEF Behind, Untouched
  <1>2. PollsOK(t)'
    BY <1>1 DEF SourceOK, PollsOK, PollOK, Untouched
  <1>3. CursorsOK(t)'
    BY <1>1 DEF SourceOK, CursorsOK, Untouched
  <1>4. EagerOK(t)'
    BY DEF SourceOK, EagerOK, Untouched
  <1>. QED
    BY <1>2, <1>3, <1>4 DEF SourceOK

LEMMA OnlyOne ==
  ASSUME PollInv, AdaptersTyped', NEW s \in Source, \A t \in Source \ {s} : Untouched(t),
         SourceOK(s)'
  PROVE  PollInv'
  <1>1. \A t \in Source : SourceOK(t)'
    BY Elsewhere DEF PollInv
  <1>. QED
    BY <1>1 DEF PollInv

LEMMA OnePollLess ==
  ASSUME AdaptersTyped, NEW s \in Source, NEW i \in DOMAIN polls[s], PollsOK(s),
         polls'[s] = RemoveAt(polls[s], i), since'[s] = since[s], produced'[s] = produced[s],
         scheduled'[s] = scheduled[s], buffered[s] \subseteq buffered'[s]
  PROVE  PollsOK(s)'
  <1> DEFINE q == polls[s]
             from(j) == IF j < i THEN j ELSE j + 1
  <1>1. q \in Seq(PollState) /\ Len(q) \in Nat /\ DOMAIN q = 1 .. Len(q) /\ i \in 1 .. Len(q)
    BY LenProperties DEF AdaptersTyped
  <1>2. /\ DOMAIN polls'[s] = 1 .. (Len(q) - 1)
        /\ \A j \in 1 .. (Len(q) - 1) : polls'[s][j] = q[from(j)]
    BY <1>1, Removed
  <1>3. /\ \A j \in 1 .. (Len(q) - 1) : from(j) \in DOMAIN q
        /\ \A j, k \in 1 .. (Len(q) - 1) : from(j) = from(k) => j = k
    BY <1>1
  <1>4. \A n : Behind(s, n) => Behind(s, n)'
    BY DEF Behind
  <1> HIDE DEF from
  <1>5. ASSUME NEW j \in DOMAIN polls'[s] PROVE PollOK(s, j)'
    <2>1. PICK k \in DOMAIN q : polls'[s][j] = q[k]
      BY <1>2, <1>3
    <2>2. PollOK(s, k)
      BY <2>1 DEF PollsOK
    <2>. QED
      BY <1>4, <2>1, <2>2 DEF PollOK
  <1>6. ASSUME NEW j \in DOMAIN polls'[s], NEW k \in DOMAIN polls'[s],
               polls'[s][j].owns, polls'[s][k].owns
        PROVE  j = k
    BY <1>2, <1>3, <1>6 DEF PollsOK
  <1>. QED
    BY <1>5, <1>6 DEF PollsOK

(* Of an eager adapter's source no poll is left in flight. *)
LEMMA LastPoll ==
  ASSUME PollInv, NEW s \in Eager, NEW i \in DOMAIN polls[s]
  PROVE  /\ RemoveAt(polls[s], i) = <<>> /\ i = 1 /\ polls[s][i].at = live[s]
         /\ polls[s] # <<>>
  <1>1. s \in Source /\ polls[s] \in Seq(PollState)
    BY EagerAssumption DEF EagerAssumption, PollInv, AdaptersTyped
  <1>2. DOMAIN polls[s] = 1 .. Len(polls[s]) /\ Len(polls[s]) \in Nat
    BY <1>1, LenProperties
  <1>3. polls[s] # <<>>
    BY <1>2
  <1>4. Len(polls[s]) = 1 /\ polls[s][1].at = live[s]
    BY <1>1, <1>3 DEF PollInv, SourceOK, EagerOK
  <1>5. i = 1
    BY <1>2, <1>4
  <1>6. RemoveAt(polls[s], i) \in Seq(PollState) /\ Len(RemoveAt(polls[s], i)) = 0
    BY <1>1, <1>4, Removed
  <1>7. RemoveAt(polls[s], i) = <<>>
    BY <1>6, EmptySeq
  <1>. QED
    BY <1>3, <1>4, <1>5, <1>7

LEMMA PollTyped ==
  ASSUME PollInv, NEW s \in Source, NEW i \in DOMAIN polls[s]
  PROVE  /\ polls[s][i] \in PollState
         /\ polls[s][i].before \in Nat /\ polls[s][i].at \in Nat
         /\ polls[s][i].before <= polls[s][i].at /\ polls[s][i].at <= produced[s]
         /\ polls[s][i].at <= MaxProduced
         /\ Behind(s, polls[s][i].before)
         /\ RemoveAt(polls[s], i) \in Seq(PollState)
  <1>1. polls[s] \in Seq(PollState)
    BY DEF PollInv, AdaptersTyped
  <1>2. polls[s][i] \in PollState
    BY <1>1, LenProperties
  <1>3. polls[s][i].before \in Nat /\ polls[s][i].at \in Nat
    BY <1>2 DEF PollState
  <1>4. produced[s] \in Nat /\ produced[s] <= MaxProduced /\ MaxProduced \in Nat
    BY PollBounds DEF PollBounds, PollInv, AdaptersTyped, SourceOK, CursorsOK
  <1>5. /\ polls[s][i].before <= polls[s][i].at /\ polls[s][i].at <= produced[s]
        /\ Behind(s, polls[s][i].before)
    BY DEF PollInv, SourceOK, PollsOK, PollOK
  <1>. QED
    BY <1>1, <1>2, <1>3, <1>4, <1>5, Removed

LEMMA ProduceOK ==
  ASSUME PollInv, NEW s \in Source, Produce(s) PROVE PollInv'
  <1>1. /\ produced[s] < MaxProduced /\ produced' = [produced EXCEPT ![s] = produced[s] + 1]
        /\ UNCHANGED <<live, saved, since, active, op, scheduled, polls, buffered, toggles>>
    BY DEF Produce
  <1>2. AdaptersTyped'
    BY <1>1 DEF PollInv, AdaptersTyped
  <1>3. \A t \in Source \ {s} : Untouched(t)
    BY <1>1 DEF Untouched, PollInv, AdaptersTyped
  <1>4. /\ produced'[s] = produced[s] + 1 /\ produced[s] \in Nat /\ live[s] \in Nat
        /\ since[s] \in Nat /\ saved[s] \in Nat \cup {NoCursor} /\ MaxProduced \in Nat
    BY <1>1, PollBounds DEF PollInv, AdaptersTyped, PollBounds
  <1>5. \A n : Behind(s, n)' <=> Behind(s, n)
    BY <1>1 DEF Behind
  <1>6. PollsOK(s)'
    <2>1. \A i \in DOMAIN polls[s] : polls[s][i].at \in Nat
      BY PollTyped
    <2>. QED
      BY <1>1, <1>4, <1>5, <2>1 DEF PollInv, SourceOK, PollsOK, PollOK
  <1>7. CursorsOK(s)'
    BY <1>1, <1>4, <1>5, PollBounds DEF PollInv, SourceOK, CursorsOK, PollBounds
  <1>8. EagerOK(s)'
    BY <1>1 DEF PollInv, SourceOK, EagerOK
  <1>. QED
    BY <1>2, <1>3, <1>6, <1>7, <1>8, OnlyOne DEF SourceOK

(* A poll begins at the cursor, behind which all is buffered: of an eager  *)
(* adapter because it is the only one.                                     *)
LEMMA BeginPollOK ==
  ASSUME PollInv, NEW s \in Source, BeginPoll(s) PROVE PollInv'
  <1> DEFINE q == polls[s]
             p == NewPoll(s)
  <1>1. /\ scheduled[s] /\ ~InFlight(s) /\ active[s]
        /\ polls' = [polls EXCEPT ![s] = Append(q, p)]
        /\ UNCHANGED <<produced, live, saved, since, active, op, scheduled, buffered, toggles>>
    BY DEF BeginPoll
  <1>2. /\ produced[s] \in Nat /\ live[s] \in Nat /\ live[s] <= produced[s]
        /\ q \in Seq(PollState) /\ MaxBatch \in Nat
    BY BoundsAssumption DEF PollInv, AdaptersTyped, SourceOK, CursorsOK, BoundsAssumption
  <1>3. /\ p \in PollState /\ p.before = live[s] /\ p.at = live[s] /\ p.owns = TRUE
    BY <1>2 DEF NewPoll, PollState, MinOf
  <1>4. \A i \in DOMAIN q : ~q[i].owns
    BY <1>1 DEF InFlight, Polling
  <1>5. s \in Eager => q = <<>>
    <2>1. SUFFICES ASSUME s \in Eager, q # <<>> PROVE FALSE
      OBVIOUS
    <2>2. Len(q) = 1 /\ q[1].owns
      BY <2>1 DEF PollInv, SourceOK, EagerOK
    <2>. QED
      BY <1>2, <1>4, <2>2, LenProperties
  <1>6. Behind(s, live[s])
    BY <1>5 DEF PollInv, SourceOK, CursorsOK
  <1> HIDE DEF p
  <1>7. /\ polls'[s] = Append(q, p) /\ Append(q, p) \in Seq(PollState) /\ Append(q, p) # <<>>
        /\ Len(q) \in Nat /\ DOMAIN q = 1 .. Len(q)
        /\ DOMAIN polls'[s] = 1 .. (Len(q) + 1) /\ Len(polls'[s]) = Len(q) + 1
        /\ \A i \in 1 .. Len(q) : polls'[s][i] = q[i]
        /\ polls'[s][Len(q) + 1] = p
    <2>1. polls'[s] = Append(q, p)
      BY <1>1 DEF PollInv, AdaptersTyped
    <2>. QED
      BY <1>2, <1>3, <2>1, AppendProperties, LenProperties
  <1>8. \A n : Behind(s, n)' <=> Behind(s, n)
    BY <1>1 DEF Behind
  <1>9. PollsOK(s)'
    <2>1. ASSUME NEW i \in DOMAIN polls'[s] PROVE PollOK(s, i)'
      <3>1. CASE i \in DOMAIN q
        <4>1. polls'[s][i] = polls[s][i] /\ PollOK(s, i)
          BY <1>7, <3>1 DEF PollInv, SourceOK, PollsOK
        <4>. QED
          BY <1>1, <1>8, <4>1 DEF PollOK
      <3>2. CASE i = Len(q) + 1
        <4>1. polls'[s][i] = p
          BY <1>7, <3>2
        <4>. QED
          BY <1>1, <1>2, <1>3, <1>6, <1>8, <4>1 DEF PollOK
      <3>. QED
        BY <1>7, <3>1, <3>2
    <2>2. ASSUME NEW i \in DOMAIN polls'[s], polls'[s][i].owns PROVE i = Len(q) + 1
      BY <1>4, <1>7, <2>2
    <2>. QED
      BY <2>1, <2>2 DEF PollsOK
  <1>10. CursorsOK(s)'
    BY <1>1, <1>6, <1>8 DEF PollInv, SourceOK, CursorsOK
  <1>11. EagerOK(s)'
    <2>1. s \in Eager => Len(polls'[s]) = 1 /\ polls'[s][1] = p
      BY <1>5, <1>7
    <2>. QED
      BY <1>1, <1>3, <2>1 DEF PollInv, SourceOK, EagerOK
  <1>12. AdaptersTyped'
    BY <1>1, <1>7 DEF PollInv, AdaptersTyped
  <1>13. \A t \in Source \ {s} : Untouched(t)
    BY <1>1 DEF Untouched, PollInv, AdaptersTyped
  <1>. QED
    BY <1>9, <1>10, <1>11, <1>12, <1>13, OnlyOne DEF SourceOK

LEMMA ReadOnOK ==
  ASSUME PollInv, NEW s \in Source, NEW i \in DOMAIN polls[s], ReadOn(s, i) PROVE PollInv'
  <1> DEFINE q == polls[s]
             p == polls[s][i]
             further == [p EXCEPT !.at = p.at + 1]
  <1>1. /\ p.at < produced[s]
        /\ polls' = [polls EXCEPT ![s] = [q EXCEPT ![i] = further]]
        /\ live' = IF s \in Eager THEN [live EXCEPT ![s] = p.at + 1] ELSE live
        /\ UNCHANGED <<produced, saved, since, active, op, scheduled, buffered, toggles>>
    BY DEF ReadOn
  <1>2. q \in Seq(PollState) /\ produced[s] \in Nat /\ DOMAIN q = 1 .. Len(q) /\ Len(q) \in Nat
    BY LenProperties DEF PollInv, AdaptersTyped
  <1>3. p \in PollState /\ p.at \in Nat /\ p.before \in Nat /\ p.before <= p.at
    BY PollTyped
  <1>4. /\ further \in PollState /\ further.before = p.before /\ further.at = p.at + 1
        /\ further.owns = p.owns
    BY <1>3 DEF PollState
  <1> HIDE DEF further
  <1>5. /\ polls'[s] = [q EXCEPT ![i] = further]
        /\ [q EXCEPT ![i] = further] \in Seq(PollState)
        /\ Len([q EXCEPT ![i] = further]) = Len(q)
    <2>1. polls'[s] = [q EXCEPT ![i] = further]
      BY <1>1 DEF PollInv, AdaptersTyped
    <2>. QED
      BY <1>2, <1>4, <2>1, ExceptSeq
  <1>6. /\ DOMAIN polls'[s] = DOMAIN q /\ Len(polls'[s]) = Len(q) /\ polls'[s][i] = further
        /\ \A j \in DOMAIN q \ {i} : polls'[s][j] = q[j]
        /\ \A j \in DOMAIN q : polls'[s][j].owns = q[j].owns
    <2>1. /\ DOMAIN polls'[s] = DOMAIN q /\ polls'[s][i] = further
          /\ \A j \in DOMAIN q \ {i} : polls'[s][j] = q[j]
      BY <1>2, <1>5
    <2>. QED
      BY <1>4, <1>5, <2>1
  <1>7. \A n : Behind(s, n)' <=> Behind(s, n)
    BY <1>1 DEF Behind
  <1>8. PollsOK(s)'
    <2>1. ASSUME NEW j \in DOMAIN polls'[s] PROVE PollOK(s, j)'
      <3>1. PollOK(s, j)
        BY <1>6 DEF PollInv, SourceOK, PollsOK
      <3>2. CASE j = i
        BY <1>1, <1>2, <1>3, <1>4, <1>6, <1>7, <3>1, <3>2 DEF PollOK
      <3>3. CASE j # i
        <4>1. polls'[s][j] = polls[s][j]
          BY <1>6, <3>3
        <4>. QED
          BY <1>1, <1>7, <3>1, <4>1 DEF PollOK
      <3>. QED
        BY <3>2, <3>3
    <2>. QED
      BY <1>6, <2>1 DEF PollInv, SourceOK, PollsOK
  <1>9. \A t \in Source : t \notin Eager => live'[t] = live[t]
    BY <1>1 DEF PollInv, AdaptersTyped
  <1>10. s \in Eager => live'[s] = p.at + 1
    BY <1>1 DEF PollInv, AdaptersTyped
  <1>11. live'[s] <= produced'[s]
    BY <1>1, <1>2, <1>3, <1>9, <1>10 DEF PollInv, SourceOK, CursorsOK
  <1>12. polls[s] # <<>> /\ polls'[s] # <<>>
    BY <1>2, <1>6
  <1>13. CursorsOK(s)'
    BY <1>1, <1>7, <1>9, <1>11, <1>12 DEF PollInv, SourceOK, CursorsOK
  <1>14. EagerOK(s)'
    <2>1. s \in Eager => i = 1 /\ polls'[s][1].at = live'[s]
      BY <1>4, <1>6, <1>10, LastPoll
    <2>. QED
      BY <1>1, <1>2, <1>6, <1>12, <2>1 DEF PollInv, SourceOK, EagerOK
  <1>15. AdaptersTyped'
    <2>1. live' \in [Source -> Nat]
      BY <1>1, <1>3 DEF PollInv, AdaptersTyped
    <2>. QED
      BY <1>1, <1>5, <2>1 DEF PollInv, AdaptersTyped
  <1>16. \A t \in Source \ {s} : Untouched(t)
    BY <1>1 DEF Untouched, PollInv, AdaptersTyped
  <1>. QED
    BY <1>8, <1>13, <1>14, <1>15, <1>16, OnlyOne DEF SourceOK

(* What the return of a poll adds to the buffer. *)
LEMMA BufferingOK ==
  ASSUME PollInv, NEW s \in Source, NEW i \in DOMAIN polls[s], Buffering(s, polls[s][i])
  PROVE  /\ buffered' \in [Source -> SUBSET Nat]
         /\ buffered'[s] = buffered[s] \cup ((polls[s][i].before + 1) .. polls[s][i].at)
         /\ \A t \in Source : buffered[t] \subseteq buffered'[t]
         /\ \A t \in Source \ {s} : buffered'[t] = buffered[t]
  <1> DEFINE p == polls[s][i]
             read == {e.id : e \in ReadBy(s, p)}
  <1>1. read = (p.before + 1) .. p.at /\ p.before \in Nat /\ p.at \in Nat
    BY PollTyped, BatchHolds
  <1>2. buffered' = [buffered EXCEPT ![s] = buffered[s] \cup read]
    BY DEF Buffering
  <1> HIDE DEF read
  <1>3. read \subseteq Nat
    BY <1>1
  <1>4. /\ buffered' \in [Source -> SUBSET Nat]
        /\ buffered'[s] = buffered[s] \cup read
        /\ \A t \in Source \ {s} : buffered'[t] = buffered[t]
    BY <1>2, <1>3 DEF PollInv, AdaptersTyped
  <1>. QED
    BY <1>1, <1>4

LEMMA Reached ==
  ASSUME PollInv, NEW s \in Source, NEW m \in Nat, NEW n \in Nat, Behind(s, m),
         since'[s] = since[s], buffered'[s] = buffered[s] \cup ((m + 1) .. n)
  PROVE  Behind(s, n)'
  <1>1. since[s] \in Nat
    BY DEF PollInv, AdaptersTyped
  <1>2. \A k \in (since[s] + 1) .. n : k \in (since[s] + 1) .. m \/ k \in (m + 1) .. n
    BY <1>1
  <1>. QED
    BY <1>2 DEF Behind

LEMMA ReturnPollOK ==
  ASSUME PollInv, NEW s \in Source, NEW i \in DOMAIN polls[s], ReturnPoll(s, i) PROVE PollInv'
  <1> DEFINE p == polls[s][i]
  <1>1. /\ Buffering(s, p) /\ polls' = [polls EXCEPT ![s] = RemoveAt(polls[s], i)]
        /\ live' = [live EXCEPT ![s] = Advanced(s, p)]
        /\ saved' = Checkpointed(s, Advanced(s, p))
        /\ UNCHANGED <<produced, since, active, op, scheduled, toggles>>
    BY DEF ReturnPoll
  <1>2. /\ p \in PollState /\ p.at \in Nat /\ p.before \in Nat /\ p.at <= produced[s]
        /\ Behind(s, p.before) /\ RemoveAt(polls[s], i) \in Seq(PollState)
    BY PollTyped
  <1>3. Advanced(s, p) = p.at
    BY LastPoll DEF Advanced
  <1>4. /\ live'[s] = p.at /\ polls'[s] = RemoveAt(polls[s], i)
        /\ saved'[s] \in {saved[s], p.at}
        /\ saved' \in [Source -> Nat \cup {NoCursor}]
        /\ live' \in [Source -> Nat]
        /\ \A t \in Source \ {s} : saved'[t] = saved[t] /\ live'[t] = live[t]
                                   /\ polls'[t] = polls[t]
    BY <1>1, <1>2, <1>3 DEF Checkpointed, PollInv, AdaptersTyped
  <1>5. /\ buffered' \in [Source -> SUBSET Nat]
        /\ buffered'[s] = buffered[s] \cup ((p.before + 1) .. p.at)
        /\ buffered[s] \subseteq buffered'[s]
        /\ \A t \in Source \ {s} : buffered'[t] = buffered[t]
    BY <1>1, BufferingOK
  <1>6. \A n : Behind(s, n) => Behind(s, n)'
    BY <1>1, <1>5 DEF Behind
  <1>7. \A n : n = p.at => Behind(s, n)'
    BY <1>1, <1>2, <1>5, Reached
  <1>8. PollsOK(s)'
    BY <1>1, <1>4, <1>5, OnePollLess DEF PollInv, SourceOK
  <1>9. CursorsOK(s)'
    <2>1. saved'[s] # NoCursor => saved'[s] <= produced'[s] /\ Behind(s, saved[s])'
      BY <1>1, <1>2, <1>4, <1>6, <1>7 DEF PollInv, SourceOK, CursorsOK
    <2>2. Behind(s, live[s])' /\ live'[s] <= produced'[s]
      BY <1>1, <1>2, <1>4, <1>7
    <2>. QED
      BY <1>1, <2>1, <2>2 DEF PollInv, SourceOK, CursorsOK
  <1>10. EagerOK(s)'
    BY <1>1, <1>4, LastPoll DEF PollInv, SourceOK, EagerOK
  <1>11. AdaptersTyped'
    BY <1>1, <1>2, <1>4, <1>5 DEF PollInv, AdaptersTyped
  <1>12. \A t \in Source \ {s} : Untouched(t)
    BY <1>1, <1>4, <1>5 DEF Untouched
  <1>. QED
    BY <1>8, <1>9, <1>10, <1>11, <1>12, OnlyOne DEF SourceOK

(* A poll that fails puts the cursor back where it began. *)
LEMMA FailPollOK ==
  ASSUME PollInv, NEW s \in Source, NEW i \in DOMAIN polls[s], FailPoll(s, i) PROVE PollInv'
  <1> DEFINE p == polls[s][i]
  <1>1. /\ polls' = [polls EXCEPT ![s] = RemoveAt(polls[s], i)]
        /\ live' = [live EXCEPT ![s] = p.before]
        /\ UNCHANGED <<produced, saved, since, active, op, scheduled, buffered, toggles>>
    BY DEF FailPoll, Rewound
  <1>2. /\ p.at \in Nat /\ p.before \in Nat /\ p.at <= produced[s] /\ p.before <= p.at
        /\ Behind(s, p.before) /\ RemoveAt(polls[s], i) \in Seq(PollState)
    BY PollTyped
  <1>3. /\ live'[s] = p.before /\ polls'[s] = RemoveAt(polls[s], i)
        /\ live' \in [Source -> Nat]
        /\ \A t \in Source \ {s} : live'[t] = live[t] /\ polls'[t] = polls[t]
    BY <1>1, <1>2 DEF PollInv, AdaptersTyped
  <1>4. \A n : Behind(s, n)' <=> Behind(s, n)
    BY <1>1 DEF Behind
  <1>5. PollsOK(s)'
    BY <1>1, <1>3, OnePollLess DEF PollInv, SourceOK
  <1>6. CursorsOK(s)'
    <2>1. Behind(s, live[s])'
      BY <1>2, <1>3, <1>4
    <2>2. live'[s] <= produced'[s]
      <3>1. produced[s] \in Nat
        BY DEF PollInv, AdaptersTyped
      <3>. QED
        BY <1>1, <1>2, <1>3, <3>1
    <2>. QED
      BY <1>1, <1>4, <2>1, <2>2 DEF PollInv, SourceOK, CursorsOK
  <1>7. EagerOK(s)'
    BY <1>1, <1>3, LastPoll DEF PollInv, SourceOK, EagerOK
  <1>8. AdaptersTyped'
    BY <1>1, <1>2, <1>3 DEF PollInv, AdaptersTyped
  <1>9. \A t \in Source \ {s} : Untouched(t)
    BY <1>1, <1>3 DEF Untouched
  <1>. QED
    BY <1>5, <1>6, <1>7, <1>8, <1>9, OnlyOne DEF SourceOK

-----------------------------------------------------------------------------
(* Switching sources on and off.                                           *)

(* A step that leaves cursors, polls and the buffer of all sources alone.  *)
LEMMA OnlySwitches ==
  ASSUME PollInv, AdaptersTyped', NEW s \in Source, EagerOK(s)',
         UNCHANGED <<produced, live, saved, since, scheduled, polls, buffered>>,
         \A t \in Source \ {s} : active'[t] = active[t] /\ op'[t] = op[t]
  PROVE  PollInv'
  <1>1. \A n : Behind(s, n)' <=> Behind(s, n)
    BY DEF Behind
  <1>2. PollsOK(s)' /\ CursorsOK(s)'
    BY <1>1 DEF PollInv, SourceOK, PollsOK, PollOK, CursorsOK
  <1>3. \A t \in Source \ {s} : Untouched(t)
    BY DEF Untouched
  <1>. QED
    BY <1>2, <1>3, OnlyOne DEF SourceOK

(* Where no running source is toggled, one that is switched does not run   *)
(* and has no poll in flight.                                              *)
LEMMA Stopped ==
  ASSUME PollInv, Undisturbed, NEW s \in Eager, ~active[s] \/ Toggling(s)
  PROVE  ~active[s] /\ polls[s] = <<>>
  <1>1. s \in Source /\ MaxToggles = 0 /\ toggles \in Nat
    BY EagerAssumption DEF EagerAssumption, Undisturbed, PollInv, AdaptersTyped
  <1>2. ~active[s]
    BY <1>1 DEF Toggling
  <1>. QED
    BY <1>1, <1>2 DEF PollInv, SourceOK, EagerOK

LEMMA TogglingTyped ==
  ASSUME AdaptersTyped, NEW s \in Source, Toggling(s) PROVE toggles' \in Nat
  BY DEF AdaptersTyped, Toggling

LEMMA BeginSwitchOK ==
  ASSUME PollInv, Undisturbed, NEW s \in Source, BeginEnable(s) \/ BeginDisable(s) PROVE PollInv'
  <1>1. /\ Toggling(s) /\ active' = [active EXCEPT ![s] = FALSE]
        /\ UNCHANGED <<produced, live, saved, since, scheduled, polls, buffered>>
    BY DEF BeginEnable, BeginDisable
  <1>2. \/ op' = [op EXCEPT ![s] = "destroying"]
        \/ active[s] /\ op' = [op EXCEPT ![s] = "disabling"]
    BY DEF BeginEnable, BeginDisable
  <1>3. AdaptersTyped'
    BY <1>1, <1>2, TogglingTyped DEF PollInv, AdaptersTyped, Ops
  <1>4. EagerOK(s)'
    <2>1. SUFFICES ASSUME s \in Eager
                   PROVE  polls'[s] = <<>> /\ active'[s] = FALSE /\ op'[s] # "disabling"
      BY DEF EagerOK
    <2>2. ~active[s] /\ polls[s] = <<>>
      BY <1>1, <2>1, Stopped
    <2>. QED
      BY <1>1, <1>2, <2>2 DEF PollInv, AdaptersTyped
  <1>5. \A t \in Source \ {s} : active'[t] = active[t] /\ op'[t] = op[t]
    BY <1>1, <1>2 DEF PollInv, AdaptersTyped
  <1>. QED
    BY <1>1, <1>3, <1>4, <1>5, OnlySwitches

LEMMA FailEnableOK ==
  ASSUME PollInv, NEW s \in Source, FailEnable(s) PROVE PollInv'
  <1>1. /\ op[s] = "initialising" /\ op' = [op EXCEPT ![s] = "none"]
        /\ UNCHANGED <<produced, live, saved, since, active, scheduled, polls, buffered, toggles>>
    BY DEF FailEnable
  <1>2. AdaptersTyped'
    BY <1>1 DEF PollInv, AdaptersTyped, Ops
  <1>3. EagerOK(s)'
    BY <1>1 DEF PollInv, AdaptersTyped, SourceOK, EagerOK
  <1>4. \A t \in Source \ {s} : active'[t] = active[t] /\ op'[t] = op[t]
    BY <1>1 DEF PollInv, AdaptersTyped
  <1>. QED
    BY <1>1, <1>2, <1>3, <1>4, OnlySwitches

(* The cursor is put where everything behind it is buffered: at the saved  *)
(* one, or where collection begins.                                        *)
LEMMA InitialiseOK ==
  ASSUME PollInv, NEW s \in Source, Initialise(s) PROVE PollInv'
  <1>1. /\ op[s] = "destroying" /\ op' = [op EXCEPT ![s] = "initialising"]
        /\ UNCHANGED <<produced, saved, active, scheduled, polls, buffered, toggles>>
    BY DEF Initialise
  <1>2. /\ produced[s] \in Nat /\ live[s] \in Nat /\ since[s] \in Nat
        /\ live[s] <= produced[s] /\ since[s] <= produced[s]
        /\ saved[s] # NoCursor => saved[s] \in Nat /\ saved[s] <= produced[s]
                                  /\ Behind(s, saved[s])
    BY DEF PollInv, AdaptersTyped, SourceOK, CursorsOK
  <1>3. PICK from \in Nat, begin \in Nat :
          /\ live' = [live EXCEPT ![s] = from] /\ since' = [since EXCEPT ![s] = begin]
          /\ from <= produced[s] /\ begin <= produced[s] /\ since[s] <= begin
          /\ Behind(s, from) \/ from <= begin \/ (from = live[s] /\ begin = since[s])
    <2>1. /\ live = [live EXCEPT ![s] = live[s]] /\ since = [since EXCEPT ![s] = since[s]]
      BY DEF PollInv, AdaptersTyped
    <2>2. CASE saved[s] # NoCursor /\ live' = [live EXCEPT ![s] = saved[s]] /\ UNCHANGED since
      <3>1. since' = [since EXCEPT ![s] = since[s]] /\ live' = [live EXCEPT ![s] = saved[s]]
        BY <2>1, <2>2
      <3>2. /\ saved[s] \in Nat /\ saved[s] <= produced[s] /\ Behind(s, saved[s])
            /\ since[s] <= since[s]
        BY <1>2, <2>2
      <3>. QED
        BY <1>2, <3>1, <3>2
    <2>3. CASE UNCHANGED <<live, since>>
      BY <1>2, <2>1, <2>3
    <2>4. ASSUME NEW start \in {0, produced[s]}, live' = [live EXCEPT ![s] = start],
                 since' = [since EXCEPT ![s] = MaxOf(since[s], start)]
          PROVE  \E from, begin \in Nat :
                   /\ live' = [live EXCEPT ![s] = from] /\ since' = [since EXCEPT ![s] = begin]
                   /\ from <= produced[s] /\ begin <= produced[s] /\ since[s] <= begin
                   /\ Behind(s, from) \/ from <= begin \/ (from = live[s] /\ begin = since[s])
      <3> DEFINE later == MaxOf(since[s], start)
      <3>1. /\ later \in Nat /\ start \in Nat /\ start <= produced[s]
            /\ later <= produced[s] /\ since[s] <= later /\ start <= later
        BY <1>2 DEF MaxOf
      <3>2. since' = [since EXCEPT ![s] = later]
        BY <2>4
      <3> HIDE DEF later
      <3>. QED
        BY <2>4, <3>1, <3>2
    <2>. QED
      BY <2>2, <2>3, <2>4 DEF Initialise
  <1>4. live'[s] = from /\ since'[s] = begin /\ buffered'[s] = buffered[s]
    BY <1>1, <1>3 DEF PollInv, AdaptersTyped
  <1>5. \A n \in Nat : Behind(s, n) \/ n <= begin => Behind(s, n)'
    <2>1. ASSUME NEW n \in Nat, Behind(s, n) \/ n <= begin PROVE (begin + 1) .. n \subseteq buffered[s]
      <3>1. CASE n <= begin
        BY <1>3, <3>1
      <3>2. CASE Behind(s, n)
        <4>1. (begin + 1) .. n \subseteq (since[s] + 1) .. n
          BY <1>2, <1>3
        <4>. QED
          BY <3>2, <4>1 DEF Behind
      <3>. QED
        BY <2>1, <3>1, <3>2
    <2>. QED
      BY <1>4, <2>1 DEF Behind
  <1>6. s \in Eager => polls[s] = <<>> /\ ~active[s]
    BY <1>1 DEF PollInv, SourceOK, EagerOK
  <1>7. PollsOK(s)'
    <2>1. \A i \in DOMAIN polls[s] : polls[s][i].before \in Nat /\ PollOK(s, i)
      BY PollTyped DEF PollInv, SourceOK, PollsOK
    <2>2. \A i \in DOMAIN polls[s] : PollOK(s, i)'
      BY <1>1, <1>5, <2>1 DEF PollOK
    <2>. QED
      BY <1>1, <2>2 DEF PollInv, SourceOK, PollsOK
  <1>8. CursorsOK(s)'
    <2>1. saved'[s] # NoCursor => saved'[s] <= produced'[s] /\ Behind(s, saved[s])'
      BY <1>1, <1>2, <1>5
    <2>2. s \notin Eager \/ polls[s] = <<>> => Behind(s, from) \/ from <= begin
      BY <1>3 DEF PollInv, SourceOK, CursorsOK
    <2>3. s \notin Eager \/ polls'[s] = <<>> => Behind(s, live[s])'
      BY <1>1, <1>4, <1>5, <2>2
    <2>. QED
      BY <1>1, <1>3, <1>4, <2>1, <2>3 DEF PollInv, SourceOK, CursorsOK
  <1>9. EagerOK(s)'
    BY <1>1, <1>6 DEF PollInv, AdaptersTyped, EagerOK
  <1>10. AdaptersTyped'
    BY <1>1, <1>3 DEF PollInv, AdaptersTyped, Ops
  <1>11. \A t \in Source \ {s} : Untouched(t)
    BY <1>1, <1>3 DEF Untouched, PollInv, AdaptersTyped
  <1>. QED
    BY <1>7, <1>8, <1>9, <1>10, <1>11, OnlyOne DEF SourceOK

(* A source's timer goes where it is not active, and its polls go on       *)
(* without one.                                                            *)
LEMMA Synced ==
  ASSUME AdaptersTyped, NEW now \in [Source -> BOOLEAN], SyncTimers(now)
  PROVE  /\ scheduled' = now /\ polls' \in [Source -> Seq(PollState)]
         /\ \A t \in Source : now[t] => polls'[t] = polls[t]
         /\ \A t \in Source : polls'[t] = <<>> <=> polls[t] = <<>>
         /\ \A t \in Source :
              /\ DOMAIN polls'[t] = DOMAIN polls[t]
              /\ \A i \in DOMAIN polls[t] :
                   /\ polls'[t][i].before = polls[t][i].before
                   /\ polls'[t][i].at = polls[t][i].at
                   /\ polls'[t][i].owns => now[t]
  <1> DEFINE orphan(t, i) == [polls[t][i] EXCEPT !.owns = FALSE]
             orphans(t) == [i \in DOMAIN polls[t] |-> orphan(t, i)]
  <1>1. /\ scheduled' = now
        /\ polls' = [t \in Source |-> IF now[t] THEN polls[t] ELSE orphans(t)]
    BY DEF SyncTimers
  <1>2. ASSUME NEW t \in Source
        PROVE  /\ polls[t] \in Seq(PollState) /\ Len(polls[t]) \in Nat
               /\ DOMAIN polls[t] = 1 .. Len(polls[t])
               /\ \A i \in DOMAIN polls[t] : polls[t][i] \in PollState
    <2>1. polls[t] \in Seq(PollState)
      BY DEF AdaptersTyped
    <2>. QED
      BY <2>1, LenProperties
  <1>3. ASSUME NEW t \in Source, NEW i \in DOMAIN polls[t]
        PROVE  /\ orphan(t, i) \in PollState /\ orphan(t, i).before = polls[t][i].before
               /\ orphan(t, i).at = polls[t][i].at /\ orphan(t, i).owns = FALSE
    <2>1. polls[t][i] \in PollState
      BY <1>2
    <2>. QED
      BY <2>1 DEF PollState
  <1> HIDE DEF orphan
  <1>4. ASSUME NEW t \in Source
        PROVE  /\ orphans(t) \in Seq(PollState) /\ DOMAIN orphans(t) = DOMAIN polls[t]
               /\ orphans(t) = <<>> <=> polls[t] = <<>>
    <2>1. orphans(t) \in [1 .. Len(polls[t]) -> PollState]
      BY <1>2, <1>3
    <2>2. orphans(t) \in Seq(PollState)
      BY <1>2, <2>1
    <2>3. Len(orphans(t)) = Len(polls[t])
      BY <1>2, <2>1, <2>2, LenProperties
    <2>4. \A q \in Seq(PollState) : q = <<>> <=> Len(q) = 0
      BY EmptySeq
    <2>. QED
      BY <1>2, <2>2, <2>3, <2>4
  <1>5. \A t \in Source : polls'[t] = IF now[t] THEN polls[t] ELSE orphans(t)
    BY <1>1
  <1>6. \A t \in Source : \A i \in DOMAIN polls[t] : orphans(t)[i] = orphan(t, i)
    OBVIOUS
  <1> HIDE DEF orphans
  <1>7. polls' \in [Source -> Seq(PollState)]
    BY <1>1, <1>2, <1>4
  <1>8. ASSUME NEW t \in Source
        PROVE  /\ DOMAIN polls'[t] = DOMAIN polls[t]
               /\ \A i \in DOMAIN polls[t] :
                    /\ polls'[t][i].before = polls[t][i].before
                    /\ polls'[t][i].at = polls[t][i].at
                    /\ polls'[t][i].owns => now[t]
               /\ polls'[t] = <<>> <=> polls[t] = <<>>
    <2>1. CASE now[t]
      BY <1>5, <2>1
    <2>2. CASE ~now[t]
      <3>1. polls'[t] = orphans(t)
        BY <1>5, <2>2
      <3>2. \A i \in DOMAIN polls[t] :
              /\ orphans(t)[i].before = polls[t][i].before
              /\ orphans(t)[i].at = polls[t][i].at
              /\ orphans(t)[i].owns = FALSE
        BY <1>3, <1>6
      <3>. QED
        BY <1>4, <3>1, <3>2
    <2>. QED
      BY <2>1, <2>2
  <1>. QED
    BY <1>1, <1>5, <1>7, <1>8

LEMMA SyncedOK ==
  ASSUME PollInv, NEW now \in [Source -> BOOLEAN], SyncTimers(now),
         UNCHANGED <<produced, live, saved, since, buffered, toggles>>,
         active' = now, op' \in [Source -> Ops],
         \A t \in Eager : /\ ~now[t] => polls[t] = <<>>
                          /\ now[t] => op'[t] = "none"
                          /\ op'[t] # "disabling"
  PROVE  PollInv'
  <1>1. AdaptersTyped'
    BY Synced DEF PollInv, AdaptersTyped
  <1>2. ASSUME NEW t \in Source PROVE SourceOK(t)'
    <2>1. \A n : Behind(t, n)' <=> Behind(t, n)
      BY DEF Behind
    <2>2. PollsOK(t)'
      <3>1. \A i \in DOMAIN polls'[t] : PollOK(t, i)'
        <4>1. SUFFICES ASSUME NEW i \in DOMAIN polls'[t] PROVE PollOK(t, i)'
          OBVIOUS
        <4>2. /\ i \in DOMAIN polls[t] /\ polls'[t][i].before = polls[t][i].before
              /\ polls'[t][i].at = polls[t][i].at /\ (polls'[t][i].owns => scheduled'[t])
          BY Synced DEF PollInv
        <4>3. PollOK(t, i)
          BY <4>2 DEF PollInv, SourceOK, PollsOK
        <4>. QED
          BY <2>1, <4>2, <4>3 DEF PollOK
      <3>2. ASSUME NEW i \in DOMAIN polls'[t], NEW j \in DOMAIN polls'[t],
                   polls'[t][i].owns, polls'[t][j].owns
            PROVE  i = j
        <4>1. now[t] /\ i \in DOMAIN polls[t]
          BY <3>2, Synced DEF PollInv
        <4>2. polls'[t] = polls[t]
          BY <4>1, Synced DEF PollInv
        <4>. QED
          BY <3>2, <4>2 DEF PollInv, SourceOK, PollsOK
      <3>. QED
        BY <3>1, <3>2 DEF PollsOK
    <2>3. CursorsOK(t)'
      <3>1. polls'[t] = <<>> <=> polls[t] = <<>>
        BY Synced DEF PollInv
      <3>. QED
        BY <2>1, <3>1 DEF PollInv, SourceOK, CursorsOK
    <2>4. EagerOK(t)'
      <3>1. SUFFICES ASSUME t \in Eager PROVE EagerOK(t)'
        BY DEF EagerOK
      <3>2. CASE now[t]
        <4>1. polls'[t] = polls[t]
          BY <3>2, Synced DEF PollInv
        <4>. QED
          BY <3>1, <3>2, <4>1 DEF PollInv, SourceOK, EagerOK
      <3>3. CASE ~now[t]
        <4>1. polls'[t] = <<>>
          BY <3>1, <3>3, Synced DEF PollInv
        <4>. QED
          BY <3>1, <3>3, <4>1 DEF EagerOK
      <3>. QED
        BY <3>2, <3>3 DEF PollInv, AdaptersTyped
    <2>. QED
      BY <2>2, <2>3, <2>4 DEF SourceOK
  <1>. QED
    BY <1>1, <1>2 DEF PollInv

LEMMA EndSwitchOK ==
  ASSUME PollInv, Undisturbed PROVE
    /\ Configure => PollInv'
    /\ \A s \in Source : EndEnable(s) \/ EndDisable(s) => PollInv'
  <1>1. \A t \in Eager : /\ t \in Source
                         /\ ~active[t] => polls[t] = <<>>
                         /\ active[t] => op[t] = "none"
                         /\ op[t] # "disabling"
    BY EagerAssumption DEF EagerAssumption, PollInv, SourceOK, EagerOK
  <1>2. active \in [Source -> BOOLEAN] /\ op \in [Source -> Ops]
    BY DEF PollInv, AdaptersTyped
  <1>3. ASSUME Configure PROVE PollInv'
    <2>1. /\ SyncTimers(active)
          /\ UNCHANGED <<produced, live, saved, since, active, op, buffered, toggles>>
      BY <1>3 DEF Configure
    <2>. QED
      BY <1>1, <1>2, <2>1, SyncedOK
  <1>4. ASSUME NEW s \in Source, EndEnable(s) PROVE PollInv'
    <2> DEFINE now == [active EXCEPT ![s] = TRUE]
    <2>1. /\ op[s] = "initialising" /\ op' = [op EXCEPT ![s] = "none"] /\ active' = now
          /\ SyncTimers(now) /\ UNCHANGED <<produced, live, saved, since, buffered, toggles>>
      BY <1>4 DEF EndEnable, SyncTimers
    <2>2. now \in [Source -> BOOLEAN] /\ op' \in [Source -> Ops]
      BY <1>2, <2>1 DEF Ops
    <2>3. \A t \in Eager : /\ ~now[t] => polls[t] = <<>>
                           /\ now[t] => op'[t] = "none"
                           /\ op'[t] # "disabling"
      BY <1>1, <1>2, <2>1
    <2> HIDE DEF now
    <2>. QED
      BY <2>1, <2>2, <2>3, SyncedOK
  <1>5. ASSUME NEW s \in Source, EndDisable(s) PROVE PollInv'
    <2>1. /\ op[s] = "disabling" /\ op' = [op EXCEPT ![s] = "none"] /\ SyncTimers(active)
          /\ UNCHANGED <<produced, live, saved, since, active, buffered, toggles>>
      BY <1>5 DEF EndDisable
    <2>2. op' \in [Source -> Ops]
      BY <1>2, <2>1 DEF Ops
    <2>3. \A t \in Eager : op'[t] = op[t]
      BY <1>1, <1>2, <2>1
    <2>. QED
      BY <1>1, <1>2, <2>1, <2>2, <2>3, SyncedOK
  <1>. QED
    BY <1>3, <1>4, <1>5

-----------------------------------------------------------------------------
(* The process.                                                            *)

(* The adapters are gone with it; what was saved and buffered stays.       *)
LEMMA ForgottenOK ==
  ASSUME PollInv, ForgetAdapters, buffered' \in [Source -> SUBSET Nat],
         \A t \in Source : buffered[t] \subseteq buffered'[t]
  PROVE  PollInv'
  <1>1. /\ live' = [s \in Source |-> 0] /\ active' = [s \in Source |-> FALSE]
        /\ op' = [s \in Source |-> "none"] /\ scheduled' = [s \in Source |-> FALSE]
        /\ polls' = [s \in Source |-> <<>>] /\ UNCHANGED <<produced, saved, since, toggles>>
    BY DEF ForgetAdapters
  <1>2. <<>> \in Seq(PollState) /\ DOMAIN <<>> = {}
    BY EmptySeq
  <1>3. AdaptersTyped'
    BY <1>1, <1>2 DEF PollInv, AdaptersTyped, Ops
  <1>4. ASSUME NEW t \in Source PROVE SourceOK(t)'
    <2>1. \A n : Behind(t, n) => Behind(t, n)'
      BY <1>1 DEF Behind
    <2>2. /\ live'[t] = 0 /\ active'[t] = FALSE /\ op'[t] = "none" /\ polls'[t] = <<>>
      BY <1>1
    <2>3. produced[t] \in Nat /\ since[t] \in Nat
      BY DEF PollInv, AdaptersTyped
    <2>4. Behind(t, live[t])'
      <3>1. (since[t] + 1) .. 0 = {}
        BY <2>3
      <3>. QED
        BY <1>1, <2>2, <3>1 DEF Behind
    <2>5. CursorsOK(t)'
      BY <1>1, <2>1, <2>2, <2>3, <2>4 DEF PollInv, SourceOK, CursorsOK
    <2>6. PollsOK(t)' /\ EagerOK(t)'
      BY <1>2, <2>2 DEF PollsOK, EagerOK
    <2>. QED
      BY <2>5, <2>6 DEF SourceOK
  <1>. QED
    BY <1>3, <1>4 DEF PollInv

LEMMA CrashOK == PollInv /\ Crash => PollInv'
  BY ForgottenOK DEF Crash, PollInv, AdaptersTyped

LEMMA CrashInPushOK ==
  ASSUME PollInv, NEW s \in Source, NEW i \in DOMAIN polls[s], CrashInPush(s, i) PROVE PollInv'
  <1>1. Buffering(s, polls[s][i]) /\ ForgetAdapters
    BY DEF CrashInPush
  <1>. QED
    BY <1>1, BufferingOK, ForgottenOK

LEMMA AdaptersStay == PollInv /\ UNCHANGED adapterVars => PollInv'
  <1>1. SUFFICES ASSUME PollInv, UNCHANGED adapterVars PROVE PollInv'
    OBVIOUS
  <1>2. UNCHANGED <<produced, live, saved, since, active, op, scheduled, polls, buffered, toggles>>
    BY <1>1 DEF adapterVars
  <1>3. AdaptersTyped'
    BY <1>1, <1>2 DEF PollInv, AdaptersTyped
  <1>4. \A t \in Source : Untouched(t)
    BY <1>2 DEF Untouched
  <1>. QED
    BY <1>1, <1>3, <1>4, Elsewhere DEF PollInv

LEMMA PollStays ==
  ASSUME Undisturbed PROVE PollInv /\ [PollNext]_pollVars => PollInv'
  <1>1. SUFFICES ASSUME PollInv, [PollNext]_pollVars PROVE PollInv'
    OBVIOUS
  <1>2. CASE UNCHANGED pollVars
    BY <1>1, <1>2, AdaptersStay DEF pollVars
  <1>3. CASE Restart \/ FetchBatch \/ SettleBatch \/ FailCycle \/ Housekeeping
    BY <1>1, <1>3, AdaptersStay DEF Restart, FetchBatch, SettleBatch, FailCycle, Housekeeping
  <1>4. ASSUME NEW s \in Source, NEW i \in DOMAIN polls[s],
               ReadOn(s, i) \/ ReturnPoll(s, i) \/ FailPoll(s, i) \/ CrashInPush(s, i)
        PROVE  PollInv'
    BY <1>1, <1>4, ReadOnOK, ReturnPollOK, FailPollOK, CrashInPushOK
  <1>5. ASSUME NEW s \in Source,
               \/ Produce(s) \/ BeginPoll(s) \/ BeginEnable(s) \/ Initialise(s) \/ EndEnable(s)
               \/ FailEnable(s) \/ BeginDisable(s) \/ EndDisable(s)
        PROVE  PollInv'
    BY <1>1, <1>5, ProduceOK, BeginPollOK, BeginSwitchOK, InitialiseOK, EndSwitchOK, FailEnableOK
  <1>6. CASE Configure \/ Crash
    BY <1>1, <1>6, EndSwitchOK, CrashOK
  <1>. QED
    BY <1>1, <1>2, <1>3, <1>4, <1>5, <1>6 DEF PollNext

LEMMA PollStarts == PollInit => PollInv
  <1>1. SUFFICES ASSUME PollInit PROVE PollInv
    OBVIOUS
  <1>2. /\ produced = [s \in Source |-> 0] /\ live = [s \in Source |-> 0]
        /\ saved = [s \in Source |-> NoCursor] /\ since = [s \in Source |-> 0]
        /\ active = [s \in Source |-> FALSE] /\ op = [s \in Source |-> "none"]
        /\ scheduled = [s \in Source |-> FALSE] /\ polls = [s \in Source |-> <<>>]
        /\ buffered = [s \in Source |-> {}] /\ toggles = 0
    BY <1>1 DEF PollInit
  <1>3. <<>> \in Seq(PollState) /\ DOMAIN <<>> = {}
    BY EmptySeq
  <1>4. AdaptersTyped
    BY <1>2, <1>3 DEF AdaptersTyped, Ops
  <1>5. ASSUME NEW t \in Source PROVE SourceOK(t)
    <2>1. Behind(t, live[t])
      BY <1>2 DEF Behind
    <2>2. CursorsOK(t)
      BY <1>2, <2>1, PollBounds DEF CursorsOK, PollBounds
    <2>3. PollsOK(t) /\ EagerOK(t)
      BY <1>2, <1>3 DEF PollsOK, EagerOK
    <2>. QED
      BY <2>2, <2>3 DEF SourceOK
  <1>. QED
    BY <1>4, <1>5 DEF PollInv

(* The saved cursor is never past an event that did not reach the buffer,  *)
(* whatever polls fail, overlap or are cut short by a crash: a restart     *)
(* reads on from there and misses nothing (pollSourceInner,                *)
(* saveCheckpoint).                                                        *)
THEOREM SavedCursorIsBehind ==
  ASSUME Undisturbed PROVE PollSpec => []CursorBehindBuffer
  <1>1. PollInv => CursorBehindBuffer
    BY DEF PollInv, SourceOK, CursorsOK, Behind, CursorBehindBuffer
  <1>. QED
    BY PollStarts, PollStays, <1>1, PTL DEF PollSpec

(* Nor does the adapter itself begin its next poll past an event that is   *)
(* neither buffered nor in the hands of a poll in flight; and a source has *)
(* one poll for its timer at most, none without one (syncPollTimers,       *)
(* pollSource).                                                            *)
THEOREM PollsSkipNothing ==
  ASSUME Undisturbed PROVE PollSpec => []NothingSkipped
  <1>1. PollInv => NothingSkipped
    <2>1. SUFFICES ASSUME PollInv PROVE NothingSkipped
      OBVIOUS
    <2>2. ASSUME NEW s \in Source
          PROVE  /\ polls[s] \in Seq(PollState)
                 /\ \A i, j \in DOMAIN polls[s] : polls[s][i].owns /\ polls[s][j].owns => i = j
                 /\ InFlight(s) => scheduled[s]
      BY <2>1 DEF PollInv, AdaptersTyped, SourceOK, PollsOK, PollOK, InFlight, Polling
    <2>3. PollTypeOK
      BY <2>1, <2>2 DEF PollInv, AdaptersTyped, PollTypeOK
    <2>4. ASSUME NEW s \in Source, NEW n \in (since[s] + 1) .. live[s]
          PROVE  n \in buffered[s] \/ \E p \in Polling(s) : n \in (p.before + 1) .. p.at
      <3>1. CASE s \notin Eager \/ polls[s] = <<>>
        BY <2>1, <2>4, <3>1 DEF PollInv, SourceOK, CursorsOK, Behind
      <3>2. CASE s \in Eager /\ polls[s] # <<>>
        <4>1. Len(polls[s]) = 1 /\ polls[s][1].at = live[s]
          BY <2>1, <3>2 DEF PollInv, SourceOK, EagerOK
        <4>2. 1 \in DOMAIN polls[s]
          BY <2>2, <4>1, LenProperties
        <4>3. polls[s][1].before \in Nat /\ live[s] \in Nat /\ since[s] \in Nat
              /\ Behind(s, polls[s][1].before)
          BY <2>1, <4>2, PollTyped DEF PollInv, AdaptersTyped
        <4>4. n \in (since[s] + 1) .. polls[s][1].before \/ n \in (polls[s][1].before + 1) .. live[s]
          BY <2>4, <4>3
        <4>. QED
          BY <4>1, <4>2, <4>3, <4>4 DEF Behind, Polling
      <3>. QED
        BY <3>1, <3>2
    <2>. QED
      BY <2>3, <2>4 DEF NothingSkipped
  <1>. QED
    BY PollStarts, PollStays, <1>1, PTL DEF PollSpec

-----------------------------------------------------------------------------
(* The poll loop only does to the buffer what it allows.  No assumption on *)
(* switching is needed for that, only that a poll keeps to its limit.      *)

Limited(s) ==
  \A i \in DOMAIN polls[s] :
    polls[s][i].before <= polls[s][i].at /\ polls[s][i].at <= polls[s][i].before + MaxBatch

PollsLimited == AdaptersTyped /\ masterKey \in MasterKey /\ \A s \in Source : Limited(s)

LEMMA InFlightTyped ==
  ASSUME AdaptersTyped, NEW s \in Source, NEW i \in DOMAIN polls[s]
  PROVE  /\ polls[s] \in Seq(PollState) /\ Len(polls[s]) \in Nat /\ DOMAIN polls[s] = 1 .. Len(polls[s])
         /\ polls[s][i] \in PollState
         /\ polls[s][i].before \in Nat /\ polls[s][i].at \in Nat
         /\ RemoveAt(polls[s], i) \in Seq(PollState)
  <1>1. polls[s] \in Seq(PollState)
    BY DEF AdaptersTyped
  <1>2. polls[s][i] \in PollState /\ Len(polls[s]) \in Nat /\ DOMAIN polls[s] = 1 .. Len(polls[s])
    BY <1>1, LenProperties
  <1>. QED
    BY <1>1, <1>2, Removed DEF PollState

(* Of the polls of s one is gone. *)
LEMMA LimitedLess ==
  ASSUME AdaptersTyped, NEW s \in Source, Limited(s), NEW i \in DOMAIN polls[s],
         polls' = [polls EXCEPT ![s] = RemoveAt(polls[s], i)], \A t \in Source : Limited(t)
  PROVE  /\ polls' \in [Source -> Seq(PollState)]
         /\ \A t \in Source : Limited(t)'
  <1> DEFINE q == polls[s]
             from(j) == IF j < i THEN j ELSE j + 1
  <1>1. /\ q \in Seq(PollState) /\ Len(q) \in Nat /\ DOMAIN q = 1 .. Len(q) /\ i \in 1 .. Len(q)
        /\ RemoveAt(q, i) \in Seq(PollState)
    BY InFlightTyped
  <1>2. /\ polls'[s] = RemoveAt(q, i) /\ polls' \in [Source -> Seq(PollState)]
        /\ \A t \in Source \ {s} : polls'[t] = polls[t]
    BY <1>1 DEF AdaptersTyped
  <1>3. /\ DOMAIN polls'[s] = 1 .. (Len(q) - 1)
        /\ \A j \in 1 .. (Len(q) - 1) : polls'[s][j] = q[from(j)] /\ from(j) \in DOMAIN q
    BY <1>1, <1>2, Removed
  <1> HIDE DEF from
  <1>4. Limited(s)'
    BY <1>3 DEF Limited
  <1>5. \A t \in Source \ {s} : Limited(t)'
    BY <1>2 DEF Limited
  <1>. QED
    BY <1>2, <1>4, <1>5

LEMMA LimitedBegin ==
  ASSUME PollsLimited, NEW s \in Source, BeginPoll(s) PROVE PollsLimited'
  <1> DEFINE q == polls[s]
             p == NewPoll(s)
  <1>1. /\ polls' = [polls EXCEPT ![s] = Append(q, p)]
        /\ UNCHANGED <<masterKey, produced, live, saved, since, active, op, scheduled, buffered, toggles>>
    BY DEF BeginPoll, bufferVars
  <1>2. produced[s] \in Nat /\ live[s] \in Nat /\ q \in Seq(PollState) /\ MaxBatch \in Nat
    BY BoundsAssumption DEF PollsLimited, AdaptersTyped
  <1>3. p \in PollState /\ p.before = live[s] /\ p.at = live[s]
    BY <1>2 DEF NewPoll, PollState, MinOf
  <1> HIDE DEF p
  <1>4. /\ polls'[s] = Append(q, p) /\ polls' \in [Source -> Seq(PollState)]
        /\ \A t \in Source \ {s} : polls'[t] = polls[t]
    BY <1>1, <1>2, <1>3, AppendProperties DEF PollsLimited, AdaptersTyped
  <1>5. /\ Len(q) \in Nat /\ DOMAIN q = 1 .. Len(q) /\ DOMAIN polls'[s] = 1 .. (Len(q) + 1)
        /\ \A j \in 1 .. Len(q) : polls'[s][j] = q[j]
        /\ polls'[s][Len(q) + 1] = p
    BY <1>2, <1>3, <1>4, AppendProperties, LenProperties
  <1>6. Limited(s)'
    <2>1. SUFFICES ASSUME NEW j \in DOMAIN polls'[s]
                   PROVE  /\ polls'[s][j].before <= polls'[s][j].at
                          /\ polls'[s][j].at <= polls'[s][j].before + MaxBatch
      BY DEF Limited
    <2>2. CASE j = Len(q) + 1
      BY <1>2, <1>3, <1>5, <2>2
    <2>3. CASE j \in 1 .. Len(q)
      BY <1>5, <2>3 DEF PollsLimited, Limited
    <2>. QED
      BY <1>5, <2>2, <2>3
  <1>7. \A t \in Source \ {s} : Limited(t)'
    BY <1>4 DEF PollsLimited, Limited
  <1>8. AdaptersTyped'
    BY <1>1, <1>4 DEF PollsLimited, AdaptersTyped
  <1>. QED
    BY <1>1, <1>6, <1>7, <1>8 DEF PollsLimited

LEMMA LimitedReadOn ==
  ASSUME PollsLimited, NEW s \in Source, NEW i \in DOMAIN polls[s], ReadOn(s, i)
  PROVE  /\ PollsLimited'
         /\ \A t \in Source : DOMAIN polls'[t] = DOMAIN polls[t]
         /\ \A t \in Source : \A j \in DOMAIN polls[t] : polls'[t][j].owns = polls[t][j].owns
  <1> DEFINE q == polls[s]
             p == polls[s][i]
             further == [p EXCEPT !.at = p.at + 1]
  <1>1. /\ p.at - p.before < MaxBatch
        /\ polls' = [polls EXCEPT ![s] = [q EXCEPT ![i] = further]]
        /\ live' = IF s \in Eager THEN [live EXCEPT ![s] = p.at + 1] ELSE live
        /\ UNCHANGED <<masterKey, produced, saved, since, active, op, scheduled, buffered, toggles>>
    BY DEF ReadOn, bufferVars
  <1>2. /\ q \in Seq(PollState) /\ DOMAIN q = 1 .. Len(q) /\ Len(q) \in Nat
        /\ p \in PollState /\ p.at \in Nat /\ p.before \in Nat /\ MaxBatch \in Nat
        /\ p.before <= p.at
    BY InFlightTyped, BoundsAssumption DEF PollsLimited, Limited
  <1>3. /\ further \in PollState /\ further.before = p.before /\ further.at = p.at + 1
        /\ further.owns = p.owns
    <2>1. p \in PollState /\ p.at \in Nat /\ p.before \in Nat
      BY <1>2
    <2>. QED
      BY <2>1 DEF PollState
  <1> HIDE DEF further
  <1>4. [q EXCEPT ![i] = further] \in Seq(PollState)
    BY <1>2, <1>3, ExceptSeq
  <1>5. /\ polls' \in [Source -> Seq(PollState)] /\ polls'[s] = [q EXCEPT ![i] = further]
        /\ \A t \in Source \ {s} : polls'[t] = polls[t]
    BY <1>1, <1>4 DEF PollsLimited, AdaptersTyped
  <1>6. /\ DOMAIN polls'[s] = DOMAIN q /\ polls'[s][i] = further
        /\ \A j \in DOMAIN q \ {i} : polls'[s][j] = q[j]
        /\ \A j \in DOMAIN q : polls'[s][j].owns = q[j].owns
    <2>1. /\ DOMAIN polls'[s] = DOMAIN q /\ polls'[s][i] = further
          /\ \A j \in DOMAIN q \ {i} : polls'[s][j] = q[j]
      BY <1>2, <1>5
    <2>. QED
      BY <1>3, <2>1
  <1>7. Limited(s)'
    <2>1. SUFFICES ASSUME NEW j \in DOMAIN q
                   PROVE  /\ polls'[s][j].before <= polls'[s][j].at
                          /\ polls'[s][j].at <= polls'[s][j].before + MaxBatch
      BY <1>6 DEF Limited
    <2>2. CASE j = i
      BY <1>1, <1>2, <1>3, <1>6, <2>2
    <2>3. CASE j # i
      BY <1>6, <2>3 DEF PollsLimited, Limited
    <2>. QED
      BY <2>2, <2>3
  <1>8. \A t \in Source \ {s} : Limited(t)'
    BY <1>5 DEF PollsLimited, Limited
  <1>9. live' \in [Source -> Nat]
    BY <1>1, <1>2 DEF PollsLimited, AdaptersTyped
  <1>10. AdaptersTyped'
    BY <1>1, <1>5, <1>9 DEF PollsLimited, AdaptersTyped
  <1>11. \A t \in Source : /\ DOMAIN polls'[t] = DOMAIN polls[t]
                           /\ \A j \in DOMAIN polls[t] : polls'[t][j].owns = polls[t][j].owns
    BY <1>5, <1>6
  <1>. QED
    BY <1>1, <1>7, <1>8, <1>10, <1>11 DEF PollsLimited

LEMMA LimitedEnd ==
  ASSUME PollsLimited, NEW s \in Source, NEW i \in DOMAIN polls[s],
         ReturnPoll(s, i) \/ FailPoll(s, i)
  PROVE  PollsLimited'
  <1> DEFINE p == polls[s][i]
  <1>1. /\ polls' = [polls EXCEPT ![s] = RemoveAt(polls[s], i)]
        /\ \E n \in Nat : live' = [live EXCEPT ![s] = n]
        /\ saved' = saved \/ \E n \in Nat : saved' = [saved EXCEPT ![s] = n]
        /\ buffered' \in [Source -> SUBSET Nat]
        /\ UNCHANGED <<masterKey, produced, since, active, op, scheduled, toggles>>
    <2>1. p.at \in Nat /\ p.before \in Nat /\ live[s] \in Nat /\ p \in PollState
      BY InFlightTyped DEF PollsLimited, AdaptersTyped
    <2>2. CASE FailPoll(s, i)
      <3>1. buffered' \in [Source -> SUBSET Nat]
        BY <2>2 DEF FailPoll, PollsLimited, AdaptersTyped
      <3>. QED
        BY <2>1, <2>2, <3>1 DEF FailPoll, Rewound, bufferVars
    <2>3. CASE ReturnPoll(s, i)
      <3>1. Advanced(s, p) \in Nat
        BY <2>1 DEF Advanced
      <3>2. /\ polls' = [polls EXCEPT ![s] = RemoveAt(polls[s], i)]
            /\ live' = [live EXCEPT ![s] = Advanced(s, p)]
            /\ saved' = Checkpointed(s, Advanced(s, p))
            /\ Buffering(s, p)
            /\ UNCHANGED <<produced, since, active, op, scheduled, toggles>>
        BY <2>3 DEF ReturnPoll
      <3>3. masterKey' = masterKey
        BY <2>3 DEF ReturnPoll, PushBatch, bufferVars
      <3>4. \A e \in ReadBy(s, p) : e.id \in Nat
        BY <2>1 DEF ReadBy
      <3>5. buffered' \in [Source -> SUBSET Nat]
        <4> DEFINE ids == {e.id : e \in ReadBy(s, p)}
        <4>1. ids \subseteq Nat
          BY <3>4
        <4>2. buffered' = [buffered EXCEPT ![s] = buffered[s] \cup ids]
          BY <3>2 DEF Buffering
        <4> HIDE DEF ids
        <4>. QED
          BY <4>1, <4>2 DEF PollsLimited, AdaptersTyped
      <3>. QED
        BY <3>1, <3>2, <3>3, <3>5 DEF Checkpointed
    <2>. QED
      BY <2>2, <2>3
  <1>2. polls' \in [Source -> Seq(PollState)] /\ \A t \in Source : Limited(t)'
    BY <1>1, LimitedLess DEF PollsLimited
  <1>3. live' \in [Source -> Nat] /\ saved' \in [Source -> Nat \cup {NoCursor}]
    <2>1. live \in [Source -> Nat] /\ saved \in [Source -> Nat \cup {NoCursor}]
      BY DEF PollsLimited, AdaptersTyped
    <2>2. PICK n \in Nat : live' = [live EXCEPT ![s] = n]
      BY <1>1
    <2>3. live' \in [Source -> Nat]
      BY <2>1, <2>2
    <2>4. ASSUME NEW m \in Nat, saved' = [saved EXCEPT ![s] = m]
          PROVE  saved' \in [Source -> Nat \cup {NoCursor}]
      BY <2>1, <2>4
    <2>. QED
      BY <1>1, <2>1, <2>3, <2>4
  <1>4. AdaptersTyped'
    BY <1>1, <1>2, <1>3 DEF PollsLimited, AdaptersTyped
  <1>. QED
    BY <1>1, <1>2, <1>4 DEF PollsLimited

LEMMA LimitedSync ==
  ASSUME PollsLimited, NEW now \in [Source -> BOOLEAN], SyncTimers(now),
         active' \in [Source -> BOOLEAN], op' \in [Source -> Ops],
         UNCHANGED <<masterKey, produced, live, saved, since, buffered, toggles>>
  PROVE  PollsLimited'
  <1>1. AdaptersTyped'
    BY Synced DEF PollsLimited, AdaptersTyped
  <1>2. ASSUME NEW t \in Source PROVE Limited(t)'
    <2>1. /\ DOMAIN polls'[t] = DOMAIN polls[t]
          /\ \A i \in DOMAIN polls[t] : /\ polls'[t][i].before = polls[t][i].before
                                        /\ polls'[t][i].at = polls[t][i].at
      BY Synced DEF PollsLimited
    <2>. QED
      BY <2>1 DEF PollsLimited, Limited
  <1>. QED
    BY <1>1, <1>2 DEF PollsLimited

LEMMA LimitedForgets ==
  ASSUME PollsLimited, ForgetAdapters, masterKey' = masterKey,
         buffered' \in [Source -> SUBSET Nat]
  PROVE  PollsLimited' /\ \A t \in Source : polls'[t] = <<>>
  <1>1. /\ live' = [s \in Source |-> 0] /\ active' = [s \in Source |-> FALSE]
        /\ op' = [s \in Source |-> "none"] /\ scheduled' = [s \in Source |-> FALSE]
        /\ polls' = [s \in Source |-> <<>>] /\ UNCHANGED <<produced, saved, since, toggles>>
    BY DEF ForgetAdapters
  <1>2. <<>> \in Seq(PollState) /\ DOMAIN <<>> = {}
    BY EmptySeq
  <1>3. AdaptersTyped'
    BY <1>1, <1>2 DEF PollsLimited, AdaptersTyped, Ops
  <1>. QED
    BY <1>1, <1>2, <1>3 DEF PollsLimited, Limited

LEMMA LimitedStarts == PollInit => PollsLimited
  <1>1. SUFFICES ASSUME PollInit PROVE PollsLimited
    OBVIOUS
  <1>2. AdaptersTyped /\ polls = [s \in Source |-> <<>>]
    BY <1>1, PollStarts DEF PollInv, PollInit
  <1>3. masterKey \in MasterKey
    BY <1>1 DEF PollInit, BufferInit
  <1>4. DOMAIN <<>> = {}
    BY EmptySeq
  <1>. QED
    BY <1>2, <1>3, <1>4 DEF PollsLimited, Limited

LEMMA LimitedSwitches ==
  ASSUME PollsLimited,
         \/ \E s \in Source : \/ BeginEnable(s) \/ Initialise(s) \/ EndEnable(s)
                              \/ FailEnable(s) \/ BeginDisable(s) \/ EndDisable(s) \/ Produce(s)
         \/ Configure
  PROVE  PollsLimited'
  <1>1. ASSUME UNCHANGED <<masterKey, polls>>, AdaptersTyped' PROVE PollsLimited'
    BY <1>1 DEF PollsLimited, Limited
  <1>2. /\ active \in [Source -> BOOLEAN] /\ op \in [Source -> Ops]
        /\ \A s \in Source : [op EXCEPT ![s] = "none"] \in [Source -> Ops]
        /\ \A s \in Source : [active EXCEPT ![s] = TRUE] \in [Source -> BOOLEAN]
    BY DEF PollsLimited, AdaptersTyped, Ops
  <1>3. ASSUME NEW s \in Source, BeginEnable(s) \/ BeginDisable(s) PROVE PollsLimited'
    <2>1. toggles' \in Nat
      BY <1>3, TogglingTyped DEF BeginEnable, BeginDisable, PollsLimited
    <2>2. AdaptersTyped'
      BY <1>3, <2>1 DEF BeginEnable, BeginDisable, PollsLimited, AdaptersTyped, Ops
    <2>. QED
      BY <1>1, <1>3, <2>2 DEF BeginEnable, BeginDisable, bufferVars
  <1>4. ASSUME NEW s \in Source, Initialise(s) PROVE PollsLimited'
    <2>1. live[s] \in Nat /\ saved[s] \in Nat \cup {NoCursor} /\ since[s] \in Nat /\ produced[s] \in Nat
      BY DEF PollsLimited, AdaptersTyped
    <2>2. live' \in [Source -> Nat] /\ since' \in [Source -> Nat]
      BY <1>4, <2>1 DEF Initialise, MaxOf, PollsLimited, AdaptersTyped
    <2>3. AdaptersTyped'
      BY <1>4, <2>2 DEF Initialise, PollsLimited, AdaptersTyped, Ops
    <2>. QED
      BY <1>1, <1>4, <2>3 DEF Initialise, bufferVars
  <1>5. ASSUME NEW s \in Source, EndEnable(s) PROVE PollsLimited'
    <2>1. /\ SyncTimers([active EXCEPT ![s] = TRUE]) /\ op' = [op EXCEPT ![s] = "none"]
          /\ active' = [active EXCEPT ![s] = TRUE]
          /\ UNCHANGED <<masterKey, produced, live, saved, since, buffered, toggles>>
      BY <1>5 DEF EndEnable, SyncTimers, bufferVars
    <2>. QED
      BY <1>2, <2>1, LimitedSync
  <1>6. ASSUME NEW s \in Source, EndDisable(s) PROVE PollsLimited'
    <2>1. /\ SyncTimers(active) /\ op' = [op EXCEPT ![s] = "none"]
          /\ UNCHANGED <<masterKey, produced, live, saved, since, active, buffered, toggles>>
      BY <1>6 DEF EndDisable, bufferVars
    <2>. QED
      BY <1>2, <2>1, LimitedSync
  <1>7. ASSUME Configure PROVE PollsLimited'
    <2>1. /\ SyncTimers(active)
          /\ UNCHANGED <<masterKey, produced, live, saved, since, active, op, buffered, toggles>>
      BY <1>7 DEF Configure, bufferVars
    <2>. QED
      BY <1>2, <2>1, LimitedSync
  <1>8. ASSUME NEW s \in Source, FailEnable(s) PROVE PollsLimited'
    <2>1. AdaptersTyped'
      BY <1>8 DEF FailEnable, PollsLimited, AdaptersTyped, Ops
    <2>. QED
      BY <1>1, <1>8, <2>1 DEF FailEnable, bufferVars
  <1>9. ASSUME NEW s \in Source, Produce(s) PROVE PollsLimited'
    <2>1. AdaptersTyped'
      BY <1>9 DEF Produce, PollsLimited, AdaptersTyped
    <2>. QED
      BY <1>1, <1>9, <2>1 DEF Produce, bufferVars
  <1>. QED
    BY <1>3, <1>4, <1>5, <1>6, <1>7, <1>8, <1>9

LEMMA LimitedElse ==
  ASSUME PollsLimited, UNCHANGED <<masterKey, adapterVars>> PROVE PollsLimited'
  BY DEF PollsLimited, AdaptersTyped, Limited, adapterVars

(* What consumers do leaves the adapters alone, and a restart is with the  *)
(* same key.                                                               *)
LEMMA ConsumersElsewhere ==
  ASSUME Restart \/ FetchBatch \/ SettleBatch \/ FailCycle \/ Housekeeping \/ UNCHANGED pollVars
  PROVE  UNCHANGED <<masterKey, adapterVars>>
  BY DEF Restart, FetchBatch, SettleBatch, FailCycle, Housekeeping, Open, Fetch, Settle, EndCycle,
         cleanup, Tick, pollVars, bufferVars

LEMMA CrashForgets ==
  ASSUME PollsLimited, Crash \/ \E s \in Source : \E i \in DOMAIN polls[s] : CrashInPush(s, i)
  PROVE  PollsLimited' /\ \A t \in Source : polls'[t] = <<>>
  <1>1. ASSUME NEW s \in Source, NEW i \in DOMAIN polls[s], CrashInPush(s, i)
        PROVE  buffered' \in [Source -> SUBSET Nat]
    <2> DEFINE ids == {e.id : e \in ReadBy(s, polls[s][i])}
    <2>1. polls[s][i].before \in Nat /\ polls[s][i].at \in Nat
      BY InFlightTyped DEF PollsLimited
    <2>2. ids \subseteq Nat
      BY <2>1 DEF ReadBy
    <2>3. buffered' = [buffered EXCEPT ![s] = buffered[s] \cup ids]
      BY <1>1 DEF CrashInPush, Buffering
    <2> HIDE DEF ids
    <2>. QED
      BY <2>2, <2>3 DEF PollsLimited, AdaptersTyped
  <1>2. Crash => buffered' \in [Source -> SUBSET Nat]
    BY DEF Crash, PollsLimited, AdaptersTyped
  <1>3. masterKey' = masterKey /\ ForgetAdapters
    BY DEF Crash, CrashInPush, Close, PushTorn
  <1>. QED
    BY <1>1, <1>2, <1>3, LimitedForgets

LEMMA LimitedStays == PollsLimited /\ [PollNext]_pollVars => PollsLimited'
  <1>1. SUFFICES ASSUME PollsLimited, [PollNext]_pollVars PROVE PollsLimited'
    OBVIOUS
  <1>. QED
    BY <1>1, LimitedBegin, LimitedReadOn, LimitedEnd, LimitedSwitches, ConsumersElsewhere,
       LimitedElse, CrashForgets DEF PollNext

-----------------------------------------------------------------------------
(* Every step is the buffer's, or leaves it alone.                         *)

LEMMA ReadIsABatch ==
  ASSUME PollsLimited, NEW s \in Source, NEW i \in DOMAIN polls[s],
         ReadBy(s, polls[s][i]) # {}
  PROVE  ReadBy(s, polls[s][i]) \in Batches
  <1> DEFINE p == polls[s][i]
             B == ReadBy(s, p)
             f == [e \in B |-> e.id]
  <1>1. /\ p.before \in Nat /\ p.at \in Nat /\ p.at <= p.before + MaxBatch /\ MaxBatch \in Nat
        /\ p.before <= p.at
    BY InFlightTyped, BoundsAssumption DEF PollsLimited, Limited
  <1>2. B \in SUBSET Event /\ IsFiniteSet(B) /\ Cardinality(B) \in Nat
    <2>1. B \in SUBSET Event
      BY DEF ReadBy
    <2>. QED
      BY <2>1, EventFinite, FS_Subset, FS_CardinalityType
  <1>3. \E w : Importance = {w}
    BY PollBounds, ImportanceAssumption, FS_Singleton DEF PollBounds
  <1>4. f \in Injection(B, (p.before + 1) .. p.at)
    <2>1. \A e \in B : e \in Event /\ e.source = s /\ e.id \in (p.before + 1) .. p.at
      BY DEF ReadBy
    <2>2. \A d, e \in B : d.id = e.id => d = e
      BY <1>3, <2>1 DEF Event
    <2> HIDE DEF B
    <2>. QED
      BY <2>1, <2>2 DEF Injection, IsInjective
  <1>5. /\ IsFiniteSet((p.before + 1) .. p.at)
        /\ Cardinality((p.before + 1) .. p.at) = p.at - p.before
    <2>1. /\ IsFiniteSet((p.before + 1) .. p.at)
          /\ Cardinality((p.before + 1) .. p.at) =
               IF p.before + 1 > p.at THEN 0 ELSE p.at - (p.before + 1) + 1
      <3>1. p.before + 1 \in Int /\ p.at \in Int
        BY <1>1
      <3>. QED
        BY <3>1, FS_Interval
    <2>. QED
      BY <1>1, <2>1
  <1>6. Cardinality(B) <= p.at - p.before
    BY <1>4, <1>5, FS_Injection
  <1>7. Cardinality(B) # 0
    BY <1>2, FS_EmptySet
  <1>. QED
    BY <1>1, <1>2, <1>6, <1>7 DEF Batches

LEMMA PollStepOnBuffer == PollsLimited /\ [PollNext]_pollVars => [BufferNext]_bufferVars
  <1>1. SUFFICES ASSUME PollsLimited, [PollNext]_pollVars PROVE BufferNext \/ UNCHANGED bufferVars
    OBVIOUS
  <1>2. ASSUME NEW s \in Source, NEW i \in DOMAIN polls[s], ReturnPoll(s, i)
        PROVE  BufferNext \/ UNCHANGED bufferVars
    <2>1. UNCHANGED bufferVars \/ \E batch \in Batches : PushBatch(batch)
      BY <1>1, <1>2, ReadIsABatch DEF ReturnPoll
    <2>. QED
      BY <2>1 DEF BufferNext
  <1>3. ASSUME NEW s \in Source, NEW i \in DOMAIN polls[s], CrashInPush(s, i)
        PROVE  BufferNext
    <2>1. \E batch \in Batches : PushTorn(batch)
      BY <1>1, <1>3, ReadIsABatch DEF CrashInPush
    <2>. QED
      BY <2>1 DEF BufferNext
  <1>4. ASSUME NEW s \in Source, NEW i \in DOMAIN polls[s], ReadOn(s, i) \/ FailPoll(s, i)
        PROVE  UNCHANGED bufferVars
    BY <1>4 DEF ReadOn, FailPoll
  <1>5. ASSUME NEW s \in Source,
               \/ Produce(s) \/ BeginPoll(s) \/ BeginEnable(s) \/ Initialise(s) \/ EndEnable(s)
               \/ FailEnable(s) \/ BeginDisable(s) \/ EndDisable(s)
        PROVE  UNCHANGED bufferVars
    BY <1>5 DEF Produce, BeginPoll, BeginEnable, Initialise, EndEnable, FailEnable, BeginDisable,
                EndDisable
  <1>6. Configure => UNCHANGED bufferVars
    BY DEF Configure
  <1>7. Crash => BufferNext
    BY DEF Crash, BufferNext
  <1>8. Restart => BufferNext
    BY <1>1 DEF Restart, BufferNext, PollsLimited
  <1>9. FetchBatch => BufferNext
    BY PollerAssumption DEF PollerAssumption, FetchBatch, BufferNext
  <1>10. SettleBatch => BufferNext
    BY PollerAssumption DEF PollerAssumption, SettleBatch, BufferNext
  <1>11. FailCycle => BufferNext
    BY PollerAssumption DEF PollerAssumption, FailCycle, BufferNext
  <1>12. Housekeeping => BufferNext
    BY DEF Housekeeping, BufferNext
  <1>13. UNCHANGED pollVars => UNCHANGED bufferVars
    BY DEF pollVars
  <1>. QED
    BY <1>1, <1>2, <1>3, <1>4, <1>5, <1>6, <1>7, <1>8, <1>9, <1>10, <1>11, <1>12, <1>13
       DEF PollNext

(* The poll loop, with all that is switched, fails or dies in it, is one   *)
(* more user of the buffer: whatever is proved of the buffer holds of it.  *)
THEOREM PollingIsABuffer == PollSpec => BufferSpec
  <1>1. PollInit => BufferInit
    BY DEF PollInit
  <1>. QED
    BY <1>1, LimitedStarts, LimitedStays, PollStepOnBuffer, PTL DEF PollSpec, BufferSpec

-----------------------------------------------------------------------------
(* Counting the polls in flight.  There is one for each source that is     *)
(* polled, and one more for each time a running source was switched off or *)
(* enabled again: its poll then goes on beside the next.                   *)

Flying == {f \in Source \X Nat : f[2] \in DOMAIN polls[f[1]]}
Served == {s \in Source : active[s] /\ InFlight(s)}

FlightsCounted ==
  /\ IsFiniteSet(Flying)
  /\ Cardinality(Flying) <= Cardinality(Served) + toggles
  /\ toggles <= MaxToggles

OneMore(S, T) == \E x : x \notin S /\ T = S \cup {x}

LEMMA CardinalityOneMore ==
  ASSUME NEW S, NEW T, IsFiniteSet(S), OneMore(S, T)
  PROVE  /\ IsFiniteSet(T) /\ Cardinality(S) \in Nat
         /\ Cardinality(T) = Cardinality(S) + 1
  BY FS_AddElement, FS_CardinalityType DEF OneMore

LEMMA CardinalityOneLess ==
  ASSUME NEW S, NEW T, IsFiniteSet(T), OneMore(S, T)
  PROVE  /\ IsFiniteSet(S) /\ Cardinality(S) \in Nat
         /\ Cardinality(T) = Cardinality(S) + 1
  <1>1. S \in SUBSET T
    BY DEF OneMore
  <1>2. IsFiniteSet(S)
    BY <1>1, FS_Subset
  <1>. QED
    BY <1>2, CardinalityOneMore

LEMMA AtMostOneMore ==
  ASSUME NEW S, NEW T, IsFiniteSet(T), NEW x, S \subseteq T \cup {x}
  PROVE  Cardinality(S) <= Cardinality(T) + 1
  <1>1. IsFiniteSet(T \cup {x}) /\ Cardinality(T) \in Nat
        /\ Cardinality(T \cup {x}) \in {Cardinality(T), Cardinality(T) + 1}
    <2>1. CASE x \in T
      <3>1. T \cup {x} = T
        BY <2>1
      <3>. QED
        BY <3>1, FS_CardinalityType
    <2>2. CASE x \notin T
      BY <2>2, FS_AddElement, FS_CardinalityType
    <2>. QED
      BY <2>1, <2>2
  <1>2. S \in SUBSET (T \cup {x})
    OBVIOUS
  <1>3. Cardinality(S) <= Cardinality(T \cup {x}) /\ Cardinality(S) \in Nat
    BY <1>1, <1>2, FS_Subset, FS_CardinalityType
  <1>. QED
    BY <1>1, <1>3

LEMMA ServedFinite ==
  \A S \in SUBSET Source : IsFiniteSet(S) /\ Cardinality(S) \in Nat /\ Cardinality(S) <= Cardinality(Source)
  BY SourceAssumption, FS_Subset, FS_CardinalityType

LEMMA ServedNow == Served \in SUBSET Source /\ Served' \in SUBSET Source
  BY DEF Served

LEMMA FlyingBegin ==
  ASSUME AdaptersTyped, NEW s \in Source, BeginPoll(s)
  PROVE  OneMore(Flying, Flying') /\ OneMore(Served, Served')
  <1> DEFINE q == polls[s]
             p == NewPoll(s)
  <1>1. /\ active[s] /\ ~InFlight(s) /\ polls' = [polls EXCEPT ![s] = Append(q, p)]
        /\ active' = active
    BY DEF BeginPoll
  <1>2. produced[s] \in Nat /\ live[s] \in Nat /\ q \in Seq(PollState) /\ MaxBatch \in Nat
    BY BoundsAssumption DEF AdaptersTyped
  <1>3. p \in PollState /\ p.owns = TRUE
    BY <1>2 DEF NewPoll, PollState, MinOf
  <1> HIDE DEF p
  <1>4. polls'[s] = Append(q, p) /\ \A t \in Source \ {s} : polls'[t] = polls[t]
    BY <1>1 DEF AdaptersTyped
  <1>5. /\ Len(q) \in Nat /\ DOMAIN q = 1 .. Len(q) /\ DOMAIN polls'[s] = 1 .. (Len(q) + 1)
        /\ polls'[s][Len(q) + 1] = p
    BY <1>2, <1>3, <1>4, AppendProperties, LenProperties
  <1>6. Flying' = Flying \cup {<<s, Len(q) + 1>>} /\ <<s, Len(q) + 1>> \notin Flying
    <2>1. \A t \in Source \ {s} : DOMAIN polls'[t] = DOMAIN polls[t]
      BY <1>4
    <2>2. \A n \in Nat : n \in DOMAIN polls'[s] <=> n \in DOMAIN polls[s] \/ n = Len(q) + 1
      BY <1>5
    <2>3. Len(q) + 1 \in Nat /\ Len(q) + 1 \notin DOMAIN polls[s]
      BY <1>5
    <2>. QED
      BY <2>1, <2>2, <2>3 DEF Flying
  <1>7. s \notin Served /\ Served' = Served \cup {s}
    <2>1. InFlight(s)'
      BY <1>3, <1>5 DEF InFlight, Polling
    <2>2. \A t \in Source \ {s} : InFlight(t)' <=> InFlight(t)
      BY <1>4 DEF InFlight, Polling
    <2>. QED
      BY <1>1, <2>1, <2>2 DEF Served
  <1>. QED
    BY <1>6, <1>7 DEF OneMore

LEMMA FlyingEnd ==
  ASSUME AdaptersTyped, NEW s \in Source, NEW i \in DOMAIN polls[s],
         polls' = [polls EXCEPT ![s] = RemoveAt(polls[s], i)], active' = active
  PROVE  /\ OneMore(Flying', Flying)
         /\ Served \subseteq Served' \cup {s}
  <1> DEFINE q == polls[s]
  <1>1. /\ q \in Seq(PollState) /\ Len(q) \in Nat /\ DOMAIN q = 1 .. Len(q) /\ i \in 1 .. Len(q)
    BY InFlightTyped
  <1>2. polls'[s] = RemoveAt(q, i) /\ \A t \in Source \ {s} : polls'[t] = polls[t]
    BY DEF AdaptersTyped
  <1>3. DOMAIN polls'[s] = 1 .. (Len(q) - 1)
    BY <1>1, <1>2, Removed
  <1>4. Flying = Flying' \cup {<<s, Len(q)>>} /\ <<s, Len(q)>> \notin Flying'
    <2>1. \A t \in Source \ {s} : DOMAIN polls'[t] = DOMAIN polls[t]
      BY <1>2
    <2>2. \A n \in Nat : n \in DOMAIN polls[s] <=> n \in DOMAIN polls'[s] \/ n = Len(q)
      BY <1>1, <1>3
    <2>3. Len(q) \notin DOMAIN polls'[s]
      BY <1>1, <1>3
    <2>. QED
      BY <1>1, <2>1, <2>2, <2>3 DEF Flying
  <1>5. \A t \in Source \ {s} : InFlight(t)' <=> InFlight(t)
    BY <1>2 DEF InFlight, Polling
  <1>. QED
    BY <1>4, <1>5 DEF OneMore, Served

LEMMA FlyingSame ==
  ASSUME \A t \in Source : DOMAIN polls'[t] = DOMAIN polls[t] PROVE Flying' = Flying
  BY DEF Flying

(* The polls of a source that is active keep their timer. *)
LEMMA FlyingSync ==
  ASSUME AdaptersTyped, NEW now \in [Source -> BOOLEAN], SyncTimers(now), active' = now,
         \A t \in Source : active[t] => now[t]
  PROVE  Flying' = Flying /\ Served \subseteq Served'
  <1>1. Flying' = Flying
    BY Synced, FlyingSame
  <1>2. \A t \in Source : now[t] => (InFlight(t)' <=> InFlight(t))
    BY Synced DEF InFlight, Polling
  <1>. QED
    BY <1>1, <1>2 DEF Served

LEMMA CountedMore ==
  ASSUME FlightsCounted, Flying' = Flying, Served \subseteq Served', toggles' = toggles,
         toggles \in Nat
  PROVE  FlightsCounted'
  <1>1. /\ IsFiniteSet(Served') /\ Cardinality(Served) \in Nat /\ Cardinality(Served') \in Nat
        /\ Cardinality(Served) <= Cardinality(Served')
    <2>1. IsFiniteSet(Served') /\ Served \in SUBSET Served'
      BY ServedNow, ServedFinite
    <2>. QED
      BY <2>1, FS_Subset, FS_CardinalityType
  <1>2. Cardinality(Flying) \in Nat
    BY FS_CardinalityType DEF FlightsCounted
  <1>. QED
    BY <1>1, <1>2 DEF FlightsCounted

LEMMA FlightsStart == PollInit => FlightsCounted
  <1>1. SUFFICES ASSUME PollInit PROVE FlightsCounted
    OBVIOUS
  <1>2. polls = [s \in Source |-> <<>>] /\ toggles = 0
    BY <1>1 DEF PollInit
  <1>3. DOMAIN <<>> = {}
    BY EmptySeq
  <1>4. Flying = {}
    BY <1>2, <1>3 DEF Flying
  <1>5. IsFiniteSet(Flying) /\ Cardinality(Flying) = 0
    BY <1>4, FS_EmptySet
  <1>6. Cardinality(Served) \in Nat
    BY ServedNow, ServedFinite
  <1>. QED
    BY <1>2, <1>5, <1>6, PollBounds DEF FlightsCounted, PollBounds

LEMMA FlightsStay ==
  PollsLimited /\ FlightsCounted /\ [PollNext]_pollVars => FlightsCounted'
  <1>1. SUFFICES ASSUME PollsLimited, FlightsCounted, [PollNext]_pollVars PROVE FlightsCounted'
    OBVIOUS
  <1>2. /\ AdaptersTyped /\ toggles \in Nat /\ Cardinality(Flying) \in Nat
        /\ Cardinality(Served) \in Nat /\ Cardinality(Served') \in Nat
        /\ IsFiniteSet(Served) /\ IsFiniteSet(Served')
    <2>1. Cardinality(Flying) \in Nat
      BY <1>1, FS_CardinalityType DEF FlightsCounted
    <2>. QED
      BY <1>1, <2>1, ServedNow, ServedFinite DEF PollsLimited, AdaptersTyped
  <1>3. ASSUME NEW s \in Source, BeginPoll(s) PROVE FlightsCounted'
    <2>1. OneMore(Flying, Flying') /\ OneMore(Served, Served') /\ toggles' = toggles
      BY <1>2, <1>3, FlyingBegin DEF BeginPoll
    <2>2. /\ IsFiniteSet(Flying') /\ Cardinality(Flying') = Cardinality(Flying) + 1
          /\ Cardinality(Served') = Cardinality(Served) + 1
      BY <1>1, <1>2, <2>1, CardinalityOneMore DEF FlightsCounted
    <2>. QED
      BY <1>1, <1>2, <2>1, <2>2 DEF FlightsCounted
  <1>4. ASSUME NEW s \in Source, NEW i \in DOMAIN polls[s], ReturnPoll(s, i) \/ FailPoll(s, i)
        PROVE  FlightsCounted'
    <2>1. /\ polls' = [polls EXCEPT ![s] = RemoveAt(polls[s], i)]
          /\ active' = active /\ toggles' = toggles
      BY <1>4 DEF ReturnPoll, FailPoll
    <2>2. OneMore(Flying', Flying) /\ Served \subseteq Served' \cup {s}
      BY <1>2, <2>1, FlyingEnd
    <2>3. /\ IsFiniteSet(Flying') /\ Cardinality(Flying') \in Nat
          /\ Cardinality(Flying) = Cardinality(Flying') + 1
      BY <1>1, <2>2, CardinalityOneLess DEF FlightsCounted
    <2>4. Cardinality(Served) <= Cardinality(Served') + 1
      BY <1>2, <2>2, AtMostOneMore
    <2>. QED
      BY <1>1, <1>2, <2>1, <2>3, <2>4 DEF FlightsCounted
  <1>5. ASSUME NEW s \in Source, BeginEnable(s) \/ BeginDisable(s) PROVE FlightsCounted'
    <2>1. /\ Toggling(s) /\ polls' = polls /\ active' = [active EXCEPT ![s] = FALSE]
      BY <1>5 DEF BeginEnable, BeginDisable
    <2>2. Flying' = Flying
      BY <2>1, FlyingSame
    <2>3. \A t \in Source : InFlight(t)' <=> InFlight(t)
      BY <2>1 DEF InFlight, Polling
    <2>4. CASE active[s]
      <3>1. toggles' = toggles + 1 /\ toggles < MaxToggles /\ MaxToggles \in Nat
        BY <2>1, <2>4, PollBounds DEF Toggling, PollBounds
      <3>2. Served \subseteq Served' \cup {s}
        BY <1>2, <2>1, <2>3 DEF Served, AdaptersTyped
      <3>3. Cardinality(Served) <= Cardinality(Served') + 1
        BY <1>2, <3>2, AtMostOneMore
      <3>. QED
        BY <1>1, <1>2, <2>2, <3>1, <3>3 DEF FlightsCounted
    <2>5. CASE ~active[s]
      <3>1. toggles' = toggles /\ active' = active
        BY <1>2, <2>1, <2>5 DEF Toggling, AdaptersTyped
      <3>2. Served' = Served
        BY <2>3, <3>1 DEF Served
      <3>. QED
        BY <1>1, <1>2, <2>2, <3>1, <3>2, CountedMore
    <2>. QED
      BY <2>4, <2>5
  <1>6. ASSUME NEW s \in Source, EndEnable(s) PROVE FlightsCounted'
    <2> DEFINE now == [active EXCEPT ![s] = TRUE]
    <2>1. SyncTimers(now) /\ active' = now /\ toggles' = toggles
      BY <1>6 DEF EndEnable, SyncTimers
    <2>2. now \in [Source -> BOOLEAN] /\ \A t \in Source : active[t] => now[t]
      BY <1>2 DEF AdaptersTyped
    <2> HIDE DEF now
    <2>. QED
      BY <1>1, <1>2, <2>1, <2>2, FlyingSync, CountedMore
  <1>7. ASSUME Configure \/ \E s \in Source : EndDisable(s) PROVE FlightsCounted'
    <2>1. SyncTimers(active) /\ active' = active /\ toggles' = toggles
      BY <1>7 DEF EndDisable, Configure
    <2>2. active \in [Source -> BOOLEAN]
      BY <1>2 DEF AdaptersTyped
    <2>. QED
      BY <1>1, <1>2, <2>1, <2>2, FlyingSync, CountedMore
  <1>8. ASSUME NEW s \in Source, NEW i \in DOMAIN polls[s], ReadOn(s, i) PROVE FlightsCounted'
    <2>1. /\ \A t \in Source : DOMAIN polls'[t] = DOMAIN polls[t]
          /\ \A t \in Source : \A j \in DOMAIN polls[t] : polls'[t][j].owns = polls[t][j].owns
          /\ active' = active /\ toggles' = toggles
      BY <1>1, <1>8, LimitedReadOn DEF ReadOn
    <2>2. \A t \in Source : InFlight(t)' <=> InFlight(t)
      BY <2>1 DEF InFlight, Polling
    <2>. QED
      BY <1>1, <1>2, <2>1, <2>2, FlyingSame, CountedMore DEF Served
  <1>9. ASSUME polls' = polls, active' = active, toggles' = toggles PROVE FlightsCounted'
    <2>1. \A t \in Source : InFlight(t)' <=> InFlight(t)
      BY <1>9 DEF InFlight, Polling
    <2>. QED
      BY <1>1, <1>2, <1>9, <2>1, FlyingSame, CountedMore DEF Served
  <1>10. ASSUME NEW s \in Source, Produce(s) \/ Initialise(s) \/ FailEnable(s) PROVE FlightsCounted'
    BY <1>9, <1>10 DEF Produce, Initialise, FailEnable
  <1>11. ASSUME Restart \/ FetchBatch \/ SettleBatch \/ FailCycle \/ Housekeeping \/ UNCHANGED pollVars
         PROVE  FlightsCounted'
    BY <1>9, <1>11, ConsumersElsewhere DEF adapterVars
  <1>12. ASSUME Crash \/ \E s \in Source : \E i \in DOMAIN polls[s] : CrashInPush(s, i)
         PROVE  FlightsCounted'
    <2>1. toggles' = toggles
      BY <1>12 DEF Crash, CrashInPush, ForgetAdapters
    <2>2. Flying' = {}
      <3>1. \A t \in Source : polls'[t] = <<>>
        BY <1>1, <1>12, CrashForgets
      <3>2. DOMAIN <<>> = {}
        BY EmptySeq
      <3>. QED
        BY <3>1, <3>2 DEF Flying
    <2>3. IsFiniteSet(Flying') /\ Cardinality(Flying') = 0
      BY <2>2, FS_EmptySet
    <2>. QED
      BY <1>1, <1>2, <2>1, <2>3 DEF FlightsCounted
  <1>. QED
    BY <1>1, <1>3, <1>4, <1>5, <1>6, <1>7, <1>8, <1>10, <1>11, <1>12 DEF PollNext

-----------------------------------------------------------------------------
(* Room for what waits.                                                    *)

(* The polls in flight fit into what is left above the threshold. *)
FewPolls == Threshold + Cardinality(Flying) * MaxBatch <= Capacity + 1

OnlyOurs == \A r \in DOMAIN rows : rows[r].key = masterKey /\ rows[r].status # HELD

RoomKept ==
  /\ droppedUnsynced = 0
  /\ OnlyOurs
  /\ unsyncedCount + Cardinality(Flying) * MaxBatch <= Capacity

LEMMA WaitingFinite ==
  ASSUME BufferTypeOK
  PROVE  IsFiniteSet(UnsyncedRows) /\ unsyncedCount \in Nat
  <1>1. IsFiniteSet(DOMAIN rows)
    BY TableFinite, TypeParts DEF BufferTypeOK
  <1>2. UnsyncedRows \in SUBSET DOMAIN rows
    BY DEF UnsyncedRows, WithStatus
  <1>. QED
    BY <1>1, <1>2, FS_Subset, FS_CardinalityType DEF unsyncedCount

LEMMA FewerWait ==
  ASSUME BufferTypeOK, UnsyncedRows' \subseteq UnsyncedRows
  PROVE  unsyncedCount' <= unsyncedCount
  <1>1. UnsyncedRows' \in SUBSET UnsyncedRows
    OBVIOUS
  <1>. QED
    BY <1>1, WaitingFinite, FS_Subset DEF unsyncedCount

(* A table whose waiting rows fit drops none of them.                      *)
LEMMA NoneToDrop ==
  ASSUME NEW rs, NEW n \in Nat, TableOK(rs, n),
         Cardinality(WithStatus(rs, UNSYNCED)) <= Capacity
  PROVE  UnsyncedToDrop(rs) = 0
  <1> DEFINE s == Cardinality(WithStatus(rs, SYNCED))
             h == Cardinality(WithStatus(rs, HELD))
             u == Cardinality(WithStatus(rs, UNSYNCED))
             c == Cardinality(DOMAIN rs)
  <1>1. s \in Nat /\ h \in Nat /\ u \in Nat
    BY ByStatus
  <1>2. c = s + h + u
    <2>1. \A st : DOMAIN rs \cap WithStatus(rs, st) = WithStatus(rs, st)
      BY DEF WithStatus
    <2>2. DOMAIN rs \in SUBSET DOMAIN rs
      OBVIOUS
    <2>3. c =   Cardinality(DOMAIN rs \cap WithStatus(rs, SYNCED))
              + Cardinality(DOMAIN rs \cap WithStatus(rs, HELD))
              + Cardinality(DOMAIN rs \cap WithStatus(rs, UNSYNCED))
      BY <2>2, ByStatus
    <2>. QED
      BY <2>1, <2>3
  <1>3. Excess(rs) = Monus(c, Capacity) /\ UnsyncedToDrop(rs) = Monus(Excess(rs), s + h)
    BY DEF Excess, UnsyncedToDrop
  <1>4. u <= Capacity
    OBVIOUS
  <1> HIDE DEF s, h, u, c
  <1>. QED
    BY <1>1, <1>2, <1>3, <1>4, CapacityAssumption DEF Monus, MaxOf

LEMMA FreshCount ==
  ASSUME NEW n \in Nat, nextRowid \in Nat
  PROVE  IsFiniteSet(FreshRowids(n)) /\ Cardinality(FreshRowids(n)) = n
  <1> DEFINE last == nextRowid + n - 1
  <1>1. nextRowid \in Int /\ last \in Int /\ FreshRowids(n) = nextRowid .. last
    BY DEF FreshRowids
  <1>2. nextRowid > last => n = 0
    OBVIOUS
  <1>3. last - nextRowid + 1 = n
    OBVIOUS
  <1> HIDE DEF last
  <1>4. /\ IsFiniteSet(nextRowid .. last)
        /\ Cardinality(nextRowid .. last) = IF nextRowid > last THEN 0 ELSE last - nextRowid + 1
    BY <1>1, FS_Interval
  <1>. QED
    BY <1>1, <1>2, <1>3, <1>4

(* What a push inserts is new, waits, and is of the key in use.            *)
LEMMA InsertedFits ==
  ASSUME BufferTypeOK, OnlyOurs, NEW batch \in Batches, NEW F \in Insertions(batch),
         NEW f \in Numberings(F)
  PROVE  /\ TableOK(Inserted(f), nextRowid + Cardinality(F))
         /\ nextRowid + Cardinality(F) \in Nat
         /\ Cardinality(WithStatus(Inserted(f), UNSYNCED)) \in Nat
         /\ Cardinality(WithStatus(Inserted(f), UNSYNCED)) <= unsyncedCount + MaxBatch
         /\ \A r \in DOMAIN Inserted(f) : /\ Inserted(f)[r].key = masterKey
                                          /\ Inserted(f)[r].status # HELD
  <1>1. /\ Cardinality(F) \in Nat
        /\ TableOK(Inserted(f), nextRowid + Cardinality(F))
        /\ DOMAIN Inserted(f) = DOMAIN rows \cup FreshRowids(Cardinality(F))
        /\ \A r \in DOMAIN rows : Inserted(f)[r] = rows[r]
        /\ \A r \in FreshRowids(Cardinality(F)) :
             /\ r \notin DOMAIN rows
             /\ Inserted(f)[r] = NewRow(f[r])
             /\ f[r] \in F
    BY InsertedTable
  <1> DEFINE N == FreshRowids(Cardinality(F))
             W == WithStatus(Inserted(f), UNSYNCED)
  <1>2. \A r \in N : Inserted(f)[r].key = masterKey /\ Inserted(f)[r].status = UNSYNCED
    BY <1>1 DEF NewRow
  <1>3. W \subseteq UnsyncedRows \cup N
    BY <1>1 DEF WithStatus, UnsyncedRows
  <1>4. Cardinality(F) <= MaxBatch
    <2>1. F \in SUBSET batch /\ batch \in SUBSET Event /\ Cardinality(batch) \in 1 .. MaxBatch
      BY DEF Insertions, Batches
    <2>2. IsFiniteSet(batch)
      BY <2>1, EventFinite, FS_Subset
    <2>3. Cardinality(F) <= Cardinality(batch)
      BY <2>1, <2>2, FS_Subset
    <2>. QED
      BY <1>1, <2>1, <2>3, BoundsAssumption
  <1>5. IsFiniteSet(N) /\ Cardinality(N) = Cardinality(F)
    <2>1. nextRowid \in Nat
      BY DEF BufferTypeOK
    <2>. QED
      BY <1>1, <2>1, FreshCount
  <1>6. /\ IsFiniteSet(UnsyncedRows) /\ unsyncedCount \in Nat
        /\ unsyncedCount = Cardinality(UnsyncedRows)
    BY WaitingFinite DEF unsyncedCount
  <1>7. UnsyncedRows \cap N = {}
    BY <1>1 DEF UnsyncedRows, WithStatus
  <1>12. \A r \in DOMAIN Inserted(f) : Inserted(f)[r].key = masterKey /\ Inserted(f)[r].status # HELD
    BY <1>1, <1>2 DEF OnlyOurs, UNSYNCED, HELD
  <1> HIDE DEF N, W
  <1>8. /\ IsFiniteSet(UnsyncedRows \cup N)
        /\ Cardinality(UnsyncedRows \cup N) = unsyncedCount + Cardinality(F)
    <2>1. /\ IsFiniteSet(UnsyncedRows \cup N)
          /\ Cardinality(UnsyncedRows \cup N) =
               Cardinality(UnsyncedRows) + Cardinality(N) - Cardinality(UnsyncedRows \cap N)
      BY <1>5, <1>6, FS_Union
    <2>2. Cardinality(UnsyncedRows \cap N) = 0
      BY <1>7, FS_EmptySet
    <2>. QED
      BY <1>1, <1>5, <1>6, <2>1, <2>2
  <1>9. Cardinality(W) <= unsyncedCount + Cardinality(F) /\ Cardinality(W) \in Nat
    <2>1. W \in SUBSET (UnsyncedRows \cup N)
      BY <1>3
    <2>. QED
      BY <1>8, <2>1, FS_Subset, FS_CardinalityType
  <1>10. nextRowid + Cardinality(F) \in Nat /\ MaxBatch \in Nat
    BY <1>1, BoundsAssumption DEF BufferTypeOK
  <1>11. Cardinality(W) <= unsyncedCount + MaxBatch
    BY <1>1, <1>4, <1>6, <1>9, <1>10
  <1>. QED
    BY <1>1, <1>9, <1>10, <1>11, <1>12 DEF W

LEMMA PushLeavesRoom ==
  ASSUME BufferTypeOK, OnlyOurs, NEW batch \in Batches, PushBatch(batch),
         unsyncedCount + MaxBatch <= Capacity
  PROVE  /\ droppedUnsynced' = droppedUnsynced
         /\ OnlyOurs'
         /\ unsyncedCount' \in Nat /\ unsyncedCount' <= unsyncedCount + MaxBatch
  <1> DEFINE Pushed(f) == /\ DOMAIN rows' \subseteq DOMAIN Inserted(f)
                          /\ \A r \in DOMAIN rows' : rows'[r] = Inserted(f)[r]
                          /\ droppedUnsynced' = droppedUnsynced + UnsyncedToDrop(Inserted(f))
  <1>0. PICK F \in Insertions(batch) : \E f \in Numberings(F) : Pushed(f)
    BY PushBatchStep
  <1>1. PICK f \in Numberings(F) : Pushed(f)
    BY <1>0
  <1>2. masterKey' = masterKey /\ MaxBatch \in Nat /\ unsyncedCount \in Nat /\ droppedUnsynced \in Nat
    BY WaitingFinite, BoundsAssumption DEF PushBatch, BufferTypeOK
  <1> DEFINE W == WithStatus(Inserted(f), UNSYNCED)
  <1>3. /\ TableOK(Inserted(f), nextRowid + Cardinality(F))
        /\ nextRowid + Cardinality(F) \in Nat
        /\ Cardinality(W) \in Nat /\ Cardinality(W) <= unsyncedCount + MaxBatch
        /\ \A r \in DOMAIN Inserted(f) : /\ Inserted(f)[r].key = masterKey
                                         /\ Inserted(f)[r].status # HELD
    BY InsertedFits
  <1>4. Cardinality(W) <= Capacity
    BY <1>2, <1>3, CapacityAssumption
  <1>5. UnsyncedToDrop(Inserted(f)) = 0
    BY <1>3, <1>4, NoneToDrop
  <1>6. OnlyOurs'
    BY <1>1, <1>2, <1>3 DEF OnlyOurs
  <1>7. UnsyncedRows' \in SUBSET W
    BY <1>1 DEF UnsyncedRows, WithStatus
  <1>8. IsFiniteSet(W)
    BY <1>3, ByStatus
  <1>9. unsyncedCount' \in Nat /\ unsyncedCount' <= Cardinality(W)
    BY <1>7, <1>8, FS_Subset, FS_CardinalityType DEF unsyncedCount
  <1>. QED
    BY <1>1, <1>2, <1>3, <1>5, <1>6, <1>9

LEMMA TornLeavesRoom ==
  ASSUME BufferTypeOK, OnlyOurs, NEW batch \in Batches, PushTorn(batch)
  PROVE  /\ droppedUnsynced' = droppedUnsynced
         /\ OnlyOurs'
         /\ unsyncedCount' \in Nat /\ unsyncedCount' <= unsyncedCount + MaxBatch
  <1>0. PICK F \in Insertions(batch) : \E f \in Numberings(F) : rows' = Inserted(f)
    BY DEF PushTorn
  <1>1. PICK f \in Numberings(F) : rows' = Inserted(f)
    BY <1>0
  <1>2. masterKey' = masterKey /\ droppedUnsynced' = droppedUnsynced
    BY DEF PushTorn, counters
  <1>3. unsyncedCount' = Cardinality(WithStatus(Inserted(f), UNSYNCED))
    BY <1>1 DEF unsyncedCount, UnsyncedRows
  <1>4. /\ Cardinality(WithStatus(Inserted(f), UNSYNCED)) \in Nat
        /\ Cardinality(WithStatus(Inserted(f), UNSYNCED)) <= unsyncedCount + MaxBatch
        /\ \A r \in DOMAIN Inserted(f) : /\ Inserted(f)[r].key = masterKey
                                         /\ Inserted(f)[r].status # HELD
    BY InsertedFits
  <1>5. OnlyOurs'
    BY <1>1, <1>2, <1>4 DEF OnlyOurs
  <1>. QED
    BY <1>2, <1>3, <1>4, <1>5

(* Nothing a consumer does, nor a restart, adds a row that waits.          *)
LEMMA ConsumersLeaveRoom ==
  ASSUME BufferTypeOK, OnlyOurs, droppedUnsynced = 0,
         Restart \/ FetchBatch \/ SettleBatch \/ FailCycle \/ Housekeeping \/ Close
           \/ UNCHANGED bufferVars
  PROVE  /\ droppedUnsynced' = 0
         /\ OnlyOurs'
         /\ UnsyncedRows' \subseteq UnsyncedRows
  <1>1. ASSUME UNCHANGED <<rows, masterKey>>
        PROVE  OnlyOurs' /\ UnsyncedRows' \subseteq UnsyncedRows
    BY <1>1 DEF OnlyOurs, UnsyncedRows
  <1>2. CASE Restart
    <2>1. Open(masterKey)
      BY <1>2 DEF Restart
    <2>2. WithStatus(rows, HELD) = {}
      BY DEF OnlyOurs, WithStatus
    <2>3. rows' = rows
      BY <2>1, <2>2 DEF Open, Released
    <2>. QED
      BY <1>1, <2>1, <2>3 DEF Open
  <1>3. CASE FetchBatch
    <2>1. PICK B : Fetch(Daemon, B)
      BY <1>3 DEF FetchBatch
    <2>2. rows' = Held(B) /\ masterKey' = masterKey /\ droppedUnsynced' = droppedUnsynced
      BY <2>1 DEF Fetch, counters
    <2>3. DOMAIN rows' = DOMAIN rows /\ \A r \in DOMAIN rows : rows'[r] = rows[r]
      BY <2>2 DEF Held, Decrypts, OnlyOurs
    <2>. QED
      BY <2>2, <2>3 DEF OnlyOurs, UnsyncedRows, WithStatus
  <1>4. CASE SettleBatch
    <2>1. PICK done, failed : Settle(Daemon, done, failed)
      BY <1>4 DEF SettleBatch
    <2> DEFINE ms == MarkedSynced(rows, done)
               Kin(rs, ts) == /\ DOMAIN ts = DOMAIN rs
                              /\ \A r \in DOMAIN rs : /\ ts[r].key = rs[r].key
                                                      /\ ts[r].status \in {rs[r].status, SYNCED}
    <2>2. /\ rows' = AttemptsRecorded(ms, failed)
          /\ masterKey' = masterKey /\ droppedUnsynced' = droppedUnsynced
      BY <2>1 DEF Settle
    <2>3. ASSUME NEW rs, rs \in [DOMAIN rs -> Row], NEW S
          PROVE  /\ MarkedSynced(rs, S) \in [DOMAIN rs -> Row] /\ Kin(rs, MarkedSynced(rs, S))
      <3>1. clock \in Nat
        BY DEF BufferTypeOK
      <3>. QED
        BY <2>3, <3>1 DEF MarkedSynced, Row, HELD, SYNCED, UNSYNCED
    <2>4. ASSUME NEW rs, rs \in [DOMAIN rs -> Row], NEW S PROVE Kin(rs, AttemptsRecorded(rs, S))
      <3> DEFINE bumped == [r \in DOMAIN rs |->
                              IF r \in S THEN [rs[r] EXCEPT !.attempts = @ + 1] ELSE rs[r]]
      <3>1. bumped \in [DOMAIN bumped -> Row] /\ Kin(rs, bumped)
        BY <2>4 DEF Row
      <3>2. AttemptsRecorded(rs, S) = MarkedSynced(bumped, ExhaustedBy(rs, S))
        BY DEF AttemptsRecorded
      <3> HIDE DEF bumped
      <3>3. Kin(bumped, MarkedSynced(bumped, ExhaustedBy(rs, S)))
        BY <2>3, <3>1
      <3>. QED
        BY <3>1, <3>2, <3>3
    <2>5. rows \in [DOMAIN rows -> Row]
      BY DEF BufferTypeOK
    <2>6. ms \in [DOMAIN rows -> Row] /\ Kin(rows, ms)
      BY <2>3, <2>5
    <2> HIDE DEF ms
    <2>7. Kin(ms, rows')
      BY <2>2, <2>4, <2>6
    <2>8. Kin(rows, rows')
      BY <2>6, <2>7
    <2>9. SYNCED # HELD /\ SYNCED # UNSYNCED
      BY DEF SYNCED, HELD, UNSYNCED
    <2>. QED
      BY <2>2, <2>8, <2>9 DEF OnlyOurs, UnsyncedRows, WithStatus
  <1>5. CASE FailCycle \/ Close \/ UNCHANGED bufferVars
    BY <1>1, <1>5 DEF FailCycle, EndCycle, Close, bufferVars, counters
  <1>6. CASE Housekeeping
    <2>1. CASE Tick
      BY <1>1, <2>1 DEF Tick, counters
    <2>2. CASE cleanup
      BY <2>2, cleanupQuiet DEF cleanup, counters, OnlyOurs, UnsyncedRows, WithStatus
    <2>. QED
      BY <1>6, <2>1, <2>2 DEF Housekeeping
  <1>. QED
    BY <1>2, <1>3, <1>4, <1>5, <1>6

LEMMA RoomStart == PollInit => RoomKept
  <1>1. SUFFICES ASSUME PollInit PROVE RoomKept
    OBVIOUS
  <1>2. DOMAIN rows = {} /\ droppedUnsynced = 0
    BY <1>1 DEF PollInit, BufferInit
  <1>3. unsyncedCount = 0
    <2>1. UnsyncedRows = {}
      BY <1>2 DEF UnsyncedRows, WithStatus
    <2>. QED
      BY <2>1, FS_EmptySet DEF unsyncedCount
  <1>4. Cardinality(Flying) = 0
    <2>1. polls = [s \in Source |-> <<>>] /\ DOMAIN <<>> = {}
      BY <1>1, EmptySeq DEF PollInit
    <2>2. Flying = {}
      BY <2>1 DEF Flying
    <2>. QED
      BY <2>2, FS_EmptySet
  <1>. QED
    BY <1>2, <1>3, <1>4, BoundsAssumption, CapacityAssumption DEF RoomKept, OnlyOurs

LEMMA OneFlight ==
  ASSUME NEW n \in Nat PROVE n * MaxBatch \in Nat /\ (n + 1) * MaxBatch = n * MaxBatch + MaxBatch
  BY BoundsAssumption

LEMMA RoomSum ==
  ASSUME NEW c \in Nat, NEW u \in Nat, NEW v \in Nat, NEW t \in Nat, NEW l \in Nat, NEW m \in Nat,
         u + t <= c, v <= u + m, t >= l + m
  PROVE  v + l <= c
  OBVIOUS

LEMMA RoomSame ==
  ASSUME BufferTypeOK, RoomKept, FlightsCounted, droppedUnsynced' = 0, OnlyOurs',
         UnsyncedRows' \subseteq UnsyncedRows, Flying' = Flying
  PROVE  RoomKept'
  <1>1. unsyncedCount' <= unsyncedCount /\ unsyncedCount \in Nat /\ unsyncedCount' \in Nat
    <2>1. UnsyncedRows' \in SUBSET UnsyncedRows
      OBVIOUS
    <2>2. unsyncedCount' \in Nat
      BY <2>1, WaitingFinite, FS_Subset, FS_CardinalityType DEF unsyncedCount
    <2>. QED
      BY <2>2, FewerWait, WaitingFinite
  <1>2. Cardinality(Flying) * MaxBatch \in Nat
    BY OneFlight, FS_CardinalityType DEF FlightsCounted
  <1>. QED
    BY <1>1, <1>2, CapacityAssumption DEF RoomKept

LEMMA RoomStays ==
  /\ BufferTypeOK /\ PollsLimited /\ FlightsCounted /\ FlightsCounted' /\ RoomKept /\ FewPolls'
  /\ [PollNext]_pollVars
  => RoomKept'
  <1>1. SUFFICES ASSUME BufferTypeOK, PollsLimited, FlightsCounted, FlightsCounted', RoomKept,
                        FewPolls', [PollNext]_pollVars
                 PROVE  RoomKept'
    OBVIOUS
  <1> DEFINE taken == Cardinality(Flying) * MaxBatch
             left == Cardinality(Flying') * MaxBatch
  <1>2. /\ AdaptersTyped /\ OnlyOurs /\ droppedUnsynced = 0
        /\ unsyncedCount \in Nat /\ taken \in Nat /\ left \in Nat /\ MaxBatch \in Nat
        /\ unsyncedCount + taken <= Capacity /\ Capacity \in Nat
        /\ Cardinality(Flying) \in Nat /\ Cardinality(Flying') \in Nat
        /\ IsFiniteSet(Flying) /\ IsFiniteSet(Flying')
    <2>1. Cardinality(Flying) \in Nat /\ Cardinality(Flying') \in Nat
      BY <1>1, FS_CardinalityType DEF FlightsCounted
    <2>. QED
      BY <1>1, <2>1, OneFlight, WaitingFinite, BoundsAssumption, CapacityAssumption
         DEF RoomKept, PollsLimited, FlightsCounted
  <1>3. ASSUME NEW s \in Source, BeginPoll(s) PROVE RoomKept'
    <2>1. unsyncedCount < Threshold /\ UNCHANGED bufferVars
      <3>1. Threshold \in Nat
        BY ThresholdAssumption, <1>2
      <3>. QED
        BY <1>2, <1>3, <3>1 DEF BeginPoll, Backpressured
    <2>2. OnlyOurs' /\ droppedUnsynced' = 0 /\ unsyncedCount' = unsyncedCount
      BY <1>2, <2>1 DEF bufferVars, counters, OnlyOurs, unsyncedCount, UnsyncedRows
    <2>3. Threshold + left <= Capacity + 1 /\ Threshold \in Nat
      BY <1>1, <1>2, ThresholdAssumption DEF FewPolls
    <2> HIDE DEF left, taken
    <2>4. unsyncedCount' + left <= Capacity
      BY <1>2, <2>1, <2>2, <2>3
    <2>. QED
      BY <2>2, <2>4 DEF RoomKept, left
  <1>4. ASSUME OneMore(Flying', Flying) PROVE taken = left + MaxBatch
    <2>1. Cardinality(Flying) = Cardinality(Flying') + 1
      BY <1>2, <1>4, CardinalityOneLess
    <2>. QED
      BY <1>2, <2>1, OneFlight
  <1>5. ASSUME NEW s \in Source, NEW i \in DOMAIN polls[s], ReturnPoll(s, i) \/ FailPoll(s, i)
        PROVE  taken = left + MaxBatch
    <2>1. polls' = [polls EXCEPT ![s] = RemoveAt(polls[s], i)] /\ active' = active
      BY <1>5 DEF ReturnPoll, FailPoll
    <2>. QED
      BY <1>2, <1>4, <2>1, FlyingEnd
  <1> HIDE DEF taken, left
  <1>6. ASSUME UNCHANGED bufferVars, taken = left + MaxBatch PROVE RoomKept'
    <2>1. OnlyOurs' /\ droppedUnsynced' = 0 /\ unsyncedCount' = unsyncedCount
      BY <1>2, <1>6 DEF bufferVars, counters, OnlyOurs, unsyncedCount, UnsyncedRows
    <2>2. unsyncedCount' + left <= Capacity
      BY <1>2, <1>6, <2>1
    <2>. QED
      BY <2>1, <2>2 DEF RoomKept, left
  <1>7. ASSUME NEW batch \in Batches, PushBatch(batch), taken = left + MaxBatch PROVE RoomKept'
    <2>1. unsyncedCount + MaxBatch <= Capacity
      BY <1>2, <1>7
    <2>2. /\ droppedUnsynced' = droppedUnsynced /\ OnlyOurs'
          /\ unsyncedCount' \in Nat /\ unsyncedCount' <= unsyncedCount + MaxBatch
      BY <1>1, <1>2, <1>7, <2>1, PushLeavesRoom
    <2>3. unsyncedCount' + left <= Capacity
      <3>1. taken >= left + MaxBatch
        BY <1>2, <1>7
      <3>. QED
        BY <1>2, <2>2, <3>1, RoomSum
    <2>. QED
      BY <1>2, <2>2, <2>3 DEF RoomKept, left
  <1>8. ASSUME NEW s \in Source, NEW i \in DOMAIN polls[s], ReturnPoll(s, i) \/ FailPoll(s, i)
        PROVE  RoomKept'
    <2>1. UNCHANGED bufferVars \/ \E batch \in Batches : PushBatch(batch)
      BY <1>1, <1>8, ReadIsABatch DEF ReturnPoll, FailPoll
    <2>. QED
      BY <1>5, <1>6, <1>7, <1>8, <2>1
  <1>9. ASSUME NEW s \in Source, NEW i \in DOMAIN polls[s], CrashInPush(s, i) PROVE RoomKept'
    <2>1. PICK batch \in Batches : PushTorn(batch)
      BY <1>1, <1>9, ReadIsABatch DEF CrashInPush
    <2>2. /\ droppedUnsynced' = droppedUnsynced /\ OnlyOurs'
          /\ unsyncedCount' \in Nat /\ unsyncedCount' <= unsyncedCount + MaxBatch
      BY <1>1, <1>2, <2>1, TornLeavesRoom
    <2>3. Cardinality(Flying') = 0
      <3>1. \A t \in Source : polls'[t] = <<>>
        BY <1>1, <1>9, CrashForgets
      <3>2. DOMAIN <<>> = {}
        BY EmptySeq
      <3>3. Flying' = {}
        BY <3>1, <3>2 DEF Flying
      <3>. QED
        BY <3>3, FS_EmptySet
    <2>4. taken >= MaxBatch
      <3>1. <<s, i>> \in Flying
        <4>1. i \in Nat
          BY <1>2, InFlightTyped
        <4>. QED
          BY <4>1 DEF Flying
      <3>2. Cardinality(Flying) # 0
        BY <1>2, <3>1, FS_EmptySet
      <3>3. /\ Cardinality(Flying) - 1 \in Nat
            /\ Cardinality(Flying) = (Cardinality(Flying) - 1) + 1
        BY <1>2, <3>2
      <3>4. /\ (Cardinality(Flying) - 1) * MaxBatch \in Nat
            /\ ((Cardinality(Flying) - 1) + 1) * MaxBatch =
                 (Cardinality(Flying) - 1) * MaxBatch + MaxBatch
        BY <3>3, OneFlight
      <3>5. taken = (Cardinality(Flying) - 1) * MaxBatch + MaxBatch
        BY <3>3, <3>4 DEF taken
      <3>. QED
        BY <1>2, <3>4, <3>5
    <2>5. left = 0
      BY <1>2, <2>3 DEF left
    <2>6. unsyncedCount' + left <= Capacity
      <3>1. taken >= left + MaxBatch
        BY <1>2, <2>4, <2>5
      <3>. QED
        BY <1>2, <2>2, <3>1, RoomSum
    <2>. QED
      BY <1>2, <2>2, <2>6 DEF RoomKept, left
  <1>10. CASE Crash
    <2>1. Close /\ \A t \in Source : polls'[t] = <<>>
      BY <1>1, <1>10, CrashForgets DEF Crash
    <2>2. DOMAIN <<>> = {}
      BY EmptySeq
    <2>3. Flying' = {}
      BY <2>1, <2>2 DEF Flying
    <2>4. left = 0
      BY <1>2, <2>3, FS_EmptySet DEF left
    <2>5. OnlyOurs' /\ droppedUnsynced' = 0 /\ unsyncedCount' = unsyncedCount
      BY <1>2, <2>1 DEF Close, counters, OnlyOurs, unsyncedCount, UnsyncedRows
    <2>6. unsyncedCount' + left <= Capacity
      BY <1>2, <2>4, <2>5
    <2>. QED
      BY <2>5, <2>6 DEF RoomKept, left
  <1>11. ASSUME UNCHANGED bufferVars, Flying' = Flying PROVE RoomKept'
    <2>1. /\ droppedUnsynced' = 0 /\ OnlyOurs' /\ UnsyncedRows' \subseteq UnsyncedRows
      BY <1>2, <1>11 DEF bufferVars, counters, OnlyOurs, UnsyncedRows
    <2>. QED
      BY <1>1, <1>11, <2>1, RoomSame
  <1>12. ASSUME Restart \/ FetchBatch \/ SettleBatch \/ FailCycle \/ Housekeeping
         PROVE  RoomKept'
    <2>1. polls' = polls
      BY <1>12, ConsumersElsewhere DEF adapterVars
    <2>2. Flying' = Flying
      BY <2>1, FlyingSame
    <2>3. droppedUnsynced' = 0 /\ OnlyOurs' /\ UnsyncedRows' \subseteq UnsyncedRows
      BY <1>1, <1>2, <1>12, ConsumersLeaveRoom
    <2>. QED
      BY <1>1, <2>2, <2>3, RoomSame
  <1>13. ASSUME NEW s \in Source,
                \/ Produce(s) \/ BeginEnable(s) \/ Initialise(s) \/ FailEnable(s) \/ BeginDisable(s)
         PROVE  RoomKept'
    <2>1. UNCHANGED bufferVars /\ polls' = polls
      BY <1>13 DEF Produce, BeginEnable, Initialise, FailEnable, BeginDisable
    <2>. QED
      BY <1>11, <2>1, FlyingSame
  <1>14. ASSUME Configure \/ \E s \in Source : EndEnable(s) \/ EndDisable(s) PROVE RoomKept'
    <2>1. UNCHANGED bufferVars
      BY <1>14 DEF Configure, EndEnable, EndDisable
    <2>2. \E now \in [Source -> BOOLEAN] : SyncTimers(now)
      <3>1. /\ active \in [Source -> BOOLEAN]
            /\ \A s \in Source : [active EXCEPT ![s] = TRUE] \in [Source -> BOOLEAN]
        BY <1>2 DEF AdaptersTyped
      <3>2. ASSUME NEW s \in Source, EndEnable(s) PROVE SyncTimers([active EXCEPT ![s] = TRUE])
        BY <3>2 DEF EndEnable, SyncTimers
      <3>. QED
        BY <1>14, <3>1, <3>2 DEF Configure, EndDisable
    <2>3. Flying' = Flying
      BY <1>2, <2>2, Synced, FlyingSame
    <2>. QED
      BY <1>11, <2>1, <2>3
  <1>15. ASSUME NEW s \in Source, NEW i \in DOMAIN polls[s], ReadOn(s, i) PROVE RoomKept'
    <2>1. UNCHANGED bufferVars
      BY <1>15 DEF ReadOn
    <2>. QED
      BY <1>1, <1>11, <1>15, <2>1, LimitedReadOn, FlyingSame
  <1>16. CASE UNCHANGED pollVars
    <2>1. UNCHANGED bufferVars /\ polls' = polls
      BY <1>16 DEF pollVars, adapterVars
    <2>. QED
      BY <1>11, <2>1, FlyingSame
  <1>. QED
    BY <1>1, <1>3, <1>8, <1>9, <1>10, <1>12, <1>13, <1>14, <1>15, <1>16 DEF PollNext

(* As long as the polls in flight fit into what the threshold leaves of    *)
(* the capacity, no event that waits is evicted, whatever fails, dies or   *)
(* is switched meanwhile (pollSourceInner's backpressure, enforceCapacity).*)
THEOREM WaitingStaysWhilePollsFit ==
  PollSpec /\ []FewPolls => []NothingWaitingEvicted
  <1>1. RoomKept => NothingWaitingEvicted
    BY DEF RoomKept, NothingWaitingEvicted
  <1>. QED
    BY <1>1, PollingIsABuffer, BufferTyped, LimitedStarts, LimitedStays, FlightsStart,
       FlightsStay, RoomStart, RoomStays, PTL DEF PollSpec

LEMMA FewPollsEver ==
  ASSUME Threshold + (Cardinality(Source) + MaxToggles) * MaxBatch <= Capacity + 1,
         FlightsCounted, toggles \in Nat
  PROVE  FewPolls
  <1> DEFINE f == Cardinality(Flying)
             n == Cardinality(Source) + MaxToggles
  <1>1. Cardinality(Served) \in Nat /\ Cardinality(Served) <= Cardinality(Source)
        /\ Cardinality(Source) \in Nat
    BY ServedNow, ServedFinite
  <1>2. f \in Nat /\ MaxToggles \in Nat /\ toggles <= MaxToggles /\ f <= Cardinality(Served) + toggles
    BY FS_CardinalityType, PollBounds DEF PollBounds, FlightsCounted
  <1>3. n \in Nat /\ f <= n
    <2>1. toggles <= MaxToggles /\ f <= Cardinality(Served) + toggles /\ toggles \in Nat
      BY <1>2, FlightsCounted DEF FlightsCounted
    <2> HIDE DEF f
    <2>. QED
      BY <1>1, <1>2, <2>1
  <1>4. PICK d \in Nat : n = f + d
    <2>1. n - f \in Nat /\ n = f + (n - f)
      BY <1>2, <1>3
    <2>. QED
      BY <2>1
  <1>5. n * MaxBatch = f * MaxBatch + d * MaxBatch
    BY <1>2, <1>3, <1>4, BoundsAssumption
  <1>6. f * MaxBatch \in Nat /\ d * MaxBatch \in Nat /\ n * MaxBatch \in Nat
    BY <1>2, <1>3, <1>4, OneFlight
  <1>7. Threshold + n * MaxBatch <= Capacity + 1 /\ Threshold \in Nat /\ Capacity \in Nat
    BY ThresholdAssumption, CapacityAssumption
  <1> HIDE DEF f, n
  <1>8. Threshold + f * MaxBatch <= Capacity + 1
    BY <1>5, <1>6, <1>7
  <1>. QED
    BY <1>8 DEF FewPolls, f

(* It is so, then, when the capacity leaves room for a poll of each source *)
(* and for those that outlive a timer.                                     *)
THEOREM WaitingStays ==
  ASSUME Threshold + (Cardinality(Source) + MaxToggles) * MaxBatch <= Capacity + 1
  PROVE  PollSpec => []NothingWaitingEvicted
  <1>1. PollsLimited /\ FlightsCounted => FewPolls
    BY FewPollsEver DEF PollsLimited, AdaptersTyped
  <1>2. PollSpec => [](PollsLimited /\ FlightsCounted)
    BY LimitedStarts, LimitedStays, FlightsStart, FlightsStay, PTL DEF PollSpec
  <1>. QED
    BY <1>1, <1>2, WaitingStaysWhilePollsFit, PTL
=============================================================================
