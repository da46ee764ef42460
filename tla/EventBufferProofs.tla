-------------------------- MODULE EventBufferProofs --------------------------
(***************************************************************************)
(* Proofs about the event buffer, for every value of its constants.        *)
(***************************************************************************)
EXTENDS EventBuffer, FiniteSetTheorems, TLAPS

(* rs is a table whose rowids are all below n. *)
TableOK(rs, n) ==
  /\ DOMAIN rs \subseteq 1 .. (n - 1)
  /\ rs \in [DOMAIN rs -> Row]

(* ts has the rowids of rs, and every row its identity. *)
SameIdentities(rs, ts) ==
  /\ DOMAIN ts = DOMAIN rs
  /\ \A r \in DOMAIN rs : SameEvent(ts[r], rs[r])

-----------------------------------------------------------------------------
(* What the operations do to a table *)

LEMMA HeldTable ==
  ASSUME NEW n \in Nat, TableOK(rows, n), NEW B
  PROVE  TableOK(Held(B), n) /\ SameIdentities(rows, Held(B))
  BY DEF TableOK, SameIdentities, SameEvent, Held, Row, HELD, UNSYNCED, SYNCED

LEMMA MarkedSyncedTable ==
  ASSUME NEW rs, NEW n \in Nat, TableOK(rs, n), NEW S, clock \in Nat
  PROVE  TableOK(MarkedSynced(rs, S), n) /\ SameIdentities(rs, MarkedSynced(rs, S))
  BY DEF TableOK, SameIdentities, SameEvent, MarkedSynced, Row, HELD, UNSYNCED, SYNCED

LEMMA AttemptsRecordedTable ==
  ASSUME NEW rs, NEW n \in Nat, TableOK(rs, n), NEW S, clock \in Nat
  PROVE  /\ TableOK(AttemptsRecorded(rs, S), n)
         /\ SameIdentities(rs, AttemptsRecorded(rs, S))
  <1> DEFINE bumped == [r \in DOMAIN rs |->
                         IF r \in S THEN [rs[r] EXCEPT !.attempts = @ + 1] ELSE rs[r]]
  <1>1. TableOK(bumped, n) /\ SameIdentities(rs, bumped)
    BY DEF TableOK, SameIdentities, SameEvent, Row
  <1>2. AttemptsRecorded(rs, S) = MarkedSynced(bumped, ExhaustedBy(rs, S))
    BY DEF AttemptsRecorded
  <1> HIDE DEF bumped
  <1>3. /\ TableOK(MarkedSynced(bumped, ExhaustedBy(rs, S)), n)
        /\ SameIdentities(bumped, MarkedSynced(bumped, ExhaustedBy(rs, S)))
    BY <1>1, MarkedSyncedTable
  <1>. QED
    BY <1>1, <1>2, <1>3 DEF SameIdentities, SameEvent

LEMMA UnsyncedTable ==
  ASSUME NEW n \in Nat, TableOK(rows, n), NEW S
  PROVE  TableOK(Unsynced(S), n) /\ SameIdentities(rows, Unsynced(S))
  BY DEF TableOK, SameIdentities, SameEvent, Unsynced, Row, HELD, UNSYNCED, SYNCED

LEMMA ReleasedTable ==
  ASSUME NEW n \in Nat, TableOK(rows, n), NEW k, NEW rs \in Released(k)
  PROVE  TableOK(rs, n) /\ SameIdentities(rows, rs)
  <1>1. rs = rows \/ \E S : rs = Unsynced(S)
    BY DEF Released
  <1>2. SameIdentities(rows, rows)
    BY DEF SameIdentities, SameEvent
  <1>. QED
    BY <1>1, <1>2, UnsyncedTable

-----------------------------------------------------------------------------
(* Tables and batches are finite *)

LEMMA TableFinite ==
  ASSUME NEW rs, NEW n \in Nat, TableOK(rs, n)
  PROVE  IsFiniteSet(DOMAIN rs)
  BY FS_Interval, FS_Subset, DOMAIN rs \in SUBSET (1 .. (n - 1)) DEF TableOK

LEMMA EventFinite == IsFiniteSet(Event)
  <1> DEFINE T == (Source \X EventId) \X Importance
             f == [t \in T |-> [source |-> t[1][1], id |-> t[1][2], importance |-> t[2]]]
  <1>1. IsFiniteSet(T)
    BY FS_Product, SourceAssumption, EventIdAssumption, ImportanceAssumption
  <1>2. f \in [T -> Event]
    BY DEF Event
  <1>3. ASSUME NEW e \in Event PROVE \E t \in T : f[t] = e
    <2>1. <<<<e.source, e.id>>, e.importance>> \in T
      BY DEF Event
    <2>2. f[<<<<e.source, e.id>>, e.importance>>] = e
      BY <2>1 DEF Event
    <2>. QED
      BY <2>1, <2>2
  <1>4. f \in Surjection(T, Event)
    BY <1>2, <1>3 DEF Surjection
  <1>. QED
    BY <1>1, <1>4, FS_Surjection

-----------------------------------------------------------------------------
(* A push: what is inserted *)

LEMMA InsertionFinite ==
  ASSUME NEW batch \in Batches, NEW F \in Insertions(batch)
  PROVE  F \subseteq Event /\ IsFiniteSet(F) /\ Cardinality(F) \in Nat
  <1>1. F \subseteq Event
    BY DEF Insertions, Batches
  <1>. QED
    BY <1>1, EventFinite, FS_Subset, FS_CardinalityType

LEMMA InsertedTable ==
  ASSUME BufferTypeOK, NEW batch \in Batches, NEW F \in Insertions(batch),
         NEW f \in Numberings(F)
  PROVE  /\ Cardinality(F) \in Nat
         /\ TableOK(Inserted(f), nextRowid + Cardinality(F))
         /\ DOMAIN f = FreshRowids(Cardinality(F))
         /\ DOMAIN Inserted(f) = DOMAIN rows \cup FreshRowids(Cardinality(F))
         /\ \A r \in DOMAIN rows : Inserted(f)[r] = rows[r]
         /\ \A r \in FreshRowids(Cardinality(F)) :
              /\ r \notin DOMAIN rows
              /\ Inserted(f)[r] = NewRow(f[r])
              /\ f[r] \in F
  <1>1. F \subseteq Event /\ Cardinality(F) \in Nat
    BY InsertionFinite
  <1>2. f \in [FreshRowids(Cardinality(F)) -> F]
    BY DEF Numberings, Bijection, Injection
  <1>3. \A r \in FreshRowids(Cardinality(F)) :
          r \notin DOMAIN rows /\ r \in 1 .. (nextRowid + Cardinality(F) - 1)
    BY <1>1 DEF FreshRowids, BufferTypeOK
  <1>4. \A r \in DOMAIN rows : r \in 1 .. (nextRowid + Cardinality(F) - 1)
    BY <1>1 DEF BufferTypeOK
  <1>5. \A e \in Event : NewRow(e) \in Row
    BY DEF NewRow, Row, Event, BufferTypeOK, UNSYNCED
  <1>6. \A r \in DOMAIN rows : rows[r] \in Row
    BY DEF BufferTypeOK
  <1>7. DOMAIN Inserted(f) = DOMAIN rows \cup FreshRowids(Cardinality(F))
    BY <1>2 DEF Inserted
  <1>8. \A r \in DOMAIN rows : Inserted(f)[r] = rows[r]
    BY DEF Inserted
  <1>9. \A r \in FreshRowids(Cardinality(F)) : Inserted(f)[r] = NewRow(f[r])
    BY <1>2, <1>3 DEF Inserted
  <1>10. \A r \in DOMAIN Inserted(f) : Inserted(f)[r] \in Row
    BY <1>1, <1>2, <1>5, <1>6, <1>7, <1>8, <1>9
  <1>11. Inserted(f) \in [DOMAIN Inserted(f) -> Row]
    BY <1>10 DEF Inserted
  <1>12. DOMAIN Inserted(f) \subseteq 1 .. (nextRowid + Cardinality(F) - 1)
    BY <1>3, <1>4, <1>7
  <1>13. TableOK(Inserted(f), nextRowid + Cardinality(F))
    <2>1. nextRowid + (Cardinality(F) - 1) = (nextRowid + Cardinality(F)) - 1
      BY <1>1 DEF BufferTypeOK
    <2>. QED
      BY <1>11, <1>12, <2>1 DEF TableOK
  <1>14. DOMAIN f = FreshRowids(Cardinality(F))
    BY <1>2
  <1>15. \A r \in FreshRowids(Cardinality(F)) : f[r] \in F
    BY <1>2
  <1>. QED
    BY <1>1, <1>3, <1>7, <1>8, <1>9, <1>13, <1>14, <1>15

(* rs has one row for an event. *)
UniqueTable(rs) == \A r, q \in DOMAIN rs : SameEvent(rs[r], rs[q]) => r = q

LEMMA InsertedUnique ==
  ASSUME BufferTypeOK, UniqueTable(rows), NEW batch \in Batches,
         NEW F \in Insertions(batch), NEW f \in Numberings(F)
  PROVE  UniqueTable(Inserted(f))
  <1> DEFINE N == FreshRowids(Cardinality(F))
  <1>1. /\ DOMAIN Inserted(f) = DOMAIN rows \cup N
        /\ \A r \in DOMAIN rows : Inserted(f)[r] = rows[r]
        /\ \A r \in N : Inserted(f)[r] = NewRow(f[r]) /\ f[r] \in F
    BY InsertedTable
  <1>2. \A r \in N : /\ Inserted(f)[r].source = f[r].source
                     /\ Inserted(f)[r].id = f[r].id
    BY <1>1 DEF NewRow
  <1>3. ASSUME NEW r \in N, NEW q \in DOMAIN rows
        PROVE  ~SameEvent(Inserted(f)[r], Inserted(f)[q])
    <2>1. ~IsBuffered(rows, f[r])
      BY <1>1 DEF Insertions
    <2>. QED
      BY <1>1, <1>2, <2>1 DEF IsBuffered, SameEvent
  <1>4. ASSUME NEW r \in N, NEW q \in N, SameEvent(Inserted(f)[r], Inserted(f)[q])
        PROVE  r = q
    <2>1. SameEvent(f[r], f[q])
      BY <1>2, <1>4 DEF SameEvent
    <2>2. f[r] \in F /\ f[q] \in F /\ F \subseteq {e \in batch : ~IsBuffered(rows, e)}
      BY <1>1 DEF Insertions
    <2>3. PICK g \in F : /\ SameEvent(f[r], g)
                         /\ \A h \in F : SameEvent(g, h) => g = h
      BY <2>2 DEF Insertions
    <2>4. g = f[r] /\ g = f[q]
      BY <2>1, <2>2, <2>3 DEF SameEvent
    <2>5. f \in Bijection(N, F)
      BY DEF Numberings
    <2>. QED
      BY <2>4, <2>5 DEF Bijection, Injection, IsInjective
  <1>5. \A r, q \in DOMAIN rows : SameEvent(Inserted(f)[r], Inserted(f)[q]) => r = q
    BY <1>1 DEF UniqueTable
  <1>. QED
    BY <1>1, <1>3, <1>4, <1>5 DEF UniqueTable, SameEvent

-----------------------------------------------------------------------------
(* A push: what is evicted *)

LEMMA MonusFacts ==
  ASSUME NEW m \in Nat, NEW n \in Nat
  PROVE  /\ Monus(m, n) \in Nat
         /\ m <= n => Monus(m, n) = 0
         /\ m >= n => Monus(m, n) = m - n
         /\ MinOf(m, n) \in Nat
         /\ MinOf(m, n) = m \/ MinOf(m, n) = n
         /\ m <= n => MinOf(m, n) = m
         /\ m >= n => MinOf(m, n) = n
  BY DEF Monus, MaxOf, MinOf

LEMMA ExcessFact ==
  ASSUME NEW rs, NEW n \in Nat, TableOK(rs, n)
  PROVE  /\ Excess(rs) \in Nat
         /\ Excess(rs) <= Cardinality(DOMAIN rs)
         /\ Cardinality(DOMAIN rs) - Excess(rs) <= Capacity
  <1>1. Cardinality(DOMAIN rs) \in Nat
    BY TableFinite, FS_CardinalityType
  <1>. QED
    BY <1>1, CapacityAssumption DEF Excess, Monus, MaxOf

(* The rows of V by status. *)
LEMMA ByStatus ==
  ASSUME NEW rs, NEW n \in Nat, TableOK(rs, n), NEW V \in SUBSET DOMAIN rs
  PROVE  /\ \A st : /\ IsFiniteSet(WithStatus(rs, st))
                    /\ IsFiniteSet(V \cap WithStatus(rs, st))
                    /\ Cardinality(WithStatus(rs, st)) \in Nat
                    /\ Cardinality(V \cap WithStatus(rs, st)) \in Nat
                    /\ Cardinality(V \cap WithStatus(rs, st)) <=
                         Cardinality(WithStatus(rs, st))
         /\ Cardinality(V) =   Cardinality(V \cap WithStatus(rs, SYNCED))
                             + Cardinality(V \cap WithStatus(rs, HELD))
                             + Cardinality(V \cap WithStatus(rs, UNSYNCED))
  <1> DEFINE S == V \cap WithStatus(rs, SYNCED)
             H == V \cap WithStatus(rs, HELD)
             U == V \cap WithStatus(rs, UNSYNCED)
  <1>1. IsFiniteSet(DOMAIN rs)
    BY TableFinite
  <1>2. ASSUME NEW st
        PROVE  /\ IsFiniteSet(WithStatus(rs, st))
               /\ IsFiniteSet(V \cap WithStatus(rs, st))
               /\ Cardinality(WithStatus(rs, st)) \in Nat
               /\ Cardinality(V \cap WithStatus(rs, st)) \in Nat
               /\ Cardinality(V \cap WithStatus(rs, st)) <= Cardinality(WithStatus(rs, st))
    <2>1. WithStatus(rs, st) \in SUBSET DOMAIN rs
      BY DEF WithStatus
    <2>2. IsFiniteSet(WithStatus(rs, st))
      BY <1>1, <2>1, FS_Subset
    <2>3. V \cap WithStatus(rs, st) \in SUBSET WithStatus(rs, st)
      OBVIOUS
    <2>. QED
      BY <2>2, <2>3, FS_Subset, FS_CardinalityType
  <1>3. V = (S \cup H) \cup U
    BY DEF TableOK, WithStatus, Row
  <1>4. S \cap H = {} /\ (S \cup H) \cap U = {}
    BY DEF WithStatus, SYNCED, HELD, UNSYNCED
  <1>5. Cardinality({}) = 0
    BY FS_EmptySet
  <1>6. IsFiniteSet(S \cup H) /\ Cardinality(S \cup H) = Cardinality(S) + Cardinality(H)
    <2>1. IsFiniteSet(S) /\ IsFiniteSet(H) /\ Cardinality(S) \in Nat /\ Cardinality(H) \in Nat
      BY <1>2
    <2>2. Cardinality(S \cup H) = Cardinality(S) + Cardinality(H) - Cardinality(S \cap H)
      BY <2>1, FS_Union
    <2>3. IsFiniteSet(S \cup H)
      BY <2>1, FS_Union
    <2>4. Cardinality(S \cap H) = 0
      BY <1>4, <1>5, Zenon
    <2>. HIDE DEF S, H
    <2>. QED
      BY <2>1, <2>2, <2>3, <2>4
  <1>7. Cardinality(V) = Cardinality(S) + Cardinality(H) + Cardinality(U)
    <2>1. IsFiniteSet(U) /\ Cardinality(U) \in Nat /\ Cardinality(S) \in Nat
          /\ Cardinality(H) \in Nat
      BY <1>2
    <2>2. Cardinality((S \cup H) \cup U) =
            Cardinality(S \cup H) + Cardinality(U) - Cardinality((S \cup H) \cap U)
      BY <1>6, <2>1, FS_Union
    <2>3. Cardinality((S \cup H) \cap U) = 0
      BY <1>4, <1>5, Zenon
    <2>4. Cardinality(V) = Cardinality((S \cup H) \cup U)
      BY <1>3, Zenon
    <2>. HIDE DEF S, H, U
    <2>. QED
      BY <1>6, <2>1, <2>2, <2>3, <2>4
  <1>. QED
    BY <1>2, <1>7

(* An evicted held row means that every synced row was evicted; an evicted *)
(* unsynced row, that every held row was too.                              *)
LEMMA EvictionOrder ==
  ASSUME NEW rs, NEW V \in Victims(rs)
  PROVE  /\ V \cap WithStatus(rs, HELD) # {} => WithStatus(rs, SYNCED) \subseteq V
         /\ V \cap WithStatus(rs, UNSYNCED) # {} =>
              /\ WithStatus(rs, SYNCED) \subseteq V
              /\ WithStatus(rs, HELD) \subseteq V
  <1>1. EvictionRank(SYNCED) = 0 /\ EvictionRank(HELD) = 1 /\ EvictionRank(UNSYNCED) = 2
    BY DEF EvictionRank, SYNCED, HELD, UNSYNCED
  <1>2. ASSUME NEW v \in V, NEW r \in DOMAIN rs \ V
        PROVE  ~(EvictionRank(rs[r].status) < EvictionRank(rs[v].status))
    BY DEF Victims, EvictedBefore
  <1>. QED
    BY <1>1, <1>2 DEF WithStatus, Victims

(* The counts enforceCapacity takes are those of the rows it deletes. *)
LEMMA EvictionCounts ==
  ASSUME NEW rs, NEW n \in Nat, TableOK(rs, n), NEW V \in Victims(rs)
  PROVE  /\ HeldToDrop(rs) = Cardinality(V \cap WithStatus(rs, HELD))
         /\ UnsyncedToDrop(rs) = Cardinality(V \cap WithStatus(rs, UNSYNCED))
         /\ HeldToDrop(rs) \in Nat
         /\ UnsyncedToDrop(rs) \in Nat
  <1> DEFINE s == Cardinality(WithStatus(rs, SYNCED))
             h == Cardinality(WithStatus(rs, HELD))
             u == Cardinality(WithStatus(rs, UNSYNCED))
             vs == Cardinality(V \cap WithStatus(rs, SYNCED))
             vh == Cardinality(V \cap WithStatus(rs, HELD))
             vu == Cardinality(V \cap WithStatus(rs, UNSYNCED))
             e == Excess(rs)
  <1>1. /\ s \in Nat /\ h \in Nat /\ vs \in Nat /\ vh \in Nat /\ vu \in Nat /\ e \in Nat
        /\ vs <= s /\ vh <= h
        /\ e = vs + vh + vu
    <2>1. V \in SUBSET DOMAIN rs /\ Cardinality(V) = Excess(rs)
      BY DEF Victims
    <2>. QED
      BY <2>1, ByStatus, ExcessFact
  <1>2. vh # 0 => vs = s
    <2>1. vh # 0 => V \cap WithStatus(rs, HELD) # {}
      BY FS_EmptySet
    <2>2. WithStatus(rs, SYNCED) \subseteq V =>
            V \cap WithStatus(rs, SYNCED) = WithStatus(rs, SYNCED)
      OBVIOUS
    <2>. QED
      BY <2>1, <2>2, EvictionOrder
  <1>3. vu # 0 => vs = s /\ vh = h
    <2>1. vu # 0 => V \cap WithStatus(rs, UNSYNCED) # {}
      BY FS_EmptySet
    <2>2. WithStatus(rs, SYNCED) \subseteq V =>
            V \cap WithStatus(rs, SYNCED) = WithStatus(rs, SYNCED)
      OBVIOUS
    <2>3. WithStatus(rs, HELD) \subseteq V =>
            V \cap WithStatus(rs, HELD) = WithStatus(rs, HELD)
      OBVIOUS
    <2>. QED
      BY <2>1, <2>2, <2>3, EvictionOrder
  <1>4. HeldToDrop(rs) = MinOf(h, Monus(e, s)) /\ UnsyncedToDrop(rs) = Monus(e, s + h)
    BY DEF HeldToDrop, UnsyncedToDrop
  <1> HIDE DEF s, h, vs, vh, vu, e
  <1>5. Monus(e, s + h) = vu
    BY <1>1, <1>3 DEF Monus, MaxOf
  <1>6. MinOf(h, Monus(e, s)) = vh
    BY <1>1, <1>2, <1>3 DEF Monus, MaxOf, MinOf
  <1>. QED
    BY <1>1, <1>4, <1>5, <1>6 DEF vh, vu

LEMMA RestrictTable ==
  ASSUME NEW rs, NEW n \in Nat, TableOK(rs, n), NEW S \in SUBSET DOMAIN rs
  PROVE  /\ TableOK(Restrict(rs, S), n)
         /\ DOMAIN Restrict(rs, S) = S
         /\ \A r \in S : Restrict(rs, S)[r] = rs[r]
  BY DEF TableOK, Restrict

(* A completed push, in terms of the table it built and the rows it dropped. *)
LEMMA PushBatchStep ==
  ASSUME BufferTypeOK, NEW batch \in Batches, PushBatch(batch)
  PROVE  \E F \in Insertions(batch) : \E f \in Numberings(F) :
           \E V \in Victims(Inserted(f)) :
             /\ nextRowid' = nextRowid + Cardinality(F)
             /\ V \subseteq DOMAIN Inserted(f)
             /\ DOMAIN rows' = DOMAIN Inserted(f) \ V
             /\ \A r \in DOMAIN rows' : rows'[r] = Inserted(f)[r]
             /\ TableOK(rows', nextRowid')
             /\ droppedHeld' = droppedHeld + HeldToDrop(Inserted(f))
             /\ droppedUnsynced' = droppedUnsynced + UnsyncedToDrop(Inserted(f))
             /\ droppedHeld' \in Nat
             /\ droppedUnsynced' \in Nat
             /\ deadLettered' = deadLettered
             /\ nextRowid' \in Nat
  <1>1. PICK F \in Insertions(batch) :
          /\ nextRowid' = nextRowid + Cardinality(F)
          /\ \E f \in Numberings(F) : EnforceCapacity(Inserted(f))
    BY DEF PushBatch
  <1>2. PICK f \in Numberings(F) : EnforceCapacity(Inserted(f))
    BY <1>1
  <1>3. PICK V \in Victims(Inserted(f)) :
          /\ rows' = Restrict(Inserted(f), DOMAIN Inserted(f) \ V)
          /\ droppedHeld' = droppedHeld + HeldToDrop(Inserted(f))
          /\ droppedUnsynced' = droppedUnsynced + UnsyncedToDrop(Inserted(f))
          /\ UNCHANGED deadLettered
    BY <1>2 DEF EnforceCapacity
  <1>4. Cardinality(F) \in Nat /\ TableOK(Inserted(f), nextRowid + Cardinality(F))
    BY InsertedTable
  <1>5. nextRowid' \in Nat
    BY <1>1, <1>4 DEF BufferTypeOK
  <1>6. TableOK(Inserted(f), nextRowid')
    BY <1>1, <1>4, Zenon
  <1>7. /\ TableOK(rows', nextRowid')
        /\ DOMAIN rows' = DOMAIN Inserted(f) \ V
        /\ \A r \in DOMAIN Inserted(f) \ V : rows'[r] = Inserted(f)[r]
    BY <1>3, <1>5, <1>6, RestrictTable
  <1>8. HeldToDrop(Inserted(f)) \in Nat /\ UnsyncedToDrop(Inserted(f)) \in Nat
    BY <1>5, <1>6, EvictionCounts
  <1>9. droppedHeld' \in Nat /\ droppedUnsynced' \in Nat
    BY <1>3, <1>8 DEF BufferTypeOK
  <1>10. V \subseteq DOMAIN Inserted(f)
    BY DEF Victims
  <1>. QED
    BY <1>1, <1>3, <1>5, <1>7, <1>9, <1>10

(* Every operation besides a push keeps the identities of the rows it      *)
(* leaves in the table, and inserts none.                                  *)
Quiet ==
  /\ nextRowid' = nextRowid
  /\ TableOK(rows', nextRowid)
  /\ DOMAIN rows' \subseteq DOMAIN rows
  /\ \A r \in DOMAIN rows' : SameEvent(rows'[r], rows[r])

LEMMA QuietFromTable ==
  ASSUME TableOK(rows', nextRowid), SameIdentities(rows, rows'), nextRowid' = nextRowid
  PROVE  Quiet
  BY DEF Quiet, SameIdentities

LEMMA UnchangedTable ==
  ASSUME BufferTypeOK, UNCHANGED <<rows, nextRowid>>
  PROVE  Quiet
  BY DEF Quiet, TableOK, SameEvent, BufferTypeOK

LEMMA FetchQuiet ==
  ASSUME BufferTypeOK, NEW c, NEW B, Fetch(c, B)
  PROVE  Quiet
  <1>1. TableOK(rows, nextRowid) /\ nextRowid \in Nat
    BY DEF BufferTypeOK, TableOK
  <1>2. rows' = Held(B) /\ nextRowid' = nextRowid
    BY DEF Fetch
  <1>. QED
    BY <1>1, <1>2, HeldTable, QuietFromTable

LEMMA SettleQuiet ==
  ASSUME BufferTypeOK, NEW c, NEW done, NEW failed, Settle(c, done, failed)
  PROVE  Quiet /\ DOMAIN rows' = DOMAIN rows
  <1> DEFINE ms == MarkedSynced(rows, done)
  <1>1. TableOK(rows, nextRowid) /\ nextRowid \in Nat /\ clock \in Nat
    BY DEF BufferTypeOK, TableOK
  <1>2. rows' = AttemptsRecorded(ms, failed) /\ nextRowid' = nextRowid
    BY DEF Settle
  <1>3. TableOK(ms, nextRowid) /\ SameIdentities(rows, ms)
    BY <1>1, MarkedSyncedTable
  <1> HIDE DEF ms
  <1>4. TableOK(rows', nextRowid) /\ SameIdentities(ms, rows')
    BY <1>1, <1>2, <1>3, AttemptsRecordedTable
  <1>5. SameIdentities(rows, rows')
    BY <1>3, <1>4 DEF SameIdentities, SameEvent
  <1>. QED
    BY <1>2, <1>4, <1>5, QuietFromTable DEF SameIdentities

LEMMA cleanupQuiet ==
  ASSUME BufferTypeOK, cleanup
  PROVE  /\ Quiet
         /\ DOMAIN rows' = {r \in DOMAIN rows : ~Expired(r)}
         /\ \A r \in DOMAIN rows' : rows'[r] = rows[r]
  <1>1. TableOK(rows, nextRowid) /\ nextRowid \in Nat
    BY DEF BufferTypeOK, TableOK
  <1>2. rows' = Restrict(rows, {r \in DOMAIN rows : ~Expired(r)}) /\ nextRowid' = nextRowid
    BY DEF cleanup
  <1>3. {r \in DOMAIN rows : ~Expired(r)} \in SUBSET DOMAIN rows
    OBVIOUS
  <1>4. /\ TableOK(rows', nextRowid)
        /\ DOMAIN rows' = {r \in DOMAIN rows : ~Expired(r)}
        /\ \A r \in DOMAIN rows' : rows'[r] = rows[r]
    BY <1>1, <1>2, <1>3, RestrictTable
  <1>. QED
    BY <1>2, <1>4 DEF Quiet, SameEvent

LEMMA OpenQuiet ==
  ASSUME BufferTypeOK, NEW k, Open(k)
  PROVE  Quiet /\ DOMAIN rows' = DOMAIN rows
  <1>1. TableOK(rows, nextRowid) /\ nextRowid \in Nat
    BY DEF BufferTypeOK, TableOK
  <1>2. rows' \in Released(k) /\ nextRowid' = nextRowid
    BY DEF Open
  <1>3. TableOK(rows', nextRowid) /\ SameIdentities(rows, rows')
    BY <1>1, <1>2, ReleasedTable
  <1>. QED
    BY <1>2, <1>3, QuietFromTable DEF SameIdentities

LEMMA PushTornStep ==
  ASSUME BufferTypeOK, NEW batch \in Batches, PushTorn(batch)
  PROVE  \E F \in Insertions(batch) : \E f \in Numberings(F) :
           /\ rows' = Inserted(f)
           /\ nextRowid' = nextRowid + Cardinality(F)
           /\ nextRowid' \in Nat
           /\ TableOK(rows', nextRowid')
  <1>1. PICK F \in Insertions(batch) :
          /\ nextRowid' = nextRowid + Cardinality(F)
          /\ \E f \in Numberings(F) : rows' = Inserted(f)
    BY DEF PushTorn
  <1>2. PICK f \in Numberings(F) : rows' = Inserted(f)
    BY <1>1
  <1>3. Cardinality(F) \in Nat /\ TableOK(Inserted(f), nextRowid + Cardinality(F))
    BY InsertedTable
  <1>4. TableOK(rows', nextRowid')
    BY <1>1, <1>2, <1>3, Zenon
  <1>. QED
    BY <1>1, <1>2, <1>3, <1>4 DEF BufferTypeOK

(* The rows after a push, torn or not, are among the table it built. *)
LEMMA PushedRows ==
  ASSUME BufferTypeOK, NEW batch \in Batches, PushBatch(batch) \/ PushTorn(batch)
  PROVE  \E F \in Insertions(batch) : \E f \in Numberings(F) :
           /\ nextRowid' = nextRowid + Cardinality(F)
           /\ DOMAIN rows' \subseteq DOMAIN Inserted(f)
           /\ \A r \in DOMAIN rows' : rows'[r] = Inserted(f)[r]
  <1>1. CASE PushBatch(batch)
    BY <1>1, PushBatchStep
  <1>2. CASE PushTorn(batch)
    BY <1>2, PushTornStep
  <1>. QED
    BY <1>1, <1>2

-----------------------------------------------------------------------------
(* Type correctness *)

(* What is left to check of the type invariant once the table is known. *)
RestOK ==
  /\ nextRowid \in Nat \ {0}
  /\ clock \in Nat
  /\ open \in BOOLEAN
  /\ masterKey \in MasterKey
  /\ handed \in [Consumer -> SUBSET (1 .. (nextRowid - 1))]
  /\ droppedUnsynced \in Nat /\ droppedHeld \in Nat /\ deadLettered \in Nat

LEMMA TypeParts == BufferTypeOK <=> TableOK(rows, nextRowid) /\ RestOK
  BY DEF BufferTypeOK, TableOK, RestOK

LEMMA FetchRowids ==
  /\ \A n : \A B \in fetchUnsynced(n) : B \subseteq UnsyncedRows
  /\ \A s, n : \A B \in fetchUnsyncedBySource(s, n) : B \subseteq UnsyncedRows
  /\ \A n : \A B \in fetchUnsyncedFair(n) : B \subseteq UnsyncedRows
  BY DEF fetchUnsynced, fetchUnsyncedBySource, fetchUnsyncedFair, FirstRows, UnsyncedOf

(* Every state of the buffer has the declared types. *)
THEOREM BufferTyped == BufferSpec => []BufferTypeOK
<1>1. BufferInit => BufferTypeOK
  <2> SUFFICES ASSUME BufferInit PROVE BufferTypeOK
    OBVIOUS
  <2>1. DOMAIN rows = {}
    BY DEF BufferInit
  <2>. QED
    BY <2>1 DEF BufferInit, BufferTypeOK
<1>2. BufferTypeOK /\ [BufferNext]_bufferVars => BufferTypeOK'
  <2> SUFFICES ASSUME BufferTypeOK, [BufferNext]_bufferVars
               PROVE  TableOK(rows', nextRowid') /\ RestOK'
    BY TypeParts DEF BufferTypeOK, TableOK, RestOK
  <2>1. CASE UNCHANGED bufferVars
    <3>1. Quiet
      BY <2>1, UnchangedTable DEF bufferVars
    <3>. QED
      BY <2>1, <3>1 DEF bufferVars, counters, BufferTypeOK, RestOK, Quiet
  <2>2. ASSUME NEW batch \in Batches, PushBatch(batch)
        PROVE  TableOK(rows', nextRowid') /\ RestOK'
    <3>1. PICK F \in Insertions(batch) :
            /\ nextRowid' = nextRowid + Cardinality(F)
            /\ TableOK(rows', nextRowid')
            /\ droppedHeld' \in Nat /\ droppedUnsynced' \in Nat
            /\ deadLettered' = deadLettered
      BY <2>2, PushBatchStep
    <3>2. Cardinality(F) \in Nat
      BY InsertionFinite
    <3>3. /\ UNCHANGED <<clock, open, masterKey, handed>>
      BY <2>2 DEF PushBatch
    <3>4. 1 .. (nextRowid - 1) \subseteq 1 .. (nextRowid' - 1) /\ nextRowid' \in Nat \ {0}
      BY <3>1, <3>2 DEF BufferTypeOK
    <3>5. handed' \in [Consumer -> SUBSET (1 .. (nextRowid' - 1))]
      BY <3>3, <3>4 DEF BufferTypeOK
    <3>. QED
      BY <3>1, <3>3, <3>4, <3>5 DEF RestOK, BufferTypeOK
  <2>3. ASSUME NEW batch \in Batches, PushTorn(batch)
        PROVE  TableOK(rows', nextRowid') /\ RestOK'
    <3>1. PICK F \in Insertions(batch) :
            nextRowid' = nextRowid + Cardinality(F) /\ TableOK(rows', nextRowid')
      BY <2>3, PushTornStep
    <3>2. Cardinality(F) \in Nat
      BY InsertionFinite
    <3>3. /\ open' = FALSE /\ handed' = [c \in Consumer |-> {}]
          /\ UNCHANGED <<clock, masterKey, counters>>
      BY <2>3 DEF PushTorn
    <3>4. nextRowid' \in Nat \ {0}
      BY <3>1, <3>2 DEF BufferTypeOK
    <3>5. handed' \in [Consumer -> SUBSET (1 .. (nextRowid' - 1))]
      BY <3>3
    <3>. QED
      BY <3>1, <3>3, <3>4, <3>5 DEF RestOK, BufferTypeOK, counters
  <2>4. ASSUME NEW c \in Consumer, NEW B \in SUBSET UnsyncedRows, Fetch(c, B)
        PROVE  TableOK(rows', nextRowid') /\ RestOK'
    <3>1. Quiet
      BY <2>4, FetchQuiet
    <3>2. {r \in B : Decrypts(r)} \subseteq 1 .. (nextRowid - 1)
      BY DEF UnsyncedRows, WithStatus, BufferTypeOK
    <3>. QED
      BY <2>4, <3>1, <3>2 DEF Fetch, counters, RestOK, BufferTypeOK, Quiet
  <2>5. ASSUME NEW c \in Consumer, NEW done, NEW failed, Settle(c, done, failed)
        PROVE  TableOK(rows', nextRowid') /\ RestOK'
    <3>1. Quiet
      BY <2>5, SettleQuiet
    <3>2. Cardinality(ExhaustedBy(rows, failed)) \in Nat
      <4>1. TableOK(rows, nextRowid) /\ nextRowid \in Nat
        BY TypeParts DEF BufferTypeOK
      <4>2. ExhaustedBy(rows, failed) \in SUBSET DOMAIN rows
        BY DEF ExhaustedBy
      <4>. QED
        BY <4>1, <4>2, TableFinite, FS_Subset, FS_CardinalityType
    <3>3. deadLettered' \in Nat
      BY <2>5, <3>2 DEF Settle, BufferTypeOK
    <3>. QED
      BY <2>5, <3>1, <3>3 DEF Settle, RestOK, BufferTypeOK, Quiet
  <2>6. ASSUME NEW c \in Consumer, EndCycle(c)
        PROVE  TableOK(rows', nextRowid') /\ RestOK'
    <3>1. Quiet
      BY <2>6, UnchangedTable DEF EndCycle
    <3>. QED
      BY <2>6, <3>1 DEF EndCycle, counters, RestOK, BufferTypeOK, Quiet
  <2>7. CASE cleanup
    <3>1. Quiet
      BY <2>7, cleanupQuiet
    <3>. QED
      BY <2>7, <3>1 DEF cleanup, counters, RestOK, BufferTypeOK, Quiet
  <2>8. ASSUME NEW k \in MasterKey, Open(k)
        PROVE  TableOK(rows', nextRowid') /\ RestOK'
    <3>1. Quiet
      BY <2>8, OpenQuiet
    <3>. QED
      BY <2>8, <3>1 DEF Open, RestOK, BufferTypeOK, Quiet
  <2>9. CASE Close
    <3>1. Quiet
      BY <2>9, UnchangedTable DEF Close
    <3>. QED
      BY <2>9, <3>1 DEF Close, counters, RestOK, BufferTypeOK, Quiet
  <2>10. CASE Tick
    <3>1. Quiet
      BY <2>10, UnchangedTable DEF Tick
    <3>. QED
      BY <2>10, <3>1 DEF Tick, counters, RestOK, BufferTypeOK, Quiet
  <2>. QED
    BY <2>1, <2>2, <2>3, <2>4, <2>5, <2>6, <2>7, <2>8, <2>9, <2>10, FetchRowids
       DEF BufferNext
<1>. QED
  BY <1>1, <1>2, PTL DEF BufferSpec

-----------------------------------------------------------------------------
(* Every step is a push, or quiet *)

LEMMA StepCases ==
  ASSUME BufferTypeOK, [BufferNext]_bufferVars
  PROVE  \/ \E batch \in Batches : PushBatch(batch) \/ PushTorn(batch)
         \/ Quiet
  <1>1. UNCHANGED bufferVars => Quiet
    BY UnchangedTable DEF bufferVars
  <1>2. ASSUME NEW c \in Consumer PROVE EndCycle(c) => Quiet
    BY UnchangedTable DEF EndCycle
  <1>3. Close \/ Tick => Quiet
    BY UnchangedTable DEF Close, Tick
  <1>. QED
    BY <1>1, <1>2, <1>3, FetchQuiet, SettleQuiet, cleanupQuiet, OpenQuiet
       DEF BufferNext

-----------------------------------------------------------------------------
(* Identities *)

(* One identity has one row, and a closed buffer leaves nothing in hand. *)
THEOREM OneRow == BufferSpec => []OneRowPerEvent
<1>1. BufferInit => OneRowPerEvent
  BY DEF BufferInit, OneRowPerEvent
<1>2. BufferTypeOK /\ OneRowPerEvent /\ [BufferNext]_bufferVars => OneRowPerEvent'
  <2> SUFFICES ASSUME BufferTypeOK, OneRowPerEvent, [BufferNext]_bufferVars
               PROVE  OneRowPerEvent'
    OBVIOUS
  <2>1. UniqueTable(rows)
    BY DEF OneRowPerEvent, UniqueTable
  <2>2. UniqueTable(rows')
    <3>1. ASSUME NEW batch \in Batches, PushBatch(batch) \/ PushTorn(batch)
          PROVE  UniqueTable(rows')
      <4>1. PICK F \in Insertions(batch) : \E f \in Numberings(F) :
              /\ DOMAIN rows' \subseteq DOMAIN Inserted(f)
              /\ \A r \in DOMAIN rows' : rows'[r] = Inserted(f)[r]
        BY <3>1, PushedRows
      <4>2. ASSUME NEW f \in Numberings(F) PROVE UniqueTable(Inserted(f))
        BY <2>1, InsertedUnique
      <4>. QED
        BY <4>1, <4>2 DEF UniqueTable
    <3>2. CASE Quiet
      BY <2>1, <3>2 DEF Quiet, UniqueTable, SameEvent
    <3>. QED
      BY <3>1, <3>2, StepCases
  <2>3. \A c \in Consumer : ~open' => handed'[c] = {}
    <3>1. open' = TRUE \/ handed' = [c \in Consumer |-> {}] \/ UNCHANGED <<open, handed>>
          \/ \E c \in Consumer : EndCycle(c)
      BY DEF BufferNext, bufferVars, PushBatch, PushTorn, Fetch, Settle, cleanup,
         Open, Close, Tick, BufferTypeOK
    <3>2. \A c \in Consumer : EndCycle(c) => open
      BY DEF EndCycle, OneRowPerEvent
    <3>3. \A c \in Consumer : EndCycle(c) => open' = open
      BY DEF EndCycle
    <3>. QED
      BY <3>1, <3>2, <3>3 DEF OneRowPerEvent, BufferTypeOK
  <2>. QED
    BY <2>2, <2>3 DEF OneRowPerEvent, UniqueTable
<1>. QED
  BY <1>1, <1>2, BufferTyped, PTL DEF BufferSpec

LEMMA IdentityStep ==
  ASSUME BufferTypeOK, [BufferNext]_bufferVars, NEW r \in DOMAIN rows'
  PROVE  IF r \in DOMAIN rows THEN SameEvent(rows'[r], rows[r]) ELSE r >= nextRowid
  <1>1. CASE Quiet
    BY <1>1 DEF Quiet
  <1>2. ASSUME NEW batch \in Batches, PushBatch(batch) \/ PushTorn(batch)
        PROVE  IF r \in DOMAIN rows THEN SameEvent(rows'[r], rows[r]) ELSE r >= nextRowid
    <2>1. PICK F \in Insertions(batch) : \E f \in Numberings(F) :
            /\ DOMAIN rows' \subseteq DOMAIN Inserted(f)
            /\ \A q \in DOMAIN rows' : rows'[q] = Inserted(f)[q]
      BY <1>2, PushedRows
    <2>2. PICK f \in Numberings(F) :
            /\ DOMAIN rows' \subseteq DOMAIN Inserted(f)
            /\ \A q \in DOMAIN rows' : rows'[q] = Inserted(f)[q]
      BY <2>1
    <2>3. /\ DOMAIN Inserted(f) = DOMAIN rows \cup FreshRowids(Cardinality(F))
          /\ \A q \in DOMAIN rows : Inserted(f)[q] = rows[q]
          /\ Cardinality(F) \in Nat
      BY InsertedTable
    <2>4. \A q \in FreshRowids(Cardinality(F)) : q >= nextRowid
      BY <2>3 DEF FreshRowids, BufferTypeOK
    <2>. QED
      BY <2>2, <2>3, <2>4 DEF SameEvent
  <1>. QED
    BY <1>1, <1>2, StepCases

(* A push retires nothing. *)
LEMMA PushedSynced ==
  ASSUME BufferTypeOK, NEW batch \in Batches, PushBatch(batch) \/ PushTorn(batch),
         NEW r \in DOMAIN rows', rows'[r].status = SYNCED
  PROVE  r \in DOMAIN rows /\ rows'[r] = rows[r]
  <1>1. PICK F \in Insertions(batch) : \E f \in Numberings(F) :
          /\ DOMAIN rows' \subseteq DOMAIN Inserted(f)
          /\ \A q \in DOMAIN rows' : rows'[q] = Inserted(f)[q]
    BY PushedRows
  <1>2. PICK f \in Numberings(F) :
          /\ DOMAIN rows' \subseteq DOMAIN Inserted(f)
          /\ \A q \in DOMAIN rows' : rows'[q] = Inserted(f)[q]
    BY <1>1
  <1>3. /\ DOMAIN Inserted(f) = DOMAIN rows \cup FreshRowids(Cardinality(F))
        /\ \A q \in DOMAIN rows : Inserted(f)[q] = rows[q]
        /\ \A q \in FreshRowids(Cardinality(F)) : Inserted(f)[q] = NewRow(f[q])
    BY InsertedTable
  <1>4. \A q \in FreshRowids(Cardinality(F)) : Inserted(f)[q].status # SYNCED
    BY <1>3 DEF NewRow, SYNCED, UNSYNCED
  <1>. QED
    BY <1>2, <1>3, <1>4

(* A rowid names one event for ever. *)
THEOREM RowidsFresh == BufferSpec => RowidsNeverReused
<1>1. BufferTypeOK /\ [BufferNext]_bufferVars =>
        [\A r \in DOMAIN rows' :
           IF r \in DOMAIN rows THEN SameEvent(rows'[r], rows[r]) ELSE r >= nextRowid
        ]_bufferVars
  BY IdentityStep
<1>. QED
  BY <1>1, BufferTyped, PTL DEF BufferSpec, RowidsNeverReused

-----------------------------------------------------------------------------
(* The buffer loses nothing uncounted: what a push evicts, in which order, *)
(* and that nothing else takes a waiting row away or puts a settled one    *)
(* back.                                                                   *)


(* What a push dropped, by status: the rows of the table it had built.     *)
LEMMA PushEvictions ==
  ASSUME BufferTypeOK, NEW batch \in Batches, PushBatch(batch)
  PROVE  \E F \in Insertions(batch) : \E f \in Numberings(F) :
           \E V \in Victims(Inserted(f)) :
             /\ TableOK(Inserted(f), nextRowid')
             /\ nextRowid' \in Nat
             /\ DOMAIN rows' = DOMAIN Inserted(f) \ V
             /\ \A r \in DOMAIN rows' : rows'[r] = Inserted(f)[r]
             /\ Evicted(HELD) = V \cap WithStatus(Inserted(f), HELD)
             /\ Evicted(UNSYNCED) \cup EvictedOnArrival =
                  V \cap WithStatus(Inserted(f), UNSYNCED)
             /\ droppedHeld' = droppedHeld + HeldToDrop(Inserted(f))
             /\ droppedUnsynced' = droppedUnsynced + UnsyncedToDrop(Inserted(f))
  <1>1. PICK F \in Insertions(batch) : \E f \in Numberings(F) :
          \E V \in Victims(Inserted(f)) :
            /\ nextRowid' = nextRowid + Cardinality(F)
            /\ V \subseteq DOMAIN Inserted(f)
            /\ DOMAIN rows' = DOMAIN Inserted(f) \ V
            /\ \A r \in DOMAIN rows' : rows'[r] = Inserted(f)[r]
            /\ droppedHeld' = droppedHeld + HeldToDrop(Inserted(f))
            /\ droppedUnsynced' = droppedUnsynced + UnsyncedToDrop(Inserted(f))
            /\ nextRowid' \in Nat
    BY PushBatchStep
  <1>2. PICK f \in Numberings(F) : \E V \in Victims(Inserted(f)) :
            /\ nextRowid' = nextRowid + Cardinality(F)
            /\ V \subseteq DOMAIN Inserted(f)
            /\ DOMAIN rows' = DOMAIN Inserted(f) \ V
            /\ \A r \in DOMAIN rows' : rows'[r] = Inserted(f)[r]
            /\ droppedHeld' = droppedHeld + HeldToDrop(Inserted(f))
            /\ droppedUnsynced' = droppedUnsynced + UnsyncedToDrop(Inserted(f))
            /\ nextRowid' \in Nat
    BY <1>1
  <1>3. PICK V \in Victims(Inserted(f)) :
            /\ nextRowid' = nextRowid + Cardinality(F)
            /\ V \subseteq DOMAIN Inserted(f)
            /\ DOMAIN rows' = DOMAIN Inserted(f) \ V
            /\ \A r \in DOMAIN rows' : rows'[r] = Inserted(f)[r]
            /\ droppedHeld' = droppedHeld + HeldToDrop(Inserted(f))
            /\ droppedUnsynced' = droppedUnsynced + UnsyncedToDrop(Inserted(f))
            /\ nextRowid' \in Nat
    BY <1>2
  <1> DEFINE N == FreshRowids(Cardinality(F))
  <1>4. /\ Cardinality(F) \in Nat
        /\ TableOK(Inserted(f), nextRowid + Cardinality(F))
        /\ DOMAIN Inserted(f) = DOMAIN rows \cup N
        /\ \A r \in DOMAIN rows : Inserted(f)[r] = rows[r]
        /\ \A r \in N : r \notin DOMAIN rows /\ Inserted(f)[r] = NewRow(f[r])
    BY InsertedTable
  <1>5. TableOK(Inserted(f), nextRowid')
    BY <1>3, <1>4, Zenon
  <1>6. N = nextRowid .. (nextRowid' - 1)
    BY <1>3, <1>4 DEF FreshRowids, BufferTypeOK
  <1>7. \A r \in N : Inserted(f)[r].status = UNSYNCED
    BY <1>4 DEF NewRow
  <1>8. UNSYNCED # HELD
    BY DEF UNSYNCED, HELD
  <1> HIDE DEF N
  <1>9. Evicted(HELD) = V \cap WithStatus(Inserted(f), HELD)
    BY <1>3, <1>4, <1>7, <1>8 DEF Evicted, WithStatus
  <1>10. EvictedOnArrival = V \cap N
    <2>1. EvictedOnArrival = N \ DOMAIN rows'
      BY <1>6 DEF EvictedOnArrival
    <2>. QED
      BY <2>1, <1>3, <1>4
  <1>11. Evicted(UNSYNCED) \cup EvictedOnArrival = V \cap WithStatus(Inserted(f), UNSYNCED)
    BY <1>3, <1>4, <1>7, <1>10 DEF Evicted, WithStatus
  <1>. QED
    BY <1>3, <1>5, <1>9, <1>11

(* Every step of the open buffer other than a push leaves the counters     *)
(* alone, and deletes at most synced rows.                                 *)
LEMMA NoPushNoLoss ==
  ASSUME BufferTypeOK, [BufferNext]_bufferVars, open, open',
         ~\E batch \in Batches : PushBatch(batch)
  PROVE  /\ nextRowid' = nextRowid
         /\ UNCHANGED <<droppedUnsynced, droppedHeld>>
         /\ Evicted(UNSYNCED) = {}
         /\ Evicted(HELD) = {}
  <1>1. ~\E batch \in Batches : PushTorn(batch)
    BY DEF PushTorn
  <1>2. ~Close /\ ~\E k \in MasterKey : Open(k)
    BY DEF Close, Open
  <1>3. CASE UNCHANGED bufferVars
    BY <1>3 DEF bufferVars, counters, Evicted
  <1>4. ASSUME NEW c \in Consumer, NEW B, Fetch(c, B)
        PROVE  /\ UNCHANGED <<nextRowid, droppedUnsynced, droppedHeld>>
               /\ DOMAIN rows' = DOMAIN rows
    BY <1>4 DEF Fetch, counters, Held
  <1>5. ASSUME NEW c \in Consumer, NEW done, NEW failed, Settle(c, done, failed)
        PROVE  /\ UNCHANGED <<nextRowid, droppedUnsynced, droppedHeld>>
               /\ DOMAIN rows' = DOMAIN rows
    BY <1>5, SettleQuiet DEF Settle
  <1>6. ASSUME NEW c \in Consumer, EndCycle(c)
        PROVE  /\ UNCHANGED <<nextRowid, droppedUnsynced, droppedHeld>>
               /\ DOMAIN rows' = DOMAIN rows
    BY <1>6 DEF EndCycle, counters
  <1>7. CASE cleanup
    <2>1. DOMAIN rows' = {r \in DOMAIN rows : ~Expired(r)}
      BY <1>7, cleanupQuiet
    <2>2. \A r : Expired(r) => rows[r].status = SYNCED
      BY DEF Expired
    <2>3. UNSYNCED # SYNCED /\ HELD # SYNCED
      BY DEF UNSYNCED, HELD, SYNCED
    <2>. QED
      BY <1>7, <2>1, <2>2, <2>3 DEF cleanup, counters, Evicted
  <1>8. CASE Tick
    BY <1>8 DEF Tick, counters, Evicted
  <1>. QED
    BY <1>1, <1>2, <1>3, <1>4, <1>5, <1>6, <1>7, <1>8 DEF BufferNext, Evicted

LEMMA NothingOnArrival ==
  ASSUME BufferTypeOK, nextRowid' = nextRowid
  PROVE  EvictedOnArrival = {}
  BY DEF EvictedOnArrival, BufferTypeOK

-----------------------------------------------------------------------------
(* The counters grow by exactly the waiting and held rows that are deleted. *)
THEOREM EvictionsAreCounted == BufferSpec => EvictionsCounted
<1>1. ASSUME BufferTypeOK, [BufferNext]_bufferVars, open, open'
      PROVE  /\ droppedUnsynced' - droppedUnsynced =
                  Cardinality(Evicted(UNSYNCED) \cup EvictedOnArrival)
             /\ droppedHeld' - droppedHeld = Cardinality(Evicted(HELD))
  <2>1. CASE \E batch \in Batches : PushBatch(batch)
    <3>1. PICK batch \in Batches : PushBatch(batch)
      BY <2>1
    <3>2. PICK F \in Insertions(batch) : \E f \in Numberings(F) :
            \E V \in Victims(Inserted(f)) :
              /\ TableOK(Inserted(f), nextRowid')
              /\ nextRowid' \in Nat
              /\ Evicted(HELD) = V \cap WithStatus(Inserted(f), HELD)
              /\ Evicted(UNSYNCED) \cup EvictedOnArrival =
                   V \cap WithStatus(Inserted(f), UNSYNCED)
              /\ droppedHeld' = droppedHeld + HeldToDrop(Inserted(f))
              /\ droppedUnsynced' = droppedUnsynced + UnsyncedToDrop(Inserted(f))
      BY <1>1, <3>1, PushEvictions
    <3>3. PICK f \in Numberings(F) : \E V \in Victims(Inserted(f)) :
              /\ TableOK(Inserted(f), nextRowid')
              /\ nextRowid' \in Nat
              /\ Evicted(HELD) = V \cap WithStatus(Inserted(f), HELD)
              /\ Evicted(UNSYNCED) \cup EvictedOnArrival =
                   V \cap WithStatus(Inserted(f), UNSYNCED)
              /\ droppedHeld' = droppedHeld + HeldToDrop(Inserted(f))
              /\ droppedUnsynced' = droppedUnsynced + UnsyncedToDrop(Inserted(f))
      BY <3>2
    <3>4. PICK V \in Victims(Inserted(f)) :
              /\ TableOK(Inserted(f), nextRowid')
              /\ nextRowid' \in Nat
              /\ Evicted(HELD) = V \cap WithStatus(Inserted(f), HELD)
              /\ Evicted(UNSYNCED) \cup EvictedOnArrival =
                   V \cap WithStatus(Inserted(f), UNSYNCED)
              /\ droppedHeld' = droppedHeld + HeldToDrop(Inserted(f))
              /\ droppedUnsynced' = droppedUnsynced + UnsyncedToDrop(Inserted(f))
      BY <3>3
    <3>5. /\ HeldToDrop(Inserted(f)) = Cardinality(Evicted(HELD))
          /\ UnsyncedToDrop(Inserted(f)) =
               Cardinality(Evicted(UNSYNCED) \cup EvictedOnArrival)
          /\ HeldToDrop(Inserted(f)) \in Nat
          /\ UnsyncedToDrop(Inserted(f)) \in Nat
      BY <3>4, EvictionCounts
    <3>. QED
      BY <1>1, <3>4, <3>5 DEF BufferTypeOK
  <2>2. CASE ~\E batch \in Batches : PushBatch(batch)
    <3>1. /\ nextRowid' = nextRowid
          /\ UNCHANGED <<droppedUnsynced, droppedHeld>>
          /\ Evicted(UNSYNCED) = {}
          /\ Evicted(HELD) = {}
      BY <1>1, <2>2, NoPushNoLoss
    <3>2. Evicted(UNSYNCED) \cup EvictedOnArrival = {}
      BY <1>1, <3>1, NothingOnArrival
    <3>3. Cardinality({}) = 0
      BY FS_EmptySet
    <3>4. Cardinality(Evicted(UNSYNCED) \cup EvictedOnArrival) = 0
      BY <3>2, <3>3, Zenon
    <3>5. Cardinality(Evicted(HELD)) = 0
      BY <3>1, <3>3, Zenon
    <3>. QED
      BY <1>1, <3>1, <3>4, <3>5 DEF BufferTypeOK
  <2>. QED
    BY <2>1, <2>2
<1>2. BufferTypeOK /\ [BufferNext]_bufferVars =>
        [open /\ open' =>
           /\ droppedUnsynced' - droppedUnsynced =
                Cardinality(Evicted(UNSYNCED) \cup EvictedOnArrival)
           /\ droppedHeld' - droppedHeld = Cardinality(Evicted(HELD))]_bufferVars
  BY <1>1
<1>. QED
  BY <1>2, BufferTyped, PTL DEF BufferSpec, EvictionsCounted

(* A push leaves the table within capacity, and drops a waiting row only   *)
(* when no held and no synced row is left, a held one only when no synced  *)
(* row is left.                                                            *)
THEOREM SafeRowsGo == BufferSpec => SafeRowsGoFirst
<1> DEFINE Safe ==
      /\ Cardinality(DOMAIN rows') <= Capacity
      /\ (Evicted(UNSYNCED) \cup Evicted(HELD) \cup EvictedOnArrival # {}
            => \A r \in DOMAIN rows' : rows'[r].status # SYNCED)
      /\ (Evicted(UNSYNCED) \cup EvictedOnArrival # {}
            => \A r \in DOMAIN rows' : rows'[r].status # HELD)
<1>1. ASSUME BufferTypeOK, [BufferNext]_bufferVars, nextRowid' # nextRowid, open'
      PROVE  Safe
  <2>1. PICK batch \in Batches : PushBatch(batch)
    <3>1. \E batch \in Batches : PushBatch(batch) \/ PushTorn(batch)
      BY <1>1, StepCases DEF Quiet
    <3>. QED
      BY <1>1, <3>1 DEF PushTorn
  <2>2. PICK F \in Insertions(batch) : \E f \in Numberings(F) :
          \E V \in Victims(Inserted(f)) :
            /\ TableOK(Inserted(f), nextRowid')
            /\ nextRowid' \in Nat
            /\ DOMAIN rows' = DOMAIN Inserted(f) \ V
            /\ \A r \in DOMAIN rows' : rows'[r] = Inserted(f)[r]
            /\ Evicted(HELD) = V \cap WithStatus(Inserted(f), HELD)
            /\ Evicted(UNSYNCED) \cup EvictedOnArrival =
                 V \cap WithStatus(Inserted(f), UNSYNCED)
    BY <1>1, <2>1, PushEvictions
  <2>3. PICK f \in Numberings(F) :
          \E V \in Victims(Inserted(f)) :
            /\ TableOK(Inserted(f), nextRowid')
            /\ nextRowid' \in Nat
            /\ DOMAIN rows' = DOMAIN Inserted(f) \ V
            /\ \A r \in DOMAIN rows' : rows'[r] = Inserted(f)[r]
            /\ Evicted(HELD) = V \cap WithStatus(Inserted(f), HELD)
            /\ Evicted(UNSYNCED) \cup EvictedOnArrival =
                 V \cap WithStatus(Inserted(f), UNSYNCED)
    BY <2>2
  <2>4. PICK V \in Victims(Inserted(f)) :
            /\ TableOK(Inserted(f), nextRowid')
            /\ nextRowid' \in Nat
            /\ DOMAIN rows' = DOMAIN Inserted(f) \ V
            /\ \A r \in DOMAIN rows' : rows'[r] = Inserted(f)[r]
            /\ Evicted(HELD) = V \cap WithStatus(Inserted(f), HELD)
            /\ Evicted(UNSYNCED) \cup EvictedOnArrival =
                 V \cap WithStatus(Inserted(f), UNSYNCED)
    BY <2>3
  <2> DEFINE T == Inserted(f)
  <2>5. /\ V \cap WithStatus(T, HELD) # {} => WithStatus(T, SYNCED) \subseteq V
        /\ V \cap WithStatus(T, UNSYNCED) # {} =>
             /\ WithStatus(T, SYNCED) \subseteq V
             /\ WithStatus(T, HELD) \subseteq V
    BY EvictionOrder
  <2>6. Cardinality(DOMAIN rows') <= Capacity
    <3>1. V \subseteq DOMAIN T /\ Cardinality(V) = Excess(T)
      BY DEF Victims
    <3>2. IsFiniteSet(DOMAIN T) /\ Cardinality(DOMAIN T) \in Nat
      BY <2>4, TableFinite, FS_CardinalityType
    <3>3. Cardinality(DOMAIN T \ V) = Cardinality(DOMAIN T) - Cardinality(DOMAIN T \cap V)
      BY <3>2, FS_Difference
    <3>4. DOMAIN T \cap V = V
      BY <3>1
    <3>5. Cardinality(DOMAIN T) - Excess(T) <= Capacity
      BY <2>4, ExcessFact
    <3>6. Cardinality(DOMAIN rows') = Cardinality(DOMAIN T) - Excess(T)
      BY <2>4, <3>1, <3>3, <3>4, Zenon
    <3>. QED
      BY <3>5, <3>6
  <2>. QED
    BY <2>4, <2>5, <2>6 DEF WithStatus
<1>2. BufferTypeOK /\ [BufferNext]_bufferVars =>
        [nextRowid' # nextRowid /\ open' => Safe]_bufferVars
  BY <1>1
<1>. QED
  BY <1>2, BufferTyped, PTL DEF BufferSpec, SafeRowsGoFirst

(* A row that left the queue stays out of it. *)
THEOREM SyncedStaysSynced == BufferSpec => SyncedIsFinal
<1>1. ASSUME BufferTypeOK, [BufferNext]_bufferVars, NEW r \in DOMAIN rows,
             r \in DOMAIN rows', rows[r].status = SYNCED
      PROVE  rows'[r].status = SYNCED
  <2>1. ASSUME NEW batch \in Batches, PushBatch(batch) \/ PushTorn(batch)
        PROVE  rows'[r].status = SYNCED
    <3>1. PICK F \in Insertions(batch) : \E f \in Numberings(F) :
            \A q \in DOMAIN rows' : rows'[q] = Inserted(f)[q]
      BY <1>1, <2>1, PushedRows
    <3>. QED
      BY <1>1, <3>1 DEF Inserted
  <2>2. ASSUME NEW c \in Consumer, NEW B \in SUBSET UnsyncedRows, Fetch(c, B)
        PROVE  rows'[r].status = SYNCED
    <3>1. r \notin B
      BY <1>1 DEF UnsyncedRows, WithStatus, UNSYNCED, SYNCED
    <3>. QED
      BY <1>1, <2>2, <3>1 DEF Fetch, Held
  <2>3. ASSUME NEW c \in Consumer, NEW done, NEW failed, Settle(c, done, failed)
        PROVE  rows'[r].status = SYNCED
    <3>1. r \in DOMAIN MarkedSynced(rows, done) /\ MarkedSynced(rows, done)[r].status = SYNCED
      <4>1. rows[r] \in Row
        BY <1>1 DEF BufferTypeOK
      <4>. QED
        BY <1>1, <4>1 DEF MarkedSynced, Row
    <3>2. ASSUME NEW rs, r \in DOMAIN rs, rs[r].status = SYNCED, rs[r] \in Row
          PROVE  AttemptsRecorded(rs, failed)[r].status = SYNCED
      BY <3>2 DEF AttemptsRecorded, MarkedSynced, Row
    <3>3. MarkedSynced(rows, done)[r] \in Row
      <4>1. TableOK(rows, nextRowid) /\ nextRowid \in Nat /\ clock \in Nat
        BY <1>1, TypeParts DEF BufferTypeOK
      <4>2. TableOK(MarkedSynced(rows, done), nextRowid)
        BY <4>1, MarkedSyncedTable
      <4>. QED
        BY <3>1, <4>2 DEF TableOK
    <3>. QED
      BY <2>3, <3>1, <3>2, <3>3 DEF Settle
  <2>4. CASE cleanup
    BY <1>1, <2>4, cleanupQuiet
  <2>5. ASSUME NEW k \in MasterKey, Open(k)
        PROVE  rows'[r].status = SYNCED
    <3>1. r \notin WithStatus(rows, HELD)
      BY <1>1 DEF WithStatus, HELD, SYNCED
    <3>2. rows' = rows \/ rows' = Unsynced(WithStatus(rows, HELD))
      BY <2>5 DEF Open, Released
    <3>. QED
      BY <1>1, <3>1, <3>2 DEF Unsynced
  <2>6. CASE UNCHANGED rows
    BY <1>1, <2>6
  <2>7. ASSUME NEW c \in Consumer, EndCycle(c) PROVE UNCHANGED rows
    BY <2>7 DEF EndCycle
  <2>8. Close \/ Tick \/ UNCHANGED bufferVars => UNCHANGED rows
    BY DEF Close, Tick, bufferVars
  <2>. QED
    BY <1>1, <2>1, <2>2, <2>3, <2>4, <2>5, <2>6, <2>7, <2>8, FetchRowids DEF BufferNext
<1>2. BufferTypeOK /\ [BufferNext]_bufferVars =>
        [\A r \in DOMAIN rows \cap DOMAIN rows' :
           rows[r].status = SYNCED => rows'[r].status = SYNCED]_bufferVars
  BY <1>1
<1>. QED
  BY <1>2, BufferTyped, PTL DEF BufferSpec, SyncedIsFinal

(* Starting with the key that wrote every held row leaves none held. *)
THEOREM HeldRowsComeBack == BufferSpec => HeldRowsOfOneKeyComeBack
<1>1. ASSUME BufferTypeOK, [BufferNext]_bufferVars, ~open, open',
             \A r \in WithStatus(rows, HELD) : rows[r].key = masterKey',
             NEW r \in DOMAIN rows'
      PROVE  rows'[r].status # HELD
  <2>1. PICK k \in MasterKey : Open(k)
    BY <1>1 DEF BufferNext, bufferVars, PushBatch, PushTorn, Fetch, Settle, EndCycle,
                cleanup, Close, Tick
  <2>2. rows' \in Released(k) /\ masterKey' = k
    BY <2>1 DEF Open
  <2>3. CASE WithStatus(rows, HELD) = {}
    <3>1. rows' = rows
      BY <2>2, <2>3 DEF Released
    <3>. QED
      BY <1>1, <2>3, <3>1 DEF WithStatus
  <2>4. CASE WithStatus(rows, HELD) # {}
    <3>1. rows' = Unsynced(WithStatus(rows, HELD))
      BY <1>1, <2>2, <2>4 DEF Released
    <3>2. r \in DOMAIN rows /\ rows[r] \in Row
      BY <1>1, <3>1 DEF Unsynced, BufferTypeOK
    <3>3. UNSYNCED # HELD
      BY DEF UNSYNCED, HELD
    <3>4. CASE r \in WithStatus(rows, HELD)
      BY <3>1, <3>2, <3>3, <3>4 DEF Unsynced, Row
    <3>5. CASE r \notin WithStatus(rows, HELD)
      BY <3>1, <3>2, <3>5 DEF Unsynced, WithStatus
    <3>. QED
      BY <3>4, <3>5
  <2>. QED
    BY <2>3, <2>4
<1>2. BufferTypeOK /\ [BufferNext]_bufferVars =>
        [~open /\ open' /\ (\A r \in WithStatus(rows, HELD) : rows[r].key = masterKey')
           => \A r \in DOMAIN rows' : rows'[r].status # HELD]_bufferVars
  BY <1>1
<1>. QED
  BY <1>2, BufferTyped, PTL DEF BufferSpec, HeldRowsOfOneKeyComeBack

-----------------------------------------------------------------------------
(* Shares of a batch.                                                      *)

LEMMA StrictlySmaller ==
  ASSUME NEW S, IsFiniteSet(S), NEW T \in SUBSET S, T # S
  PROVE  /\ IsFiniteSet(T)
         /\ Cardinality(T) \in Nat /\ Cardinality(S) \in Nat
         /\ Cardinality(T) < Cardinality(S)
  <1>1. IsFiniteSet(T) /\ Cardinality(T) <= Cardinality(S) /\ Cardinality(S) # Cardinality(T)
    BY FS_Subset
  <1>2. Cardinality(S) \in Nat /\ Cardinality(T) \in Nat
    BY <1>1, FS_CardinalityType
  <1>. QED
    BY <1>1, <1>2

(* Rows of A of the source of r, and those of them that are older.         *)
Fellows(A, r) == {q \in A : rows[q].source = rows[r].source}
Elders(A, r)  == {q \in Fellows(A, r) : q < r}

(* A set with at most m rows of each source has at most m rows for each of *)
(* its sources: a row is told by its source and its number among its own.  *)
LEMMA SharesAdd ==
  ASSUME NEW A, IsFiniteSet(A), A \subseteq Nat, NEW S, IsFiniteSet(S), NEW m \in Nat,
         \A r \in A : rows[r].source \in S /\ Cardinality(Fellows(A, r)) <= m
  PROVE  Cardinality(A) <= Cardinality(S) * m
  <1> DEFINE f == [r \in A |-> <<rows[r].source, Cardinality(Elders(A, r))>>]
  <1>1. \A r \in A : IsFiniteSet(Fellows(A, r)) /\ IsFiniteSet(Elders(A, r))
    <2>1. TAKE r \in A
    <2>2. Fellows(A, r) \in SUBSET A /\ Elders(A, r) \in SUBSET A
      BY DEF Fellows, Elders
    <2>. QED
      BY <2>2, FS_Subset
  <1>2. \A r \in A : Cardinality(Elders(A, r)) \in 0 .. m - 1
    <2>1. TAKE r \in A
    <2>2. /\ Elders(A, r) \in SUBSET Fellows(A, r)
          /\ r \in Fellows(A, r) /\ r \notin Elders(A, r)
      BY DEF Fellows, Elders
    <2>3. Cardinality(Elders(A, r)) < Cardinality(Fellows(A, r))
      BY <1>1, <2>2, StrictlySmaller
    <2>. QED
      BY <1>1, <2>3, FS_CardinalityType
  <1>3. \A r, s \in A : rows[r].source = rows[s].source /\ r < s =>
          Cardinality(Elders(A, r)) < Cardinality(Elders(A, s))
    <2>1. TAKE r, s \in A
    <2>2. ASSUME rows[r].source = rows[s].source, r < s
          PROVE  Cardinality(Elders(A, r)) < Cardinality(Elders(A, s))
      <3>1. Fellows(A, r) = Fellows(A, s) /\ r \in Fellows(A, r)
        BY <2>2 DEF Fellows
      <3>2. \A q \in Fellows(A, s) : q < r => q < s
        <4>1. \A q \in Fellows(A, s) : q \in Nat /\ r \in Nat /\ s \in Nat
          BY DEF Fellows
        <4>. QED
          BY <2>2, <4>1
      <3>3. ~ (r < r)
        BY r \in Nat
      <3>4. /\ Elders(A, r) \in SUBSET Elders(A, s)
            /\ r \in Elders(A, s) /\ r \notin Elders(A, r)
        BY <2>2, <3>1, <3>2, <3>3 DEF Elders
      <3>. QED
        BY <1>1, <3>4, StrictlySmaller
    <2>. QED
      BY <2>2
  <1>4. \A r, s \in A :
          /\ rows[r].source = rows[s].source
          /\ Cardinality(Elders(A, r)) = Cardinality(Elders(A, s))
          => r = s
    <2>1. TAKE r, s \in A
    <2>2. r \in Nat /\ s \in Nat
      OBVIOUS
    <2>. QED
      BY <1>2, <1>3, <2>2
  <1>5. f \in Injection(A, S \X (0 .. m - 1))
    BY <1>2, <1>4 DEF Injection, IsInjective
  <1>6. IsFiniteSet(0 .. m - 1) /\ Cardinality(0 .. m - 1) = m
    BY FS_Interval
  <1>7. /\ IsFiniteSet(S \X (0 .. m - 1))
        /\ Cardinality(S \X (0 .. m - 1)) = Cardinality(S) * m
    BY <1>6, FS_Product
  <1>. QED
    BY <1>5, <1>7, FS_Injection

LEMMA EvenShare ==
  ASSUME NEW n \in Nat, NEW k \in Nat \ {0}
  PROVE  n \div k \in Nat /\ k * (n \div k) <= n /\ (k <= n => n \div k >= 1)
  <1>1. n \div k \in Nat /\ (n \div k) * k <= n /\ n < (n \div k) * k + k
    OBVIOUS
  <1>2. k <= n => n \div k # 0
    BY <1>1
  <1>. QED
    BY <1>1, <1>2

(* When there are slots for all backlogged sources, the even split gives   *)
(* each its share, and no more slots than there are.                       *)
LEMMA EvenSplitShares ==
  ASSUME BufferTypeOK, NEW n \in Nat, NEW A \in EvenSplits(n),
         Cardinality(BackloggedSource) \in 1 .. n
  PROVE  /\ Cardinality(A) <= n
         /\ \A s \in BackloggedSource :
              Cardinality({r \in A : rows[r].source = s}) =
                MinOf(n \div Cardinality(BackloggedSource), Cardinality(UnsyncedOf(s)))
  <1> DEFINE S == BackloggedSource
             k == Cardinality(BackloggedSource)
             share == n \div k
             Of(s) == {r \in A : rows[r].source = s}
  <1>1. IsFiniteSet(UnsyncedRows) /\ UnsyncedRows \subseteq Nat /\ A \subseteq UnsyncedRows
    <2>1. IsFiniteSet(DOMAIN rows) /\ DOMAIN rows \subseteq Nat
      BY TableFinite, TypeParts DEF BufferTypeOK
    <2>2. UnsyncedRows \in SUBSET DOMAIN rows
      BY DEF UnsyncedRows, WithStatus
    <2>. QED
      BY <2>1, <2>2, FS_Subset DEF EvenSplits
  <1>2. \A r \in UnsyncedRows : rows[r].source \in S /\ rows[r].source \in Source
    BY DEF BackloggedSource, UnsyncedRows, WithStatus, BufferTypeOK, Row
  <1>3. S \in SUBSET Source /\ IsFiniteSet(S) /\ S \subseteq Nat
    <2>1. S \in SUBSET Source
      BY <1>2 DEF BackloggedSource
    <2>. QED
      BY <2>1, FS_Subset, SourceAssumption
  <1>4. share \in Nat /\ k * share <= n /\ MaxOf(1, share) = share
    <2>1. k \in Nat \ {0} /\ k <= n
      OBVIOUS
    <2>. QED
      BY <2>1, EvenShare DEF MaxOf
  <1>5. \A s \in S : Cardinality({t \in S : t < s}) < n
    <2>1. TAKE s \in S
    <2>2. {t \in S : t < s} \in SUBSET S /\ s \notin {t \in S : t < s}
      BY <1>3
    <2>3. Cardinality({t \in S : t < s}) < k /\ Cardinality({t \in S : t < s}) \in Nat
      BY <1>3, <2>1, <2>2, StrictlySmaller
    <2>. QED
      BY <2>3
  <1>6. \A s \in S : Of(s) \in fetchUnsyncedBySource(s, share)
    BY <1>4, <1>5 DEF EvenSplits
  <1>7. \A s \in S : Cardinality(Of(s)) = MinOf(share, Cardinality(UnsyncedOf(s)))
    BY <1>6 DEF fetchUnsyncedBySource, FirstRows
  <1>8. \A s \in S : Cardinality(UnsyncedOf(s)) \in Nat
    <2>1. TAKE s \in S
    <2>2. UnsyncedOf(s) \in SUBSET UnsyncedRows
      BY DEF UnsyncedOf
    <2>. QED
      BY <1>1, <2>2, FS_Subset, FS_CardinalityType
  <1>9. Cardinality(A) <= k * share
    <2>1. IsFiniteSet(A) /\ A \subseteq Nat
      BY <1>1, FS_Subset
    <2>2. \A r \in A : rows[r].source \in S /\ Cardinality(Fellows(A, r)) <= share
      <3>1. TAKE r \in A
      <3>2. rows[r].source \in S /\ Fellows(A, r) = Of(rows[r].source)
        BY <1>1, <1>2 DEF Fellows
      <3>3. Cardinality(Fellows(A, r)) = MinOf(share, Cardinality(UnsyncedOf(rows[r].source)))
        BY <1>7, <3>2
      <3>4. Cardinality(UnsyncedOf(rows[r].source)) \in Nat
        BY <1>8, <3>2
      <3>5. \A x \in Nat, y \in Nat : MinOf(x, y) <= x
        BY DEF MinOf
      <3> HIDE DEF share
      <3>. QED
        BY <1>4, <3>2, <3>3, <3>4, <3>5
    <2>. QED
      BY <1>3, <1>4, <2>1, <2>2, SharesAdd
  <1>10. Cardinality(A) \in Nat
    BY <1>1, FS_Subset, FS_CardinalityType
  <1>11. k * share \in Nat
    BY <1>4, <1>9, <1>10
  <1>. QED
    BY <1>4, <1>7, <1>9, <1>10, <1>11

LEMMA FairBatches ==
  ASSUME BufferTypeOK, Cardinality(BackloggedSource) \in 1 .. BatchSize
  PROVE  FairShare
  <1> DEFINE S == BackloggedSource
             k == Cardinality(BackloggedSource)
             share == BatchSize \div k
             U == UnsyncedRows
  <1>1. SUFFICES ASSUME NEW B \in fetchUnsyncedFair(BatchSize)
                 PROVE  /\ Cardinality(B) = MinOf(BatchSize, unsyncedCount)
                        /\ \A s \in S : Cardinality(B \cap UnsyncedOf(s)) >=
                                          MinOf(Cardinality(UnsyncedOf(s)), share)
    BY DEF FairShare
  <1>2. IsFiniteSet(U)
    <2>1. IsFiniteSet(DOMAIN rows)
      BY TableFinite, TypeParts DEF BufferTypeOK
    <2>2. U \in SUBSET DOMAIN rows
      BY DEF UnsyncedRows, WithStatus
    <2>. QED
      BY <2>1, <2>2, FS_Subset
  <1>3. k \in Nat \ {0} /\ k <= BatchSize /\ BatchSize \in Nat /\ unsyncedCount = Cardinality(U)
    BY BatchAssumption DEF unsyncedCount
  <1>4. /\ Cardinality(U) \in Nat /\ share \in Nat /\ share <= BatchSize
        /\ \A s \in S : /\ UnsyncedOf(s) \in SUBSET U /\ IsFiniteSet(UnsyncedOf(s))
                        /\ Cardinality(UnsyncedOf(s)) \in Nat
    <2>1. Cardinality(U) \in Nat
      BY <1>2, FS_CardinalityType
    <2>2. share \in Nat /\ k * share <= BatchSize
      BY <1>3, EvenShare
    <2>3. share <= k * share
      <3>1. k * share = share + (k - 1) * share /\ (k - 1) * share \in Nat
        BY <1>3, <2>2
      <3>. QED
        BY <2>2, <3>1
    <2>4. k * share \in Nat
      BY <1>3, <2>2
    <2>5. \A s \in S : UnsyncedOf(s) \in SUBSET U
      BY DEF UnsyncedOf
    <2>6. \A s \in S : IsFiniteSet(UnsyncedOf(s))
      BY <1>2, <2>5, FS_Subset
    <2>. QED
      BY <1>3, <2>1, <2>2, <2>3, <2>4, <2>5, <2>6, FS_CardinalityType
  <1>5. CASE k <= 1
    <2>1. k = 1
      BY <1>3, <1>5
    <2>2. B \in FirstRows(U, BatchSize)
      BY <1>5 DEF fetchUnsyncedFair, fetchUnsynced
    <2>3. B \in SUBSET U /\ Cardinality(B) = MinOf(BatchSize, Cardinality(U))
      BY <2>2 DEF FirstRows
    <2>4. \A s \in S : UnsyncedOf(s) = U
      <3>1. TAKE s \in S
      <3>2. IsFiniteSet(S)
        <4>1. S \in SUBSET Source
          BY DEF BackloggedSource, UnsyncedRows, WithStatus, BufferTypeOK, Row
        <4>. QED
          BY <4>1, FS_Subset, SourceAssumption
      <3>3. \E t : S = {t}
        BY <2>1, <3>2, FS_Singleton
      <3>4. \A r \in U : rows[r].source \in S
        BY DEF BackloggedSource
      <3>. QED
        BY <3>3, <3>4 DEF UnsyncedOf
    <2>5. \A s \in S : Cardinality(B \cap UnsyncedOf(s)) = MinOf(BatchSize, Cardinality(U))
      <3>1. \A s \in S : B \cap UnsyncedOf(s) = B
        BY <2>3, <2>4
      <3>. QED
        BY <2>3, <3>1
    <2>6. MinOf(BatchSize, Cardinality(U)) >= MinOf(Cardinality(U), share)
      BY <1>3, <1>4 DEF MinOf
    <2>. QED
      BY <1>3, <2>3, <2>4, <2>5, <2>6
  <1>6. CASE ~ (k <= 1)
    <2>1. PICK A \in EvenSplits(BatchSize) :
            /\ A \subseteq B
            /\ B \ A \in FirstRows(U \ A, Monus(BatchSize, Cardinality(A)))
      BY <1>6 DEF fetchUnsyncedFair
    <2>2. B \in SUBSET U
      BY <1>6 DEF fetchUnsyncedFair
    <2>3. Cardinality(A) <= BatchSize
      BY <1>3, EvenSplitShares
    <2>4. \A s \in S : Cardinality({r \in A : rows[r].source = s}) =
                         MinOf(share, Cardinality(UnsyncedOf(s)))
      BY <1>3, EvenSplitShares
    <2>5. IsFiniteSet(B) /\ IsFiniteSet(A) /\ A \in SUBSET U
      <3>1. A \in SUBSET U
        BY <2>1, <2>2
      <3>. QED
        BY <1>2, <2>2, <3>1, FS_Subset
    <2>6. Cardinality(B) = MinOf(BatchSize, Cardinality(U))
      <3>1. Cardinality(B \ A) = MinOf(Monus(BatchSize, Cardinality(A)), Cardinality(U \ A))
        BY <2>1 DEF FirstRows
      <3>2. /\ Cardinality(B \ A) = Cardinality(B) - Cardinality(A)
            /\ Cardinality(U \ A) = Cardinality(U) - Cardinality(A)
            /\ Cardinality(A) <= Cardinality(U)
        <4>1. B \cap A = A /\ U \cap A = A
          BY <2>1, <2>5
        <4>2. /\ Cardinality(B \ A) = Cardinality(B) - Cardinality(B \cap A)
              /\ Cardinality(U \ A) = Cardinality(U) - Cardinality(U \cap A)
          BY <1>2, <2>5, FS_Difference
        <4>3. Cardinality(A) <= Cardinality(U)
          BY <1>2, <2>5, FS_Subset
        <4>. QED
          BY <4>1, <4>2, <4>3
      <3>3. Cardinality(A) \in Nat /\ Cardinality(B) \in Nat
        BY <2>5, FS_CardinalityType
      <3>. QED
        BY <1>3, <1>4, <2>3, <3>1, <3>2, <3>3 DEF Monus, MaxOf, MinOf
    <2>7. \A s \in S : Cardinality(B \cap UnsyncedOf(s)) >=
                         MinOf(Cardinality(UnsyncedOf(s)), share)
      <3>1. TAKE s \in S
      <3> DEFINE C == {r \in A : rows[r].source = s}
      <3>2. C \in SUBSET (B \cap UnsyncedOf(s)) /\ IsFiniteSet(B \cap UnsyncedOf(s))
        <4>1. C \subseteq B \cap UnsyncedOf(s)
          BY <2>1, <2>5 DEF UnsyncedOf
        <4>2. B \cap UnsyncedOf(s) \in SUBSET B
          OBVIOUS
        <4>. QED
          BY <2>5, <4>1, <4>2, FS_Subset
      <3>3. Cardinality(C) = MinOf(share, Cardinality(UnsyncedOf(s)))
        BY <2>4
      <3> HIDE DEF C
      <3>4. Cardinality(C) <= Cardinality(B \cap UnsyncedOf(s))
        BY <3>2, FS_Subset
      <3>5. MinOf(share, Cardinality(UnsyncedOf(s))) = MinOf(Cardinality(UnsyncedOf(s)), share)
        BY <1>4 DEF MinOf
      <3>6. Cardinality(C) \in Nat /\ Cardinality(B \cap UnsyncedOf(s)) \in Nat
        BY <3>2, FS_Subset, FS_CardinalityType
      <3>. QED
        BY <3>3, <3>4, <3>5, <3>6
    <2>. QED
      BY <1>3, <2>6, <2>7
  <1>. QED
    BY <1>5, <1>6

(* In every batch of the daemon a source has its even share of the slots   *)
(* or all its rows, and none is wasted (fetchUnsyncedFair).                *)
THEOREM BatchesAreFair == BufferSpec => []FairShare
<1>1. BufferTypeOK => FairShare
  BY FairBatches DEF FairShare
<1>. QED
  BY <1>1, BufferTyped, PTL
=============================================================================
