-------------------------- MODULE IngestQueueProofs --------------------------
(***************************************************************************)
(* Proofs about IngestQueue: what its steps do to the buffer are steps of  *)
(* the buffer, a content is written once per life of the process and dedup *)
(* window, no event leaves the queue without a verdict, and the queue      *)
(* implements EventDelivery.                                               *)
(***************************************************************************)
EXTENDS IngestQueue, EventBufferProofs, SequenceTheorems, TLAPS

-----------------------------------------------------------------------------
(* Every step is a step of the buffer *)

LEMMA IngestStepOnBuffer ==
  ASSUME [IngestNext]_ingestVars
  PROVE  [BufferNext]_bufferVars
  <1>1. ASSUME NEW batch \in Batches, Poll(batch) \/ Post(batch)
        PROVE  BufferNext
    BY <1>1 DEF Poll, Post, BufferNext
  <1>2. CASE DaemonCycle
    BY <1>2, DaemonAssumption DEF DaemonCycle, StartCycle, BufferNext
  <1>3. ASSUME NEW c \in Consumer, ToolCycle(c)
        PROVE  BufferNext
    BY <1>3 DEF ToolCycle, StartCycle, BufferNext
  <1>4. CASE Ingest \/ BeginInFreshWindow \/ HashesExpire
    BY <1>4 DEF Ingest, BeginInFreshWindow, HashesExpire, Begin, Judge, Conclude, Return
  <1>5. ASSUME NEW c \in Consumer, SettleCycle(c) \/ FailCycle(c)
        PROVE  BufferNext
    <2>1. ASSUME NEW done, NEW failed, Settle(c, done, failed)
          PROVE  BufferNext
      <3>1. done \in SUBSET handed[c] /\ failed \in SUBSET handed[c]
        BY <2>1 DEF Settle
      <3>. QED
        BY <2>1, <3>1 DEF BufferNext
    <2>2. EndCycle(c) => BufferNext
      BY DEF BufferNext
    <2>. QED
      BY <1>5, <2>1, <2>2 DEF SettleCycle, FailCycle
  <1>6. CASE Crash \/ \E batch \in Batches : CrashInPush(batch)
    BY <1>6 DEF Crash, CrashInPush, BufferNext
  <1>7. ASSUME NEW k \in MasterKey, Restart(k)
        PROVE  BufferNext
    BY <1>7 DEF Restart, BufferNext
  <1>8. CASE Retire
    BY <1>8 DEF Retire, BufferNext
  <1>9. CASE UNCHANGED ingestVars
    BY <1>9 DEF ingestVars
  <1>. QED
    BY <1>1, <1>2, <1>3, <1>4, <1>5, <1>6, <1>7, <1>8, <1>9 DEF IngestNext

(* Whatever the consumers and the pipeline do is something the buffer      *)
(* allows, so what is proved of the buffer holds here.                     *)
THEOREM IngestIsABuffer == IngestSpec => BufferSpec
<1>1. IngestInit => BufferInit
  BY DEF IngestInit
<1>. QED
  BY <1>1, IngestStepOnBuffer, PTL DEF IngestSpec, BufferSpec

-----------------------------------------------------------------------------
(* The chain *)

WorkItem == Nat \X Event
Work ==
  [by : {{}} \cup {{c} : c \in Consumer}, begun : BOOLEAN, todo : SUBSET WorkItem,
   at : SUBSET WorkItem, done : SUBSET Nat, failed : SUBSET Nat]

(* Only the first batch is worked on: it alone can be awaiting a search. *)
ChainOK ==
  /\ chain \in Seq(Work)
  /\ \A i \in DOMAIN chain : chain[i].at # {} => i = 1

LEMMA AppendedChain ==
  ASSUME ChainOK, NEW by \in {{}} \cup {{c} : c \in Consumer},
         NEW items \in SUBSET WorkItem, chain' = Append(chain, NewBatch(by, items))
  PROVE  /\ ChainOK'
         /\ DOMAIN chain' = DOMAIN chain \cup {Len(chain) + 1}
         /\ \A i \in DOMAIN chain : chain'[i] = chain[i]
         /\ chain'[Len(chain) + 1] = NewBatch(by, items)
  <1>1. NewBatch(by, items) \in Work
    BY DEF NewBatch, Work
  <1>2. chain' \in Seq(Work)
    BY <1>1 DEF ChainOK
  <1>3. /\ DOMAIN chain' = DOMAIN chain \cup {Len(chain) + 1}
        /\ \A i \in DOMAIN chain : chain'[i] = chain[i]
        /\ chain'[Len(chain) + 1] = NewBatch(by, items)
    BY <1>1 DEF ChainOK
  <1>. QED
    BY <1>2, <1>3 DEF ChainOK, NewBatch

LEMMA HeadDroppedChain ==
  ASSUME ChainOK, 1 \in DOMAIN chain, chain' = RemoveAt(chain, 1)
  PROVE  /\ ChainOK'
         /\ \A i \in DOMAIN chain' : i + 1 \in DOMAIN chain /\ chain'[i] = chain[i + 1]
  <1> DEFINE n == Len(chain)
             rest == SubSeq(chain, 2, n)
  <1>1. chain \in Seq(Work) /\ n \in Nat \ {0} /\ DOMAIN chain = 1 .. n
    BY LenProperties DEF ChainOK
  <1>2. \A i \in 1 .. n : chain[i] \in Work
    BY <1>1
  <1>3. /\ rest \in Seq(Work)
        /\ Len(rest) = n - 1
        /\ \A i \in 1 .. n - 1 : rest[i] = chain[i + 1]
    <2>1. \A i \in 2 .. n : chain[i] \in Work
      BY <1>1, <1>2
    <2>2. /\ rest \in Seq(Work)
          /\ Len(rest) = IF 2 <= n THEN n - 2 + 1 ELSE 0
          /\ \A i \in 1 .. n - 2 + 1 : rest[i] = chain[2 + i - 1]
      <3>. HIDE DEF n
      <3>. QED
        BY <1>1, <2>1, SubSeqProperties DEF rest
    <2>. HIDE DEF n, rest
    <2>3. n - 2 + 1 = n - 1 /\ \A i \in 1 .. n - 1 : 2 + i - 1 = i + 1
      BY <1>1
    <2>. QED
      BY <1>1, <2>2, <2>3
  <1>4. chain' = rest
    <2>1. SubSeq(chain, 1, 0) = <<>>
      BY SubSeqEmpty
    <2>2. chain' = SubSeq(chain, 1, 0) \o rest
      BY DEF RemoveAt
    <2>. HIDE DEF rest
    <2>. QED
      BY <1>3, <2>1, <2>2, ConcatEmptySeq
  <1>5. chain' \in Seq(Work) /\ DOMAIN chain' = 1 .. n - 1
    BY <1>3, <1>4, LenProperties
  <1> HIDE DEF n, rest
  <1>6. \A i \in DOMAIN chain' :
          /\ i + 1 \in DOMAIN chain
          /\ i + 1 # 1
          /\ chain'[i] = chain[i + 1]
    BY <1>1, <1>3, <1>4, <1>5
  <1>7. \A i \in DOMAIN chain' : chain'[i].at = {}
    BY <1>6 DEF ChainOK
  <1>. QED
    BY <1>5, <1>6, <1>7 DEF ChainOK

(* A step that updates the head leaves the other batches alone. *)
LEMMA HeadChangedChain ==
  ASSUME ChainOK, 1 \in DOMAIN chain, NEW b \in Work, chain' = [chain EXCEPT ![1] = b]
  PROVE  /\ ChainOK'
         /\ DOMAIN chain' = DOMAIN chain
         /\ chain'[1] = b
         /\ \A i \in DOMAIN chain \ {1} : chain'[i] = chain[i]
  <1>1. /\ chain' \in Seq(Work)
        /\ DOMAIN chain' = DOMAIN chain
        /\ chain'[1] = b
        /\ \A i \in DOMAIN chain \ {1} : chain'[i] = chain[i]
    BY DEF ChainOK
  <1>. QED
    BY <1>1 DEF ChainOK

-----------------------------------------------------------------------------
(* Written once *)

LogTypes ==
  /\ lapses \in Nat
  /\ log \in [Key -> Nat]
  /\ seen \subseteq Key /\ seenOnDisk \subseteq Key

(* A closed process has no batches and no hashes; an open one remembers    *)
(* what is in the sidecar.                                                 *)
MemoryOK ==
  /\ ~open => chain = <<>> /\ seen = {}
  /\ open => seenOnDisk \subseteq seen

(* The event being searched for has not been accepted meanwhile: only the  *)
(* batch at the head of the chain accepts any.                             *)
SearchedUnseen == \A i \in DOMAIN chain : \A p \in chain[i].at : KeyOf(p[2]) \notin seen

(* Without its hash, a content has been written only before the last lapse. *)
WrittenBefore ==
  \A k \in Key : log[k] <= 1 + lapses /\ (k \notin seen => log[k] <= lapses)

DedupInv == ChainOK /\ LogTypes /\ MemoryOK /\ SearchedUnseen /\ WrittenBefore

LEMMA KeyOfEvent == \A e \in Event : KeyOf(e) \in Key
  BY DEF KeyOf, Key, Event

LEMMA InitDedup == IngestInit => DedupInv
  <1> SUFFICES ASSUME IngestInit PROVE DedupInv
    OBVIOUS
  <1>1. chain = <<>> /\ chain \in Seq(Work) /\ DOMAIN chain = {}
    BY DEF IngestInit
  <1>2. ChainOK /\ SearchedUnseen
    BY <1>1 DEF ChainOK, SearchedUnseen
  <1>3. LogTypes /\ MemoryOK /\ WrittenBefore
    BY DEF IngestInit, BufferInit, LogTypes, MemoryOK, WrittenBefore
  <1>. QED
    BY <1>2, <1>3 DEF DedupInv

(* Steps that leave the chain alone, or bring a batch into it. *)
LEMMA ArrivalKeepsDedup ==
  ASSUME DedupInv, UNCHANGED <<open, seen, seenOnDisk, log, lapses>>,
         \/ UNCHANGED chain
         \/ /\ open
            /\ \E by \in {{}} \cup {{c} : c \in Consumer} : \E items \in SUBSET WorkItem :
                 chain' = Append(chain, NewBatch(by, items))
  PROVE  DedupInv'
  <1>1. LogTypes' /\ WrittenBefore' /\ MemoryOK'
    BY DEF DedupInv, LogTypes, WrittenBefore, MemoryOK
  <1>2. CASE UNCHANGED chain
    BY <1>1, <1>2 DEF DedupInv, ChainOK, SearchedUnseen
  <1>3. ASSUME NEW by \in {{}} \cup {{c} : c \in Consumer}, NEW items \in SUBSET WorkItem,
               chain' = Append(chain, NewBatch(by, items))
        PROVE  DedupInv'
    <2>1. /\ ChainOK'
          /\ DOMAIN chain' = DOMAIN chain \cup {Len(chain) + 1}
          /\ \A i \in DOMAIN chain : chain'[i] = chain[i]
          /\ chain'[Len(chain) + 1].at = {}
      BY <1>3, AppendedChain DEF DedupInv, NewBatch
    <2>2. SearchedUnseen'
      BY <2>1 DEF DedupInv, SearchedUnseen
    <2>. QED
      BY <1>1, <2>1, <2>2 DEF DedupInv
  <1>. QED
    BY <1>2, <1>3

LEMMA PollKeepsDedup ==
  ASSUME DedupInv, NEW batch \in Batches, Poll(batch)
  PROVE  DedupInv'
  BY ArrivalKeepsDedup DEF Poll, PushBatch, pipelineVars

LEMMA PostKeepsDedup ==
  ASSUME DedupInv, NEW batch \in Batches, Post(batch)
  PROVE  DedupInv'
  <1> DEFINE items == {<<NoRowid, e>> : e \in batch}
  <1>1. items \in SUBSET WorkItem
    BY DEF Batches, WorkItem, NoRowid
  <1>2. /\ open
        /\ chain' = Append(chain, NewBatch({}, items))
        /\ UNCHANGED <<open, seen, seenOnDisk, log, lapses>>
    BY DEF Post, PushBatch
  <1> HIDE DEF items
  <1>. QED
    BY <1>1, <1>2, ArrivalKeepsDedup

(* The items of a cycle carry the rowids and the events of their rows. *)
LEMMA FetchedItems ==
  ASSUME BufferTypeOK, NEW B \in SUBSET UnsyncedRows
  PROVE  {<<r, EventOf(r)>> : r \in {b \in B : Decrypts(b)}} \in SUBSET WorkItem
  <1>1. ASSUME NEW r \in B PROVE r \in Nat /\ r \in DOMAIN rows /\ rows[r] \in Row
    BY DEF UnsyncedRows, WithStatus, BufferTypeOK
  <1>2. ASSUME NEW r \in B PROVE EventOf(r) \in Event
    BY <1>1 DEF EventOf, Event, Row
  <1>. QED
    BY <1>1, <1>2 DEF WorkItem

LEMMA StartCycleKeepsDedup ==
  ASSUME DedupInv, BufferTypeOK, NEW c \in Consumer, NEW B \in SUBSET UnsyncedRows,
         StartCycle(c, B)
  PROVE  DedupInv'
  <1> DEFINE items == {<<r, EventOf(r)>> : r \in {b \in B : Decrypts(b)}}
  <1>1. items \in SUBSET WorkItem
    BY FetchedItems
  <1>2. /\ open
        /\ chain' = chain \/ chain' = Append(chain, NewBatch({c}, items))
        /\ UNCHANGED <<open, seen, seenOnDisk, log, lapses>>
    BY DEF StartCycle, Fetch
  <1> HIDE DEF items
  <1>. QED
    BY <1>1, <1>2, ArrivalKeepsDedup

(* The pipeline's batch is the head of the chain. *)
LEMMA RunningIsHead ==
  ASSUME ChainOK, NEW i \in Running
  PROVE  /\ i = 1
         /\ 1 \in DOMAIN chain
         /\ chain[1] \in Work
  <1>1. i = 1 /\ 1 \in DOMAIN chain
    BY DEF Running
  <1>. QED
    BY <1>1 DEF ChainOK

(* The head moves on, what is being searched for stays or is unseen. *)
LEMMA HeadKeepsDedup ==
  ASSUME DedupInv, 1 \in DOMAIN chain, NEW b \in Work, chain' = [chain EXCEPT ![1] = b],
         \A p \in b.at : KeyOf(p[2]) \notin seen,
         UNCHANGED <<open, seen, seenOnDisk, log, lapses>>
  PROVE  DedupInv'
  <1>1. /\ ChainOK'
        /\ DOMAIN chain' = DOMAIN chain
        /\ chain'[1] = b
        /\ \A i \in DOMAIN chain \ {1} : chain'[i] = chain[i]
    BY HeadChangedChain DEF DedupInv
  <1>2. open
    BY DEF DedupInv, MemoryOK
  <1>3. SearchedUnseen'
    BY <1>1 DEF DedupInv, SearchedUnseen
  <1>. QED
    BY <1>1, <1>2, <1>3 DEF DedupInv, LogTypes, MemoryOK, WrittenBefore

LEMMA BeginKeepsDedup ==
  ASSUME DedupInv, NEW i \in Running, NEW window, Begin(i, window)
  PROVE  DedupInv'
  <1> DEFINE b == [chain[1] EXCEPT !.begun = TRUE]
  <1>1. i = 1 /\ 1 \in DOMAIN chain /\ chain[1] \in Work
    BY RunningIsHead DEF DedupInv
  <1>2. b \in Work /\ b.at = chain[1].at
    BY <1>1 DEF Work
  <1>3. chain' = [chain EXCEPT ![1] = b]
    BY <1>1 DEF Begin
  <1>4. \A p \in b.at : KeyOf(p[2]) \notin seen
    BY <1>1, <1>2 DEF DedupInv, SearchedUnseen
  <1>5. UNCHANGED <<open, seen, seenOnDisk, log, lapses>>
    BY DEF Begin, bufferVars
  <1> HIDE DEF b
  <1>. QED
    BY <1>1, <1>2, <1>3, <1>4, <1>5, HeadKeepsDedup

LEMMA JudgeKeepsDedup ==
  ASSUME DedupInv, NEW i \in Running, Judge(i)
  PROVE  DedupInv'
  <1>1. i = 1 /\ 1 \in DOMAIN chain /\ chain[1] \in Work /\ chain[1].at = {}
    BY RunningIsHead DEF DedupInv, Judge, Reading
  <1>2. UNCHANGED <<open, seen, seenOnDisk, log, lapses>>
    BY DEF Judge, bufferVars
  <1>3. PICK p \in chain[1].todo :
          Dismiss(1, p) \/ Defer(1, p) \/ Duplicate(1, p) \/ Search(1, p)
    BY <1>1 DEF Judge
  <1>4. p \in WorkItem /\ p[1] \in Nat
    BY <1>1, <1>3 DEF Work, WorkItem
  <1>5. CASE Dismiss(1, p) \/ Duplicate(1, p)
    <2> DEFINE b == [chain[1] EXCEPT !.todo = @ \ {p}, !.done = @ \cup {p[1]}]
    <2>1. b \in Work /\ b.at = {}
      BY <1>1, <1>4 DEF Work
    <2>2. chain' = [chain EXCEPT ![1] = b]
      BY <1>5 DEF Dismiss, Duplicate
    <2> HIDE DEF b
    <2>. QED
      BY <1>1, <1>2, <2>1, <2>2, HeadKeepsDedup
  <1>6. CASE Defer(1, p)
    <2> DEFINE b == [chain[1] EXCEPT !.todo = @ \ {p}]
    <2>1. b \in Work /\ b.at = {}
      BY <1>1 DEF Work
    <2>2. chain' = [chain EXCEPT ![1] = b]
      BY <1>6 DEF Defer
    <2> HIDE DEF b
    <2>. QED
      BY <1>1, <1>2, <2>1, <2>2, HeadKeepsDedup
  <1>7. CASE Search(1, p)
    <2> DEFINE b == [chain[1] EXCEPT !.todo = @ \ {p}, !.at = {p}]
    <2>1. b \in Work /\ b.at = {p}
      BY <1>1, <1>4 DEF Work
    <2>2. chain' = [chain EXCEPT ![1] = b]
      BY <1>7 DEF Search
    <2>3. KeyOf(p[2]) \notin seen
      BY <1>7 DEF Search
    <2> HIDE DEF b
    <2>. QED
      BY <1>1, <1>2, <2>1, <2>2, <2>3, HeadKeepsDedup
  <1>. QED
    BY <1>3, <1>5, <1>6, <1>7

(* The verdict on an event whose content is unseen: it is written at most  *)
(* once, and then its hash is there.                                       *)
LEMMA ConcludeKeepsDedup ==
  ASSUME DedupInv, NEW i \in Running, Conclude(i)
  PROVE  DedupInv'
  <1>1. i = 1 /\ 1 \in DOMAIN chain /\ chain[1] \in Work
    BY RunningIsHead DEF DedupInv
  <1>2. PICK p \in chain[i].at, ok \in BOOLEAN :
          /\ chain' = [chain EXCEPT ![i].at = {},
                                    ![i].done = IF ok THEN @ \cup {p[1]} ELSE @,
                                    ![i].failed = IF ok THEN @ ELSE @ \cup {p[1]}]
          /\ seen' = Recorded(p, ok)
          /\ IF ok
             THEN /\ Spend(p[2])
                  /\ \/ log' = [log EXCEPT ![KeyOf(p[2])] = @ + 1]
                     \/ InMemory(KeyOf(p[2])) /\ UNCHANGED log
             ELSE UNCHANGED <<spent, log>>
    BY Zenon DEF Conclude
  <1>3. UNCHANGED <<open, seenOnDisk, lapses>>
    BY DEF Conclude, bufferVars
  <1>4. p[1] \in Nat /\ p[2] \in Event
    BY <1>1, <1>2 DEF Work, WorkItem
  <1>5. KeyOf(p[2]) \in Key /\ KeyOf(p[2]) \notin seen
    BY <1>1, <1>2, <1>4, KeyOfEvent DEF DedupInv, SearchedUnseen
  <1> DEFINE b == [chain[1] EXCEPT !.at = {},
                                   !.done = IF ok THEN @ \cup {p[1]} ELSE @,
                                   !.failed = IF ok THEN @ ELSE @ \cup {p[1]}]
             k == KeyOf(p[2])
  <1>6. b \in Work /\ b.at = {}
    BY <1>1, <1>4 DEF Work
  <1>7. chain' = [chain EXCEPT ![1] = b]
    BY <1>1, <1>2
  <1> HIDE DEF b
  <1>8. /\ ChainOK'
        /\ DOMAIN chain' = DOMAIN chain
        /\ \A j \in DOMAIN chain' : chain'[j].at = {}
    <2>1. /\ ChainOK'
          /\ DOMAIN chain' = DOMAIN chain
          /\ chain'[1] = b
          /\ \A j \in DOMAIN chain \ {1} : chain'[j] = chain[j]
      BY <1>1, <1>6, <1>7, HeadChangedChain DEF DedupInv
    <2>. QED
      BY <1>6, <2>1 DEF DedupInv, ChainOK
  <1>9. open
    BY <1>1 DEF DedupInv, MemoryOK
  <1>10. seen \subseteq seen' /\ seen' \subseteq Key /\ (ok => k \in seen')
    BY <1>2, <1>5 DEF Recorded, DedupInv, LogTypes
  <1>11. WrittenBefore' /\ log' \in [Key -> Nat]
    <2>1. /\ log[k] <= lapses /\ lapses \in Nat /\ log \in [Key -> Nat]
          /\ \A q \in Key : log[q] <= 1 + lapses /\ (q \notin seen => log[q] <= lapses)
      BY <1>5 DEF DedupInv, LogTypes, WrittenBefore
    <2>2. CASE UNCHANGED log
      BY <1>3, <1>10, <2>1, <2>2 DEF WrittenBefore
    <2>3. CASE ok /\ log' = [log EXCEPT ![k] = @ + 1]
      <3>1. log' \in [Key -> Nat] /\ log'[k] = log[k] + 1 /\ k \in Key
        BY <1>5, <2>1, <2>3
      <3>2. \A q \in Key \ {k} : log'[q] = log[q]
        BY <2>1, <2>3
      <3> HIDE DEF k
      <3>3. log'[k] <= 1 + lapses'
        BY <1>3, <2>1, <3>1
      <3>4. \A q \in Key \ {k} : log'[q] <= 1 + lapses' /\ (q \notin seen' => log'[q] <= lapses')
        BY <1>3, <1>10, <2>1, <3>2
      <3>. QED
        BY <1>10, <2>3, <3>1, <3>3, <3>4 DEF WrittenBefore
    <2>. QED
      BY <1>2, <2>2, <2>3
  <1>12. LogTypes' /\ MemoryOK'
    BY <1>3, <1>9, <1>10, <1>11 DEF DedupInv, LogTypes, MemoryOK
  <1>13. SearchedUnseen'
    BY <1>8 DEF SearchedUnseen
  <1>. QED
    BY <1>8, <1>11, <1>12, <1>13 DEF DedupInv

LEMMA ReturnKeepsDedup ==
  ASSUME DedupInv, NEW i \in Running, Return(i)
  PROVE  DedupInv'
  <1>1. i = 1 /\ 1 \in DOMAIN chain
    BY RunningIsHead DEF DedupInv
  <1>2. /\ chain' = RemoveAt(chain, 1)
        /\ seenOnDisk' = seen \/ seenOnDisk' = seenOnDisk
        /\ UNCHANGED <<open, seen, log, lapses>>
    BY <1>1 DEF Return, bufferVars
  <1>3. /\ ChainOK'
        /\ \A j \in DOMAIN chain' : j + 1 \in DOMAIN chain /\ chain'[j] = chain[j + 1]
    BY <1>1, <1>2, HeadDroppedChain DEF DedupInv
  <1>4. SearchedUnseen'
    BY <1>2, <1>3 DEF DedupInv, SearchedUnseen
  <1>5. LogTypes' /\ MemoryOK' /\ WrittenBefore'
    <2>1. open
      BY <1>1 DEF DedupInv, MemoryOK
    <2>. QED
      BY <1>2, <2>1 DEF DedupInv, LogTypes, MemoryOK, WrittenBefore
  <1>. QED
    BY <1>3, <1>4, <1>5 DEF DedupInv

LEMMA SettlingKeepsDedup ==
  ASSUME DedupInv, NEW c \in Consumer, SettleCycle(c) \/ FailCycle(c)
  PROVE  DedupInv'
  <1>1. UNCHANGED <<chain, seen, seenOnDisk, log, lapses>>
    BY DEF SettleCycle, FailCycle
  <1>2. UNCHANGED open
    BY DEF SettleCycle, FailCycle, Settle, EndCycle
  <1>. QED
    BY <1>1, <1>2, ArrivalKeepsDedup

LEMMA EmptyChain == chain' = <<>> => ChainOK' /\ SearchedUnseen'
  <1>1. <<>> \in Seq(Work) /\ DOMAIN <<>> = {}
    OBVIOUS
  <1>. QED
    BY <1>1 DEF ChainOK, SearchedUnseen

(* A restart is a lapse: what was written before it may be written again. *)
LEMMA CrashKeepsDedup ==
  ASSUME DedupInv, Crash \/ \E batch \in Batches : CrashInPush(batch)
  PROVE  DedupInv'
  <1>1. /\ ~open' /\ chain' = <<>> /\ seen' = {}
        /\ lapses' = lapses + 1
        /\ UNCHANGED <<seenOnDisk, log>>
    BY DEF Crash, CrashInPush, Close, PushTorn, ForgetMemory
  <1>2. LogTypes' /\ MemoryOK'
    BY <1>1 DEF DedupInv, LogTypes, MemoryOK
  <1>3. WrittenBefore'
    <2>1. \A k \in Key : log'[k] <= lapses' /\ log'[k] <= 1 + lapses'
      BY <1>1 DEF DedupInv, LogTypes, WrittenBefore
    <2>. QED
      BY <2>1 DEF WrittenBefore
  <1>. QED
    BY <1>1, <1>2, <1>3, EmptyChain DEF DedupInv

LEMMA RestartKeepsDedup ==
  ASSUME DedupInv, NEW k \in MasterKey, Restart(k)
  PROVE  DedupInv'
  <1>1. /\ ~open /\ open'
        /\ seen' = seenOnDisk
        /\ UNCHANGED <<chain, seenOnDisk, log, lapses>>
    BY DEF Restart, Open, Loaded
  <1>2. chain = <<>> /\ seen = {}
    BY <1>1 DEF DedupInv, MemoryOK
  <1>3. WrittenBefore'
    BY <1>1, <1>2 DEF DedupInv, WrittenBefore
  <1>4. LogTypes' /\ MemoryOK'
    BY <1>1 DEF DedupInv, LogTypes, MemoryOK
  <1>. QED
    BY <1>1, <1>2, <1>3, <1>4, EmptyChain DEF DedupInv

LEMMA ExpiryKeepsDedup ==
  ASSUME DedupInv, HashesExpire
  PROVE  DedupInv'
  <1>1. PICK old : seen' = seen \ old /\ seenOnDisk' = seenOnDisk \ old
    BY DEF HashesExpire
  <1>2. lapses' = lapses + 1 /\ UNCHANGED <<open, chain, log>>
    BY DEF HashesExpire, bufferVars
  <1>3. LogTypes' /\ MemoryOK' /\ SearchedUnseen' /\ ChainOK'
    BY <1>1, <1>2 DEF DedupInv, LogTypes, MemoryOK, SearchedUnseen, ChainOK
  <1>4. WrittenBefore'
    <2>1. \A k \in Key : log'[k] <= lapses' /\ log'[k] <= 1 + lapses'
      BY <1>2 DEF DedupInv, LogTypes, WrittenBefore
    <2>. QED
      BY <2>1 DEF WrittenBefore
  <1>. QED
    BY <1>3, <1>4 DEF DedupInv

LEMMA StepKeepsDedup ==
  ASSUME DedupInv, BufferTypeOK, [IngestNext]_ingestVars
  PROVE  DedupInv'
  <1>1. CASE DaemonCycle
    BY <1>1, StartCycleKeepsDedup, FetchRowids, DaemonAssumption DEF DaemonCycle
  <1>2. ASSUME NEW c \in Consumer, ToolCycle(c)
        PROVE  DedupInv'
    BY <1>2, StartCycleKeepsDedup, FetchRowids DEF ToolCycle
  <1>3. CASE Ingest
    BY <1>3, BeginKeepsDedup, JudgeKeepsDedup, ConcludeKeepsDedup, ReturnKeepsDedup
       DEF Ingest
  <1>4. CASE BeginInFreshWindow
    BY <1>4, BeginKeepsDedup DEF BeginInFreshWindow
  <1>5. CASE Retire \/ UNCHANGED ingestVars
    <2>1. UNCHANGED <<open, chain, seen, seenOnDisk, log, lapses>>
      BY <1>5 DEF Retire, cleanup, Tick, ingestVars, bufferVars, pipelineVars
    <2>. QED
      BY <2>1, ArrivalKeepsDedup
  <1>. QED
    BY <1>1, <1>2, <1>3, <1>4, <1>5, PollKeepsDedup, PostKeepsDedup, SettlingKeepsDedup,
       CrashKeepsDedup, RestartKeepsDedup, ExpiryKeepsDedup
       DEF IngestNext

LEMMA Dedup == IngestSpec => [](BufferTypeOK /\ DedupInv)
<1>1. IngestSpec => []BufferTypeOK
  BY IngestIsABuffer, BufferTyped, PTL
<1>2. DedupInv /\ BufferTypeOK /\ [IngestNext]_ingestVars => DedupInv'
  BY StepKeepsDedup
<1>. QED
  BY <1>1, <1>2, InitDedup, PTL DEF IngestSpec

(* A content is written at most once per lapse, and once: however many     *)
(* cycles, posts and retries bring its events to the pipeline, only a      *)
(* restart or the end of the dedup window lets it be written again.        *)
THEOREM ContentsAreWrittenOnce == IngestSpec => []WrittenOnce
<1>1. DedupInv => WrittenOnce
  BY DEF DedupInv, WrittenBefore, WrittenOnce
<1>. QED
  BY <1>1, Dedup, PTL

(* A content whose hash is in the sidecar is not written: the open process *)
(* remembers all of the sidecar, and writes only what it does not remember. *)
THEOREM RememberedStays == IngestSpec => RememberedNotRewritten
<1>1. BufferTypeOK /\ DedupInv /\ [IngestNext]_ingestVars =>
        [\A k \in seenOnDisk : log'[k] = log[k]]_ingestVars
  <2> SUFFICES ASSUME DedupInv, [IngestNext]_ingestVars, NEW k \in seenOnDisk
               PROVE  log'[k] = log[k]
    OBVIOUS
  <2>1. ASSUME NEW i \in Running, Conclude(i)
        PROVE  log'[k] = log[k]
    <3>1. i \in DOMAIN chain /\ open
      BY RunningIsHead DEF DedupInv, Running, MemoryOK
    <3>2. PICK p \in chain[i].at :
            \/ log' = [log EXCEPT ![KeyOf(p[2])] = @ + 1]
            \/ UNCHANGED log
      BY <2>1, Zenon DEF Conclude
    <3>3. KeyOf(p[2]) \notin seen /\ k \in seen
      BY <3>1, <3>2 DEF DedupInv, SearchedUnseen, MemoryOK
    <3>. QED
      BY <3>2, <3>3 DEF DedupInv, LogTypes
  <2>2. CASE UNCHANGED log
    BY <2>2
  <2>3. UNCHANGED log \/ \E i \in Running : Conclude(i)
    BY DEF IngestNext, ingestVars, pipelineVars, Poll, Post, DaemonCycle, ToolCycle, StartCycle,
           Ingest, Begin, Judge, Return, BeginInFreshWindow, SettleCycle, FailCycle,
           Crash, CrashInPush, ForgetMemory, Restart, HashesExpire, Retire
  <2>. QED
    BY <2>1, <2>2, <2>3
<1>. QED
  BY <1>1, Dedup, PTL DEF IngestSpec, RememberedNotRewritten

-----------------------------------------------------------------------------
(* No event leaves the queue without a verdict.                            *)
(*                                                                         *)
(* A rowid travels from the fetch through a batch and its outcomes to the  *)
(* settling transaction, while rows are evicted, deleted, inserted, and    *)
(* settled by other consumers.  The invariant follows it on this way.      *)

(* What NoSilentLoss asks, and what the way of a rowid relies on, of a     *)
(* table rs with the next rowid n and the log lg.                          *)
Remembered(lg, k) == lg[k] > 0 \/ k[2] \in Known

Decided(rs, lg, r) == Remembered(lg, KeyOf(rs[r])) \/ rs[r].id \in LowValue

(* The rows of D that are still there have a verdict. *)
Judged(rs, n, lg, D) ==
  \A r \in D : r \in Nat /\ r < n /\ (r \in DOMAIN rs => Decided(rs, lg, r))

(* The rowid of a work item, while it is in the table, is that of its event. *)
Named(rs, n, p) == p[1] < n /\ (p[1] \in DOMAIN rs => SameEvent(rs[p[1]], p[2]))

RememberedOK == \A k \in seen \cup seenOnDisk : Remembered(log, k)

BatchesOK ==
  \A i \in DOMAIN chain :
    /\ \A p \in chain[i].todo \cup chain[i].at : Named(rows, nextRowid, p)
    /\ Judged(rows, nextRowid, log, chain[i].done)

OutcomesOK ==
  /\ outcomes \in [Consumer -> [ready : BOOLEAN, done : SUBSET Nat, failed : SUBSET Nat]]
  /\ \A c \in Consumer : Judged(rows, nextRowid, log, outcomes[c].done)

VerdictInv == RememberedOK /\ BatchesOK /\ OutcomesOK /\ NoSilentLoss

-----------------------------------------------------------------------------
(* What every step keeps *)

LogGrows == LogTypes /\ LogTypes' /\ \A k \in Key : log[k] <= log'[k]

LEMMA StepGrowsLog ==
  ASSUME LogTypes, LogTypes', [IngestNext]_ingestVars
  PROVE  LogGrows
  <1>1. ASSUME NEW i \in Running, Conclude(i), NEW k \in Key
        PROVE  log[k] <= log'[k]
    <2>1. PICK p \in chain[i].at :
            \/ log' = [log EXCEPT ![KeyOf(p[2])] = @ + 1]
            \/ UNCHANGED log
      BY <1>1, Zenon DEF Conclude
    <2>. QED
      BY <2>1 DEF LogTypes
  <1>2. UNCHANGED log => \A k \in Key : log[k] <= log'[k]
    BY DEF LogTypes
  <1>3. UNCHANGED log \/ \E i \in Running : Conclude(i)
    BY DEF IngestNext, ingestVars, pipelineVars, Poll, Post, DaemonCycle, ToolCycle, StartCycle,
           Ingest, Begin, Judge, Return, BeginInFreshWindow, SettleCycle, FailCycle,
           Crash, CrashInPush, ForgetMemory, Restart, HashesExpire, Retire
  <1>. QED
    BY <1>1, <1>2, <1>3 DEF LogGrows

RowsKept ==
  /\ nextRowid \in Nat /\ nextRowid' \in Nat
  /\ nextRowid <= nextRowid'
  /\ DOMAIN rows' \subseteq Nat \ {0}
  /\ \A r \in DOMAIN rows : rows[r] \in Row
  /\ \A r \in DOMAIN rows' :
       IF r \in DOMAIN rows THEN SameEvent(rows'[r], rows[r]) ELSE r >= nextRowid

LEMMA StepKeepsRows ==
  ASSUME BufferTypeOK, BufferTypeOK', [BufferNext]_bufferVars
  PROVE  RowsKept
  <1>1. nextRowid <= nextRowid'
    <2>1. ASSUME NEW batch \in Batches, PushBatch(batch) \/ PushTorn(batch)
          PROVE  nextRowid <= nextRowid'
      <3>1. PICK F \in Insertions(batch) : nextRowid' = nextRowid + Cardinality(F)
        BY <2>1, PushedRows
      <3>. QED
        BY <3>1, InsertionFinite DEF BufferTypeOK
    <2>2. Quiet => nextRowid <= nextRowid'
      BY DEF Quiet, BufferTypeOK
    <2>. QED
      BY <2>1, <2>2, StepCases
  <1>2. nextRowid \in Nat /\ nextRowid' \in Nat /\ DOMAIN rows' \subseteq Nat \ {0}
        /\ \A r \in DOMAIN rows : rows[r] \in Row
    BY DEF BufferTypeOK
  <1>. QED
    BY <1>1, <1>2, IdentityStep DEF RowsKept

(* A verdict stays one, and a work item keeps its name. *)
LEMMA DecidedKept ==
  ASSUME RowsKept, LogGrows, NEW r \in DOMAIN rows', r \in DOMAIN rows, Decided(rows, log, r)
  PROVE  Decided(rows', log', r)
  <1>1. rows'[r].source = rows[r].source /\ rows'[r].id = rows[r].id
    BY DEF RowsKept, SameEvent
  <1>2. KeyOf(rows[r]) \in Key
    BY DEF RowsKept, Row, Key, KeyOf
  <1>3. KeyOf(rows'[r]) = KeyOf(rows[r])
    BY <1>1 DEF KeyOf
  <1>4. Remembered(log, KeyOf(rows[r])) => Remembered(log', KeyOf(rows[r]))
    BY <1>2 DEF LogGrows, LogTypes, Remembered
  <1>. QED
    BY <1>1, <1>3, <1>4 DEF Decided

LEMMA JudgedKept ==
  ASSUME RowsKept, LogGrows
  PROVE  \A D : Judged(rows, nextRowid, log, D) => Judged(rows', nextRowid', log', D)
  <1> SUFFICES ASSUME NEW D, Judged(rows, nextRowid, log, D), NEW r \in D
               PROVE  /\ r \in Nat /\ r < nextRowid'
                      /\ r \in DOMAIN rows' => Decided(rows', log', r)
    BY DEF Judged
  <1>1. r \in Nat /\ r < nextRowid /\ (r \in DOMAIN rows => Decided(rows, log, r))
    BY DEF Judged
  <1>2. r < nextRowid' /\ (r \in DOMAIN rows' => r \in DOMAIN rows)
    BY <1>1 DEF RowsKept
  <1>. QED
    BY <1>1, <1>2, DecidedKept

LEMMA NamedKept ==
  ASSUME RowsKept
  PROVE  \A p \in WorkItem : Named(rows, nextRowid, p) => Named(rows', nextRowid', p)
  BY DEF RowsKept, Named, WorkItem, SameEvent

LEMMA RememberedKept ==
  ASSUME LogGrows
  PROVE  \A k \in Key : Remembered(log, k) => Remembered(log', k)
  BY DEF LogGrows, LogTypes, Remembered

-----------------------------------------------------------------------------
(* Which rows a step retires *)

(* A synced row of the next table was synced before, was decided, or has   *)
(* been tried often enough.                                                *)
RetiredRightly ==
  \A r \in DOMAIN rows' : rows'[r].status = SYNCED =>
    /\ r \in DOMAIN rows
    /\ \/ rows[r].status = SYNCED /\ rows'[r].attempts >= rows[r].attempts
       \/ Decided(rows, log, r)
       \/ rows'[r].attempts >= MaxAttempts

LEMMA PushRetires ==
  ASSUME BufferTypeOK, NEW batch \in Batches, PushBatch(batch) \/ PushTorn(batch)
  PROVE  RetiredRightly
  <1>1. \A r \in DOMAIN rows : rows[r].attempts \in Nat
    BY DEF BufferTypeOK, Row
  <1>. QED
    BY <1>1, PushedSynced DEF RetiredRightly

LEMMA FetchRetires ==
  ASSUME BufferTypeOK, NEW c, NEW B, Fetch(c, B)
  PROVE  RetiredRightly
  <1>1. rows' = Held(B)
    BY DEF Fetch
  <1>2. \A r \in DOMAIN rows : rows[r] \in Row /\ rows[r].attempts \in Nat
    BY DEF BufferTypeOK, Row
  <1>. QED
    BY <1>1, <1>2 DEF Held, RetiredRightly, Row, HELD, SYNCED

(* What settling does to a row. *)
LEMMA SettledRows ==
  ASSUME BufferTypeOK, NEW c, NEW done, NEW failed, Settle(c, done, failed),
         NEW r \in DOMAIN rows
  PROVE  /\ DOMAIN rows' = DOMAIN rows /\ SameEvent(rows'[r], rows[r])
         /\ rows'[r].attempts = IF r \in failed THEN rows[r].attempts + 1
                                                 ELSE rows[r].attempts
         /\ rows'[r].status = SYNCED
              <=> \/ rows[r].status = SYNCED \/ r \in done
                  \/ r \in failed /\ rows[r].attempts + 1 >= MaxAttempts
  <1> DEFINE ms == MarkedSynced(rows, done)
             bumped == [q \in DOMAIN ms |->
                         IF q \in failed THEN [ms[q] EXCEPT !.attempts = @ + 1] ELSE ms[q]]
             E == ExhaustedBy(ms, failed)
  <1>1. rows[r] \in Row /\ rows[r].attempts \in Nat
    BY DEF BufferTypeOK, Row
  <1>2. /\ DOMAIN ms = DOMAIN rows
        /\ ms[r].attempts = rows[r].attempts /\ ms[r] \in Row /\ SameEvent(ms[r], rows[r])
        /\ ms[r].status = SYNCED <=> rows[r].status = SYNCED \/ r \in done
    BY <1>1 DEF BufferTypeOK, MarkedSynced, Row, SameEvent, SYNCED, HELD, UNSYNCED
  <1> HIDE DEF ms
  <1>3. /\ DOMAIN bumped = DOMAIN rows
        /\ bumped[r].attempts = IF r \in failed THEN rows[r].attempts + 1
                                                ELSE rows[r].attempts
        /\ bumped[r].status = ms[r].status /\ bumped[r] \in Row
        /\ SameEvent(bumped[r], ms[r])
    BY <1>1, <1>2 DEF Row, SameEvent
  <1>4. rows' = MarkedSynced(bumped, E)
    BY DEF Settle, AttemptsRecorded, ms
  <1>5. r \in E <=> r \in failed /\ rows[r].attempts + 1 >= MaxAttempts
    BY <1>2 DEF ExhaustedBy
  <1> HIDE DEF bumped, E
  <1>6. /\ DOMAIN rows' = DOMAIN rows
        /\ rows'[r].attempts = bumped[r].attempts /\ SameEvent(rows'[r], bumped[r])
        /\ rows'[r].status = SYNCED <=> r \in E \/ bumped[r].status = SYNCED
    BY <1>3, <1>4 DEF MarkedSynced, Row, SameEvent
  <1>7. SameEvent(rows'[r], rows[r])
    BY <1>2, <1>3, <1>6 DEF SameEvent
  <1>. QED
    BY <1>2, <1>3, <1>5, <1>6, <1>7

LEMMA SettleRetires ==
  ASSUME BufferTypeOK, NEW c, NEW done, NEW failed, Settle(c, done, failed),
         Judged(rows, nextRowid, log, done)
  PROVE  RetiredRightly
  <1>1. SUFFICES ASSUME NEW r \in DOMAIN rows', rows'[r].status = SYNCED
                 PROVE  /\ r \in DOMAIN rows
                        /\ \/ rows[r].status = SYNCED /\ rows'[r].attempts >= rows[r].attempts
                           \/ Decided(rows, log, r)
                           \/ rows'[r].attempts >= MaxAttempts
    BY DEF RetiredRightly
  <1>2. r \in DOMAIN rows
    BY <1>1, SettleQuiet
  <1>3. rows[r].attempts \in Nat
    BY <1>2 DEF BufferTypeOK, Row
  <1>4. rows'[r].attempts = IF r \in failed THEN rows[r].attempts + 1 ELSE rows[r].attempts
    BY <1>2, SettledRows
  <1>5. \/ rows[r].status = SYNCED \/ r \in done
        \/ r \in failed /\ rows[r].attempts + 1 >= MaxAttempts
    BY <1>1, <1>2, SettledRows
  <1>6. CASE r \in done
    BY <1>2, <1>6 DEF Judged
  <1>7. CASE rows[r].status = SYNCED
    <2>1. rows'[r].attempts >= rows[r].attempts
      BY <1>3, <1>4
    <2>. QED
      BY <1>2, <1>7, <2>1
  <1>8. CASE r \in failed /\ rows[r].attempts + 1 >= MaxAttempts
    <2>1. rows'[r].attempts >= MaxAttempts
      BY <1>4, <1>8
    <2>. QED
      BY <1>2, <2>1
  <1>. QED
    BY <1>5, <1>6, <1>7, <1>8

LEMMA cleanupRetires ==
  ASSUME BufferTypeOK, cleanup
  PROVE  RetiredRightly
  <1>1. \A r \in DOMAIN rows : rows[r].attempts \in Nat
    BY DEF BufferTypeOK, Row
  <1>. QED
    BY <1>1, cleanupQuiet DEF RetiredRightly, Quiet

LEMMA OpenRetires ==
  ASSUME BufferTypeOK, NEW k, Open(k)
  PROVE  RetiredRightly
  <1>1. \A r \in DOMAIN rows : rows[r] \in Row /\ rows[r].attempts \in Nat
    BY DEF BufferTypeOK, Row
  <1>2. rows' = rows \/ \E S : rows' = Unsynced(S)
    BY DEF Open, Released
  <1>3. ASSUME NEW S, rows' = Unsynced(S)
        PROVE  RetiredRightly
    BY <1>1, <1>3 DEF RetiredRightly, Unsynced, Row, UNSYNCED, SYNCED
  <1>4. rows' = rows => RetiredRightly
    BY <1>1 DEF RetiredRightly
  <1>. QED
    BY <1>2, <1>3, <1>4

LEMMA UnchangedRetires ==
  ASSUME BufferTypeOK, UNCHANGED rows
  PROVE  RetiredRightly
  BY DEF RetiredRightly, BufferTypeOK, Row

LEMMA StepRetires ==
  ASSUME BufferTypeOK, OutcomesOK, [IngestNext]_ingestVars
  PROVE  RetiredRightly
  <1>1. ASSUME NEW batch \in Batches, Poll(batch) \/ Post(batch) \/ CrashInPush(batch)
        PROVE  RetiredRightly
    BY <1>1, PushRetires DEF Poll, Post, CrashInPush
  <1>2. ASSUME NEW c, NEW B, StartCycle(c, B)
        PROVE  RetiredRightly
    BY <1>2, FetchRetires DEF StartCycle
  <1>3. ASSUME NEW c \in Consumer, SettleCycle(c) \/ FailCycle(c)
        PROVE  RetiredRightly
    <2>1. Judged(rows, nextRowid, log, outcomes[c].done)
      BY DEF OutcomesOK
    <2>2. \/ \E failed : Settle(c, outcomes[c].done, failed)
          \/ UNCHANGED rows
      BY <1>3 DEF SettleCycle, FailCycle, Handled, EndCycle
    <2>. QED
      BY <2>1, <2>2, SettleRetires, UnchangedRetires
  <1>4. ASSUME NEW k \in MasterKey, Restart(k)
        PROVE  RetiredRightly
    BY <1>4, OpenRetires DEF Restart
  <1>5. CASE Retire
    BY <1>5, cleanupRetires, UnchangedRetires DEF Retire, Tick
  <1>6. CASE Ingest \/ BeginInFreshWindow \/ Crash \/ HashesExpire \/ UNCHANGED ingestVars
    <2>1. UNCHANGED rows
      BY <1>6 DEF Ingest, BeginInFreshWindow, Begin, Judge, Conclude, Return, Crash, Close,
                  HashesExpire, ingestVars, bufferVars
    <2>. QED
      BY <2>1, UnchangedRetires
  <1>. QED
    BY <1>1, <1>2, <1>3, <1>4, <1>5, <1>6 DEF IngestNext, DaemonCycle, ToolCycle

LEMMA LossKept ==
  ASSUME RowsKept, LogGrows, RetiredRightly, BufferTypeOK, BufferTypeOK', NoSilentLoss
  PROVE  NoSilentLoss'
  <1> SUFFICES ASSUME NEW r \in DOMAIN rows', rows'[r].status = SYNCED
               PROVE  Decided(rows', log', r) \/ rows'[r].attempts >= MaxAttempts
    BY DEF NoSilentLoss, WithStatus, InMemory, Decided, Remembered
  <1>1. r \in DOMAIN rows
    BY DEF RetiredRightly
  <1>2. CASE Decided(rows, log, r)
    BY <1>1, <1>2, DecidedKept
  <1>3. CASE rows[r].status = SYNCED /\ rows'[r].attempts >= rows[r].attempts
    <2>1. Decided(rows, log, r) \/ rows[r].attempts >= MaxAttempts
      BY <1>1, <1>3 DEF NoSilentLoss, WithStatus, InMemory, Decided, Remembered
    <2>2. rows[r].attempts \in Nat /\ rows'[r].attempts \in Nat
      BY <1>1 DEF BufferTypeOK, Row
    <2>. QED
      BY <1>2, <1>3, <2>1, <2>2, AttemptsAssumption
  <1>. QED
    BY <1>1, <1>2, <1>3 DEF RetiredRightly

-----------------------------------------------------------------------------
(* The hashes *)

LEMMA HashesKept ==
  ASSUME RememberedOK, LogGrows, NEW i \in Running, ChainOK, Conclude(i)
  PROVE  RememberedOK'
  <1>1. PICK p \in chain[i].at, ok \in BOOLEAN :
          /\ seen' = Recorded(p, ok)
          /\ IF ok
             THEN /\ Spend(p[2])
                  /\ \/ log' = [log EXCEPT ![KeyOf(p[2])] = @ + 1]
                     \/ InMemory(KeyOf(p[2])) /\ UNCHANGED log
             ELSE UNCHANGED <<spent, log>>
    BY Zenon DEF Conclude
  <1>2. seenOnDisk' = seenOnDisk
    BY DEF Conclude
  <1>3. KeyOf(p[2]) \in Key
    <2>1. chain[i] \in Work
      BY RunningIsHead
    <2>2. p[2] \in Event
      BY <1>1, <2>1 DEF Work, WorkItem
    <2>. QED
      BY <2>2, KeyOfEvent
  <1>4. ok => Remembered(log', KeyOf(p[2]))
    BY <1>1, <1>3 DEF LogGrows, LogTypes, InMemory, Remembered
  <1>5. \A k \in seen \cup seenOnDisk : Remembered(log', k)
    BY RememberedKept DEF RememberedOK, LogGrows, LogTypes
  <1>. QED
    BY <1>1, <1>2, <1>4, <1>5 DEF RememberedOK, Recorded

LEMMA FewerHashesKept ==
  ASSUME RememberedOK, LogGrows, seen' \cup seenOnDisk' \subseteq seen \cup seenOnDisk
  PROVE  RememberedOK'
  BY RememberedKept DEF RememberedOK, LogGrows, LogTypes

-----------------------------------------------------------------------------
(* The batches *)

(* A batch whose items are named and whose done rows are judged. *)
BatchOK(rs, n, lg, b) ==
  /\ \A p \in b.todo \cup b.at : Named(rs, n, p)
  /\ Judged(rs, n, lg, b.done)

LEMMA BatchesByBatch == BatchesOK <=> \A i \in DOMAIN chain : BatchOK(rows, nextRowid, log, chain[i])
  BY DEF BatchesOK, BatchOK

LEMMA BatchKept ==
  ASSUME RowsKept, LogGrows, NEW b \in Work, BatchOK(rows, nextRowid, log, b)
  PROVE  BatchOK(rows', nextRowid', log', b)
  <1>1. b.todo \cup b.at \subseteq WorkItem
    BY DEF Work
  <1>. QED
    BY <1>1, NamedKept, JudgedKept DEF BatchOK

LEMMA OldBatchesKept ==
  ASSUME RowsKept, LogGrows, ChainOK, BatchesOK, NEW i \in DOMAIN chain
  PROVE  BatchOK(rows', nextRowid', log', chain[i])
  <1>1. chain[i] \in Work
    BY DEF ChainOK
  <1>. QED
    BY <1>1, BatchKept, BatchesByBatch

LEMMA ChainKept ==
  ASSUME RowsKept, LogGrows, ChainOK, BatchesOK, UNCHANGED chain
  PROVE  BatchesOK'
  BY OldBatchesKept DEF BatchesOK, BatchOK

LEMMA ArrivalKept ==
  ASSUME RowsKept, LogGrows, ChainOK, BatchesOK,
         NEW by \in {{}} \cup {{c} : c \in Consumer},
         NEW items \in SUBSET WorkItem, chain' = Append(chain, NewBatch(by, items)),
         \A p \in items : Named(rows', nextRowid', p)
  PROVE  BatchesOK'
  <1>1. /\ DOMAIN chain' = DOMAIN chain \cup {Len(chain) + 1}
        /\ \A i \in DOMAIN chain : chain'[i] = chain[i]
        /\ chain'[Len(chain) + 1] = NewBatch(by, items)
    BY AppendedChain
  <1>2. BatchOK(rows', nextRowid', log', NewBatch(by, items))
    BY DEF BatchOK, NewBatch, Judged
  <1>3. \A i \in DOMAIN chain' : BatchOK(rows', nextRowid', log', chain'[i])
    BY <1>1, <1>2, OldBatchesKept
  <1>. QED
    BY <1>3 DEF BatchesOK, BatchOK

LEMMA HeadKept ==
  ASSUME RowsKept, LogGrows, ChainOK, BatchesOK, 1 \in DOMAIN chain, NEW b \in Work,
         chain' = [chain EXCEPT ![1] = b], BatchOK(rows', nextRowid', log', b)
  PROVE  BatchesOK'
  <1>1. /\ DOMAIN chain' = DOMAIN chain
        /\ chain'[1] = b
        /\ \A i \in DOMAIN chain \ {1} : chain'[i] = chain[i]
    BY HeadChangedChain
  <1>2. \A i \in DOMAIN chain' : BatchOK(rows', nextRowid', log', chain'[i])
    BY <1>1, OldBatchesKept
  <1>. QED
    BY <1>2 DEF BatchesOK, BatchOK

LEMMA DropKept ==
  ASSUME RowsKept, LogGrows, ChainOK, BatchesOK, 1 \in DOMAIN chain,
         chain' = RemoveAt(chain, 1)
  PROVE  BatchesOK'
  <1>1. \A i \in DOMAIN chain' : i + 1 \in DOMAIN chain /\ chain'[i] = chain[i + 1]
    BY HeadDroppedChain
  <1>2. \A i \in DOMAIN chain' : BatchOK(rows', nextRowid', log', chain'[i])
    BY <1>1, OldBatchesKept
  <1>. QED
    BY <1>2 DEF BatchesOK, BatchOK

-----------------------------------------------------------------------------
(* The outcomes *)

LEMMA OutcomesKept ==
  ASSUME RowsKept, LogGrows, OutcomesOK,
         \A c \in Consumer : outcomes'[c] \in {outcomes[c], NoOutcome},
         DOMAIN outcomes' = Consumer, outcomes' = [c \in Consumer |-> outcomes'[c]]
  PROVE  OutcomesOK'
  <1>1. ASSUME NEW c \in Consumer
        PROVE  /\ outcomes'[c] \in [ready : BOOLEAN, done : SUBSET Nat, failed : SUBSET Nat]
               /\ Judged(rows', nextRowid', log', outcomes'[c].done)
    <2>1. CASE outcomes'[c] = outcomes[c]
      BY <2>1, JudgedKept DEF OutcomesOK
    <2>2. CASE outcomes'[c] = NoOutcome
      BY <2>2 DEF NoOutcome, Judged
    <2>. QED
      BY <2>1, <2>2
  <1>. QED
    BY <1>1 DEF OutcomesOK

-----------------------------------------------------------------------------
(* Step by step *)

PipelineOK == RememberedOK /\ BatchesOK /\ OutcomesOK

StepOK == RowsKept /\ LogGrows /\ ChainOK /\ PipelineOK

LEMMA OutcomesUnchanged ==
  ASSUME StepOK, UNCHANGED outcomes
  PROVE  OutcomesOK'
  BY OutcomesKept DEF StepOK, PipelineOK, OutcomesOK

LEMMA OutcomesForgotten ==
  ASSUME StepOK, outcomes' = [c \in Consumer |-> NoOutcome]
  PROVE  OutcomesOK'
  BY OutcomesKept DEF StepOK, PipelineOK

LEMMA QuietPipeline ==
  ASSUME StepOK, UNCHANGED <<chain, outcomes, seen, seenOnDisk>>
  PROVE  PipelineOK'
  BY ChainKept, OutcomesUnchanged, FewerHashesKept DEF StepOK, PipelineOK

LEMMA SettlingPipeline ==
  ASSUME StepOK, NEW c \in Consumer, SettleCycle(c) \/ FailCycle(c)
  PROVE  PipelineOK'
  <1>1. /\ outcomes' = [outcomes EXCEPT ![c] = NoOutcome]
        /\ UNCHANGED <<chain, seen, seenOnDisk>>
    BY DEF SettleCycle, FailCycle
  <1>2. OutcomesOK'
    BY <1>1, OutcomesKept DEF StepOK, PipelineOK, OutcomesOK
  <1>. QED
    BY <1>1, <1>2, ChainKept, FewerHashesKept DEF StepOK, PipelineOK

(* The items of a POST have no rowid, those of a cycle that of their row. *)
LEMMA PostPipeline ==
  ASSUME StepOK, BufferTypeOK', NEW batch \in Batches, Post(batch)
  PROVE  PipelineOK'
  <1> DEFINE items == {<<NoRowid, e>> : e \in batch}
  <1>1. items \in SUBSET WorkItem
    BY DEF Batches, WorkItem, NoRowid
  <1>2. /\ chain' = Append(chain, NewBatch({}, items))
        /\ UNCHANGED <<outcomes, seen, seenOnDisk>>
    BY DEF Post
  <1>3. 0 < nextRowid' /\ 0 \notin DOMAIN rows'
    BY DEF BufferTypeOK
  <1>4. \A p \in items : Named(rows', nextRowid', p)
    BY <1>3 DEF Named, NoRowid
  <1> HIDE DEF items
  <1>5. BatchesOK'
    BY <1>1, <1>2, <1>4, ArrivalKept DEF StepOK, PipelineOK
  <1>. QED
    BY <1>2, <1>5, OutcomesUnchanged, FewerHashesKept DEF StepOK, PipelineOK

LEMMA StartCyclePipeline ==
  ASSUME StepOK, BufferTypeOK, NEW c \in Consumer, NEW B \in SUBSET UnsyncedRows,
         StartCycle(c, B)
  PROVE  PipelineOK'
  <1> DEFINE items == {<<r, EventOf(r)>> : r \in {b \in B : Decrypts(b)}}
  <1>1. items \in SUBSET WorkItem
    BY FetchedItems
  <1>2. /\ chain' = chain \/ chain' = Append(chain, NewBatch({c}, items))
        /\ UNCHANGED <<outcomes, seen, seenOnDisk>>
    BY DEF StartCycle
  <1>3. nextRowid' = nextRowid
    BY DEF StartCycle, Fetch
  <1>4. ASSUME NEW r \in B PROVE Named(rows', nextRowid', <<r, EventOf(r)>>)
    <2>1. r \in DOMAIN rows /\ r < nextRowid
      BY DEF UnsyncedRows, WithStatus, BufferTypeOK
    <2>2. r \in DOMAIN rows' => SameEvent(rows'[r], rows[r])
      BY <2>1 DEF StepOK, RowsKept
    <2>3. EventOf(r).source = rows[r].source /\ EventOf(r).id = rows[r].id
      BY DEF EventOf
    <2>. QED
      BY <1>3, <2>1, <2>2, <2>3 DEF Named, SameEvent
  <1>5. \A p \in items : Named(rows', nextRowid', p)
    BY <1>4
  <1> HIDE DEF items
  <1>6. BatchesOK'
    BY <1>1, <1>2, <1>5, ArrivalKept, ChainKept DEF StepOK, PipelineOK
  <1>. QED
    BY <1>2, <1>6, OutcomesUnchanged, FewerHashesKept DEF StepOK, PipelineOK

(* The head of the chain, before a step of the pipeline. *)
LEMMA HeadOK ==
  ASSUME StepOK, NEW i \in Running, UNCHANGED <<rows, nextRowid>>
  PROVE  /\ i = 1 /\ 1 \in DOMAIN chain /\ chain[1] \in Work
         /\ BatchOK(rows', nextRowid', log', chain[1])
         /\ \A p \in chain[1].todo \cup chain[1].at :
              /\ p \in WorkItem
              /\ Named(rows, nextRowid, p)
  <1>1. i = 1 /\ 1 \in DOMAIN chain /\ chain[1] \in Work
    BY RunningIsHead DEF StepOK
  <1>2. BatchOK(rows', nextRowid', log', chain[1])
    BY <1>1, OldBatchesKept DEF StepOK, PipelineOK
  <1>3. \A p \in chain[1].todo \cup chain[1].at : p \in WorkItem /\ Named(rows, nextRowid, p)
    BY <1>1 DEF StepOK, PipelineOK, BatchesOK, Work
  <1>. QED
    BY <1>1, <1>2, <1>3

LEMMA BeginPipeline ==
  ASSUME StepOK, NEW i \in Running, NEW window, Begin(i, window)
  PROVE  PipelineOK'
  <1> DEFINE b == [chain[1] EXCEPT !.begun = TRUE]
  <1>1. UNCHANGED <<rows, nextRowid, outcomes, seen, seenOnDisk>>
    BY DEF Begin, bufferVars
  <1>2. /\ i = 1 /\ 1 \in DOMAIN chain /\ chain[1] \in Work
        /\ BatchOK(rows', nextRowid', log', chain[1])
    BY <1>1, HeadOK
  <1>3. b \in Work /\ b.todo = chain[1].todo /\ b.at = chain[1].at /\ b.done = chain[1].done
    BY <1>2 DEF Work
  <1>4. chain' = [chain EXCEPT ![1] = b]
    BY <1>2 DEF Begin
  <1> HIDE DEF b
  <1>5. BatchOK(rows', nextRowid', log', b)
    BY <1>2, <1>3 DEF BatchOK
  <1>6. BatchesOK'
    BY <1>2, <1>3, <1>4, <1>5, HeadKept DEF StepOK, PipelineOK
  <1>. QED
    BY <1>1, <1>6, OutcomesUnchanged, FewerHashesKept DEF StepOK, PipelineOK

(* An item that is done with its row: the row, if there, is decided. *)
LEMMA DoneJudged ==
  ASSUME NEW rs, NEW n, NEW lg, NEW p \in WorkItem, Named(rs, n, p), NEW D, Judged(rs, n, lg, D),
         Remembered(lg, KeyOf(p[2])) \/ p[2].id \in LowValue
  PROVE  Judged(rs, n, lg, D \cup {p[1]})
  <1>1. p[1] \in Nat /\ p[1] < n
    BY DEF Named, WorkItem
  <1>2. p[1] \in DOMAIN rs => Decided(rs, lg, p[1])
    BY DEF Named, SameEvent, Decided, KeyOf
  <1>. QED
    BY <1>1, <1>2 DEF Judged

LEMMA JudgePipeline ==
  ASSUME StepOK, NEW i \in Running, Judge(i)
  PROVE  PipelineOK'
  <1>1. UNCHANGED <<rows, nextRowid, log, outcomes, seen, seenOnDisk>>
    BY DEF Judge, bufferVars
  <1>2. /\ i = 1 /\ 1 \in DOMAIN chain /\ chain[1] \in Work
        /\ BatchOK(rows', nextRowid', log', chain[1])
        /\ \A p \in chain[1].todo \cup chain[1].at :
             p \in WorkItem /\ Named(rows, nextRowid, p)
    BY <1>1, HeadOK
  <1>3. PICK p \in chain[1].todo :
          Dismiss(1, p) \/ Defer(1, p) \/ Duplicate(1, p) \/ Search(1, p)
    BY <1>2 DEF Judge
  <1>4. p \in WorkItem /\ p[1] \in Nat /\ Named(rows', nextRowid', p)
    BY <1>1, <1>2, <1>3 DEF WorkItem
  <1>5. BatchesOK'
    <2>1. CASE Dismiss(1, p) \/ Duplicate(1, p)
      <3> DEFINE b == [chain[1] EXCEPT !.todo = @ \ {p}, !.done = @ \cup {p[1]}]
      <3>1. /\ b \in Work /\ b.todo \subseteq chain[1].todo /\ b.at = chain[1].at
            /\ b.done = chain[1].done \cup {p[1]}
        BY <1>2, <1>4 DEF Work
      <3>2. chain' = [chain EXCEPT ![1] = b]
        BY <2>1 DEF Dismiss, Duplicate
      <3>3. Remembered(log', KeyOf(p[2])) \/ p[2].id \in LowValue
        BY <1>1, <2>1 DEF Dismiss, Duplicate, StepOK, PipelineOK, RememberedOK
      <3> HIDE DEF b
      <3>4. Judged(rows', nextRowid', log', b.done)
        <4>1. Judged(rows', nextRowid', log', chain[1].done)
          BY <1>2 DEF BatchOK
        <4>. QED
          BY <1>4, <3>1, <3>3, <4>1, DoneJudged
      <3>5. BatchOK(rows', nextRowid', log', b)
        BY <1>2, <3>1, <3>4 DEF BatchOK
      <3>. QED
        BY <1>2, <3>1, <3>2, <3>5, HeadKept DEF StepOK, PipelineOK
    <2>2. CASE Defer(1, p)
      <3> DEFINE b == [chain[1] EXCEPT !.todo = @ \ {p}]
      <3>1. /\ b \in Work /\ b.todo \subseteq chain[1].todo /\ b.at = chain[1].at
            /\ b.done = chain[1].done
        BY <1>2 DEF Work
      <3>2. chain' = [chain EXCEPT ![1] = b]
        BY <2>2 DEF Defer
      <3> HIDE DEF b
      <3>3. BatchOK(rows', nextRowid', log', b)
        BY <1>2, <3>1 DEF BatchOK
      <3>. QED
        BY <1>2, <3>1, <3>2, <3>3, HeadKept DEF StepOK, PipelineOK
    <2>3. CASE Search(1, p)
      <3> DEFINE b == [chain[1] EXCEPT !.todo = @ \ {p}, !.at = {p}]
      <3>1. /\ b \in Work /\ b.todo \subseteq chain[1].todo /\ b.at = {p}
            /\ b.done = chain[1].done
        BY <1>2, <1>4 DEF Work
      <3>2. chain' = [chain EXCEPT ![1] = b]
        BY <2>3 DEF Search
      <3> HIDE DEF b
      <3>3. BatchOK(rows', nextRowid', log', b)
        BY <1>2, <1>3, <3>1 DEF BatchOK
      <3>. QED
        BY <1>2, <3>1, <3>2, <3>3, HeadKept DEF StepOK, PipelineOK
    <2>. QED
      BY <1>3, <2>1, <2>2, <2>3
  <1>. QED
    BY <1>1, <1>5, OutcomesUnchanged, FewerHashesKept DEF StepOK, PipelineOK

(* Only an event that was written or found in the memory is done with. *)
LEMMA ConcludePipeline ==
  ASSUME StepOK, NEW i \in Running, Conclude(i)
  PROVE  PipelineOK'
  <1>1. UNCHANGED <<rows, nextRowid, outcomes>>
    BY DEF Conclude, bufferVars
  <1>2. /\ i = 1 /\ 1 \in DOMAIN chain /\ chain[1] \in Work
        /\ BatchOK(rows', nextRowid', log', chain[1])
        /\ \A p \in chain[1].todo \cup chain[1].at :
             p \in WorkItem /\ Named(rows, nextRowid, p)
    BY <1>1, HeadOK
  <1>3. PICK p \in chain[i].at, ok \in BOOLEAN :
          /\ chain' = [chain EXCEPT ![i].at = {},
                                    ![i].done = IF ok THEN @ \cup {p[1]} ELSE @,
                                    ![i].failed = IF ok THEN @ ELSE @ \cup {p[1]}]
          /\ IF ok
             THEN /\ Spend(p[2])
                  /\ \/ log' = [log EXCEPT ![KeyOf(p[2])] = @ + 1]
                     \/ InMemory(KeyOf(p[2])) /\ UNCHANGED log
             ELSE UNCHANGED <<spent, log>>
    BY Zenon DEF Conclude
  <1>4. /\ p \in WorkItem /\ p[1] \in Nat /\ p[2] \in Event
        /\ Named(rows', nextRowid', p)
    BY <1>1, <1>2, <1>3 DEF WorkItem
  <1>5. ok => Remembered(log', KeyOf(p[2]))
    <2>1. KeyOf(p[2]) \in Key
      BY <1>4, KeyOfEvent
    <2>. QED
      BY <1>3, <2>1 DEF StepOK, LogGrows, LogTypes, InMemory, Remembered
  <1> DEFINE b == [chain[1] EXCEPT !.at = {},
                                   !.done = IF ok THEN @ \cup {p[1]} ELSE @,
                                   !.failed = IF ok THEN @ ELSE @ \cup {p[1]}]
  <1>6. /\ b \in Work /\ b.todo = chain[1].todo /\ b.at = {}
        /\ b.done = IF ok THEN chain[1].done \cup {p[1]} ELSE chain[1].done
    BY <1>2, <1>4 DEF Work
  <1>7. chain' = [chain EXCEPT ![1] = b]
    BY <1>2, <1>3
  <1> HIDE DEF b
  <1>8. Judged(rows', nextRowid', log', b.done)
    <2>1. Judged(rows', nextRowid', log', chain[1].done)
      BY <1>2 DEF BatchOK
    <2>2. CASE ok
      BY <1>4, <1>5, <1>6, <2>1, <2>2, DoneJudged
    <2>. QED
      BY <1>6, <2>1, <2>2
  <1>9. BatchOK(rows', nextRowid', log', b)
    BY <1>2, <1>6, <1>8 DEF BatchOK
  <1>10. BatchesOK'
    BY <1>2, <1>6, <1>7, <1>9, HeadKept DEF StepOK, PipelineOK
  <1>. QED
    BY <1>1, <1>10, OutcomesUnchanged, HashesKept DEF StepOK, PipelineOK

LEMMA ReturnPipeline ==
  ASSUME StepOK, NEW i \in Running, Return(i)
  PROVE  PipelineOK'
  <1>1. UNCHANGED <<rows, nextRowid, seen>>
    BY DEF Return, bufferVars
  <1>2. /\ i = 1 /\ 1 \in DOMAIN chain /\ chain[1] \in Work
        /\ BatchOK(rows', nextRowid', log', chain[1])
    BY <1>1, HeadOK
  <1>3. /\ chain' = RemoveAt(chain, 1)
        /\ seenOnDisk' = seen \/ seenOnDisk' = seenOnDisk
        /\ outcomes' = [c \in Consumer |->
                          IF chain[1].by = {c}
                          THEN [ready |-> TRUE, done |-> chain[1].done,
                                failed |-> chain[1].failed]
                          ELSE outcomes[c]]
    BY <1>2 DEF Return
  <1>4. BatchesOK'
    BY <1>2, <1>3, DropKept DEF StepOK, PipelineOK
  <1>5. OutcomesOK'
    <2>1. ASSUME NEW c \in Consumer
          PROVE  /\ outcomes'[c] \in [ready : BOOLEAN, done : SUBSET Nat, failed : SUBSET Nat]
                 /\ Judged(rows', nextRowid', log', outcomes'[c].done)
      <3>1. CASE chain[1].by = {c}
        BY <1>2, <1>3, <3>1 DEF BatchOK, Work
      <3>2. CASE outcomes'[c] = outcomes[c]
        BY <3>2, JudgedKept DEF StepOK, PipelineOK, OutcomesOK
      <3>. QED
        BY <1>3, <3>1, <3>2
    <2>. QED
      BY <1>3, <2>1 DEF OutcomesOK
  <1>6. RememberedOK'
    BY <1>1, <1>3, FewerHashesKept DEF StepOK, PipelineOK
  <1>. QED
    BY <1>4, <1>5, <1>6 DEF PipelineOK

LEMMA CrashPipeline ==
  ASSUME StepOK, Crash \/ \E batch \in Batches : CrashInPush(batch)
  PROVE  PipelineOK'
  <1>1. /\ chain' = <<>> /\ outcomes' = [c \in Consumer |-> NoOutcome] /\ seen' = {}
        /\ UNCHANGED seenOnDisk
    BY DEF Crash, CrashInPush, ForgetMemory
  <1>2. BatchesOK'
    BY <1>1 DEF BatchesOK
  <1>. QED
    BY <1>1, <1>2, OutcomesForgotten, FewerHashesKept DEF StepOK, PipelineOK

LEMMA RestartPipeline ==
  ASSUME StepOK, NEW k \in MasterKey, Restart(k)
  PROVE  PipelineOK'
  <1>1. seen' = seenOnDisk /\ UNCHANGED <<chain, outcomes, seenOnDisk>>
    BY DEF Restart, Loaded
  <1>. QED
    BY <1>1, ChainKept, OutcomesUnchanged, FewerHashesKept DEF StepOK, PipelineOK

LEMMA ExpiryPipeline ==
  ASSUME StepOK, HashesExpire
  PROVE  PipelineOK'
  <1>1. seen' \subseteq seen /\ seenOnDisk' \subseteq seenOnDisk /\ UNCHANGED <<chain, outcomes>>
    BY DEF HashesExpire
  <1>. QED
    BY <1>1, ChainKept, OutcomesUnchanged, FewerHashesKept DEF StepOK, PipelineOK

LEMMA StepPipeline ==
  ASSUME StepOK, BufferTypeOK, BufferTypeOK', [IngestNext]_ingestVars
  PROVE  PipelineOK'
  <1>1. CASE DaemonCycle
    BY <1>1, StartCyclePipeline, FetchRowids, DaemonAssumption DEF DaemonCycle
  <1>2. ASSUME NEW c \in Consumer, ToolCycle(c)
        PROVE  PipelineOK'
    BY <1>2, StartCyclePipeline, FetchRowids DEF ToolCycle
  <1>3. CASE Ingest \/ BeginInFreshWindow
    BY <1>3, BeginPipeline, JudgePipeline, ConcludePipeline, ReturnPipeline
       DEF Ingest, BeginInFreshWindow
  <1>4. CASE Retire \/ UNCHANGED ingestVars \/ \E batch \in Batches : Poll(batch)
    <2>1. UNCHANGED <<chain, outcomes, seen, seenOnDisk>>
      BY <1>4 DEF Retire, Poll, ingestVars, pipelineVars
    <2>. QED
      BY <2>1, QuietPipeline
  <1>. QED
    BY <1>1, <1>2, <1>3, <1>4, PostPipeline, SettlingPipeline, CrashPipeline,
       RestartPipeline, ExpiryPipeline
       DEF IngestNext

-----------------------------------------------------------------------------
LEMMA Verdicts == IngestSpec => []VerdictInv
<1>1. IngestInit => VerdictInv
  <2> SUFFICES ASSUME IngestInit PROVE VerdictInv
    OBVIOUS
  <2>1. DOMAIN rows = {} /\ DOMAIN chain = {}
    BY DEF IngestInit, BufferInit
  <2>. QED
    BY <2>1 DEF IngestInit, VerdictInv, RememberedOK, BatchesOK, OutcomesOK, NoSilentLoss,
                WithStatus, NoOutcome, Judged
<1>2. /\ BufferTypeOK /\ DedupInv /\ VerdictInv
      /\ BufferTypeOK' /\ DedupInv'
      /\ [IngestNext]_ingestVars
      => VerdictInv'
  <2> SUFFICES ASSUME BufferTypeOK, DedupInv, VerdictInv, BufferTypeOK', DedupInv',
                      [IngestNext]_ingestVars
               PROVE  VerdictInv'
    OBVIOUS
  <2>1. RowsKept /\ LogGrows
    BY IngestStepOnBuffer, StepKeepsRows, StepGrowsLog DEF DedupInv
  <2>2. StepOK
    BY <2>1 DEF StepOK, PipelineOK, DedupInv, VerdictInv
  <2>3. RetiredRightly
    BY StepRetires DEF VerdictInv
  <2>4. PipelineOK' /\ NoSilentLoss'
    BY <2>1, <2>2, <2>3, StepPipeline, LossKept DEF VerdictInv
  <2>. QED
    BY <2>4 DEF PipelineOK, VerdictInv
<1>. QED
  BY <1>1, <1>2, Dedup, PTL DEF IngestSpec

(* A row is synced only with a verdict: whatever is evicted, inserted,     *)
(* settled by others or restarted while its rowid is on its way.           *)
THEOREM NothingIsLostSilently == IngestSpec => []NoSilentLoss
<1>1. VerdictInv => NoSilentLoss
  BY DEF VerdictInv
<1>. QED
  BY <1>1, Verdicts, PTL

-----------------------------------------------------------------------------
(* What the queue promises: EventDelivery                                  *)

(* The rows of a table that are owed a verdict, the identity of one, and   *)
(* what the table says of each event owed.                                 *)
OwedIn(rs) == DOMAIN rs \ WithStatus(rs, SYNCED)

IdIn(rs, r) == <<rs[r].source, rs[r].id>>

IdsIn(rs, R) == {IdIn(rs, r) : r \in R}

OwedOf(rs) == [e \in {IdIn(rs, r) : r \in OwedIn(rs)} |->
                 rs[CHOOSE r \in OwedIn(rs) : IdIn(rs, r) = e].attempts]

(* The events E accepted, and those of D dropped.                          *)
Accepted(rs, E, D) ==
  [e \in (DOMAIN OwedOf(rs) \cup E) \ D |->
     IF e \in DOMAIN OwedOf(rs) THEN OwedOf(rs)[e] ELSE 0]

Contents(lg) == {k \in Key : Remembered(lg, k)}

ContentFor == [e \in Source \X EventId |-> <<e[1], ContentOf[e[2]]>>]

(* The instance has copies of two library operators.                       *)
LEMMA SameOperators ==
  /\ \A D : Delivery!Cardinality(D) = Cardinality(D)
  /\ \A f, S : Delivery!Restrict(f, S) = Restrict(f, S)
  <1>1. ASSUME NEW D PROVE Delivery!Cardinality(D) = Cardinality(D)
    BY Zenon DEF Delivery!Cardinality, Cardinality, Delivery!IsFiniteSet, IsFiniteSet
  <1>2. ASSUME NEW f, NEW S PROVE Delivery!Restrict(f, S) = Restrict(f, S)
    BY Zenon DEF Delivery!Restrict, Restrict
  <1>. QED
    BY <1>1, <1>2

LEMMA AcceptMaps ==
  ASSUME NEW E \in SUBSET (Source \X EventId), NEW D \in SUBSET (Source \X EventId),
         D \subseteq DOMAIN OwedOf(rows) \cup E,
         OwedOf(rows)' = Accepted(rows, E, D),
         (droppedUnsynced + droppedHeld)' = droppedUnsynced + droppedHeld + Cardinality(D),
         Contents(log)' = Contents(log)
  PROVE  Delivery!DeliveryNext
  <1>1. Delivery!Accept(E, D)
    BY SameOperators
       DEF Delivery!Accept, Delivery!Owing, Accepted, OwedOf, IdIn, OwedIn, OwedRows, IdentityOf,
           Contents, Remembered, InMemory
  <1>. QED
    BY <1>1 DEF Delivery!DeliveryNext

LEMMA DeliverMaps ==
  ASSUME NEW e \in Source \X EventId, UNCHANGED <<rows, droppedUnsynced, droppedHeld>>,
         Contents(log)' = Contents(log) \cup {ContentFor[e]}
  PROVE  Delivery!DeliveryNext
  <1>1. Delivery!Deliver(e)
    BY DEF Delivery!Deliver, Contents, ContentFor, InMemory, Remembered, OwedRows,
           WithStatus, IdentityOf
  <1>. QED
    BY <1>1 DEF Delivery!DeliveryNext

(* A batch is settled: the events of done are in the memory or worthless,  *)
(* those of failed were tried once more.                                   *)
SettledOf(rs, done, failed) ==
  LET tried == [e \in DOMAIN OwedOf(rs) |-> IF e \in failed THEN OwedOf(rs)[e] + 1
                                                             ELSE OwedOf(rs)[e]]
  IN  Restrict(tried, {e \in DOMAIN OwedOf(rs) \ done :
                         e \in failed => tried[e] < MaxAttempts})

LEMMA SettleMaps ==
  ASSUME NEW done \in SUBSET DOMAIN OwedOf(rows),
         NEW failed \in SUBSET (DOMAIN OwedOf(rows) \ done),
         \A e \in done : ContentFor[e] \in Contents(log) \/ e \in Source \X LowValue,
         OwedOf(rows)' = SettledOf(rows, done, failed),
         UNCHANGED <<log, droppedUnsynced, droppedHeld>>
  PROVE  Delivery!DeliveryNext
  <1>1. Delivery!Settle(done, failed)
    BY SameOperators
       DEF Delivery!Settle, SettledOf, OwedOf, IdIn, OwedIn, OwedRows, IdentityOf,
           Contents, ContentFor, Remembered, InMemory
  <1>2. /\ done \in SUBSET DOMAIN [e \in {IdentityOf(r) : r \in OwedRows} |->
                  rows[CHOOSE r \in OwedRows : IdentityOf(r) = e].attempts]
        /\ failed \in SUBSET (DOMAIN [e \in {IdentityOf(r) : r \in OwedRows} |->
                  rows[CHOOSE r \in OwedRows : IdentityOf(r) = e].attempts] \ done)
    BY DEF OwedOf, IdIn, OwedIn, OwedRows, IdentityOf
  <1>. QED
    BY <1>1, <1>2 DEF Delivery!DeliveryNext

LEMMA RestartMaps ==
  ASSUME OwedOf(rows)' = OwedOf(rows), UNCHANGED log, droppedUnsynced' = 0, droppedHeld' = 0
  PROVE  Delivery!DeliveryNext
  <1>1. Delivery!Restart
    BY DEF Delivery!Restart, OwedOf, IdIn, OwedIn, OwedRows, IdentityOf, InMemory
  <1>. QED
    BY <1>1 DEF Delivery!DeliveryNext

LEMMA StutterMaps ==
  ASSUME OwedOf(rows)' = OwedOf(rows), UNCHANGED <<log, droppedUnsynced, droppedHeld>>
  PROVE  UNCHANGED Delivery!deliveryVars
  BY DEF Delivery!deliveryVars, OwedOf, IdIn, OwedIn, OwedRows, IdentityOf, InMemory

LEMMA InitMaps == IngestInit => Delivery!DeliveryInit
  BY DEF Delivery!DeliveryInit, IngestInit, BufferInit, OwedRows, WithStatus, IdentityOf,
         InMemory

-----------------------------------------------------------------------------
(* What is owed by a table with one row for an event.                      *)

LEMMA OwedFacts ==
  ASSUME NEW rs, UniqueTable(rs)
  PROVE  /\ DOMAIN OwedOf(rs) = {IdIn(rs, r) : r \in OwedIn(rs)}
         /\ \A r, q \in DOMAIN rs : IdIn(rs, r) = IdIn(rs, q) => r = q
         /\ \A r \in OwedIn(rs) : OwedOf(rs)[IdIn(rs, r)] = rs[r].attempts
  <1>1. \A r, q \in DOMAIN rs : IdIn(rs, r) = IdIn(rs, q) => r = q
    BY DEF UniqueTable, SameEvent, IdIn
  <1>2. DOMAIN OwedOf(rs) = {IdIn(rs, r) : r \in OwedIn(rs)}
    BY DEF OwedOf
  <1>3. ASSUME NEW r \in OwedIn(rs)
        PROVE  OwedOf(rs)[IdIn(rs, r)] = rs[r].attempts
    <2> DEFINE c == CHOOSE q \in OwedIn(rs) : IdIn(rs, q) = IdIn(rs, r)
    <2>1. OwedOf(rs)[IdIn(rs, r)] = rs[c].attempts
      BY DEF OwedOf
    <2>2. c \in OwedIn(rs) /\ IdIn(rs, c) = IdIn(rs, r)
      OBVIOUS
    <2>. QED
      BY <1>1, <2>1, <2>2 DEF OwedIn
  <1>. QED
    BY <1>1, <1>2, <1>3

LEMMA OwedSame ==
  ASSUME NEW rs, NEW ts, UniqueTable(rs), UniqueTable(ts), OwedIn(ts) = OwedIn(rs),
         \A r \in OwedIn(rs) : SameEvent(ts[r], rs[r]) /\ ts[r].attempts = rs[r].attempts
  PROVE  OwedOf(ts) = OwedOf(rs)
  <1>1. \A r \in OwedIn(rs) : IdIn(ts, r) = IdIn(rs, r)
    BY DEF SameEvent, IdIn
  <1>2. {IdIn(ts, r) : r \in OwedIn(ts)} = {IdIn(rs, r) : r \in OwedIn(rs)}
    BY <1>1
  <1>3. /\ DOMAIN OwedOf(rs) = {IdIn(rs, r) : r \in OwedIn(rs)}
        /\ DOMAIN OwedOf(ts) = {IdIn(ts, r) : r \in OwedIn(ts)}
        /\ \A r \in OwedIn(rs) : /\ OwedOf(rs)[IdIn(rs, r)] = rs[r].attempts
                                 /\ OwedOf(ts)[IdIn(ts, r)] = ts[r].attempts
    BY OwedFacts
  <1>4. ASSUME NEW e \in DOMAIN OwedOf(rs)
        PROVE  OwedOf(ts)[e] = OwedOf(rs)[e]
    <2>1. PICK r \in OwedIn(rs) : e = IdIn(rs, r)
      BY <1>3
    <2>. QED
      BY <1>1, <1>3, <2>1
  <1>. QED
    BY <1>2, <1>3, <1>4 DEF OwedOf

(* A push adds the events of the rows N to those of rs, which makes T, and *)
(* drops those of the rows V.                                              *)
Pushed(rs, N, T, V, ts) ==
  /\ UniqueTable(T)
  /\ DOMAIN T = DOMAIN rs \cup N /\ N \cap DOMAIN rs = {}
  /\ \A r \in DOMAIN rs : T[r] = rs[r]
  /\ \A r \in N : T[r].status # SYNCED /\ T[r].attempts = 0
  /\ DOMAIN ts = DOMAIN T \ V
  /\ \A r \in DOMAIN ts : ts[r] = T[r]

LEMMA OwedOfPush ==
  ASSUME NEW rs, NEW N, NEW T, NEW V, NEW ts, Pushed(rs, N, T, V, ts)
  PROVE  /\ IdsIn(T, V \cap OwedIn(T)) \subseteq DOMAIN OwedOf(rs) \cup IdsIn(T, N)
         /\ OwedOf(ts) = Accepted(rs, IdsIn(T, N), IdsIn(T, V \cap OwedIn(T)))
  <1> DEFINE E == IdsIn(T, N)
             D == IdsIn(T, V \cap OwedIn(T))
  <1>0. E = {IdIn(T, r) : r \in N} /\ D = {IdIn(T, r) : r \in V \cap OwedIn(T)}
    BY DEF IdsIn
  <1> HIDE DEF E, D
  <1>1. UniqueTable(rs) /\ UniqueTable(ts)
    BY DEF UniqueTable, Pushed
  <1>2. /\ OwedIn(T) = OwedIn(rs) \cup N /\ OwedIn(ts) = OwedIn(T) \ V
        /\ OwedIn(rs) \subseteq DOMAIN rs /\ OwedIn(T) \subseteq DOMAIN T
    BY DEF OwedIn, WithStatus, Pushed
  <1>3. /\ \A r \in DOMAIN rs : IdIn(T, r) = IdIn(rs, r)
        /\ \A r \in DOMAIN ts : IdIn(T, r) = IdIn(ts, r)
    BY DEF IdIn, Pushed
  <1>4. /\ DOMAIN OwedOf(rs) = {IdIn(rs, r) : r \in OwedIn(rs)}
        /\ DOMAIN OwedOf(ts) = {IdIn(ts, r) : r \in OwedIn(ts)}
        /\ \A r, q \in DOMAIN T : IdIn(T, r) = IdIn(T, q) => r = q
        /\ \A r \in OwedIn(rs) : OwedOf(rs)[IdIn(rs, r)] = rs[r].attempts
        /\ \A r \in OwedIn(ts) : OwedOf(ts)[IdIn(ts, r)] = ts[r].attempts
    BY <1>1, OwedFacts DEF Pushed
  <1>5. /\ DOMAIN OwedOf(rs) = {IdIn(T, r) : r \in OwedIn(rs)}
        /\ DOMAIN OwedOf(ts) = {IdIn(T, r) : r \in OwedIn(ts)}
    <2>1. \A r \in OwedIn(rs) : IdIn(T, r) = IdIn(rs, r)
      BY <1>2, <1>3
    <2>2. \A r \in OwedIn(ts) : IdIn(T, r) = IdIn(ts, r)
      BY <1>3 DEF OwedIn
    <2>. QED
      BY <1>4, <2>1, <2>2
  <1>6. DOMAIN OwedOf(rs) \cup E = {IdIn(T, r) : r \in OwedIn(T)}
    BY <1>0, <1>2, <1>5
  <1>7. DOMAIN OwedOf(ts) = (DOMAIN OwedOf(rs) \cup E) \ D
    <2>1. \A r \in OwedIn(ts) : IdIn(T, r) \notin D
      BY <1>0, <1>2, <1>4
    <2>. QED
      BY <1>0, <1>2, <1>5, <1>6, <2>1
  <1>8. ASSUME NEW e \in DOMAIN OwedOf(ts)
        PROVE  OwedOf(ts)[e] = IF e \in DOMAIN OwedOf(rs) THEN OwedOf(rs)[e] ELSE 0
    <2>1. PICK r \in OwedIn(ts) : e = IdIn(T, r)
      BY <1>5
    <2>2. r \in DOMAIN ts /\ r \in OwedIn(T) /\ r \in DOMAIN T /\ r \in DOMAIN rs \cup N
      BY <1>2 DEF OwedIn, Pushed
    <2>3. OwedOf(ts)[e] = T[r].attempts
      BY <1>3, <1>4, <2>1, <2>2 DEF Pushed
    <2>4. CASE r \in DOMAIN rs
      <3>1. r \in OwedIn(rs)
        BY <1>2, <2>2, <2>4 DEF Pushed
      <3>2. e \in DOMAIN OwedOf(rs) /\ OwedOf(rs)[e] = rs[r].attempts
        BY <1>3, <1>4, <1>5, <2>1, <2>4, <3>1
      <3>. QED
        BY <2>3, <2>4, <3>2 DEF Pushed
    <2>5. CASE r \in N
      <3>1. e \notin DOMAIN OwedOf(rs)
        BY <1>2, <1>4, <1>5, <2>1, <2>2, <2>5 DEF Pushed
      <3>. QED
        BY <2>3, <2>5, <3>1 DEF Pushed
    <2>. QED
      BY <2>2, <2>4, <2>5
  <1>9. D \subseteq DOMAIN OwedOf(rs) \cup E
    BY <1>0, <1>6
  <1>10. OwedOf(ts) = [e \in DOMAIN OwedOf(ts) |-> OwedOf(ts)[e]]
    BY DEF OwedOf
  <1>. QED
    BY <1>7, <1>8, <1>9, <1>10 DEF Accepted, E, D

(* As many events are dropped as rows that were owed a verdict.            *)
LEMMA DroppedCount ==
  ASSUME NEW T, NEW n \in Nat, TableOK(T, n), UniqueTable(T), NEW V \in Victims(T)
  PROVE  Cardinality(IdsIn(T, V \cap OwedIn(T)))
           = UnsyncedToDrop(T) + HeldToDrop(T)
  <1> DEFINE W == V \cap OwedIn(T)
             D == {IdIn(T, r) : r \in W}
             H == V \cap WithStatus(T, HELD)
             U == V \cap WithStatus(T, UNSYNCED)
             g == [r \in W |-> IdIn(T, r)]
  <1>1. V \in SUBSET DOMAIN T
    BY DEF Victims
  <1>2. IsFiniteSet(H) /\ IsFiniteSet(U) /\ H \cap U = {} /\ W = H \cup U
    <2>1. \A r \in DOMAIN T : T[r].status \in {UNSYNCED, SYNCED, HELD}
      BY DEF TableOK, Row
    <2>2. W = H \cup U /\ H \cap U = {}
      BY <1>1, <2>1 DEF OwedIn, WithStatus, HELD, UNSYNCED, SYNCED
    <2>3. IsFiniteSet(H) /\ IsFiniteSet(U)
      BY <1>1, ByStatus
    <2>. QED
      BY <2>2, <2>3
  <1>3. Cardinality(W) = Cardinality(H) + Cardinality(U) /\ IsFiniteSet(W)
    <2>1. Cardinality(H \cap U) = 0 /\ Cardinality(H) \in Nat /\ Cardinality(U) \in Nat
      BY <1>2, FS_EmptySet, FS_CardinalityType
    <2>. QED
      BY <1>2, <2>1, FS_Union
  <1>4. g \in Bijection(W, D)
    <2>1. \A r, q \in W : g[r] = g[q] => r = q
      BY OwedFacts DEF OwedIn
    <2>2. \A d \in D : \E r \in W : g[r] = d
      OBVIOUS
    <2>. QED
      BY <2>1, <2>2 DEF Bijection, Injection, Surjection, IsInjective
  <1>5. Cardinality(D) = Cardinality(W)
    BY <1>3, <1>4, FS_Bijection DEF ExistsBijection
  <1>6. HeldToDrop(T) = Cardinality(H) /\ UnsyncedToDrop(T) = Cardinality(U)
        /\ HeldToDrop(T) \in Nat /\ UnsyncedToDrop(T) \in Nat
    BY EvictionCounts
  <1>. QED
    BY <1>3, <1>5, <1>6 DEF IdsIn

-----------------------------------------------------------------------------
(* Every step implements a step of the promise, or none.                   *)

LEMMA RowIdentity ==
  ASSUME NEW T, NEW n, TableOK(T, n), NEW r \in DOMAIN T
  PROVE  IdIn(T, r) \in Source \X EventId
  BY DEF TableOK, Row, IdIn

(* What a push inserted, whether or not it lived to evict.                 *)
LEMMA Insertion ==
  ASSUME BufferTypeOK, OneRowPerEvent, NEW batch \in Batches, NEW F \in Insertions(batch),
         NEW f \in Numberings(F)
  PROVE  /\ nextRowid + Cardinality(F) \in Nat
         /\ TableOK(Inserted(f), nextRowid + Cardinality(F))
         /\ UniqueTable(Inserted(f))
         /\ DOMAIN Inserted(f) = DOMAIN rows \cup FreshRowids(Cardinality(F))
         /\ FreshRowids(Cardinality(F)) \cap DOMAIN rows = {}
         /\ \A r \in DOMAIN rows : Inserted(f)[r] = rows[r]
         /\ \A r \in FreshRowids(Cardinality(F)) :
              Inserted(f)[r].status # SYNCED /\ Inserted(f)[r].attempts = 0
  <1>1. /\ Cardinality(F) \in Nat
        /\ TableOK(Inserted(f), nextRowid + Cardinality(F))
        /\ DOMAIN Inserted(f) = DOMAIN rows \cup FreshRowids(Cardinality(F))
        /\ \A r \in DOMAIN rows : Inserted(f)[r] = rows[r]
        /\ \A r \in FreshRowids(Cardinality(F)) :
              /\ r \notin DOMAIN rows
              /\ Inserted(f)[r] = NewRow(f[r])
              /\ f[r] \in F
    BY InsertedTable
  <1>2. UniqueTable(Inserted(f))
    BY InsertedUnique DEF OneRowPerEvent, UniqueTable
  <1>3. nextRowid + Cardinality(F) \in Nat
    BY <1>1 DEF BufferTypeOK
  <1>4. \A e : NewRow(e).status # SYNCED /\ NewRow(e).attempts = 0
    BY DEF NewRow, UNSYNCED, SYNCED
  <1>. QED
    BY <1>1, <1>2, <1>3, <1>4

LEMMA PushBatchMaps ==
  ASSUME BufferTypeOK, OneRowPerEvent, NEW batch \in Batches, PushBatch(batch), UNCHANGED log
  PROVE  Delivery!DeliveryNext
  <1>1. PICK F \in Insertions(batch) : \E f \in Numberings(F) :
           \E V \in Victims(Inserted(f)) :
             /\ V \subseteq DOMAIN Inserted(f)
             /\ DOMAIN rows' = DOMAIN Inserted(f) \ V
             /\ \A r \in DOMAIN rows' : rows'[r] = Inserted(f)[r]
             /\ droppedHeld' = droppedHeld + HeldToDrop(Inserted(f))
             /\ droppedUnsynced' = droppedUnsynced + UnsyncedToDrop(Inserted(f))
    BY PushBatchStep
  <1>2. PICK f \in Numberings(F) : \E V \in Victims(Inserted(f)) :
             /\ V \subseteq DOMAIN Inserted(f)
             /\ DOMAIN rows' = DOMAIN Inserted(f) \ V
             /\ \A r \in DOMAIN rows' : rows'[r] = Inserted(f)[r]
             /\ droppedHeld' = droppedHeld + HeldToDrop(Inserted(f))
             /\ droppedUnsynced' = droppedUnsynced + UnsyncedToDrop(Inserted(f))
    BY <1>1
  <1> DEFINE T == Inserted(f)
             N == FreshRowids(Cardinality(F))
             n == nextRowid + Cardinality(F)
             E == IdsIn(T, N)
  <1>3. PICK V \in Victims(T) :
             /\ V \subseteq DOMAIN T
             /\ DOMAIN rows' = DOMAIN T \ V
             /\ \A r \in DOMAIN rows' : rows'[r] = T[r]
             /\ droppedHeld' = droppedHeld + HeldToDrop(T)
             /\ droppedUnsynced' = droppedUnsynced + UnsyncedToDrop(T)
    BY <1>2
  <1> DEFINE D == IdsIn(T, V \cap OwedIn(T))
  <1>4. /\ n \in Nat /\ TableOK(T, n) /\ UniqueTable(T)
        /\ DOMAIN T = DOMAIN rows \cup N /\ N \cap DOMAIN rows = {}
        /\ \A r \in DOMAIN rows : T[r] = rows[r]
        /\ \A r \in N : T[r].status # SYNCED /\ T[r].attempts = 0
    BY Insertion
  <1>5. E \in SUBSET (Source \X EventId) /\ D \in SUBSET (Source \X EventId)
    BY <1>3, <1>4, RowIdentity DEF IdsIn
  <1>6. HeldToDrop(T) \in Nat /\ UnsyncedToDrop(T) \in Nat
        /\ Cardinality(D) = UnsyncedToDrop(T) + HeldToDrop(T)
    BY <1>4, EvictionCounts, DroppedCount
  <1> HIDE DEF T, N, n
  <1>7. /\ D \subseteq DOMAIN OwedOf(rows) \cup E
        /\ OwedOf(rows') = Accepted(rows, E, D)
    <2>1. Pushed(rows, N, T, V, rows')
      BY <1>3, <1>4 DEF Pushed
    <2>. QED
      BY <2>1, OwedOfPush
  <1>8. (droppedUnsynced + droppedHeld)' = droppedUnsynced + droppedHeld + Cardinality(D)
    BY <1>3, <1>6 DEF BufferTypeOK
  <1> HIDE DEF D, E
  <1>9. Contents(log)' = Contents(log) /\ OwedOf(rows)' = OwedOf(rows')
    BY DEF Contents, Remembered
  <1>. QED
    BY <1>5, <1>7, <1>8, <1>9, AcceptMaps

LEMMA PushTornMaps ==
  ASSUME BufferTypeOK, OneRowPerEvent, NEW batch \in Batches, PushTorn(batch), UNCHANGED log
  PROVE  Delivery!DeliveryNext
  <1>1. PICK F \in Insertions(batch) : \E f \in Numberings(F) : rows' = Inserted(f)
    BY PushTornStep
  <1>2. PICK f \in Numberings(F) : rows' = Inserted(f)
    BY <1>1
  <1> DEFINE T == Inserted(f)
             N == FreshRowids(Cardinality(F))
             n == nextRowid + Cardinality(F)
             E == IdsIn(T, N)
             D == IdsIn(T, {} \cap OwedIn(T))
  <1>3. /\ n \in Nat /\ TableOK(T, n) /\ UniqueTable(T)
        /\ DOMAIN T = DOMAIN rows \cup N /\ N \cap DOMAIN rows = {}
        /\ \A r \in DOMAIN rows : T[r] = rows[r]
        /\ \A r \in N : T[r].status # SYNCED /\ T[r].attempts = 0
    BY Insertion
  <1>4. E \in SUBSET (Source \X EventId) /\ D \in SUBSET (Source \X EventId)
    BY <1>3, RowIdentity DEF IdsIn
  <1>5. D = {} /\ Cardinality(D) = 0
    BY FS_EmptySet DEF IdsIn
  <1>6. rows' = T /\ {} \subseteq DOMAIN T
    BY <1>2
  <1> HIDE DEF T, N, n
  <1>7. /\ D \subseteq DOMAIN OwedOf(rows) \cup E
        /\ OwedOf(rows') = Accepted(rows, E, D)
    <2>1. Pushed(rows, N, T, {}, rows')
      BY <1>3, <1>6 DEF Pushed
    <2>. QED
      BY <2>1, OwedOfPush
  <1>8. (droppedUnsynced + droppedHeld)' = droppedUnsynced + droppedHeld + Cardinality(D)
    BY <1>5 DEF BufferTypeOK, PushTorn, counters
  <1> HIDE DEF D, E
  <1>9. Contents(log)' = Contents(log) /\ OwedOf(rows)' = OwedOf(rows')
    BY DEF Contents, Remembered
  <1>. QED
    BY <1>4, <1>7, <1>8, <1>9, AcceptMaps

(* Steps of the table that leave every owed event as it is.                *)
LEMMA SameOwedMaps ==
  ASSUME OneRowPerEvent, OneRowPerEvent', OwedIn(rows') = OwedIn(rows),
         \A r \in OwedIn(rows) :
           SameEvent(rows'[r], rows[r]) /\ rows'[r].attempts = rows[r].attempts
  PROVE  OwedOf(rows)' = OwedOf(rows)
  <1>1. UniqueTable(rows) /\ UniqueTable(rows')
    BY DEF OneRowPerEvent, UniqueTable
  <1>. QED
    BY <1>1, OwedSame

LEMMA OwedKept ==
  ASSUME BufferTypeOK, OneRowPerEvent, OneRowPerEvent',
         \/ UNCHANGED rows \/ cleanup
         \/ \E c : \E B \in SUBSET UnsyncedRows : Fetch(c, B)
         \/ \E k : Open(k)
  PROVE  OwedOf(rows)' = OwedOf(rows)
  <1>1. \A r \in DOMAIN rows : rows[r] \in Row
    BY DEF BufferTypeOK
  <1>2. CASE UNCHANGED rows
    BY <1>2
  <1>3. CASE cleanup
    <2>1. /\ DOMAIN rows' = {r \in DOMAIN rows : ~Expired(r)}
          /\ \A r \in DOMAIN rows' : rows'[r] = rows[r]
      BY <1>3, cleanupQuiet
    <2>2. /\ OwedIn(rows') = OwedIn(rows)
          /\ \A r \in OwedIn(rows) : r \in DOMAIN rows'
      BY <2>1 DEF OwedIn, WithStatus, Expired
    <2>. QED
      BY <2>1, <2>2, SameOwedMaps DEF SameEvent
  <1>4. ASSUME NEW c, NEW B \in SUBSET UnsyncedRows, Fetch(c, B)
        PROVE  OwedOf(rows)' = OwedOf(rows)
    <2>1. /\ DOMAIN rows' = DOMAIN rows
          /\ \A r \in DOMAIN rows : /\ rows'[r].status = SYNCED <=> rows[r].status = SYNCED
                                   /\ rows'[r].attempts = rows[r].attempts
                                   /\ SameEvent(rows'[r], rows[r])
      BY <1>1, <1>4
         DEF Fetch, Held, Row, SameEvent, UnsyncedRows, WithStatus, HELD, SYNCED, UNSYNCED
    <2>2. OwedIn(rows') = OwedIn(rows) /\ OwedIn(rows) \subseteq DOMAIN rows
      BY <2>1 DEF OwedIn, WithStatus
    <2>. QED
      BY <2>1, <2>2, SameOwedMaps
  <1>5. ASSUME NEW k, Open(k)
        PROVE  OwedOf(rows)' = OwedOf(rows)
    <2>1. rows' = rows \/ rows' = Unsynced(WithStatus(rows, HELD))
      BY <1>5 DEF Open, Released
    <2>2. /\ DOMAIN rows' = DOMAIN rows
          /\ \A r \in DOMAIN rows : /\ rows'[r].status = SYNCED <=> rows[r].status = SYNCED
                                   /\ rows'[r].attempts = rows[r].attempts
                                   /\ SameEvent(rows'[r], rows[r])
      BY <1>1, <2>1
         DEF Unsynced, Row, SameEvent, WithStatus, HELD, SYNCED, UNSYNCED
    <2>3. OwedIn(rows') = OwedIn(rows) /\ OwedIn(rows) \subseteq DOMAIN rows
      BY <2>2 DEF OwedIn, WithStatus
    <2>. QED
      BY <2>2, <2>3, SameOwedMaps
  <1>. QED
    BY <1>2, <1>3, <1>4, <1>5

LEMMA SettleIsSettled ==
  ASSUME BufferTypeOK, OneRowPerEvent, OneRowPerEvent', OutcomesOK,
         NEW c \in Consumer, NEW done, NEW failed, Settle(c, done, failed),
         Judged(rows, nextRowid, log, done), UNCHANGED log
  PROVE  Delivery!DeliveryNext
  <1> DEFINE D == IdsIn(rows, done \cap OwedIn(rows))
             F == IdsIn(rows, failed \cap OwedIn(rows))
             O == OwedOf(rows)
             tried == [e \in DOMAIN O |-> IF e \in F THEN O[e] + 1 ELSE O[e]]
             kept == {e \in DOMAIN O \ D : e \in F => tried[e] < MaxAttempts}
  <1>1. /\ DOMAIN O = {IdIn(rows, r) : r \in OwedIn(rows)}
        /\ \A r, q \in DOMAIN rows : IdIn(rows, r) = IdIn(rows, q) => r = q
        /\ \A r \in OwedIn(rows) : O[IdIn(rows, r)] = rows[r].attempts
        /\ DOMAIN OwedOf(rows') = {IdIn(rows', r) : r \in OwedIn(rows')}
        /\ \A r \in OwedIn(rows') : OwedOf(rows')[IdIn(rows', r)] = rows'[r].attempts
    <2>1. UniqueTable(rows) /\ UniqueTable(rows')
      BY DEF OneRowPerEvent, UniqueTable
    <2>. QED
      BY <2>1, OwedFacts
  <1>2. done \cap failed = {}
    BY DEF Settle
  <1>3. OwedIn(rows) \subseteq DOMAIN rows
    BY DEF OwedIn
  <1>4. ASSUME NEW r \in OwedIn(rows)
        PROVE  /\ IdIn(rows, r) \in D <=> r \in done
               /\ IdIn(rows, r) \in F <=> r \in failed
    BY <1>1, <1>3 DEF IdsIn
  <1>5. D \in SUBSET DOMAIN O /\ F \in SUBSET (DOMAIN O \ D)
    <2>1. \A r \in OwedIn(rows) : ~(r \in done /\ r \in failed)
      BY <1>2
    <2>. QED
      BY <1>1, <1>4, <2>1 DEF IdsIn
  <1>6. \A e \in D : ContentFor[e] \in Contents(log) \/ e \in Source \X LowValue
    <2>1. ASSUME NEW r \in done \cap OwedIn(rows)
          PROVE  \/ ContentFor[IdIn(rows, r)] \in Contents(log)
                 \/ IdIn(rows, r) \in Source \X LowValue
      <3>1. rows[r] \in Row /\ Decided(rows, log, r)
        BY <1>3 DEF BufferTypeOK, Judged
      <3>2. /\ IdIn(rows, r) = <<rows[r].source, rows[r].id>>
            /\ rows[r].source \in Source /\ rows[r].id \in EventId
            /\ ContentFor[IdIn(rows, r)] = KeyOf(rows[r]) /\ KeyOf(rows[r]) \in Key
        BY <3>1 DEF IdIn, ContentFor, KeyOf, Key, Row
      <3>. QED
        BY <3>1, <3>2 DEF Decided, Contents
    <2>. QED
      BY <2>1 DEF IdsIn
  <1>7. \A r \in DOMAIN rows :
          /\ DOMAIN rows' = DOMAIN rows /\ IdIn(rows', r) = IdIn(rows, r)
          /\ rows'[r].attempts = IF r \in failed THEN rows[r].attempts + 1
                                                  ELSE rows[r].attempts
          /\ rows'[r].status = SYNCED
               <=> \/ rows[r].status = SYNCED \/ r \in done
                   \/ r \in failed /\ rows[r].attempts + 1 >= MaxAttempts
    BY SettledRows DEF SameEvent, IdIn
  <1>8. DOMAIN rows' = DOMAIN rows
    <2>1. CASE DOMAIN rows = {}
      BY <2>1, SettleQuiet
    <2>. QED
      BY <1>7, <2>1
  <1>9. ASSUME NEW r \in OwedIn(rows)
        PROVE  /\ tried[IdIn(rows, r)] = rows'[r].attempts
               /\ rows[r].attempts \in Nat /\ rows'[r].attempts \in Nat
    <2>1. rows[r].attempts \in Nat
      BY <1>3 DEF BufferTypeOK, Row
    <2>2. IdIn(rows, r) \in DOMAIN O /\ O[IdIn(rows, r)] = rows[r].attempts
      BY <1>1
    <2>3. rows'[r].attempts = IF r \in failed THEN rows[r].attempts + 1
                                              ELSE rows[r].attempts
      BY <1>3, <1>7
    <2> HIDE DEF O, F
    <2>4. CASE r \in failed
      <3>1. tried[IdIn(rows, r)] = O[IdIn(rows, r)] + 1
        BY <1>4, <2>2, <2>4
      <3>. QED
        BY <2>1, <2>2, <2>3, <2>4, <3>1
    <2>5. CASE r \notin failed
      <3>1. tried[IdIn(rows, r)] = O[IdIn(rows, r)]
        BY <1>4, <2>2, <2>5
      <3>. QED
        BY <2>1, <2>2, <2>3, <2>5, <3>1
    <2>. QED
      BY <2>4, <2>5
  <1>10. ASSUME NEW r \in OwedIn(rows)
         PROVE  r \in OwedIn(rows') <=> IdIn(rows, r) \in kept
    <2>1. r \in DOMAIN rows /\ rows[r].status # SYNCED
      BY DEF OwedIn, WithStatus
    <2>2. r \in OwedIn(rows') <=> rows'[r].status # SYNCED
      BY <1>8, <2>1 DEF OwedIn, WithStatus
    <2>3. IdIn(rows, r) \in kept
            <=> r \notin done /\ (r \in failed => rows'[r].attempts < MaxAttempts)
      BY <1>1, <1>4, <1>9
    <2>4. r \in failed => (rows'[r].attempts < MaxAttempts
                              <=> ~(rows[r].attempts + 1 >= MaxAttempts))
      <3>1. ASSUME r \in failed PROVE rows'[r].attempts = rows[r].attempts + 1
        BY <1>7, <2>1, <3>1
      <3>2. rows[r].attempts \in Nat /\ MaxAttempts \in Nat
        BY <1>9, AttemptsAssumption
      <3>. QED
        BY <3>1, <3>2
    <2>. QED
      BY <1>7, <2>1, <2>2, <2>3, <2>4
  <1>11. OwedIn(rows') \subseteq OwedIn(rows)
    BY <1>7, <1>8 DEF OwedIn, WithStatus
  <1> HIDE DEF D, F, tried
  <1>12. OwedOf(rows') = [e \in kept |-> tried[e]]
    <2>1. DOMAIN OwedOf(rows') = kept
      BY <1>1, <1>3, <1>7, <1>10, <1>11
    <2>2. ASSUME NEW e \in kept PROVE OwedOf(rows')[e] = tried[e]
      BY <1>1, <1>3, <1>7, <1>9, <1>10, <1>11
    <2>3. OwedOf(rows') = [e \in DOMAIN OwedOf(rows') |-> OwedOf(rows')[e]]
      BY DEF OwedOf
    <2>. QED
      BY <2>1, <2>2, <2>3
  <1>13. OwedOf(rows)' = SettledOf(rows, D, F)
    BY <1>12 DEF SettledOf, Restrict, tried
  <1>14. UNCHANGED <<droppedUnsynced, droppedHeld>>
    BY DEF Settle
  <1>. QED
    BY <1>5, <1>6, <1>13, <1>14, SettleMaps

LEMMA ConcludeMaps ==
  ASSUME DedupInv, NEW i \in Running, Conclude(i)
  PROVE  Delivery!DeliveryNext \/ UNCHANGED Delivery!deliveryVars
  <1>1. chain[i] \in Work /\ UNCHANGED <<rows, droppedUnsynced, droppedHeld>>
    BY RunningIsHead DEF DedupInv, Conclude, bufferVars, counters
  <1>2. PICK p \in chain[i].at :
          \/ log' = [log EXCEPT ![KeyOf(p[2])] = @ + 1]
          \/ UNCHANGED log
    BY Zenon DEF Conclude
  <1>3. OwedOf(rows)' = OwedOf(rows)
    BY <1>1
  <1>4. CASE UNCHANGED log
    BY <1>1, <1>3, <1>4, StutterMaps
  <1>5. CASE log' = [log EXCEPT ![KeyOf(p[2])] = @ + 1]
    <2> DEFINE e == <<p[2].source, p[2].id>>
    <2>1. p[2] \in Event
      BY <1>1 DEF Work, WorkItem
    <2>2. e \in Source \X EventId /\ ContentFor[e] = KeyOf(p[2]) /\ KeyOf(p[2]) \in Key
      BY <2>1, KeyOfEvent DEF Event, ContentFor, KeyOf
    <2>3. log \in [Key -> Nat]
      BY DEF DedupInv, LogTypes
    <2>4. \A k \in Key : log'[k] > 0 <=> log[k] > 0 \/ k = KeyOf(p[2])
      BY <1>5, <2>2, <2>3
    <2>5. Contents(log)' = Contents(log) \cup {ContentFor[e]}
      BY <2>2, <2>4 DEF Contents, Remembered
    <2>. QED
      BY <1>1, <2>2, <2>5, DeliverMaps
  <1>. QED
    BY <1>2, <1>4, <1>5

LEMMA SettleCycleMaps ==
  ASSUME BufferTypeOK, OneRowPerEvent, OneRowPerEvent', OutcomesOK,
         NEW c \in Consumer, SettleCycle(c) \/ FailCycle(c)
  PROVE  Delivery!DeliveryNext \/ UNCHANGED Delivery!deliveryVars
  <1>1. UNCHANGED log /\ Judged(rows, nextRowid, log, outcomes[c].done)
    BY DEF SettleCycle, FailCycle, OutcomesOK
  <1>2. \/ \E failed : Settle(c, outcomes[c].done, failed)
        \/ UNCHANGED <<rows, droppedUnsynced, droppedHeld>>
    BY DEF SettleCycle, FailCycle, Handled, EndCycle, counters
  <1>3. CASE UNCHANGED <<rows, droppedUnsynced, droppedHeld>>
    BY <1>1, <1>3, StutterMaps
  <1>. QED
    BY <1>1, <1>2, <1>3, SettleIsSettled

LEMMA DeliveryStep ==
  ASSUME BufferTypeOK, OneRowPerEvent, OneRowPerEvent', DedupInv, OutcomesOK,
         [IngestNext]_ingestVars
  PROVE  Delivery!DeliveryNext \/ UNCHANGED Delivery!deliveryVars
  <1>1. ASSUME NEW batch \in Batches, Poll(batch) \/ Post(batch)
        PROVE  Delivery!DeliveryNext
    BY <1>1, PushBatchMaps DEF Poll, Post, pipelineVars
  <1>2. ASSUME NEW batch \in Batches, CrashInPush(batch)
        PROVE  Delivery!DeliveryNext
    BY <1>2, PushTornMaps DEF CrashInPush, ForgetMemory
  <1>3. ASSUME NEW c \in Consumer, SettleCycle(c) \/ FailCycle(c)
        PROVE  Delivery!DeliveryNext \/ UNCHANGED Delivery!deliveryVars
    BY <1>3, SettleCycleMaps
  <1>4. ASSUME NEW i \in Running, Conclude(i)
        PROVE  Delivery!DeliveryNext \/ UNCHANGED Delivery!deliveryVars
    BY <1>4, ConcludeMaps
  <1>5. ASSUME NEW k \in MasterKey, Restart(k)
        PROVE  Delivery!DeliveryNext
    <2>1. Open(k) /\ UNCHANGED log /\ droppedUnsynced' = 0 /\ droppedHeld' = 0
      BY <1>5 DEF Restart, Open
    <2>2. OwedOf(rows)' = OwedOf(rows)
      BY <2>1, OwedKept
    <2>. QED
      BY <2>1, <2>2, RestartMaps
  <1>6. ASSUME NEW c, NEW B \in SUBSET UnsyncedRows, StartCycle(c, B)
        PROVE  UNCHANGED Delivery!deliveryVars
    <2>1. Fetch(c, B) /\ UNCHANGED <<log, droppedUnsynced, droppedHeld>>
      BY <1>6 DEF StartCycle, Fetch, counters
    <2>2. OwedOf(rows)' = OwedOf(rows)
      BY <2>1, OwedKept
    <2>. QED
      BY <2>1, <2>2, StutterMaps
  <1>7. CASE DaemonCycle \/ \E c \in Consumer : ToolCycle(c)
    BY <1>6, <1>7, FetchRowids DEF DaemonCycle, ToolCycle
  <1>8. CASE Retire
    <2>1. (cleanup \/ UNCHANGED rows) /\ UNCHANGED <<log, droppedUnsynced, droppedHeld>>
      BY <1>8 DEF Retire, Tick, cleanup, pipelineVars, counters
    <2>2. OwedOf(rows)' = OwedOf(rows)
      BY <2>1, OwedKept
    <2>. QED
      BY <2>1, <2>2, StutterMaps
  <1>9. CASE \/ BeginInFreshWindow \/ Crash \/ HashesExpire \/ UNCHANGED ingestVars
             \/ \E i \in Running : Begin(i, spent) \/ Judge(i) \/ Return(i)
    <2>1. UNCHANGED <<rows, log, droppedUnsynced, droppedHeld>>
      BY <1>9 DEF BeginInFreshWindow, Begin, Judge, Return, Crash, Close, ForgetMemory,
                  HashesExpire, ingestVars, pipelineVars, bufferVars, counters
    <2>. QED
      BY <2>1, StutterMaps
  <1>. QED
    BY <1>1, <1>2, <1>3, <1>4, <1>5, <1>7, <1>8, <1>9 DEF IngestNext, Ingest

(* The queue and the pipeline keep the collector's promise: an event they  *)
(* accepted is owed to the memory until its content is there, until it was *)
(* tried MaxAttempts times, or until it is dropped for room and counted;   *)
(* and what is settled is what was delivered, failed or not wanted.        *)
THEOREM QueueDelivers == IngestSpec => EventsAreDelivered
<1>1. IngestInit => Delivery!DeliveryInit
  BY InitMaps
<1>2. IngestSpec => [](BufferTypeOK /\ OneRowPerEvent /\ DedupInv /\ VerdictInv)
  BY IngestIsABuffer, OneRow, Dedup, Verdicts, PTL
<1>3. /\ BufferTypeOK /\ OneRowPerEvent /\ DedupInv /\ VerdictInv /\ OneRowPerEvent'
      /\ [IngestNext]_ingestVars
      => [Delivery!DeliveryNext]_Delivery!deliveryVars
  BY DeliveryStep DEF VerdictInv
<1>. QED
  BY <1>1, <1>2, <1>3, PTL DEF IngestSpec, EventsAreDelivered, Delivery!DeliverySpec
=============================================================================
