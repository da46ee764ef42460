---------------------------- MODULE IndexProofs ----------------------------
(***************************************************************************)
(* Proof that a content hash vouches for the rows of its file, for any     *)
(* number of files, contents, servers and providers.                       *)
(***************************************************************************)
EXTENDS MemoryIndex, FiniteSetTheorems, TLAPS

(* The servers that are up at one time are of one provider; which one it   *)
(* is may change from one time to the next.                                *)
OneProvider == \A s, r \in Server : Up(s) /\ Up(r) => provider[s] = provider[r]

Rebuild == {<<"clear">>, <<"forget">>, <<"stamp">>}

(* Statements are of servers that are there.                               *)
ServersOK ==
  /\ kills \in Nat
  /\ \A s \in Server : doing[s] # Ready => Up(s)
  /\ \A s \in Server : Up(s) => provider[s] \in Provider

OneSweepTask ==
  \A s \in Server : \A d, e \in embedding[s] : d.from = "sweep" /\ e.from = "sweep" => d = e

(* A server past its rebuild finds its own format.                         *)
Formatted == \A s \in Server : Up(s) /\ doing[s] \notin Rebuild => stamp = provider[s]

(* What is stamped anew holds no hash.                                     *)
Wiped ==
  \A s \in Server : doing[s] = <<"stamp">> /\ stamp # provider[s]
    => \A f \in File : hash[f] \notin Content

(* A hash without its rows is about to go.                                 *)
Going(f) == \E s \in Server : doing[s] \in {<<"forget">>, <<"meta", f>>}

Vouching ==
  kills = 0 => \A f \in File :
    /\ hash[f] \in Text => \/ chunks[f] = [text |-> hash[f], by |-> stamp]
                           \/ chunks[f] = NoChunks /\ Going(f)
    /\ hash[f] = Blank => chunks[f] = NoChunks

IndexInv == IndexTypeOK /\ ServersOK /\ OneSweepTask /\ Formatted /\ Wiped /\ Vouching

----------------------------------------------------------------------------
LEMMA Statements ==
  /\ Rebuild \subseteq Statement /\ Ready \notin Rebuild
  /\ \A f \in File : <<"meta", f>> \in Statement \ Rebuild /\ <<"meta", f>> # Ready
  /\ \A g \in SUBSET File : <<"drop", g>> \in Statement \ Rebuild /\ <<"drop", g>> # Ready
  /\ \A f \in File, g \in SUBSET File : <<"drop", g>> # <<"meta", f>>
  /\ \A f, g \in File : <<"meta", f>> = <<"meta", g>> => f = g
  /\ Ready # <<"clear">> /\ Ready # <<"forget">> /\ Ready # <<"stamp">>
  /\ <<"clear">> # <<"forget">> /\ <<"clear">> # <<"stamp">> /\ <<"forget">> # <<"stamp">>
  BY DistinctAssumption DEF Rebuild, Statement, DistinctAssumption

LEMMA Contents ==
  /\ Blank \notin Text /\ Content = Text \cup {Blank}
  /\ Gone \notin Content /\ Link \notin Content /\ NoHash \notin Content /\ NoRow \notin Content
  /\ NoProvider \notin Provider
  BY DistinctAssumption DEF DistinctAssumption, Content

LEMMA AtMostOne ==
  ASSUME NEW E, \A d, e \in E : d.from = "sweep" /\ e.from = "sweep" => d = e
  PROVE  Cardinality({e \in E : e.from = "sweep"}) <= 1
  <1> DEFINE S == {e \in E : e.from = "sweep"}
  <1> SUFFICES Cardinality(S) <= 1
    OBVIOUS
  <1> \A d, e \in S : d = e
    OBVIOUS
  <1> HIDE DEF S
  <1>1. CASE S = {}
    BY <1>1, FS_EmptySet
  <1>2. CASE S # {}
    <2>1. PICK d \in S : TRUE
      BY <1>2
    <2>2. S = {d}
      BY <2>1
    <2>3. Cardinality({d}) = 1
      BY FS_Singleton
    <2>. QED
      BY <2>2, <2>3
  <1>. QED
    BY <1>1, <1>2

(* Steps that leave the index and the servers alone.                       *)
LEMMA IndexRests ==
  ASSUME IndexInv, UNCHANGED <<index, role, provider, doing, kills>>
  PROVE  ServersOK' /\ Formatted' /\ Wiped' /\ Vouching'
  BY DEF IndexInv, index, ServersOK, Formatted, Wiped, Vouching, Going, Up

LEMMA TypesFollow ==
  ASSUME OneSweepTask',
         disk' \in [File -> Content \union {Gone, Link}],
         chunks' \in [File -> Rows \union {NoChunks}],
         hash' \in [File -> Content \union {NoHash, NoRow}],
         stamp' \in Provider \union {NoProvider},
         setting' \in Settings,
         role' \in [Server -> {"down", "primary", "secondary", "fenced"}],
         provider' \in [Server -> Provider \union {NoProvider}],
         doing' \in [Server -> Statement \union {Ready}],
         embedding' \in [Server -> SUBSET Task],
         sweep' \in [Server -> Sweep \union {NoSweep}],
         pending' \in [Server -> SUBSET File]
  PROVE  IndexTypeOK'
  <1>1. \A s \in Server : Cardinality({e \in embedding'[s] : e.from = "sweep"}) <= 1
    BY AtMostOne DEF OneSweepTask
  <1>. QED
    BY <1>1 DEF IndexTypeOK

LEMMA IndexStarts == Init => IndexInv
  <1>1. SUFFICES ASSUME Init PROVE IndexInv
    OBVIOUS
  <1>2. OneSweepTask
    BY <1>1 DEF Init, OneSweepTask
  <1>3. \A s \in Server : Cardinality({e \in embedding[s] : e.from = "sweep"}) <= 1
    BY <1>2, AtMostOne DEF OneSweepTask
  <1>4. IndexTypeOK
    BY <1>1, <1>3 DEF Init, IndexTypeOK, Content
  <1>5. ServersOK /\ Formatted /\ Wiped
    BY <1>1, Statements, Contents DEF Init, ServersOK, Formatted, Wiped, Up, Rebuild
  <1>6. Vouching
    BY <1>1, Contents DEF Init, Vouching
  <1>. QED
    BY <1>2, <1>4, <1>5, <1>6 DEF IndexInv

----------------------------------------------------------------------------
(* Servers that come and go.                                               *)

LEMMA OpensStep ==
  ASSUME IndexInv, OneProvider', NEW s \in Server, NEW v \in Provider,
         doing[s] = Ready, role' = [role EXCEPT ![s] = IF HasPrimary THEN "secondary" ELSE "primary"],
         provider' = [provider EXCEPT ![s] = v],
         Reconciling(s, v), UNCHANGED <<disk, index, setting, tasks, kills>>
  PROVE  IndexInv'
  <1> USE Statements, Contents
  <1>1. OneSweepTask'
    BY DEF IndexInv, OneSweepTask, tasks
  <1>2. IndexTypeOK'
    BY <1>1, TypesFollow DEF IndexInv, IndexTypeOK, Reconciling, index, tasks, Rebuild
  <1>3. ServersOK'
    BY DEF IndexInv, IndexTypeOK, ServersOK, Up, Reconciling
  <1>4. Formatted'
    BY DEF IndexInv, IndexTypeOK, Formatted, Up, Reconciling, index, Rebuild
  <1>5. Wiped'
    BY DEF IndexInv, IndexTypeOK, Wiped, ServersOK, Up, Reconciling, index
  <1>6. Vouching'
    <2>1. \A f \in File : Going(f) => Going(f)'
      BY DEF IndexInv, IndexTypeOK, Going, Reconciling
    <2>. QED
      BY <2>1 DEF IndexInv, Vouching, index
  <1>. QED
    BY <1>1, <1>2, <1>3, <1>4, <1>5, <1>6 DEF IndexInv

LEMMA StartStep ==
  ASSUME IndexInv, OneProvider', NEW s \in Server, NEW v \in Provider, Start(s, v)
  PROVE  IndexInv'
  <1>1. doing[s] = Ready
    BY DEF IndexInv, ServersOK, Start, Up
  <1>. QED
    BY <1>1, OpensStep DEF Start

LEMMA TakeOverStep ==
  ASSUME IndexInv, OneProvider', NEW s \in Server, TakeOver(s)
  PROVE  IndexInv'
  <1>1. provider[s] \in Provider /\ provider' = [provider EXCEPT ![s] = provider[s]]
    BY DEF IndexInv, IndexTypeOK, ServersOK, TakeOver, Free
  <1>. QED
    BY <1>1, OpensStep DEF TakeOver, Free, bounds

LEMMA LeaveStep ==
  ASSUME IndexInv, NEW s \in Server, Leave(s), kills' \in Nat,
         kills' = 0 => kills = 0 /\ doing[s] = Ready
  PROVE  IndexInv'
  <1> USE Statements, Contents
  <1>1. OneSweepTask'
    BY DEF IndexInv, IndexTypeOK, OneSweepTask, Leave
  <1>2. IndexTypeOK'
    BY <1>1, TypesFollow DEF IndexInv, IndexTypeOK, Leave, index
  <1>3. /\ doing' = [doing EXCEPT ![s] = Ready] /\ role' = [role EXCEPT ![s] = "down"]
        /\ provider' = [provider EXCEPT ![s] = NoProvider] /\ hash' = hash /\ stamp' = stamp
    BY DEF Leave, index
  <1>5. ServersOK'
    BY <1>3 DEF IndexInv, IndexTypeOK, ServersOK, Up
  <1>6. Formatted'
    BY <1>3 DEF IndexInv, IndexTypeOK, Formatted, Up
  <1>7. Wiped'
    BY <1>3 DEF IndexInv, IndexTypeOK, Wiped
  <1>4. Vouching'
    <2>1. ASSUME kills' = 0 PROVE \A f \in File : Going(f) => Going(f)'
      BY <2>1 DEF IndexInv, IndexTypeOK, Going, Leave
    <2>. QED
      BY <2>1 DEF IndexInv, Vouching, index, Leave
  <1>. QED
    BY <1>1, <1>2, <1>4, <1>5, <1>6, <1>7 DEF IndexInv

LEMMA FenceStep ==
  ASSUME IndexInv, NEW s \in Server, Fence(s) PROVE IndexInv'
  <1>1. OneSweepTask'
    BY DEF IndexInv, OneSweepTask, Fence, tasks
  <1>2. IndexTypeOK'
    BY <1>1, TypesFollow DEF IndexInv, IndexTypeOK, Fence, index, tasks
  <1>3. ServersOK' /\ Formatted' /\ Wiped'
    BY DEF IndexInv, IndexTypeOK, ServersOK, Formatted, Wiped, Up, Free, Fence, index, bounds
  <1>4. Vouching'
    BY DEF IndexInv, Vouching, Going, Fence, index, bounds
  <1>. QED
    BY <1>1, <1>2, <1>3, <1>4 DEF IndexInv
----------------------------------------------------------------------------
(* The statements of a rebuild, and of a removal.                          *)

LEMMA RebuildStep ==
  ASSUME IndexInv, OneProvider, NEW s \in Server, NextStatement(s),
         ClearChunks(s) \/ ForgetHashes(s) \/ StampFormat(s)
  PROVE  IndexInv'
  <1> USE Statements, Contents
  <1>0. /\ Up(s) /\ provider[s] \in Provider
        /\ UNCHANGED <<disk, setting, role, provider, tasks, kills>>
    BY DEF NextStatement, identity, bounds, IndexInv, ServersOK
  <1>1. OneSweepTask'
    BY <1>0 DEF IndexInv, OneSweepTask, tasks
  <1>2. CASE ClearChunks(s)
    <2>1. IndexTypeOK'
      BY <1>0, <1>1, <1>2, TypesFollow DEF IndexInv, IndexTypeOK, ClearChunks, tasks, Rebuild
    <2>2. ServersOK' /\ Formatted' /\ Wiped'
      BY <1>0, <1>2 DEF IndexInv, IndexTypeOK, ServersOK, Formatted, Wiped, Up, ClearChunks, Rebuild
    <2>3. \A f \in File : Going(f)' /\ chunks'[f] = NoChunks
      BY <1>2 DEF Going, IndexInv, IndexTypeOK, ClearChunks
    <2>. QED
      BY <1>1, <2>1, <2>2, <2>3 DEF IndexInv, Vouching
  <1>3. CASE ForgetHashes(s)
    <2>0. \A f \in File : hash'[f] \in {NoHash, NoRow}
      BY <1>3 DEF ForgetHashes, Forgotten
    <2>1. IndexTypeOK'
      BY <1>0, <1>1, <1>3, TypesFollow
         DEF IndexInv, IndexTypeOK, ForgetHashes, Forgotten, tasks, Rebuild
    <2>2. ServersOK' /\ Formatted'
      BY <1>0, <1>3 DEF IndexInv, IndexTypeOK, ServersOK, Formatted, Up, ForgetHashes, Rebuild
    <2>3. Wiped' /\ Vouching'
      BY <2>0 DEF Wiped, Vouching
    <2>. QED
      BY <1>1, <2>1, <2>2, <2>3 DEF IndexInv
  <1>4. CASE StampFormat(s)
    <2>1. IndexTypeOK'
      BY <1>0, <1>1, <1>4, TypesFollow DEF IndexInv, IndexTypeOK, StampFormat, tasks
    <2>2. ServersOK'
      BY <1>0, <1>4 DEF IndexInv, IndexTypeOK, ServersOK, Up, StampFormat
    <2>3. Formatted' /\ Wiped'
      BY <1>0, <1>4 DEF IndexInv, IndexTypeOK, Formatted, Wiped, Up, StampFormat, OneProvider, ServersOK
    <2>4. Vouching'
      <3>1. CASE stamp = provider[s]
        <4>1. \A f \in File : Going(f) => Going(f)'
          BY <1>4 DEF IndexInv, IndexTypeOK, Going, StampFormat
        <4>. QED
          BY <1>0, <1>4, <3>1, <4>1 DEF IndexInv, Vouching, StampFormat
      <3>2. CASE stamp # provider[s]
        <4>1. \A f \in File : hash'[f] \notin Content
          BY <1>4, <3>2 DEF IndexInv, Wiped, StampFormat
        <4>. QED
          BY <4>1 DEF Vouching
      <3>. QED
        BY <3>1, <3>2
    <2>. QED
      BY <1>1, <2>1, <2>2, <2>3, <2>4 DEF IndexInv
  <1>. QED
    BY <1>2, <1>3, <1>4

LEMMA DropStep ==
  ASSUME IndexInv, NEW s \in Server, NextStatement(s), DropMeta(s) \/ DropRows(s)
  PROVE  IndexInv'
  <1> USE Statements, Contents
  <1>0. /\ Up(s) /\ stamp' = stamp /\ doing' = [doing EXCEPT ![s] = Ready]
        /\ UNCHANGED <<disk, setting, role, provider, tasks, kills>>
    BY DEF NextStatement, DropMeta, DropRows, identity, bounds
  <1>1. OneSweepTask'
    BY <1>0 DEF IndexInv, OneSweepTask, tasks
  <1>2. \A f \in File : (hash'[f] = hash[f] /\ chunks'[f] = chunks[f]) \/ hash'[f] = NoRow
    BY DEF DropMeta, DropRows, IndexInv, IndexTypeOK
  <1>3. IndexTypeOK'
    BY <1>0, <1>1, TypesFollow DEF IndexInv, IndexTypeOK, DropMeta, DropRows, tasks
  <1>4. doing[s] \notin Rebuild
    BY DEF DropMeta, DropRows
  <1>5. ServersOK' /\ Formatted' /\ Wiped'
    BY <1>0, <1>2, <1>4 DEF IndexInv, IndexTypeOK, ServersOK, Formatted, Wiped, Up
  <1>6. \A f \in File : Going(f) => Going(f)' \/ hash'[f] = NoRow
    <2>1. CASE DropMeta(s)
      BY <1>0, <2>1 DEF Going, IndexInv, IndexTypeOK, DropMeta
    <2>2. CASE DropRows(s)
      BY <1>0, <2>2 DEF Going, IndexInv, IndexTypeOK, DropRows
    <2>. QED
      BY <2>1, <2>2
  <1>7. Vouching'
    BY <1>0, <1>2, <1>6 DEF IndexInv, Vouching
  <1>. QED
    BY <1>1, <1>3, <1>5, <1>7 DEF IndexInv
----------------------------------------------------------------------------
(* reindexFile and its commit.                                             *)

(* While a server is between two operations, the index has one format.     *)
LEMMA InFormat ==
  ASSUME IndexInv, OneProvider, NEW s \in Server, Free(s)
  PROVE  stamp \in Provider /\ \A r \in Server : Up(r) => stamp = provider[r]
  BY Statements DEF IndexInv, Formatted, ServersOK, OneProvider, Free

IndexTables ==
  /\ chunks \in [File -> Rows \union {NoChunks}]
  /\ hash \in [File -> Content \union {NoHash, NoRow}]
  /\ stamp \in Provider \union {NoProvider}
  /\ doing \in [Server -> Statement \union {Ready}]
  /\ embedding \in [Server -> SUBSET Task]

LEMMA RemoveStep ==
  ASSUME IndexInv, OneProvider, NEW s \in Server, NEW f \in File, Free(s),
         removeFile(s, f), UNCHANGED <<stamp, role, provider, kills>>
  PROVE  IndexTables' /\ OneSweepTask' /\ ServersOK' /\ Formatted' /\ Wiped' /\ Vouching'
  <1> USE Statements, Contents
  <1>1. IndexTables' /\ OneSweepTask'
    BY DEF IndexInv, IndexTypeOK, IndexTables, OneSweepTask, removeFile
  <1>2. ServersOK' /\ Formatted' /\ Wiped'
    BY InFormat DEF IndexInv, IndexTypeOK, ServersOK, Formatted, Wiped, Up, Free, removeFile
  <1>3. \A g \in File : Going(g) => Going(g)'
    BY DEF IndexInv, IndexTypeOK, Going, Free, removeFile
  <1>4. Going(f)'
    BY DEF IndexInv, IndexTypeOK, Going, removeFile
  <1>5. Vouching'
    BY <1>3, <1>4 DEF IndexInv, IndexTypeOK, Vouching, removeFile
  <1>. QED
    BY <1>1, <1>2, <1>5

LEMMA ReindexStep ==
  ASSUME IndexInv, OneProvider, NEW s \in Server, NEW f \in File, NEW from \in {"sweep", "other"},
         Free(s), reindexFile(s, f, from), from = "sweep" => ~SweepBusy(s),
         UNCHANGED <<role, provider, kills>>
  PROVE  IndexTables' /\ OneSweepTask' /\ ServersOK' /\ Formatted' /\ Wiped' /\ Vouching'
  <1> USE Statements, Contents
  <1>0. stamp' = stamp
    BY DEF reindexFile
  <1>1. CASE UNCHANGED <<chunks, hash, doing, embedding>>
    <2>1. IndexTables' /\ OneSweepTask'
      BY <1>0, <1>1 DEF IndexInv, IndexTypeOK, IndexTables, OneSweepTask
    <2>. QED
      BY <1>0, <1>1, <2>1, IndexRests DEF index
  <1>2. CASE removeFile(s, f)
    BY <1>0, <1>2, RemoveStep
  <1>3. CASE disk[f] = Blank /\ clearFile(s, f)
    <2>1. IndexTables' /\ OneSweepTask'
      BY <1>0, <1>3 DEF IndexInv, IndexTypeOK, IndexTables, OneSweepTask, clearFile
    <2>2. ServersOK' /\ Formatted' /\ Wiped'
      BY <1>0, <1>3, InFormat DEF IndexInv, ServersOK, Formatted, Wiped, Up, clearFile
    <2>3. Vouching'
      BY <1>0, <1>3 DEF IndexInv, IndexTypeOK, Vouching, Going, clearFile
    <2>. QED
      BY <2>1, <2>2, <2>3
  <1>4. CASE disk[f] \in Text /\ Embed(s, f, from)
    <2> DEFINE t == [file |-> f, text |-> disk[f], from |-> from]
    <2>1. t \in Task /\ t.from = from
      BY <1>4 DEF Task
    <2>2. IndexTables'
      BY <1>0, <1>4, <2>1 DEF IndexInv, IndexTypeOK, IndexTables, Embed
    <2>3. from = "sweep" => \A e \in embedding[s] : e.from # "sweep"
      BY DEF SweepBusy
    <2>4. embedding' = [embedding EXCEPT ![s] = @ \union {t}]
      BY <1>4 DEF Embed
    <2> HIDE DEF t
    <2>5. OneSweepTask'
      BY <2>1, <2>3, <2>4 DEF IndexInv, IndexTypeOK, OneSweepTask
    <2>6. ServersOK' /\ Formatted' /\ Wiped' /\ Vouching'
      BY <1>0, <1>4, IndexRests DEF Embed, index
    <2>. QED
      BY <2>2, <2>5, <2>6
  <1>. QED
    BY <1>1, <1>2, <1>3, <1>4 DEF reindexFile

LEMMA CommitStep ==
  ASSUME IndexInv, OneProvider, NEW s \in Server, NEW f \in File, Commit(s, f)
  PROVE  IndexInv'
  <1> USE Statements, Contents
  <1>1. PICK e \in embedding[s] :
          /\ e.file = f /\ Free(s)
          /\ embedding' = [embedding EXCEPT ![s] = @ \ {e}]
          /\ IF hash[f] = e.text
               THEN UNCHANGED <<chunks, hash>>
               ELSE /\ chunks' = [chunks EXCEPT ![f] = [text |-> e.text, by |-> provider[s]]]
                    /\ hash' = [hash EXCEPT ![f] = e.text]
          /\ UNCHANGED <<disk, stamp, setting, role, provider, doing, sweep, pending, kills>>
    BY DEF Commit, identity, bounds
  <1>2. e.text \in Text /\ stamp \in Provider /\ provider[s] = stamp
    BY <1>1, InFormat DEF IndexInv, IndexTypeOK, Task, Free
  <1>3. OneSweepTask'
    BY <1>1 DEF IndexInv, IndexTypeOK, OneSweepTask
  <1>4. CASE hash[f] = e.text
    <2>1. IndexTypeOK'
      BY <1>1, <1>3, <1>4, TypesFollow DEF IndexInv, IndexTypeOK
    <2>. QED
      BY <1>1, <1>3, <1>4, <2>1, IndexRests DEF IndexInv, index
  <1>5. CASE hash[f] # e.text
    <2>1. [text |-> e.text, by |-> provider[s]] \in Rows
      BY <1>2 DEF Rows
    <2>2. IndexTypeOK'
      BY <1>1, <1>2, <1>3, <1>5, <2>1, TypesFollow DEF IndexInv, IndexTypeOK
    <2>3. ServersOK' /\ Formatted' /\ Wiped'
      BY <1>1, <1>2, InFormat DEF IndexInv, ServersOK, Formatted, Wiped, Up
    <2>4. Vouching'
      BY <1>1, <1>2, <1>5 DEF IndexInv, IndexTypeOK, Vouching, Going
    <2>. QED
      BY <1>3, <2>2, <2>3, <2>4 DEF IndexInv
  <1>. QED
    BY <1>4, <1>5

LEMMA FailsStep ==
  ASSUME IndexInv, NEW s \in Server, NEW e \in embedding[s], Fails(s, e)
  PROVE  IndexInv'
  <1>1. OneSweepTask'
    BY DEF IndexInv, IndexTypeOK, OneSweepTask, Fails
  <1>2. IndexTypeOK'
    BY <1>1, TypesFollow DEF IndexInv, IndexTypeOK, Fails, index, identity
  <1>. QED
    BY <1>1, <1>2, IndexRests DEF IndexInv, Fails, identity, bounds

----------------------------------------------------------------------------
(* The callers.                                                            *)

LEMMA SweepsStep ==
  ASSUME IndexInv, OneProvider, NEW s \in Server, SweepStep(s) PROVE IndexInv'
  <1>1. CASE StartSweep(s) \/ SweepAborts(s)
    <2>0. UNCHANGED <<disk, index, identity, doing, embedding, pending, bounds>>
      BY <1>1 DEF StartSweep, SweepAborts
    <2>1. OneSweepTask'
      BY <2>0 DEF IndexInv, OneSweepTask
    <2>2. MemoryFiles \in SUBSET File
      BY DEF MemoryFiles
    <2>3. sweep' \in [Server -> Sweep \union {NoSweep}]
      <3>1. [on |-> TRUE, listed |-> MemoryFiles, todo |-> MemoryFiles] \in Sweep
        BY <2>2 DEF Sweep
      <3>. QED
        BY <1>1, <3>1 DEF IndexInv, IndexTypeOK, StartSweep, SweepAborts
    <2>4. IndexTypeOK'
      BY <2>0, <2>1, <2>3, TypesFollow DEF IndexInv, IndexTypeOK, index, identity
    <2>. QED
      BY <2>0, <2>1, <2>4, IndexRests DEF IndexInv, identity, bounds
  <1>2. CASE SweepFile(s)
    <2>1. PICK f \in sweep[s].todo :
            /\ Free(s) /\ ~SweepBusy(s) /\ reindexFile(s, f, "sweep")
            /\ sweep' = [sweep EXCEPT ![s].todo = @ \ {f}]
            /\ UNCHANGED <<disk, identity, pending, bounds>>
      BY <1>2 DEF SweepFile
    <2>2. sweep[s] \in Sweep /\ f \in File
      <3>1. NoSweep.todo = {}
        BY DEF NoSweep
      <3>2. sweep[s] \in Sweep
        BY <2>1, <3>1 DEF IndexInv, IndexTypeOK
      <3>. QED
        BY <2>1, <3>2 DEF Sweep
    <2>3. IndexTables' /\ OneSweepTask' /\ ServersOK' /\ Formatted' /\ Wiped' /\ Vouching'
      BY <2>1, <2>2, ReindexStep DEF identity, bounds
    <2>4. sweep' \in [Server -> Sweep \union {NoSweep}]
      BY <2>1, <2>2 DEF IndexInv, IndexTypeOK, Sweep
    <2>5. IndexTypeOK'
      BY <2>1, <2>3, <2>4, TypesFollow DEF IndexInv, IndexTypeOK, IndexTables, identity
    <2>. QED
      BY <2>3, <2>5 DEF IndexInv
  <1>3. CASE SweepLists(s)
    <2>0. Unlisted(s) \in SUBSET File
      BY DEF Unlisted
    <2>1. OneSweepTask'
      BY <1>3 DEF IndexInv, OneSweepTask, SweepLists
    <2>2. IndexTypeOK'
      BY <1>3, <2>0, <2>1, Statements, TypesFollow
         DEF IndexInv, IndexTypeOK, SweepLists, index, identity
    <2>3. ServersOK' /\ Formatted' /\ Wiped'
      BY <1>3, <2>0, Statements
         DEF IndexInv, IndexTypeOK, ServersOK, Formatted, Wiped, Up, Free, SweepLists, index, identity, bounds
    <2>4. \A f \in File : Going(f) => Going(f)'
      BY <1>3, Statements DEF IndexInv, IndexTypeOK, Going, Free, SweepLists
    <2>5. Vouching'
      BY <1>3, <2>4 DEF IndexInv, Vouching, SweepLists, index, bounds
    <2>. QED
      BY <2>1, <2>2, <2>3, <2>5 DEF IndexInv
  <1>. QED
    BY <1>1, <1>2, <1>3 DEF SweepStep

LEMMA WatchStep ==
  ASSUME IndexInv, OneProvider, NEW s \in Server, WatchFile(s) PROVE IndexInv'
  <1>1. PICK f \in pending[s] :
          /\ Free(s) /\ pending' = [pending EXCEPT ![s] = @ \ {f}]
          /\ \/ removeFile(s, f) /\ UNCHANGED stamp
             \/ UNCHANGED <<index, doing, embedding>>
             \/ reindexFile(s, f, "other")
          /\ UNCHANGED <<disk, identity, sweep, bounds>>
    BY DEF WatchFile
  <1>2. f \in File /\ pending' \in [Server -> SUBSET File]
    BY <1>1 DEF IndexInv, IndexTypeOK
  <1>3. IndexTables' /\ OneSweepTask' /\ ServersOK' /\ Formatted' /\ Wiped' /\ Vouching'
    <2>1. CASE removeFile(s, f) /\ UNCHANGED stamp
      BY <1>1, <1>2, <2>1, RemoveStep DEF identity, bounds
    <2>2. CASE UNCHANGED <<index, doing, embedding>>
      <3>1. IndexTables' /\ OneSweepTask'
        BY <2>2 DEF IndexInv, IndexTypeOK, IndexTables, OneSweepTask, index
      <3>. QED
        BY <1>1, <2>2, <3>1, IndexRests DEF identity, bounds
    <2>3. CASE reindexFile(s, f, "other")
      BY <1>1, <1>2, <2>3, ReindexStep DEF identity, bounds
    <2>. QED
      BY <1>1, <2>1, <2>2, <2>3
  <1>4. IndexTypeOK'
    BY <1>1, <1>2, <1>3, TypesFollow DEF IndexInv, IndexTypeOK, IndexTables, identity
  <1>. QED
    BY <1>3, <1>4 DEF IndexInv

LEMMA ChangeStep ==
  ASSUME IndexInv, NEW f \in File,
         Edit(f) \/ \E s \in Server : Write(s, f)
  PROVE  IndexInv'
  <1>1. /\ \E c \in Content \union {Gone, Link} : disk' = [disk EXCEPT ![f] = c]
        /\ \E who \in SUBSET Server : pending' = Notices(f, who)
        /\ UNCHANGED <<index, identity, doing, sweep, kills>>
    <2>1. CASE Edit(f)
      BY <2>1 DEF Edit
    <2>2. ASSUME NEW s \in Server, Write(s, f) PROVE <1>1!1 /\ <1>1!2 /\ <1>1!3
      BY <2>2, Contents DEF Write
    <2>. QED
      BY <2>1, <2>2
  <1>2. embedding' \in [Server -> SUBSET Task] /\ OneSweepTask'
    <2>1. CASE Edit(f)
      BY <2>1 DEF Edit, IndexInv, IndexTypeOK, OneSweepTask
    <2>2. ASSUME NEW s \in Server, Write(s, f)
          PROVE embedding' \in [Server -> SUBSET Task] /\ OneSweepTask'
      <3>1. PICK t \in Text : embedding' = [embedding EXCEPT ![s] =
                                @ \union {[file |-> f, text |-> t, from |-> "other"]}]
        BY <2>2 DEF Write
      <3>2. PICK e \in Task : e.from = "other" /\ embedding' = [embedding EXCEPT ![s] = @ \union {e}]
        BY <3>1 DEF Task
      <3>. QED
        BY <3>2 DEF IndexInv, IndexTypeOK, OneSweepTask
    <2>. QED
      BY <2>1, <2>2
  <1>3. pending' \in [Server -> SUBSET File]
    BY <1>1 DEF Notices, IndexInv, IndexTypeOK
  <1>4. IndexTypeOK'
    BY <1>1, <1>2, <1>3, TypesFollow DEF IndexInv, IndexTypeOK, index, identity
  <1>. QED
    BY <1>1, <1>2, <1>4, IndexRests DEF IndexInv, identity

(* Steps that only take hashes away.                                       *)
LEMMA HashesGoStep ==
  ASSUME IndexInv,
         UNCHANGED <<disk, chunks, stamp, identity, doing, tasks, kills>>,
         hash' \in [File -> Content \union {NoHash, NoRow}],
         \A f \in File : hash'[f] = hash[f] \/ hash'[f] \notin Content
  PROVE  IndexInv'
  <1>1. OneSweepTask'
    BY DEF IndexInv, OneSweepTask, tasks
  <1>2. IndexTypeOK'
    BY <1>1, TypesFollow DEF IndexInv, IndexTypeOK, identity, tasks
  <1>3. ServersOK' /\ Formatted' /\ Wiped' /\ Vouching'
    BY DEF IndexInv, ServersOK, Formatted, Wiped, Vouching, Going, Up, identity, Content
  <1>. QED
    BY <1>1, <1>2, <1>3 DEF IndexInv

LEMMA IndexSteps == IndexInv /\ OneProvider /\ OneProvider' /\ [Next]_vars => IndexInv'
  <1>1. SUFFICES ASSUME IndexInv, OneProvider, OneProvider', [Next]_vars PROVE IndexInv'
    OBVIOUS
  <1>2. ASSUME NEW s \in Server, NEW v \in Provider, Start(s, v) PROVE IndexInv'
    BY <1>1, <1>2, StartStep
  <1>3. ASSUME NEW s \in Server, ServerStep(s) PROVE IndexInv'
    <2>1. CASE TakeOver(s)
      BY <1>1, <2>1, TakeOverStep
    <2>2. CASE Stop(s) \/ Kill(s)
      <3>1. kills' \in Nat /\ (kills' = 0 => kills = 0 /\ doing[s] = Ready)
        BY <1>1, <2>2 DEF IndexInv, ServersOK, Stop, Kill, Free
      <3>. QED
        BY <1>1, <2>2, <3>1, LeaveStep DEF Stop, Kill
    <2>3. CASE Fence(s)
      BY <1>1, <2>3, FenceStep
    <2>4. CASE NextStatement(s)
      BY <1>1, <2>4, RebuildStep, DropStep DEF NextStatement
    <2>5. ASSUME NEW f \in File, Commit(s, f) PROVE IndexInv'
      BY <1>1, <2>5, CommitStep
    <2>6. CASE Refused(s) \/ EmbedFails(s)
      BY <1>1, <2>6, FailsStep DEF Refused, EmbedFails
    <2>7. CASE SweepStep(s)
      BY <1>1, <2>7, SweepsStep
    <2>8. CASE WatchFile(s)
      BY <1>1, <2>8, WatchStep
    <2>9. CASE ForceReindex(s)
      <3>1. \A f \in File : Forgotten[f] \in {NoHash, NoRow}
        BY DEF Forgotten
      <3>. QED
        BY <1>1, <2>9, <3>1, Contents, HashesGoStep DEF ForceReindex, Forgotten
    <2>. QED
      BY <1>3, <2>1, <2>2, <2>3, <2>4, <2>5, <2>6, <2>7, <2>8, <2>9 DEF ServerStep
  <1>4. ASSUME NEW f \in File, Edit(f) PROVE IndexInv'
    BY <1>1, <1>4, ChangeStep
  <1>5. ASSUME NEW s \in Server, NEW f \in File, Write(s, f) PROVE IndexInv'
    BY <1>1, <1>5, ChangeStep
  <1>6. ASSUME NEW s \in Server, NEW f \in File, trackAccess(s, f) PROVE IndexInv'
    BY <1>1, <1>6, Contents, HashesGoStep DEF trackAccess, bounds, IndexInv, IndexTypeOK
  <1>7. CASE UNCHANGED vars
    <2>1. OneSweepTask'
      BY <1>1, <1>7 DEF IndexInv, OneSweepTask, vars, tasks
    <2>2. IndexTypeOK'
      BY <1>1, <1>7, <2>1, TypesFollow DEF IndexInv, IndexTypeOK, vars, index, identity, tasks
    <2>. QED
      BY <1>1, <1>7, <2>1, <2>2, IndexRests DEF IndexInv, vars, identity, bounds
  <1>. QED
    BY <1>1, <1>2, <1>3, <1>4, <1>5, <1>6, <1>7 DEF Next

LEMMA IndexInvVouches == IndexInv => HashVouches
  BY Statements DEF IndexInv, HashVouches, Quiet, Vouching, Going, Rebuild

(* Whatever servers come and go, take over, are fenced or interrupt each   *)
(* other between statements and in the embeddings' await (tools.ts:207-251, *)
(* store.ts:448-539, 642-714), no hash is left over rows of another text   *)
(* or another provider, if the servers that are up at one time are of one. *)
THEOREM HashesVouch == Spec /\ []OneProvider => []HashVouches
  <1>1. Init => IndexInv
    BY IndexStarts
  <1>2. IndexInv /\ OneProvider /\ OneProvider' /\ [Next]_vars => IndexInv'
    BY IndexSteps
  <1>3. IndexInv => HashVouches
    BY IndexInvVouches
  <1>. QED
    BY <1>1, <1>2, <1>3, PTL DEF Spec
=============================================================================
