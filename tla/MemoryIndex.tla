---------------------------- MODULE MemoryIndex ----------------------------
(***************************************************************************)
(* The search index over the memory files: tools.ts (reindexFile, sweeps,  *)
(* the watcher, takeover) and store.ts (chunks, file_meta, store_meta).    *)
(* Files are shared by every server on the store and by programs that know *)
(* nothing of it (editors, git). A server is one thread: an operation runs *)
(* without interruption up to its await on the embeddings, but other       *)
(* servers run between any two of its SQL statements, and statements that  *)
(* are not in one transaction can be cut apart by the end of the process.  *)
(***************************************************************************)
EXTENDS Naturals, FiniteSets

CONSTANTS File,        \* paths below memories/
          Text,        \* contents that have something to index
          Server,      \* processes that may open the store
          Provider,    \* embedding providers
          Settings,    \* what MEMORIA_EMBEDDINGS may be at each server's starts
          MaxEdits, MaxStarts, MaxKills, MaxForces

CONSTANTS Blank,       \* a content with no indexable body
          Gone,        \* no such file
          Link,        \* the path is a symlink or a directory
          NoHash, NoRow, NoChunks, NoProvider, Ready

Content == Text \union {Blank}

ASSUME SettingsAssumption ==
  Settings \subseteq [Server -> SUBSET Provider]
ASSUME BoundsAssumption == {MaxEdits, MaxStarts, MaxKills, MaxForces} \subseteq Nat

VARIABLES
  disk,       \* what is at each path
  chunks,     \* the index rows of each file: their text and whose vectors
  hash,       \* file_meta.content_hash
  stamp,      \* store_meta.embedding_provider, with its dimension
  setting,    \* the providers each server may be started with
  role, provider,
  doing,      \* what is left of an operation of several statements
  embedding,  \* the reindexFile calls waiting for their embeddings
  sweep,      \* the sweep in flight
  pending,    \* the watcher's changes not yet looked at
  edits, starts, kills, forces

index == <<chunks, hash, stamp>>
identity == <<setting, role, provider>>
tasks == <<embedding, sweep, pending>>
bounds == <<edits, starts, kills, forces>>
vars == <<disk, index, identity, doing, tasks, bounds>>

Rows == [text : Text, by : Provider]
Task == [file : File, text : Text, from : {"sweep", "other"}]
Sweep == [on : {TRUE}, listed : SUBSET File, todo : SUBSET File]
NoSweep == [on |-> FALSE, listed |-> {}, todo |-> {}]
Statement == {<<"clear">>, <<"forget">>, <<"stamp">>} \union ({"meta"} \X File)
             \union ({"drop"} \X SUBSET File)

ASSUME DistinctAssumption ==
  /\ Blank \notin Text /\ {Gone, Link, NoHash, NoRow} \intersect Content = {}
  /\ Gone # Link /\ NoHash # NoRow
  /\ NoChunks \notin Rows /\ NoProvider \notin Provider /\ Ready \notin Statement

(* Types; and a server's sweep has at most one file at its embeddings: two  *)
(* sweeps of one server never run over each other (reindexAll's guard).    *)
IndexTypeOK ==
  /\ disk \in [File -> Content \union {Gone, Link}]
  /\ chunks \in [File -> Rows \union {NoChunks}]
  /\ hash \in [File -> Content \union {NoHash, NoRow}]
  /\ stamp \in Provider \union {NoProvider}
  /\ setting \in Settings
  /\ role \in [Server -> {"down", "primary", "secondary", "fenced"}]
  /\ provider \in [Server -> Provider \union {NoProvider}]
  /\ doing \in [Server -> Statement \union {Ready}]
  /\ embedding \in [Server -> SUBSET Task]
  /\ sweep \in [Server -> Sweep \union {NoSweep}]
  /\ pending \in [Server -> SUBSET File]
  /\ \A s \in Server : Cardinality({e \in embedding[s] : e.from = "sweep"}) <= 1

----------------------------------------------------------------------------
(* Who is there.                                                           *)

Up(s) == role[s] \in {"primary", "secondary", "fenced"}
Free(s) == Up(s) /\ doing[s] = Ready
Writable(s) == role[s] # "fenced"
HasPrimary == \E s \in Server : role[s] = "primary"

(* DELETE FROM chunks, UPDATE file_meta and the new store_meta rows, each  *)
(* its own transaction, when the index is of another provider.             *)
(* Mutant: the new format is stamped over the old rows. *)
StampedOver(s, v) ==
  /\ doing' = [doing EXCEPT ![s] = IF stamp = v THEN Ready ELSE <<"stamp">>]

Reconciling(s, v) ==
  /\ doing' = [doing EXCEPT ![s] = IF stamp = v THEN Ready ELSE <<"clear">>]

Start(s, v) ==
  /\ role[s] = "down" /\ starts < MaxStarts /\ v \in setting[s]
  /\ HasPrimary => stamp \in {v, NoProvider}     \* else a secondary refuses to open
  /\ role' = [role EXCEPT ![s] = IF HasPrimary THEN "secondary" ELSE "primary"]
  /\ provider' = [provider EXCEPT ![s] = v]
  /\ Reconciling(s, v)
  /\ starts' = starts + 1
  /\ UNCHANGED <<disk, index, setting, tasks, edits, kills, forces>>

TakeOver(s) ==
  /\ Free(s) /\ role[s] = "secondary" /\ ~HasPrimary
  /\ role' = [role EXCEPT ![s] = "primary"]
  /\ Reconciling(s, provider[s])
  /\ UNCHANGED <<disk, index, setting, provider, tasks, bounds>>

Leave(s) ==
  /\ role' = [role EXCEPT ![s] = "down"]
  /\ provider' = [provider EXCEPT ![s] = NoProvider]
  /\ doing' = [doing EXCEPT ![s] = Ready]
  /\ embedding' = [embedding EXCEPT ![s] = {}]
  /\ sweep' = [sweep EXCEPT ![s] = NoSweep]
  /\ pending' = [pending EXCEPT ![s] = {}]
  /\ UNCHANGED <<disk, index, setting, edits, starts, forces>>

(* A server ends between two operations, or is killed inside one.          *)
Stop(s) == Free(s) /\ Leave(s) /\ UNCHANGED kills
Kill(s) == Up(s) /\ doing[s] # Ready /\ kills < MaxKills /\ Leave(s) /\ kills' = kills + 1

(* The lock is lost; the heartbeat notices before another server has it.   *)
Fence(s) ==
  /\ Free(s) /\ role[s] = "primary"
  /\ role' = [role EXCEPT ![s] = "fenced"]
  /\ UNCHANGED <<disk, index, setting, provider, doing, tasks, bounds>>

----------------------------------------------------------------------------
(* The statements after the first of an operation.                         *)

ClearChunks(s) ==
  /\ doing[s] = <<"clear">>
  /\ chunks' = [f \in File |-> NoChunks]
  /\ doing' = [doing EXCEPT ![s] = <<"forget">>]
  /\ UNCHANGED <<hash, stamp>>

Forgotten == [f \in File |-> IF hash[f] = NoRow THEN NoRow ELSE NoHash]

ForgetHashes(s) ==
  /\ doing[s] = <<"forget">>
  /\ hash' = Forgotten
  /\ doing' = [doing EXCEPT ![s] = <<"stamp">>]
  /\ UNCHANGED <<chunks, stamp>>

StampFormat(s) ==
  /\ doing[s] = <<"stamp">>
  /\ stamp' = provider[s]
  /\ doing' = [doing EXCEPT ![s] = Ready]
  /\ UNCHANGED <<chunks, hash>>

DropMeta(s) ==
  \E f \in File :
    /\ doing[s] = <<"meta", f>>
    /\ hash' = [hash EXCEPT ![f] = NoRow]
    /\ doing' = [doing EXCEPT ![s] = Ready]
    /\ UNCHANGED <<chunks, stamp>>

DropRows(s) ==
  \E gone \in SUBSET File :
    /\ doing[s] = <<"drop", gone>>
    /\ chunks' = [f \in File |-> IF f \in gone THEN NoChunks ELSE chunks[f]]
    /\ hash' = [f \in File |-> IF f \in gone THEN NoRow ELSE hash[f]]
    /\ doing' = [doing EXCEPT ![s] = Ready]
    /\ UNCHANGED stamp

NextStatement(s) ==
  /\ Up(s)
  /\ ClearChunks(s) \/ ForgetHashes(s) \/ StampFormat(s) \/ DropMeta(s) \/ DropRows(s)
  /\ UNCHANGED <<disk, identity, tasks, bounds>>

----------------------------------------------------------------------------
(* reindexFile(f): its effect up to the await, `from` naming the caller.   *)

removeFile(s, f) ==
  /\ chunks' = [chunks EXCEPT ![f] = NoChunks]
  /\ doing' = [doing EXCEPT ![s] = <<"meta", f>>]
  /\ UNCHANGED <<hash, embedding>>

clearFile(s, f) ==
  /\ chunks' = [chunks EXCEPT ![f] = NoChunks]
  /\ hash' = [hash EXCEPT ![f] = disk[f]]
  /\ UNCHANGED <<doing, embedding>>

Embed(s, f, from) ==
  /\ embedding' = [embedding EXCEPT ![s] = @ \union {[file |-> f, text |-> disk[f], from |-> from]}]
  /\ UNCHANGED <<chunks, hash, doing>>

(* Mutant: a file is indexed once. *)
IndexedBefore(f) == disk[f] = Gone \/ (disk[f] # Link /\ hash[f] \in Content)

NothingToIndex(f) == disk[f] = Gone \/ (disk[f] # Link /\ hash[f] = disk[f])

reindexFile(s, f, from) ==
  /\ \/ NothingToIndex(f) /\ UNCHANGED <<chunks, hash, doing, embedding>>
     \/ disk[f] = Link /\ removeFile(s, f)
     \/ disk[f] = Blank /\ hash[f] # Blank /\ clearFile(s, f)
     \/ disk[f] \in Text /\ hash[f] # disk[f] /\ Embed(s, f, from)
  /\ UNCHANGED stamp

(* indexChunks, once the embeddings are there, or have failed.             *)
Fails(s, e) ==
  /\ embedding' = [embedding EXCEPT ![s] = @ \ {e}]
  /\ UNCHANGED <<disk, index, identity, doing, sweep, pending, bounds>>

EmbedFails(s) == \E e \in embedding[s] : Free(s) /\ Fails(s, e)

Accepts(s) == Writable(s) /\ stamp \in {provider[s], NoProvider}

Refused(s) == \E e \in embedding[s] : Free(s) /\ ~Accepts(s) /\ Fails(s, e)

Commit(s, f) ==
  \E e \in embedding[s] :
    /\ e.file = f /\ Free(s) /\ Accepts(s)
    /\ embedding' = [embedding EXCEPT ![s] = @ \ {e}]
    /\ IF hash[f] = e.text
         THEN UNCHANGED <<chunks, hash>>
         ELSE /\ chunks' = [chunks EXCEPT ![f] = [text |-> e.text, by |-> provider[s]]]
              /\ hash' = [hash EXCEPT ![f] = e.text]
    /\ UNCHANGED <<disk, stamp, identity, doing, sweep, pending, bounds>>

----------------------------------------------------------------------------
(* The callers: sweeps, the watcher, the tools.                            *)

MemoryFiles == {f \in File : disk[f] \in Content}

SweepBusy(s) == \E e \in embedding[s] : e.from = "sweep"

StartSweep(s) ==
  /\ Free(s) /\ Writable(s) /\ ~sweep[s].on
  /\ sweep' = [sweep EXCEPT ![s] = [on |-> TRUE, listed |-> MemoryFiles, todo |-> MemoryFiles]]
  /\ UNCHANGED <<disk, index, identity, doing, embedding, pending, bounds>>

SweepFile(s) ==
  \E f \in sweep[s].todo :
    /\ Free(s) /\ Writable(s) /\ ~SweepBusy(s)
    /\ reindexFile(s, f, "sweep")
    /\ sweep' = [sweep EXCEPT ![s].todo = @ \ {f}]
    /\ UNCHANGED <<disk, identity, pending, bounds>>

(* The files with rows in file_meta that neither listing of the sweep has. *)
Unlisted(s) == {f \in File : hash[f] # NoRow} \ (sweep[s].listed \union MemoryFiles)

(* retainFiles: the files are chosen, then their rows deleted in one       *)
(* transaction (DropRows).                                                 *)
SweepLists(s) ==
  /\ Free(s) /\ Writable(s) /\ sweep[s].on /\ sweep[s].todo = {} /\ ~SweepBusy(s)
  /\ doing' = [doing EXCEPT ![s] = <<"drop", Unlisted(s)>>]
  /\ sweep' = [sweep EXCEPT ![s] = NoSweep]
  /\ UNCHANGED <<disk, index, identity, embedding, pending, bounds>>

SweepAborts(s) ==
  /\ role[s] = "fenced" /\ sweep[s].on /\ ~SweepBusy(s)
  /\ sweep' = [sweep EXCEPT ![s] = NoSweep]
  /\ UNCHANGED <<disk, index, identity, doing, embedding, pending, bounds>>

SweepStep(s) == StartSweep(s) \/ SweepFile(s) \/ SweepLists(s) \/ SweepAborts(s)

(* The watcher looks at one changed path.                                  *)
WatchFile(s) ==
  \E f \in pending[s] :
    /\ Free(s)
    /\ pending' = [pending EXCEPT ![s] = @ \ {f}]
    /\ IF disk[f] = Gone
         THEN IF Writable(s) THEN removeFile(s, f) /\ UNCHANGED stamp
                             ELSE UNCHANGED <<index, doing, embedding>>
         ELSE \/ Writable(s) /\ reindexFile(s, f, "other")
              \/ ~Writable(s) /\ UNCHANGED <<index, doing, embedding>>
    /\ UNCHANGED <<disk, identity, sweep, bounds>>

(* The servers a change of f is reported to; a watch may report nothing.   *)
Notices(f, who) == [s \in Server |-> IF s \in who THEN pending[s] \union {f} ELSE pending[s]]

(* A change by another program: saved, deleted, replaced by a link.        *)
Edit(f) ==
  /\ edits < MaxEdits
  /\ \E c \in (Content \union {Gone, Link}) \ {disk[f]} : disk' = [disk EXCEPT ![f] = c]
  /\ \E who \in SUBSET {s \in Server : Up(s)} : pending' = Notices(f, who)
  /\ edits' = edits + 1
  /\ UNCHANGED <<index, identity, doing, embedding, sweep, starts, kills, forces>>

(* memory_write and the other tools that write: the file, then indexAfterWrite. *)
Write(s, f) ==
  /\ Free(s) /\ Writable(s) /\ edits < MaxEdits /\ disk[f] # Link
  /\ \E t \in Text \ {hash[f]} :
       /\ disk' = [disk EXCEPT ![f] = t]
       /\ embedding' = [embedding EXCEPT ![s] =
                          @ \union {[file |-> f, text |-> t, from |-> "other"]}]
  /\ \E who \in SUBSET {r \in Server : Up(r)} : pending' = Notices(f, who)
  /\ edits' = edits + 1
  /\ UNCHANGED <<index, identity, doing, sweep, starts, kills, forces>>

(* memory_index with force.                                                *)
ForceReindex(s) ==
  /\ Free(s) /\ Writable(s) /\ forces < MaxForces
  /\ hash' = Forgotten
  /\ forces' = forces + 1
  /\ UNCHANGED <<disk, chunks, stamp, identity, doing, tasks, edits, starts, kills>>

(* trackAccess: a read or a search hit leaves a row in file_meta.          *)
trackAccess(s, f) ==
  /\ Free(s) /\ Writable(s) /\ hash[f] = NoRow
  /\ chunks[f] # NoChunks \/ disk[f] \in Content
  /\ hash' = [hash EXCEPT ![f] = NoHash]
  /\ UNCHANGED <<disk, chunks, stamp, identity, doing, tasks, bounds>>

----------------------------------------------------------------------------
Init ==
  /\ disk \in [File -> Text \union {Gone}]
  /\ chunks = [f \in File |-> NoChunks] /\ hash = [f \in File |-> NoRow]
  /\ stamp = NoProvider
  /\ setting \in Settings
  /\ role = [s \in Server |-> "down"] /\ provider = [s \in Server |-> NoProvider]
  /\ doing = [s \in Server |-> Ready]
  /\ embedding = [s \in Server |-> {}] /\ sweep = [s \in Server |-> NoSweep]
  /\ pending = [s \in Server |-> {}]
  /\ edits = 0 /\ starts = 0 /\ kills = 0 /\ forces = 0

ServerStep(s) ==
  \/ TakeOver(s) \/ Stop(s) \/ Kill(s) \/ Fence(s) \/ NextStatement(s)
  \/ (\E f \in File : Commit(s, f)) \/ Refused(s) \/ EmbedFails(s) \/ SweepStep(s) \/ WatchFile(s)
  \/ ForceReindex(s)

Next ==
  \/ \E s \in Server, v \in Provider : Start(s, v)
  \/ \E s \in Server : ServerStep(s)
  \/ \E f \in File : Edit(f)
  \/ \E s \in Server, f \in File : Write(s, f) \/ trackAccess(s, f)

Spec == Init /\ [][Next]_vars

(* The event loop runs what is ready, timers fire, and an embedding call   *)
(* that is retried for ever succeeds in the end.                           *)
FairSpec ==
  /\ Spec
  /\ \A s \in Server :
       /\ WF_vars(NextStatement(s)) /\ WF_vars(SweepStep(s)) /\ WF_vars(WatchFile(s))
       /\ WF_vars(TakeOver(s)) /\ WF_vars(Refused(s))
       /\ \A f \in File : SF_vars(Commit(s, f))

----------------------------------------------------------------------------
(* What the index owes the files.                                          *)

Quiet == \A s \in Server : doing[s] = Ready

(* Between operations, a content hash vouches for the rows: a file whose   *)
(* content matches it is skipped by every sweep (hasContentChanged), so    *)
(* its rows must be of that very content and of the index's own provider.  *)
HashVouches ==
  /\ IndexTypeOK
  /\ Quiet /\ kills = 0 => \A f \in File :
       /\ hash[f] \in Text => chunks[f] = [text |-> hash[f], by |-> stamp]
       /\ hash[f] = Blank => chunks[f] = NoChunks

Serving == \E s \in Server : role[s] \in {"primary", "secondary"} /\ provider[s] = stamp

Agrees(f) ==
  /\ disk[f] \in Text => chunks[f] # NoChunks /\ chunks[f].text = disk[f]
  /\ disk[f] = Blank => chunks[f] = NoChunks

Forgets(f) == disk[f] \in {Gone, Link} => chunks[f] = NoChunks

(* Once the files rest and a server of the index's provider stays, the     *)
(* index ends up with the text of every file, whatever stale embedding,    *)
(* lost watch event, takeover or rebuild came before; and the rows of a    *)
(* deleted file, or of one replaced by a link, go, when one server at a    *)
(* time uses the store (tools.ts:322-358, store.ts:1187-1212).             *)
IndexConverges ==
  /\ (<>[]Serving /\ [](kills = 0)) => \A f \in File : <>[]Agrees(f)
  /\ (<>[]Serving /\ []\A s, r \in Server : Up(s) /\ Up(r) => s = r)
       => \A f \in File : <>[]Forgets(f)
=============================================================================
