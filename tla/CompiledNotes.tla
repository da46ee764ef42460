---------------------------- MODULE CompiledNotes ----------------------------
(***************************************************************************)
(* memory_compile: calls that turn an answer into a note of its own, in    *)
(* several servers on one store. A server lets one call at a time into a   *)
(* directory; between servers only the exclusive creation of the file      *)
(* keeps two calls from taking one name.                                   *)
(***************************************************************************)
EXTENDS Naturals, Sequences, FiniteSets

CONSTANTS
  Call,           \* memory_compile calls
  ServerOf,       \* the server each call came to
  DirOf,          \* the directory of its memory type
  TriesOf,        \* the names it would take, in order: slug, slug-2, ...
  Nobody,         \* who holds a free door; what a name without a note holds
  Torn, Theirs,   \* a note created and not yet written; made by something else
  MaxServerDeaths \* bound

NoteFile == UNION {{TriesOf[c][i] : i \in DOMAIN TriesOf[c]} : c \in Call}
Door == {<<ServerOf[c], DirOf[c]>> : c \in Call}
DoorOf(c) == <<ServerOf[c], DirOf[c]>>

ASSUME NotesAssumption ==
  /\ MaxServerDeaths \in Nat
  /\ Nobody \notin {Torn, Theirs} /\ Torn # Theirs /\ {Nobody, Torn, Theirs} \cap Call = {}
  /\ \A c \in Call : TriesOf[c] \in Seq(NoteFile) /\ TriesOf[c] # <<>>

VARIABLES
  note,           \* what each name holds: a call's note, another writer's, ...
  compileLock,    \* who holds each door, or Nobody
  call,           \* where each call is
  try,            \* which of its names it is at
  linking,        \* whether the file system has hard links
  serverDeaths    \* bound

noteVars == <<note, compileLock, call, try, linking, serverDeaths>>

InDoor == {"similar", "create", "write", "index"}

Goes(c, s) == call' = [call EXCEPT ![c] = s]
Leaves(c) == compileLock' = [compileLock EXCEPT ![DoorOf(c)] = Nobody]
NameOf(c) == TriesOf[c][try[c]]
Untaken(c) == {i \in DOMAIN TriesOf[c] : note[TriesOf[c][i]] = Nobody}

-----------------------------------------------------------------------------
(* A call finds the door taken and awaits the promise of who holds it.     *)
AwaitDoor(c) ==
  /\ call[c] = "new" /\ compileLock[DoorOf(c)] # Nobody
  /\ Goes(c, "waiting")
  /\ UNCHANGED <<note, compileLock, try, linking, serverDeaths>>

(* Of the calls a release wakes, the first takes the door, the others look *)
(* again and wait on.                                                      *)
DoorFree(c) == compileLock[DoorOf(c)] = Nobody

Enter(c) ==
  /\ call[c] \in {"new", "waiting"} /\ DoorFree(c)
  /\ \E i \in Untaken(c) : (\A j \in Untaken(c) : i <= j) /\ try' = [try EXCEPT ![c] = i]
  /\ compileLock' = [compileLock EXCEPT ![DoorOf(c)] = c]
  /\ Goes(c, "similar")
  /\ UNCHANGED <<note, linking, serverDeaths>>

(* Mutant: the error leaves the door taken. *)
DoorKept(c) == compileLock' = [compileLock EXCEPT ![DoorOf(c)] = c]

DoorAfterError(c) == Leaves(c)

(* No name is free, or the path is refused (a symbolic link): the lock     *)
(* just taken is released before the call is answered.                     *)
EnterFails(c) ==
  /\ call[c] \in {"new", "waiting"} /\ DoorFree(c)
  /\ DoorAfterError(c)
  /\ Goes(c, "refused")
  /\ UNCHANGED <<note, try, linking, serverDeaths>>

(* The awaited search finds nothing alike; or it does, or it fails, and    *)
(* the call is answered.                                                   *)
FindSimilar(c) ==
  /\ call[c] = "similar"
  /\ \/ Goes(c, "create") /\ UNCHANGED compileLock
     \/ Goes(c, "refused") /\ Leaves(c)
  /\ UNCHANGED <<note, try, linking, serverDeaths>>

(* Mutant: the note is renamed over whatever has the name by now. *)
RenamedOver(c) == FALSE

NameTaken(c) == note[NameOf(c)] # Nobody

(* writeFileExclusive: linked into place whole, or opened exclusively and  *)
(* then written.                                                           *)
Create(c) ==
  /\ call[c] = "create" /\ ~NameTaken(c)
  /\ note' = [note EXCEPT ![NameOf(c)] = IF linking THEN c ELSE Torn]
  /\ Goes(c, IF linking THEN "index" ELSE "write")
  /\ UNCHANGED <<compileLock, try, linking, serverDeaths>>

WriteBody(c) ==
  /\ call[c] = "write"
  /\ note' = [note EXCEPT ![NameOf(c)] = c]
  /\ Goes(c, "index")
  /\ UNCHANGED <<compileLock, try, linking, serverDeaths>>

(* The file cannot be created, or not be written to its end.               *)
CreateThrows(c) ==
  /\ call[c] \in {"create", "write"}
  /\ Goes(c, "refused") /\ Leaves(c)
  /\ UNCHANGED <<note, try, linking, serverDeaths>>

(* The name is taken: the next one, while there is one.                    *)
NextName(c) ==
  /\ call[c] = "create" /\ NameTaken(c)
  /\ IF try[c] < Len(TriesOf[c])
     THEN /\ try' = [try EXCEPT ![c] = @ + 1]
          /\ UNCHANGED <<call, compileLock>>
     ELSE /\ Goes(c, "refused") /\ Leaves(c)
          /\ UNCHANGED try
  /\ UNCHANGED <<note, linking, serverDeaths>>

(* Indexed, or left to the next sweep; MEMORY_INDEX.md rebuilt.            *)
Answer(c) ==
  /\ call[c] = "index"
  /\ Goes(c, "written") /\ Leaves(c)
  /\ UNCHANGED <<note, try, linking, serverDeaths>>

(* Something else on the store makes a file of that name.                  *)
OthersWrite(f) ==
  /\ note[f] = Nobody
  /\ note' = [note EXCEPT ![f] = Theirs]
  /\ UNCHANGED <<compileLock, call, try, linking, serverDeaths>>

ServerDies(s) ==
  /\ serverDeaths < MaxServerDeaths /\ serverDeaths' = serverDeaths + 1
  /\ call' = [c \in Call |-> IF ServerOf[c] = s /\ call[c] \in InDoor \union {"waiting"}
                             THEN "died" ELSE call[c]]
  /\ compileLock' = [d \in Door |-> IF d[1] = s THEN Nobody ELSE compileLock[d]]
  /\ UNCHANGED <<note, try, linking>>

NotesInit ==
  /\ note = [f \in NoteFile |-> Nobody]
  /\ compileLock = [d \in Door |-> Nobody]
  /\ call = [c \in Call |-> "new"] /\ try = [c \in Call |-> 1]
  /\ linking \in BOOLEAN /\ serverDeaths = 0

(* What a call that entered does next by itself. *)
Proceed(c) == FindSimilar(c) \/ Create(c) \/ WriteBody(c) \/ NextName(c) \/ Answer(c)

NotesNext ==
  \/ \E c \in Call : AwaitDoor(c) \/ Enter(c) \/ EnterFails(c) \/ Proceed(c) \/ CreateThrows(c)
  \/ \E f \in NoteFile : OthersWrite(f)
  \/ \E s \in {ServerOf[c] : c \in Call} : ServerDies(s)

(* Promises that resolve run: a woken call enters or waits on, and one     *)
(* that entered gets to its end.                                           *)
NotesFairness ==
  \A c \in Call : /\ WF_noteVars(Proceed(c))
                  /\ SF_noteVars(Enter(c) \/ EnterFails(c))

-----------------------------------------------------------------------------
(* Properties.                                                             *)

(* A note is whole from the moment it was created for its call and stays   *)
(* what it was: no other compile, in this server or another, takes its     *)
(* name (tools.ts:1453-1482, atomic-fs.ts:149-157).                        *)
NotesKept ==
  /\ \A c \in Call : call[c] \in {"index", "written"} => note[NameOf(c)] = c
  /\ \A c, d \in Call : {call[c], call[d]} = {"written"} /\ NameOf(c) = NameOf(d) => c = d

(* No call waits at a door for ever: each way out of a compile, errors     *)
(* included, opens it (tools.ts:1373-1384).                                *)
CompilesAnswered == <>[](\A c \in Call : call[c] # "waiting")
=============================================================================
