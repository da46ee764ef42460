---------------------------- MODULE SourceRegistry ----------------------------
(***************************************************************************)
(* Who may switch a data source on, and what survives: the registry of the *)
(* collector (collector/registry.ts), the dashboard's source handlers and  *)
(* page, and the memory_sources tool.                                      *)
(*                                                                         *)
(* Lifecycle operations on a source wait in its queue (withSourceLock) and *)
(* run one at a time, with awaits inside; configure, agree and add_custom  *)
(* are synchronous and may land in any of these awaits.  The registry      *)
(* state is one record, saved whole and encrypted.  A custom source stands *)
(* for what it runs or reads, its definition.                              *)
(***************************************************************************)
EXTENDS Naturals, Sequences

CONSTANTS
  Source,      \* ids
  Custom,      \* the ids a user-defined source can have
  NeedsDeps,   \* the built-in sources whose modules are installed on demand
  Def,         \* definitions (consentFingerprint)
  Setting,     \* settings a user can give
  Key,         \* master keys the process may be started with
  Default,     \* the settings of a source never configured
  BuiltIn,     \* what a built-in source is consented to as
  None, Keep,
  Listed,      \* consent as old versions recorded it: for the id alone
  MaxCalls,    \* bound: calls and starts together
  MaxAdds, MaxStarts, MaxQueue, MaxBackupFailures   \* bounds

ASSUME SourceAssumption == /\ Custom \subseteq Source
                           /\ NeedsDeps \subseteq Source \ Custom
ASSUME NamesAssumption ==
  /\ {None, Keep, Listed} \intersect (Def \union Setting \union {Default, BuiltIn}) = {}
  /\ None \notin Key \union {Keep, Listed} /\ BuiltIn \notin Def
ASSUME LimitsAssumption ==
  /\ {MaxCalls, MaxAdds, MaxStarts, MaxQueue, MaxBackupFailures} \subseteq Nat
  /\ Key # {} /\ Def # {}

VARIABLES
  key,       \* of the running process, or None
  config,    \* state.configs
  defs,      \* state.customSources
  agreed,    \* state.agreement: for the id, and for which definition
  cursor,    \* state.checkpoints: which definition's collection it is of
  disk,      \* collector-config.enc
  backups,   \* its .corrupt copies
  active,    \* activeAdapters: the definition each instance was made with
  queue,     \* sourceOps
  phase, held,   \* where the operation at the head is, what it computed
  shown,     \* the definition in the dashboard's confirm dialog
  consented, \* history: what the user agreed to last and did not withdraw
  wanted,    \* history: the last switch carried out was to "on"
  chosen,    \* history: the settings the user was last told are stored
  unsure,    \* history: a call overlapped another, or was cut short or its key lost
  subject,   \* bound: the one source the calls of a behaviour are about
  calls, adds, starts, backupFailures

state    == <<config, defs, agreed, cursor>>
running  == <<active, queue, phase, held>>
history  == <<consented, wanted, chosen, unsure>>
limits   == <<subject, calls, adds, starts, backupFailures>>
registryVars == <<key, state, disk, backups, running, shown, history, limits>>

Config == [enabled : BOOLEAN, settings : Setting \union {Default}]
(* What consent is bound to: the definition, or just the built-in source.  *)
Shape == Def \union {BuiltIn}
Op == [kind : {"enable", "disable", "remove", "resume"}, origin : {"user", "agent"},
       change : Setting \union {Keep}]
Saved == [key : Key, config : [Source -> Config \union {None}],
          defs : [Custom -> Def \union {None}],
          agreed : [Source -> Shape \union {None, Listed}],
          cursor : [Source -> Shape \union {None}]]

(* None is no value of any of these. *)
ASSUME NoneAssumption == None \notin Config \union Saved

Up == key # None
Exists(s) == s \in Custom => defs[s] # None
ShapeOf(s) == IF s \in Custom THEN defs[s] ELSE BuiltIn

(* Mutant: consent holds for whatever the source has become. *)
AgreedToId(s) == agreed[s] # None

hasAgreement(s) == IF s \in Custom THEN agreed[s] \in Def /\ agreed[s] = defs[s]
                                   ELSE agreed[s] # None

saveState == disk' = [key |-> key', config |-> config', defs |-> defs',
                      agreed |-> agreed', cursor |-> cursor']

-----------------------------------------------------------------------------
(* The synchronous calls.                                                  *)

Effective(s) == IF config[s] = None THEN [enabled |-> FALSE, settings |-> Default] ELSE config[s]

(* Mutant: a change is applied to the defaults. *)
ChangedDefaults(s, change) ==
  [enabled |-> FALSE, settings |-> IF change = Keep THEN Default ELSE change]

Changed(s, change) ==
  [Effective(s) EXCEPT !.settings = IF change = Keep THEN @ ELSE change]

(* Mutant: an agent may give settings too. *)
AnyoneMayChange(s, origin, change) == TRUE

applyConfigChange(s, origin, change) ==
  change \in {Keep, Effective(s).settings} \/ origin = "user"

Awaiting(s) == phase[s] \in {"installing", "destroying", "starting"}

Spent == calls + starts < MaxCalls /\ calls' = calls + 1 /\ UNCHANGED <<subject, adds, starts, backupFailures>>

(* What the user is told is stored                                         *)
Told(s, change) == [chosen EXCEPT ![s] = IF change = Keep THEN @ ELSE change]

updateSourceConfig(s, origin, change) ==
  /\ Up /\ s = subject /\ Exists(s) /\ Spent
  /\ applyConfigChange(s, origin, change)
  /\ config' = [config EXCEPT ![s] = Changed(s, change)]
  /\ UNCHANGED <<key, defs, agreed, cursor, backups, running, shown, consented, wanted>>
  /\ saveState
  /\ chosen' = IF origin = "user" THEN Told(s, change) ELSE chosen
  /\ unsure' = [unsure EXCEPT ![s] = IF Awaiting(s) THEN @ \union {"overlap"} ELSE @]

Revoked(s) == [agreed EXCEPT ![s] = None]

addCustomSource(s, d) ==
  /\ Up /\ s = subject /\ ~Exists(s) /\ adds < MaxAdds
  /\ defs' = [defs EXCEPT ![s] = d]
  /\ agreed' = Revoked(s)
  /\ adds' = adds + 1
  /\ UNCHANGED <<key, config, cursor, backups, running, shown, history, subject, calls, starts, backupFailures>>
  /\ saveState

(* The page reads /api/sources and asks; the user confirms what it shows.  *)
Show(s) ==
  /\ Up /\ s = subject /\ Exists(s) /\ shown[s] # ShapeOf(s)
  /\ shown' = [shown EXCEPT ![s] = ShapeOf(s)]
  /\ UNCHANGED <<key, state, disk, backups, running, history, limits>>

recordAgreement(s) ==
  /\ Up /\ shown[s] # None
  /\ shown[s] = ShapeOf(s)         \* else refused: it changed since it was shown
  /\ agreed' = [agreed EXCEPT ![s] = shown[s]]
  /\ consented' = [consented EXCEPT ![s] = shown[s]]
  /\ shown' = [shown EXCEPT ![s] = None]
  /\ UNCHANGED <<key, config, defs, cursor, backups, running, wanted, chosen, unsure, limits>>
  /\ saveState

(* A poll's events are buffered; the cursor of an active source is saved.  *)
saveCheckpoint(s) ==
  /\ Up /\ active[s] # None /\ cursor[s] # active[s]
  /\ cursor' = [cursor EXCEPT ![s] = active[s]]
  /\ UNCHANGED <<key, config, defs, agreed, backups, running, shown, history, limits>>
  /\ saveState

-----------------------------------------------------------------------------
(* The lifecycle operations.                                               *)

(* enable, disable and remove_custom, by the dashboard or an MCP client    *)
Call(s, op) ==
  /\ Up /\ s = subject /\ Len(queue[s]) < MaxQueue /\ Spent
  /\ op.kind = "remove" => s \in Custom
  /\ op.kind # "enable" => op.change = Keep
  /\ op.kind # "resume"
  /\ queue' = [queue EXCEPT ![s] = Append(@, op)]
  /\ UNCHANGED <<key, state, disk, backups, active, phase, held, shown, history>>

Running(s, kinds) == queue[s] # <<>> /\ Head(queue[s]).kind \in kinds

Pop(s) ==
  /\ queue' = [queue EXCEPT ![s] = Tail(@)]
  /\ phase' = [phase EXCEPT ![s] = "idle"]
  /\ held' = [held EXCEPT ![s] = None]

(* Mutant: a queued resume runs whatever happened before it. *)
ResumeAnyway(s) == TRUE

(* The checks restoreEnabledSources repeats under the lock *)
StillToResume(s) == config[s] # None /\ config[s].enabled /\ active[s] = None

Granted(s) ==
  LET op == Head(queue[s]) IN
  /\ Exists(s) /\ hasAgreement(s)
  /\ op.kind = "resume" => StillToResume(s)
  /\ applyConfigChange(s, op.origin, op.change)

Refused(s) ==
  /\ Running(s, {"enable", "resume"}) /\ phase[s] = "idle" /\ ~Granted(s)
  /\ Pop(s)
  /\ UNCHANGED <<key, state, disk, backups, active, shown, history, limits>>

InstanceReleased(s) == [active EXCEPT ![s] = None]

(* The new configuration is in place; a running instance is torn down.     *)
Apply(s, to, was) ==
  /\ config' = [config EXCEPT ![s] = [to EXCEPT !.enabled = TRUE]]
  /\ active' = InstanceReleased(s)
  /\ phase' = [phase EXCEPT ![s] = IF active[s] # None THEN "destroying" ELSE "starting"]
  /\ held' = [held EXCEPT ![s] = [to |-> to, was |-> was]]
  /\ wanted' = [wanted EXCEPT ![s] = @ \/ Head(queue[s]).kind = "enable"]
  /\ UNCHANGED <<key, defs, agreed, cursor, disk, backups, queue, shown,
                 consented, chosen, unsure, limits>>

(* enableSourceUnlocked, up to its first await *)
BeginEnable(s) ==
  /\ Running(s, {"enable", "resume"}) /\ phase[s] = "idle" /\ Granted(s)
  /\ LET to == Changed(s, Head(queue[s]).change) IN
     \/ /\ s \in NeedsDeps
        /\ phase' = [phase EXCEPT ![s] = "installing"]
        /\ held' = [held EXCEPT ![s] = [to |-> to, was |-> FALSE]]
        /\ UNCHANGED <<key, state, disk, backups, active, queue, shown, history, limits>>
     \/ s \notin NeedsDeps /\ Apply(s, to, Effective(s).enabled)

Installed(s) ==
  /\ phase[s] = "installing"
  /\ Apply(s, held[s].to, Effective(s).enabled)

InstallFails(s) ==
  /\ phase[s] = "installing"
  /\ Pop(s)
  /\ UNCHANGED <<key, state, disk, backups, active, shown, history, limits>>

Destroyed(s) ==
  /\ phase[s] = "destroying"
  /\ phase' = [phase EXCEPT ![s] = "starting"]
  /\ UNCHANGED <<key, state, disk, backups, active, queue, held, shown, history, limits>>

Answered(s) ==
  /\ Pop(s)
  /\ chosen' = IF Head(queue[s]).origin = "user" THEN Told(s, Head(queue[s]).change) ELSE chosen
  /\ UNCHANGED <<consented, unsure>>

InitSucceeds(s) ==
  /\ phase[s] = "starting"
  /\ active' = [active EXCEPT ![s] = ShapeOf(s)]
  /\ Answered(s)
  /\ UNCHANGED <<key, state, backups, shown, wanted, limits>>
  /\ saveState

(* It never got going: off, with the settings typed.  A resume stays on.   *)
InitFails(s) ==
  /\ phase[s] = "starting"
  /\ Answered(s)
  /\ UNCHANGED <<key, defs, agreed, cursor, backups, active, shown, limits>>
  /\ \/ /\ Head(queue[s]).origin = "user" \/ ~held[s].was
        /\ config' = [config EXCEPT ![s] = [held[s].to EXCEPT !.enabled = FALSE]]
        /\ wanted' = [wanted EXCEPT ![s] = FALSE]
        /\ saveState
     \/ /\ Head(queue[s]).origin = "agent" /\ held[s].was
        /\ UNCHANGED <<config, wanted, disk>>

Off(s) == [config EXCEPT ![s] = IF @ = None THEN None ELSE [@ EXCEPT !.enabled = FALSE]]

CursorDropped(s) == [cursor EXCEPT ![s] = None]

(* disableSourceUnlocked and removeCustomSourceUnlocked, after destroy     *)
SwitchedOff(s) ==
  /\ Pop(s)
  /\ wanted' = [wanted EXCEPT ![s] = FALSE]
  /\ UNCHANGED <<key, backups, shown, unsure, limits>>
  /\ \/ /\ Running(s, {"disable"})
        /\ config' = Off(s)
        /\ IF Head(queue[s]).origin = "user"
             THEN agreed' = Revoked(s) /\ consented' = [consented EXCEPT ![s] = None]
             ELSE UNCHANGED <<agreed, consented>>
        /\ UNCHANGED <<defs, cursor, chosen>>
     \/ /\ Running(s, {"remove"})
        /\ config' = [config EXCEPT ![s] = None]
        /\ defs' = [defs EXCEPT ![s] = None]
        /\ cursor' = CursorDropped(s)
        /\ agreed' = Revoked(s)
        /\ consented' = [consented EXCEPT ![s] = None]
        /\ chosen' = [chosen EXCEPT ![s] = Default]
  /\ saveState

BeginDisable(s) ==
  /\ Running(s, {"disable", "remove"}) /\ phase[s] = "idle"
  /\ \/ /\ ~Exists(s)                                     \* unknown, not found
        /\ Pop(s)
        /\ UNCHANGED <<key, state, disk, backups, active, shown, history, limits>>
     \/ /\ Exists(s) /\ active[s] = None
        /\ SwitchedOff(s) /\ UNCHANGED active
     \/ /\ Exists(s) /\ active[s] # None
        /\ active' = InstanceReleased(s)
        /\ phase' = [phase EXCEPT ![s] = "disabling"]
        /\ UNCHANGED <<key, state, disk, backups, queue, held, shown, history, limits>>

EndDisable(s) ==
  /\ phase[s] = "disabling"
  /\ SwitchedOff(s)
  /\ UNCHANGED active

(* Mutant: a source that never collected is not resumed. *)
DueOnceCollected == {s \in Source : config[s] # None /\ config[s].enabled /\ active[s] = None
                                    /\ Exists(s) /\ cursor[s] # None}

Due == {s \in Source : config[s] # None /\ config[s].enabled /\ active[s] = None /\ Exists(s)}

(* At the start and every ten minutes                                      *)
restoreEnabledSources ==
  LET gone   == {s \in Due : ~hasAgreement(s)}
      resume == {s \in Due \ gone : Len(queue[s]) < MaxQueue
                                    /\ \A i \in DOMAIN queue[s] : queue[s][i].kind # "resume"} IN
  /\ Up /\ gone \union resume # {}
  /\ config' = [s \in Source |-> IF s \in gone THEN [config[s] EXCEPT !.enabled = FALSE] ELSE config[s]]
  /\ queue' = [s \in Source |->
                 IF s \in resume
                 THEN Append(queue[s], [kind |-> "resume", origin |-> "agent", change |-> Keep])
                 ELSE queue[s]]
  /\ UNCHANGED <<key, defs, agreed, cursor, backups, active, phase, held, shown, history, limits>>
  /\ IF gone = {} THEN UNCHANGED disk ELSE saveState

-----------------------------------------------------------------------------
(* The process.                                                            *)

Empty(k) == [key |-> k, config |-> [s \in Source |-> None], defs |-> [c \in Custom |-> None],
             agreed |-> [s \in Source |-> None], cursor |-> [s \in Source |-> None]]

Preserved == backups \union {disk}

Unreadable(k) == disk # None /\ disk.key # k

Load(k, st) ==
  /\ key' = k
  /\ config' = st.config /\ defs' = st.defs /\ agreed' = st.agreed /\ cursor' = st.cursor

(* The registry's constructor and loadState                                *)
Start(k) ==
  /\ ~Up /\ starts < MaxStarts /\ calls + starts < MaxCalls
  /\ starts' = starts + 1
  /\ \/ /\ ~Unreadable(k)
        /\ Load(k, IF disk = None THEN Empty(k) ELSE disk)
        /\ UNCHANGED <<backups, unsure, backupFailures>>
     \/ /\ Unreadable(k)
        /\ Load(k, Empty(k))
        /\ unsure' = [s \in Source |-> {"lost"}]
        /\ \/ backups' = Preserved /\ UNCHANGED backupFailures
           \/ /\ backupFailures < MaxBackupFailures
              /\ backupFailures' = backupFailures + 1
              /\ UNCHANGED backups
  /\ UNCHANGED <<disk, running, shown, consented, wanted, chosen, subject, calls, adds>>

Die ==
  /\ key' = None
  /\ config' = Empty(None).config /\ defs' = Empty(None).defs
  /\ agreed' = Empty(None).agreed /\ cursor' = Empty(None).cursor
  /\ active' = [s \in Source |-> None] /\ queue' = [s \in Source |-> <<>>]
  /\ phase' = [s \in Source |-> "idle"] /\ held' = [s \in Source |-> None]
  /\ unsure' = [s \in Source |-> IF phase[s] # "idle" THEN {"lost"} ELSE unsure[s]]
  /\ UNCHANGED <<backups, consented, wanted, chosen, limits>>

(* destroyCollector at a shutdown, or a crash: nothing is saved            *)
Stop == Up /\ Die /\ UNCHANGED <<disk, shown>>

(* It dies between the two saves of a removal.                             *)
DieRemoving(s) ==
  /\ phase[s] = "disabling" /\ Running(s, {"remove"})
  /\ disk' = [key |-> key, config |-> Off(s), defs |-> defs, agreed |-> agreed, cursor |-> cursor]
  /\ Die /\ UNCHANGED shown

-----------------------------------------------------------------------------
(* No file, or the file of a version that recorded consent for ids alone:  *)
(* the built-in sources on or never used, a custom source there or removed *)
(* since.                                                                  *)
OldFile(k, d, on) ==
  LET Enabled(s) == IF s \in Custom THEN d # None ELSE on IN
  [key    |-> k,
   config |-> [s \in Source |-> IF Enabled(s) THEN [enabled |-> TRUE, settings |-> Default]
                                               ELSE None],
   defs   |-> [c \in Custom |-> d],
   agreed |-> [s \in Source |-> IF s \in Custom \/ on THEN Listed ELSE None],
   cursor |-> [s \in Source |-> None]]

(* Keys and definitions are alike, so one of each will do.                 *)
OldFiles == {OldFile(CHOOSE k \in Key : TRUE, d, on) :
               d \in {None, CHOOSE d \in Def : TRUE}, on \in BOOLEAN}

RegistryInit ==
  /\ key = None
  /\ config = Empty(None).config /\ defs = Empty(None).defs
  /\ agreed = Empty(None).agreed /\ cursor = Empty(None).cursor
  /\ disk \in OldFiles \union {None}
  /\ backups = {}
  /\ active = [s \in Source |-> None] /\ queue = [s \in Source |-> <<>>]
  /\ phase = [s \in Source |-> "idle"] /\ held = [s \in Source |-> None]
  /\ shown = [s \in Source |-> None] 
  /\ consented = [s \in Source |-> IF s \notin Custom /\ disk # None /\ disk.agreed[s] # None
                                 THEN BuiltIn ELSE None]
  /\ wanted = [s \in Source |-> disk # None /\ disk.config[s] # None]
  /\ chosen = [s \in Source |-> Default] /\ unsure = [s \in Source |-> {}]
  /\ subject \in Source /\ calls = 0 /\ adds = 0 /\ starts = 0 /\ backupFailures = 0

Lifecycle(s) ==
  \/ Refused(s) \/ BeginEnable(s) \/ Installed(s) \/ InstallFails(s) \/ Destroyed(s)
  \/ InitSucceeds(s) \/ InitFails(s) \/ BeginDisable(s) \/ EndDisable(s)

RegistryNext ==
  \/ \E k \in Key : Start(k)
  \/ Stop
  \/ restoreEnabledSources
  \/ \E s \in Source :
       \/ Lifecycle(s)
       \/ \E op \in Op : Call(s, op)
       \/ \E origin \in {"user", "agent"}, c \in Setting \union {Keep} :
            updateSourceConfig(s, origin, c)
       \/ Show(s) \/ recordAgreement(s) \/ saveCheckpoint(s) \/ DieRemoving(s)
  \/ \E c \in Custom, d \in Def : addCustomSource(c, d)

RegistrySpec == RegistryInit /\ [][RegistryNext]_registryVars

(* The timer fires, promises settle, and what can be reached and installed *)
(* now and then is reached.                                                *)
FairRegistrySpec ==
  /\ RegistrySpec
  /\ WF_registryVars(restoreEnabledSources)
  /\ \A s \in Source : /\ WF_registryVars(Lifecycle(s))
                       /\ SF_registryVars(Installed(s)) /\ SF_registryVars(InitSucceeds(s))

-----------------------------------------------------------------------------
(* Properties *)

(* Types; and one instance of a source at most: none is up while another   *)
(* is torn down or brought up (withSourceLock: two enables "both ran init  *)
(* on the one adapter object").                                            *)
RegistryTypeOK ==
  /\ key \in Key \union {None}
  /\ Up => [key |-> key, config |-> config, defs |-> defs, agreed |-> agreed, cursor |-> cursor] \in Saved
  /\ disk \in Saved \union {None} /\ backups \subseteq Saved
  /\ active \in [Source -> Shape \union {None}]
  /\ \A s \in Source :
       /\ queue[s] \in Seq(Op) /\ Len(queue[s]) <= MaxQueue
       /\ phase[s] # "idle" => queue[s] # <<>>
       /\ phase[s] \in {"destroying", "starting", "disabling"} => active[s] = None

(* What runs is what the user saw and agreed to, and did not withdraw      *)
(* since: no agent, no resume, no source re-added under a trusted id gets  *)
(* anything else going (recordAgreement, addCustomSource).                 *)
OnlyConsentedRuns == \A s \in Source : active[s] # None => active[s] = consented[s]

(* A source that was switched off, by anyone, stays off until someone      *)
(* switches it on: the resume timer never does (restoreEnabledSources: "a  *)
(* disable queued ahead of this resume must win").                         *)
OffStaysOff == \A s \in Source : active[s] # None => wanted[s]

(* What runs would run again after a restart at any moment: the file holds *)
(* its switch and its consent.                                             *)
RunningIsSaved ==
  /\ RegistryTypeOK
  /\ \A s \in Source : active[s] # None =>
       /\ disk # None /\ disk.key = key
       /\ disk.config[s] # None /\ disk.config[s].enabled
       /\ disk.agreed[s] = agreed[s] /\ hasAgreement(s)

InForce(s) == Up /\ phase[s] = "idle" /\ config[s] # None

(* The settings in force are the ones the user was last told are stored,   *)
(* where no configure call landed in the awaits of an enable and none was  *)
(* cut short; no agent ever changed them.                                  *)
SettingsKeptAlone ==
  \A s \in Source : InForce(s) /\ unsure[s] = {} => config[s].settings = chosen[s]

(* A source left on, with its consent, runs in the end: whatever fails at  *)
(* a start is retried.                                                     *)
EnabledComesBack ==
  \A s \in Source :
    <>[](Up /\ config[s] # None /\ config[s].enabled /\ hasAgreement(s))
      => <>[](active[s] # None)
=============================================================================
