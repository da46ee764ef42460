---------------------------- MODULE RegistryProofs ----------------------------
(***************************************************************************)
(* Proofs that only what the user agreed to runs, that what was switched   *)
(* off stays off, that what runs is saved and that settings are the        *)
(* user's, for any number of sources, calls, definitions, keys, restarts.  *)
(***************************************************************************)
EXTENDS SourceRegistry, SequenceTheorems, TLAPS

Held == [to : Config, was : BOOLEAN]
Phase == {"idle", "installing", "destroying", "starting", "disabling"}

StateTyped ==
  /\ key \in Key \cup {None}
  /\ config \in [Source -> Config \cup {None}]
  /\ defs \in [Custom -> Def \cup {None}]
  /\ agreed \in [Source -> Shape \cup {None, Listed}]
  /\ cursor \in [Source -> Shape \cup {None}]

DiskTyped == disk \in Saved \cup {None} /\ backups \subseteq Saved

(* An operation is at the head of its queue as long as it is under way,    *)
(* and nothing is queued or runs without a process.                        *)
RunningTyped ==
  /\ active \in [Source -> Shape \cup {None}]
  /\ queue \in [Source -> Seq(Op)] /\ \A s \in Source : Len(queue[s]) <= MaxQueue
  /\ phase \in [Source -> Phase]
  /\ held \in [Source -> Held \cup {None}]
  /\ \A s \in Source :
       /\ phase[s] # "idle" => queue[s] # <<>>
       /\ phase[s] \in {"installing", "destroying", "starting"} => held[s] \in Held
       /\ phase[s] \in {"destroying", "starting", "disabling"} => active[s] = None
       /\ queue[s] # <<>> \/ active[s] # None => Up

HistoryTyped ==
  /\ shown \in [Source -> Shape \cup {None}]
  /\ consented \in [Source -> Shape \cup {None}]
  /\ wanted \in [Source -> BOOLEAN]
  /\ chosen \in [Source -> Setting \cup {Default}]

LEMMA Names ==
  /\ None \notin Config /\ None \notin Saved /\ None \notin Key
  /\ None \notin Shape /\ Listed \notin Shape /\ None # Listed /\ None # Keep
  /\ Keep \notin Setting /\ Keep # Default /\ BuiltIn \notin Def
  BY NamesAssumption, NoneAssumption DEF NamesAssumption, NoneAssumption, Shape

LEMMA Switched ==
  ASSUME NEW c \in Config, NEW b \in BOOLEAN
  PROVE  /\ [c EXCEPT !.enabled = b] \in Config
         /\ [c EXCEPT !.enabled = b].enabled = b
         /\ [c EXCEPT !.enabled = b].settings = c.settings
  BY DEF Config

LEMMA Reset ==
  ASSUME NEW c \in Config, NEW v \in Setting \cup {Default}
  PROVE  /\ [c EXCEPT !.settings = v] \in Config
         /\ [c EXCEPT !.settings = v].enabled = c.enabled
         /\ [c EXCEPT !.settings = v].settings = v
  BY DEF Config

LEMMA EffectiveTyped ==
  ASSUME StateTyped, NEW s \in Source
  PROVE  /\ Effective(s) \in Config
         /\ config[s] # None => Effective(s) = config[s]
         /\ config[s] = None => Effective(s).settings = Default /\ Effective(s).enabled = FALSE
  BY DEF StateTyped, Effective, Config

LEMMA ChangedTyped ==
  ASSUME StateTyped, NEW s \in Source, NEW change \in Setting \cup {Keep}
  PROVE  /\ Changed(s, change) \in Config
         /\ Changed(s, change).enabled = Effective(s).enabled
         /\ change = Keep => Changed(s, change).settings = Effective(s).settings
         /\ change # Keep => Changed(s, change).settings = change
  <1> DEFINE e == Effective(s)
             v == IF change = Keep THEN e.settings ELSE change
  <1>1. e \in Config
    BY EffectiveTyped
  <1>2. v \in Setting \cup {Default}
    BY <1>1 DEF Config
  <1>3. Changed(s, change) = [e EXCEPT !.settings = v]
    BY DEF Changed
  <1> HIDE DEF e, v
  <1>4. Changed(s, change) \in Config /\ Changed(s, change).settings = v
    BY <1>1, <1>2, <1>3, Reset
  <1>5. Changed(s, change).enabled = e.enabled
    BY <1>1, <1>2, <1>3, Reset
  <1>. QED
    BY <1>4, <1>5 DEF e, v

LEMMA OffTyped ==
  ASSUME StateTyped, NEW s \in Source
  PROVE  /\ Off(s) \in [Source -> Config \cup {None}]
         /\ \A t \in Source \ {s} : Off(s)[t] = config[t]
         /\ config[s] = None => Off(s)[s] = None
         /\ config[s] # None => Off(s)[s] \in Config /\ Off(s)[s].enabled = FALSE
                                /\ Off(s)[s].settings = config[s].settings
  <1> DEFINE v == IF config[s] = None THEN None ELSE [config[s] EXCEPT !.enabled = FALSE]
  <1>1. Off(s) = [config EXCEPT ![s] = v]
    BY DEF Off
  <1>2. config[s] # None => v \in Config /\ v.enabled = FALSE /\ v.settings = config[s].settings
    BY Switched DEF StateTyped
  <1> HIDE DEF v
  <1>3. config[s] = None => v = None
    BY DEF v
  <1>. QED
    BY <1>1, <1>2, <1>3 DEF StateTyped

(* The head of a queue stays its head when more is queued.                 *)
LEMMA QueuedBehind ==
  ASSUME NEW q \in Seq(Op), NEW op \in Op
  PROVE  /\ Append(q, op) \in Seq(Op) /\ Append(q, op) # <<>>
         /\ Len(Append(q, op)) = Len(q) + 1
         /\ q # <<>> => Head(Append(q, op)) = Head(q)
  BY HeadTailProperties, AppendProperties

LEMMA SavedTyped ==
  ASSUME StateTyped', Up', saveState
  PROVE  /\ disk' \in Saved /\ disk' # None
         /\ disk'.key = key' /\ disk'.config = config' /\ disk'.defs = defs'
         /\ disk'.agreed = agreed' /\ disk'.cursor = cursor'
  BY Names DEF StateTyped, Up, saveState, Saved

-----------------------------------------------------------------------------
(* Types.                                                                  *)

TypesInv == StateTyped /\ DiskTyped /\ RunningTyped /\ HistoryTyped

LEMMA Popped ==
  ASSUME RunningTyped, NEW s \in Source, queue[s] # <<>>, Pop(s), key' = key,
         NEW v \in Shape \cup {None}, active' = [active EXCEPT ![s] = v]
  PROVE  RunningTyped'
  <1>1. Tail(queue[s]) \in Seq(Op) /\ Len(Tail(queue[s])) <= MaxQueue
    BY HeadTailProperties, LimitsAssumption DEF RunningTyped, LimitsAssumption
  <1>2. /\ queue' = [queue EXCEPT ![s] = Tail(queue[s])]
        /\ phase' = [phase EXCEPT ![s] = "idle"] /\ held' = [held EXCEPT ![s] = None]
    BY DEF Pop
  <1>3. Up /\ (Up' <=> Up)
    BY DEF RunningTyped, Up
  <1>. QED
    BY <1>1, <1>2, <1>3 DEF RunningTyped, Phase

LEMMA PhaseMoves ==
  ASSUME RunningTyped, NEW s \in Source, queue[s] # <<>>, queue' = queue, key' = key,
         NEW p \in Phase, phase' = [phase EXCEPT ![s] = p],
         NEW h \in Held \cup {None}, held' = [held EXCEPT ![s] = h],
         NEW v \in Shape \cup {None}, active' = [active EXCEPT ![s] = v],
         p \in {"installing", "destroying", "starting"} => h \in Held,
         p \in {"destroying", "starting", "disabling"} => v = None
  PROVE  RunningTyped'
  <1>1. Up /\ (Up' <=> Up)
    BY DEF RunningTyped, Up
  <1>. QED
    BY <1>1 DEF RunningTyped

LEMMA RunningStays ==
  ASSUME RunningTyped, UNCHANGED running, key' = key PROVE RunningTyped'
  BY DEF RunningTyped, running, Up

LEMMA SameInstance ==
  ASSUME RunningTyped, NEW s \in Source
  PROVE  /\ active = [active EXCEPT ![s] = active[s]] /\ active[s] \in Shape \cup {None}
         /\ held = [held EXCEPT ![s] = held[s]] /\ held[s] \in Held \cup {None}
         /\ [active EXCEPT ![s] = None] = InstanceReleased(s)
  BY DEF RunningTyped, InstanceReleased

LEMMA ApplyTyped ==
  ASSUME TypesInv, NEW s \in Source, NEW to \in Config, NEW was \in BOOLEAN,
         queue[s] # <<>>, Apply(s, to, was)
  PROVE  TypesInv'
  <1>1. /\ config' = [config EXCEPT ![s] = [to EXCEPT !.enabled = TRUE]]
        /\ active' = [active EXCEPT ![s] = None]
        /\ phase' = [phase EXCEPT ![s] = IF active[s] # None THEN "destroying" ELSE "starting"]
        /\ held' = [held EXCEPT ![s] = [to |-> to, was |-> was]]
        /\ UNCHANGED <<key, defs, agreed, cursor, disk, backups, queue, shown, consented, chosen>>
    BY DEF Apply, InstanceReleased
  <1>2. wanted' \in [Source -> BOOLEAN]
    BY Zenon DEF Apply, TypesInv, HistoryTyped
  <1>3. StateTyped'
    BY <1>1, Switched DEF TypesInv, StateTyped
  <1>4. DiskTyped' /\ HistoryTyped'
    BY <1>1, <1>2 DEF TypesInv, DiskTyped, HistoryTyped
  <1>5. RunningTyped'
    <2> DEFINE p == IF active[s] # None THEN "destroying" ELSE "starting"
               h == [to |-> to, was |-> was]
    <2>1. p \in Phase /\ h \in Held
      BY DEF Phase, Held
    <2>2. RunningTyped /\ phase' = [phase EXCEPT ![s] = p] /\ held' = [held EXCEPT ![s] = h]
      BY <1>1 DEF TypesInv
    <2> HIDE DEF p, h
    <2>. QED
      BY <1>1, <2>1, <2>2, PhaseMoves
  <1>. QED
    BY <1>3, <1>4, <1>5 DEF TypesInv

LEMMA AnswerTyped ==
  ASSUME TypesInv, NEW s \in Source, queue[s] # <<>>, Answered(s)
  PROVE  chosen' \in [Source -> Setting \cup {Default}] /\ UNCHANGED consented
  <1>1. Head(queue[s]) \in Op
    BY HeadTailProperties DEF TypesInv, RunningTyped
  <1>2. Head(queue[s]).change \in Setting \cup {Keep}
    BY <1>1 DEF Op
  <1>. QED
    BY <1>2 DEF Answered, Told, TypesInv, HistoryTyped

LEMMA SwitchOffTyped ==
  ASSUME TypesInv, NEW s \in Source, queue[s] # <<>>, active[s] = None, active' = active,
         SwitchedOff(s)
  PROVE  TypesInv'
  <1>1. Pop(s) /\ wanted' = [wanted EXCEPT ![s] = FALSE] /\ UNCHANGED <<key, backups, shown>>
        /\ saveState
    BY DEF SwitchedOff
  <1>2. RunningTyped'
    BY <1>1, Popped, SameInstance DEF TypesInv
  <1>3. Up'
    BY <1>1 DEF TypesInv, RunningTyped, Up
  <1>4. \/ /\ config' = Off(s)
           /\ \/ agreed' = Revoked(s) /\ consented' = [consented EXCEPT ![s] = None]
              \/ UNCHANGED <<agreed, consented>>
           /\ UNCHANGED <<defs, cursor, chosen>>
        \/ /\ config' = [config EXCEPT ![s] = None]
           /\ defs' = [defs EXCEPT ![s] = None]
           /\ cursor' = CursorDropped(s)
           /\ agreed' = Revoked(s)
           /\ consented' = [consented EXCEPT ![s] = None]
           /\ chosen' = [chosen EXCEPT ![s] = Default]
    BY DEF SwitchedOff
  <1>5. StateTyped'
    BY <1>1, <1>4, OffTyped DEF TypesInv, StateTyped, Revoked, CursorDropped
  <1>6. HistoryTyped'
    BY <1>1, <1>4 DEF TypesInv, HistoryTyped
  <1>7. DiskTyped'
    BY <1>1, <1>3, <1>5, SavedTyped DEF TypesInv, DiskTyped
  <1>. QED
    BY <1>2, <1>5, <1>6, <1>7 DEF TypesInv

LEMMA LifecycleTyped ==
  ASSUME TypesInv, NEW s \in Source, Lifecycle(s) PROVE TypesInv'
  <1>1. StateTyped /\ DiskTyped /\ RunningTyped /\ HistoryTyped
    BY DEF TypesInv
  <1>2. queue[s] # <<>>
    BY DEF TypesInv, RunningTyped, Lifecycle, Refused, BeginEnable, Installed, InstallFails,
       Destroyed, InitSucceeds, InitFails, BeginDisable, EndDisable, Running
  <1>3. Head(queue[s]) \in Op /\ Head(queue[s]).change \in Setting \cup {Keep}
    <2>1. Head(queue[s]) \in Op
      BY <1>1, <1>2, HeadTailProperties DEF RunningTyped
    <2>. QED
      BY <2>1 DEF Op
  <1>4. Up
    BY <1>1, <1>2 DEF RunningTyped
  <1>5. ASSUME UNCHANGED <<key, state, disk, backups, shown, history>>, RunningTyped'
        PROVE  TypesInv'
    BY <1>1, <1>5 DEF TypesInv, StateTyped, DiskTyped, HistoryTyped, state, history
  <1>6. ASSUME UNCHANGED <<key, state, disk, backups, active, shown, history>>, Pop(s)
        PROVE  TypesInv'
    BY <1>1, <1>2, <1>5, <1>6, Popped, SameInstance
  <1>7. CASE Refused(s) \/ InstallFails(s)
    BY <1>6, <1>7 DEF Refused, InstallFails
  <1>8. CASE BeginEnable(s)
    <2> DEFINE to == Changed(s, Head(queue[s]).change)
    <2>1. to \in Config /\ Effective(s).enabled \in BOOLEAN
      BY <1>1, <1>3, ChangedTyped, EffectiveTyped DEF Config
    <2>2. CASE Apply(s, to, Effective(s).enabled)
      BY <1>2, <2>1, <2>2, ApplyTyped
    <2>3. CASE /\ phase' = [phase EXCEPT ![s] = "installing"]
               /\ held' = [held EXCEPT ![s] = [to |-> to, was |-> FALSE]]
               /\ UNCHANGED <<key, state, disk, backups, active, queue, shown, history>>
      <3>1. [to |-> to, was |-> FALSE] \in Held
        BY <2>1 DEF Held
      <3>2. RunningTyped'
        BY <1>1, <1>2, <2>3, <3>1, PhaseMoves, SameInstance DEF Phase
      <3>. QED
        BY <1>5, <2>3, <3>2
    <2>. QED
      BY <1>8, <2>2, <2>3 DEF BeginEnable
  <1>9. CASE Installed(s)
    <2>1. held[s].to \in Config /\ Effective(s).enabled \in BOOLEAN
      <3>1. held[s] \in Held
        BY <1>1, <1>9 DEF Installed, RunningTyped
      <3>2. Effective(s) \in Config
        BY <1>1, EffectiveTyped
      <3>. QED
        BY <3>1, <3>2 DEF Held, Config
    <2>. QED
      BY <1>2, <1>9, <2>1, ApplyTyped DEF Installed
  <1>10. CASE Destroyed(s)
    <2>1. phase[s] = "destroying" /\ held[s] \in Held /\ active[s] = None
      BY <1>1, <1>10 DEF Destroyed, RunningTyped
    <2>2. RunningTyped'
      BY <1>1, <1>2, <1>10, <2>1, PhaseMoves, SameInstance DEF Destroyed, Phase
    <2>. QED
      BY <1>5, <1>10, <2>2 DEF Destroyed
  <1>11. CASE InitSucceeds(s)
    <2>1. /\ active' = [active EXCEPT ![s] = ShapeOf(s)] /\ Pop(s) /\ Answered(s)
          /\ UNCHANGED <<key, state, backups, shown, wanted>> /\ saveState
      BY <1>11 DEF InitSucceeds, Answered
    <2>2. ShapeOf(s) \in Shape \cup {None}
      BY <1>1 DEF StateTyped, ShapeOf, Shape
    <2>3. RunningTyped'
      BY <1>1, <1>2, <2>1, <2>2, Popped
    <2>4. StateTyped'
      BY <1>1, <2>1 DEF StateTyped, state
    <2>5. DiskTyped'
      BY <1>1, <1>4, <2>1, <2>4, SavedTyped DEF DiskTyped, Up
    <2>6. HistoryTyped'
      BY <1>1, <1>2, <2>1, AnswerTyped DEF TypesInv, HistoryTyped
    <2>. QED
      BY <2>3, <2>4, <2>5, <2>6 DEF TypesInv
  <1>12. CASE InitFails(s)
    <2>1. /\ Pop(s) /\ Answered(s)
          /\ UNCHANGED <<key, defs, agreed, cursor, backups, active, shown>>
      BY <1>12 DEF InitFails, Answered
    <2>2. \/ /\ config' = [config EXCEPT ![s] = [held[s].to EXCEPT !.enabled = FALSE]]
             /\ wanted' = [wanted EXCEPT ![s] = FALSE] /\ saveState
          \/ UNCHANGED <<config, wanted, disk>>
      BY <1>12 DEF InitFails
    <2>3. held[s].to \in Config
      BY <1>1, <1>12 DEF InitFails, RunningTyped, Held
    <2>4. RunningTyped'
      BY <1>1, <1>2, <2>1, Popped, SameInstance
    <2>5. StateTyped'
      <3>1. [held[s].to EXCEPT !.enabled = FALSE] \in Config
        BY <2>3, Switched
      <3>. QED
        BY <1>1, <2>1, <2>2, <3>1 DEF StateTyped
    <2>6. DiskTyped'
      BY <1>1, <1>4, <2>1, <2>2, <2>5, SavedTyped DEF DiskTyped, Up
    <2>7. HistoryTyped'
      BY <1>1, <1>2, <2>1, <2>2, AnswerTyped DEF TypesInv, HistoryTyped
    <2>. QED
      BY <2>4, <2>5, <2>6, <2>7 DEF TypesInv
  <1>13. CASE BeginDisable(s)
    <2>1. CASE Pop(s) /\ UNCHANGED <<key, state, disk, backups, active, shown, history>>
      BY <1>6, <2>1
    <2>2. CASE active[s] = None /\ SwitchedOff(s) /\ UNCHANGED active
      BY <1>2, <2>2, SwitchOffTyped
    <2>3. CASE /\ active' = InstanceReleased(s)
               /\ phase' = [phase EXCEPT ![s] = "disabling"]
               /\ UNCHANGED <<key, state, disk, backups, queue, held, shown, history>>
      <3>1. /\ active' = [active EXCEPT ![s] = None] /\ held' = [held EXCEPT ![s] = held[s]]
            /\ held[s] \in Held \cup {None}
        BY <1>1, <2>3, SameInstance
      <3>2. RunningTyped'
        BY <1>1, <1>2, <2>3, <3>1, PhaseMoves DEF Phase
      <3>. QED
        BY <1>5, <2>3, <3>2
    <2>. QED
      BY <1>13, <2>1, <2>2, <2>3 DEF BeginDisable
  <1>14. CASE EndDisable(s)
    <2>1. active[s] = None
      BY <1>1, <1>14 DEF EndDisable, RunningTyped
    <2>. QED
      BY <1>2, <1>14, <2>1, SwitchOffTyped DEF EndDisable
  <1>. QED
    BY <1>7, <1>8, <1>9, <1>10, <1>11, <1>12, <1>13, <1>14 DEF Lifecycle

LEMMA DieTyped ==
  ASSUME TypesInv, Die, UNCHANGED shown, disk' \in Saved \cup {None} PROVE TypesInv'
  <1>1. /\ key' = None
        /\ config' = [s \in Source |-> None] /\ defs' = [c \in Custom |-> None]
        /\ agreed' = [s \in Source |-> None] /\ cursor' = [s \in Source |-> None]
        /\ active' = [s \in Source |-> None] /\ queue' = [s \in Source |-> <<>>]
        /\ phase' = [s \in Source |-> "idle"] /\ held' = [s \in Source |-> None]
        /\ UNCHANGED <<backups, consented, wanted, chosen, shown>>
    BY DEF Die, Empty
  <1>2. <<>> \in Seq(Op) /\ Len(<<>>) = 0
    BY EmptySeq
  <1>3. RunningTyped'
    BY <1>1, <1>2, LimitsAssumption DEF RunningTyped, Phase, LimitsAssumption
  <1>4. StateTyped' /\ DiskTyped' /\ HistoryTyped'
    BY <1>1 DEF TypesInv, StateTyped, DiskTyped, HistoryTyped
  <1>. QED
    BY <1>3, <1>4 DEF TypesInv

LEMMA DieRemovingTyped ==
  ASSUME TypesInv, NEW s \in Source, DieRemoving(s)
  PROVE  /\ Die /\ UNCHANGED shown /\ disk' \in Saved
         /\ disk' = [key |-> key, config |-> Off(s), defs |-> defs, agreed |-> agreed, cursor |-> cursor]
  <1>1. Die /\ UNCHANGED shown
        /\ disk' = [key |-> key, config |-> Off(s), defs |-> defs, agreed |-> agreed, cursor |-> cursor]
    BY DEF DieRemoving
  <1>2. key \in Key
    BY DEF DieRemoving, TypesInv, RunningTyped, StateTyped, Up
  <1>3. disk' \in Saved
    BY <1>1, <1>2, OffTyped DEF TypesInv, StateTyped, Saved
  <1>. QED
    BY <1>1, <1>3

LEMMA LoadTyped ==
  ASSUME NEW k \in Key, NEW st \in Saved, Load(k, st) PROVE StateTyped' /\ Up'
  BY Names DEF Load, Saved, StateTyped, Up

LEMMA EmptyIsSaved == \A k \in Key : Empty(k) \in Saved
  BY DEF Empty, Saved

LEMMA StartTyped ==
  ASSUME TypesInv, NEW k \in Key, Start(k) PROVE TypesInv'
  <1>1. \/ ~Unreadable(k) /\ Load(k, IF disk = None THEN Empty(k) ELSE disk) /\ UNCHANGED backups
        \/ Unreadable(k) /\ Load(k, Empty(k)) /\ backups' \in {backups, Preserved}
    BY DEF Start
  <1>2. ~Up /\ UNCHANGED <<disk, running, shown, consented, wanted, chosen>>
    BY DEF Start
  <1>3. StateTyped' /\ Up'
    <2>1. (IF disk = None THEN Empty(k) ELSE disk) \in Saved /\ Empty(k) \in Saved
      BY EmptyIsSaved DEF TypesInv, DiskTyped
    <2>. QED
      BY <1>1, <2>1, LoadTyped
  <1>4. DiskTyped'
    BY <1>1, <1>2 DEF TypesInv, DiskTyped, Preserved, Unreadable
  <1>5. RunningTyped'
    BY <1>2, <1>3 DEF TypesInv, RunningTyped, running
  <1>6. HistoryTyped'
    BY <1>2 DEF TypesInv, HistoryTyped
  <1>. QED
    BY <1>3, <1>4, <1>5, <1>6 DEF TypesInv

(* What the timer finds without consent, and what it resumes. *)
Gone == {s \in Due : ~hasAgreement(s)}
Resume == {s \in Due \ Gone : Len(queue[s]) < MaxQueue
                              /\ \A i \in DOMAIN queue[s] : queue[s][i].kind # "resume"}
ResumeOp == [kind |-> "resume", origin |-> "agent", change |-> Keep]

LEMMA RestoreEffect ==
  ASSUME TypesInv, restoreEnabledSources
  PROVE  /\ Up /\ ResumeOp \in Op
         /\ \A s \in Source \ Gone : config'[s] = config[s]
         /\ \A s \in Gone : /\ config[s] \in Config /\ config'[s] \in Config
                            /\ config'[s].enabled = FALSE
                            /\ config'[s].settings = config[s].settings
         /\ config' \in [Source -> Config \cup {None}]
         /\ queue' = [s \in Source |-> IF s \in Resume THEN Append(queue[s], ResumeOp)
                                                       ELSE queue[s]]
         /\ UNCHANGED <<key, defs, agreed, cursor, backups, active, phase, held, shown, history>>
         /\ IF Gone = {} THEN UNCHANGED disk ELSE saveState
  <1>1. /\ config' = [s \in Source |-> IF s \in Gone THEN [config[s] EXCEPT !.enabled = FALSE]
                                                     ELSE config[s]]
        /\ queue' = [s \in Source |-> IF s \in Resume THEN Append(queue[s], ResumeOp)
                                                      ELSE queue[s]]
        /\ UNCHANGED <<key, defs, agreed, cursor, backups, active, phase, held, shown, history>>
        /\ IF Gone = {} THEN UNCHANGED disk ELSE saveState
        /\ Up
    BY DEF restoreEnabledSources, Gone, Resume, ResumeOp
  <1>2. ResumeOp \in Op
    BY DEF ResumeOp, Op
  <1>3. \A s \in Gone : s \in Source /\ config[s] \in Config
    BY DEF Gone, Due, TypesInv, StateTyped
  <1>4. \A s \in Gone : /\ [config[s] EXCEPT !.enabled = FALSE] \in Config
                        /\ [config[s] EXCEPT !.enabled = FALSE].enabled = FALSE
                        /\ [config[s] EXCEPT !.enabled = FALSE].settings = config[s].settings
    BY <1>3, Switched
  <1>5. \A s \in Gone : config'[s] = [config[s] EXCEPT !.enabled = FALSE]
    BY <1>1, <1>3
  <1>6. \A s \in Source \ Gone : config'[s] = config[s]
    BY <1>1
  <1>7. config' \in [Source -> Config \cup {None}]
    BY <1>1, <1>4 DEF TypesInv, StateTyped
  <1>. QED
    BY <1>1, <1>2, <1>3, <1>4, <1>5, <1>6, <1>7

LEMMA RestoreTyped ==
  ASSUME TypesInv, restoreEnabledSources PROVE TypesInv'
  <1>1. StateTyped'
    BY RestoreEffect DEF TypesInv, StateTyped
  <1>2. HistoryTyped'
    BY RestoreEffect DEF TypesInv, HistoryTyped, history
  <1>3. Up' /\ Up
    BY RestoreEffect DEF Up
  <1>4. DiskTyped'
    BY <1>1, <1>3, RestoreEffect, SavedTyped DEF TypesInv, DiskTyped
  <1>5. RunningTyped'
    <2>1. \A s \in Source : queue[s] \in Seq(Op) /\ Len(queue[s]) \in Nat
      BY LenProperties DEF TypesInv, RunningTyped
    <2>2. \A s \in Resume : /\ Append(queue[s], ResumeOp) \in Seq(Op)
                            /\ Append(queue[s], ResumeOp) # <<>>
                            /\ Len(Append(queue[s], ResumeOp)) = Len(queue[s]) + 1
                            /\ Len(queue[s]) + 1 <= MaxQueue
      BY <2>1, RestoreEffect, QueuedBehind, LimitsAssumption DEF Resume, Due, LimitsAssumption
    <2>3. \A s \in Source : /\ queue'[s] \in Seq(Op) /\ Len(queue'[s]) <= MaxQueue
                            /\ queue[s] # <<>> => queue'[s] # <<>>
      <3>1. SUFFICES ASSUME NEW s \in Source
                     PROVE  /\ queue'[s] \in Seq(Op) /\ Len(queue'[s]) <= MaxQueue
                            /\ queue[s] # <<>> => queue'[s] # <<>>
        OBVIOUS
      <3>2. queue'[s] = IF s \in Resume THEN Append(queue[s], ResumeOp) ELSE queue[s]
        BY RestoreEffect
      <3>3. CASE s \in Resume
        BY <2>2, <3>2, <3>3
      <3>4. CASE s \notin Resume
        BY <3>2, <3>4 DEF TypesInv, RunningTyped
      <3>. QED
        BY <3>3, <3>4
    <2>4. queue' \in [Source -> Seq(Op)]
      BY <2>3, RestoreEffect
    <2>. QED
      BY <1>3, <2>3, <2>4, RestoreEffect DEF TypesInv, RunningTyped
  <1>. QED
    BY <1>1, <1>2, <1>4, <1>5 DEF TypesInv

(* The synchronous calls: nothing of what runs changes, and all is saved.  *)
LEMMA SyncCallTyped ==
  ASSUME TypesInv, Up, key' = key, UNCHANGED <<backups, running>>, StateTyped', HistoryTyped',
         saveState
  PROVE  TypesInv'
  <1>1. Up'
    BY DEF Up
  <1>2. DiskTyped'
    BY <1>1, SavedTyped DEF TypesInv, DiskTyped
  <1>. QED
    BY <1>2, RunningStays DEF TypesInv

LEMMA UpdateTyped ==
  ASSUME TypesInv, NEW s \in Source, NEW origin, NEW c \in Setting \cup {Keep},
         updateSourceConfig(s, origin, c)
  PROVE  TypesInv'
  <1>1. /\ Up /\ config' = [config EXCEPT ![s] = Changed(s, c)] /\ saveState
        /\ UNCHANGED <<key, defs, agreed, cursor, backups, running, shown, consented, wanted>>
        /\ chosen' = IF origin = "user" THEN Told(s, c) ELSE chosen
    BY DEF updateSourceConfig
  <1>2. StateTyped'
    BY <1>1, ChangedTyped DEF TypesInv, StateTyped
  <1>3. HistoryTyped'
    BY <1>1 DEF TypesInv, HistoryTyped, Told
  <1>. QED
    BY <1>1, <1>2, <1>3, SyncCallTyped

LEMMA AddTyped ==
  ASSUME TypesInv, NEW c \in Custom, NEW d \in Def, addCustomSource(c, d) PROVE TypesInv'
  <1>1. /\ Up /\ defs' = [defs EXCEPT ![c] = d] /\ agreed' = Revoked(c) /\ saveState
        /\ UNCHANGED <<key, config, cursor, backups, running, shown, history>>
    BY DEF addCustomSource
  <1>2. StateTyped'
    BY <1>1 DEF TypesInv, StateTyped, Revoked
  <1>3. HistoryTyped'
    BY <1>1 DEF TypesInv, HistoryTyped, history
  <1>. QED
    BY <1>1, <1>2, <1>3, SyncCallTyped

LEMMA AgreeTyped ==
  ASSUME TypesInv, NEW s \in Source, recordAgreement(s) PROVE TypesInv'
  <1>1. /\ Up /\ shown[s] # None /\ saveState
        /\ agreed' = [agreed EXCEPT ![s] = shown[s]]
        /\ consented' = [consented EXCEPT ![s] = shown[s]]
        /\ shown' = [shown EXCEPT ![s] = None]
        /\ UNCHANGED <<key, config, defs, cursor, backups, running, wanted, chosen>>
    BY DEF recordAgreement
  <1>2. StateTyped'
    BY <1>1 DEF TypesInv, StateTyped, HistoryTyped
  <1>3. HistoryTyped'
    BY <1>1 DEF TypesInv, HistoryTyped
  <1>. QED
    BY <1>1, <1>2, <1>3, SyncCallTyped

LEMMA CheckpointTyped ==
  ASSUME TypesInv, NEW s \in Source, saveCheckpoint(s) PROVE TypesInv'
  <1>1. /\ Up /\ cursor' = [cursor EXCEPT ![s] = active[s]] /\ saveState
        /\ UNCHANGED <<key, config, defs, agreed, backups, running, shown, history>>
    BY DEF saveCheckpoint
  <1>2. StateTyped'
    BY <1>1 DEF TypesInv, StateTyped, RunningTyped
  <1>3. HistoryTyped'
    BY <1>1 DEF TypesInv, HistoryTyped, history
  <1>. QED
    BY <1>1, <1>2, <1>3, SyncCallTyped

LEMMA ShowTyped ==
  ASSUME TypesInv, NEW s \in Source, Show(s) PROVE TypesInv'
  <1>1. /\ shown' = [shown EXCEPT ![s] = ShapeOf(s)]
        /\ UNCHANGED <<key, state, disk, backups, running, history>>
    BY DEF Show
  <1>2. ShapeOf(s) \in Shape \cup {None}
    BY DEF TypesInv, StateTyped, ShapeOf, Shape
  <1>3. HistoryTyped'
    BY <1>1, <1>2 DEF TypesInv, HistoryTyped, history
  <1>4. StateTyped' /\ DiskTyped' /\ RunningTyped'
    BY <1>1, RunningStays DEF TypesInv, StateTyped, DiskTyped, state
  <1>. QED
    BY <1>3, <1>4 DEF TypesInv

LEMMA CallTyped ==
  ASSUME TypesInv, NEW s \in Source, NEW op \in Op, Call(s, op) PROVE TypesInv'
  <1>1. /\ Up /\ Len(queue[s]) < MaxQueue /\ queue' = [queue EXCEPT ![s] = Append(queue[s], op)]
        /\ UNCHANGED <<key, state, disk, backups, active, phase, held, shown, history>>
    BY DEF Call
  <1>2. queue[s] \in Seq(Op) /\ Len(queue[s]) \in Nat
    BY LenProperties DEF TypesInv, RunningTyped
  <1>3. /\ Append(queue[s], op) \in Seq(Op) /\ Append(queue[s], op) # <<>>
        /\ Len(Append(queue[s], op)) <= MaxQueue
    BY <1>1, <1>2, QueuedBehind, LimitsAssumption DEF LimitsAssumption
  <1>4. RunningTyped'
    BY <1>1, <1>3 DEF TypesInv, RunningTyped, Up
  <1>5. StateTyped' /\ DiskTyped' /\ HistoryTyped'
    BY <1>1 DEF TypesInv, StateTyped, DiskTyped, HistoryTyped, state, history
  <1>. QED
    BY <1>4, <1>5 DEF TypesInv

LEMMA TypesStay == TypesInv /\ [RegistryNext]_registryVars => TypesInv'
  <1>1. SUFFICES ASSUME TypesInv, [RegistryNext]_registryVars PROVE TypesInv'
    OBVIOUS
  <1>2. CASE Stop
    BY <1>1, <1>2, DieTyped DEF Stop, TypesInv, DiskTyped
  <1>3. ASSUME NEW s \in Source, DieRemoving(s) PROVE TypesInv'
    BY <1>1, <1>3, DieRemovingTyped, DieTyped
  <1>4. CASE UNCHANGED registryVars
    BY <1>1, <1>4, RunningStays
       DEF registryVars, TypesInv, StateTyped, DiskTyped, HistoryTyped, state, history
  <1>. QED
    BY <1>1, <1>2, <1>3, <1>4, StartTyped, RestoreTyped, LifecycleTyped, CallTyped, UpdateTyped,
       ShowTyped, AgreeTyped, CheckpointTyped, AddTyped DEF RegistryNext

LEMMA OldFileTyped ==
  ASSUME NEW f \in OldFiles
  PROVE  /\ f \in Saved /\ f # None
         /\ \A s \in Source : f.config[s] # None =>
              f.config[s].enabled = TRUE /\ f.config[s].settings = Default
         /\ \A s \in Custom : f.agreed[s] = Listed
         /\ \A s \in Source : f.agreed[s] \in {Listed, None}
  <1>1. PICK k \in Key, d \in Def \cup {None}, on \in BOOLEAN : f = OldFile(k, d, on)
    BY LimitsAssumption DEF OldFiles, LimitsAssumption
  <1> DEFINE Enabled(s) == IF s \in Custom THEN d # None ELSE on
             On == [enabled |-> TRUE, settings |-> Default]
  <1>2. /\ f.key = k
        /\ f.config = [s \in Source |-> IF Enabled(s) THEN On ELSE None]
        /\ f.defs = [c \in Custom |-> d]
        /\ f.agreed = [s \in Source |-> IF s \in Custom \/ on THEN Listed ELSE None]
        /\ f.cursor = [s \in Source |-> None]
    BY <1>1 DEF OldFile
  <1>3. On \in Config /\ On.enabled = TRUE /\ On.settings = Default
    BY DEF Config
  <1> HIDE DEF On
  <1>4. f \in Saved
    <2>1. f = [key |-> f.key, config |-> f.config, defs |-> f.defs, agreed |-> f.agreed,
               cursor |-> f.cursor]
      BY <1>1 DEF OldFile
    <2>2. f.config \in [Source -> Config \cup {None}]
      BY <1>2, <1>3
    <2>. QED
      BY <1>2, <2>1, <2>2 DEF Saved
  <1>5. \A s \in Source : f.config[s] # None => f.config[s] = On
    BY <1>2
  <1>. QED
    BY <1>2, <1>3, <1>4, <1>5, Names, SourceAssumption DEF SourceAssumption

LEMMA TypesStart == RegistryInit => TypesInv
  <1>1. SUFFICES ASSUME RegistryInit PROVE TypesInv
    OBVIOUS
  <1>2. /\ key = None
        /\ config = [s \in Source |-> None] /\ defs = [c \in Custom |-> None]
        /\ agreed = [s \in Source |-> None] /\ cursor = [s \in Source |-> None]
        /\ active = [s \in Source |-> None] /\ queue = [s \in Source |-> <<>>]
        /\ phase = [s \in Source |-> "idle"] /\ held = [s \in Source |-> None]
        /\ shown = [s \in Source |-> None] /\ chosen = [s \in Source |-> Default]
        /\ disk \in OldFiles \cup {None} /\ backups = {}
    BY <1>1 DEF RegistryInit, Empty
  <1>3. <<>> \in Seq(Op) /\ Len(<<>>) = 0
    BY EmptySeq
  <1>4. RunningTyped
    BY <1>2, <1>3, LimitsAssumption DEF RunningTyped, Phase, LimitsAssumption
  <1>5. StateTyped
    BY <1>2 DEF StateTyped
  <1>6. DiskTyped
    BY <1>2, OldFileTyped DEF DiskTyped
  <1>7. consented \in [Source -> Shape \cup {None}]
    BY <1>1 DEF RegistryInit, Shape
  <1>8. wanted \in [Source -> BOOLEAN]
    BY <1>1, Zenon DEF RegistryInit
  <1>. QED
    BY <1>2, <1>4, <1>5, <1>6, <1>7, <1>8 DEF TypesInv, HistoryTyped

-----------------------------------------------------------------------------
(* Consent, switches and the saved file.                                   *)

On(s) == config[s] # None /\ config[s].enabled

(* Consent is of what was shown, and what is being brought up has it.      *)
ConsentAt(s) ==
  /\ hasAgreement(s) => consented[s] = ShapeOf(s)
  /\ active[s] # None => hasAgreement(s) /\ active[s] = ShapeOf(s)
  /\ phase[s] \in {"installing", "destroying", "starting"} =>
       hasAgreement(s) /\ Head(queue[s]).kind \in {"enable", "resume"}

(* What is on in memory is wanted; what is brought up or runs is on; a     *)
(* resume that waits for an installation was on when it began, and is.     *)
SwitchAt(s) ==
  /\ On(s) => wanted[s]
  /\ active[s] # None => On(s)
  /\ phase[s] \in {"destroying", "starting"} => On(s)
  /\ phase[s] = "installing" /\ Head(queue[s]).kind = "resume" => On(s)

LiveAt(s) == ConsentAt(s) /\ SwitchAt(s)

SavedOn(s) == disk.config[s] # None /\ disk.config[s].enabled
SavedAgreed(s) == IF s \in Custom THEN disk.agreed[s] \in Def /\ disk.agreed[s] = disk.defs[s]
                                  ELSE disk.agreed[s] # None
SavedShape(s) == IF s \in Custom THEN disk.defs[s] ELSE BuiltIn

(* What a restart would find.                                              *)
SavedAt(s) ==
  /\ disk # None => /\ SavedOn(s) => wanted[s]
                    /\ SavedAgreed(s) => consented[s] = SavedShape(s)
  /\ active[s] # None => disk # None /\ disk.key = key /\ SavedOn(s) /\ disk.agreed[s] = agreed[s]

ConsentInv == TypesInv /\ \A s \in Source : LiveAt(s) /\ SavedAt(s)

(* Nothing of a source changed but what is queued behind its head. *)
Same(t) ==
  /\ config'[t] = config[t] /\ agreed'[t] = agreed[t] /\ (t \in Custom => defs'[t] = defs[t])
  /\ active'[t] = active[t] /\ phase'[t] = phase[t]
  /\ consented'[t] = consented[t] /\ wanted'[t] = wanted[t]
  /\ phase[t] # "idle" => Head(queue'[t]) = Head(queue[t])

LEMMA SameLives ==
  ASSUME NEW t \in Source, LiveAt(t), Same(t) PROVE LiveAt(t)'
  <1>1. /\ hasAgreement(t)' <=> hasAgreement(t)
        /\ ShapeOf(t)' = ShapeOf(t)
    BY DEF Same, hasAgreement, ShapeOf
  <1>2. On(t)' <=> On(t)
    BY DEF Same, On
  <1>3. ConsentAt(t)'
    BY <1>1 DEF Same, LiveAt, ConsentAt
  <1>4. SwitchAt(t)'
    BY <1>2 DEF Same, LiveAt, SwitchAt
  <1>. QED
    BY <1>3, <1>4 DEF LiveAt

(* Not written: the file serves as long as what was wanted is, consents    *)
(* stand and nothing new runs.                                             *)
LEMMA FileServes ==
  ASSUME NEW t \in Source, SavedAt(t), disk' = disk,
         wanted[t] => wanted'[t], consented'[t] = consented[t],
         \/ active'[t] = None
         \/ active'[t] = active[t] /\ key' = key /\ agreed'[t] = agreed[t]
  PROVE  SavedAt(t)'
  <1>1. /\ SavedOn(t)' <=> SavedOn(t)
        /\ SavedAgreed(t)' <=> SavedAgreed(t)
        /\ SavedShape(t)' = SavedShape(t)
    BY DEF SavedOn, SavedAgreed, SavedShape
  <1>. QED
    BY <1>1 DEF SavedAt

LEMMA FileWritten ==
  ASSUME TypesInv', Up', saveState, NEW t \in Source, LiveAt(t)' PROVE SavedAt(t)'
  <1>1. /\ disk' # None
        /\ disk'.key = key' /\ disk'.config = config' /\ disk'.defs = defs'
        /\ disk'.agreed = agreed'
    BY SavedTyped DEF TypesInv
  <1>2. /\ SavedOn(t)' <=> On(t)'
        /\ SavedAgreed(t)' <=> hasAgreement(t)'
        /\ SavedShape(t)' = ShapeOf(t)'
    BY <1>1 DEF SavedOn, SavedAgreed, SavedShape, On, hasAgreement, ShapeOf
  <1>. QED
    BY <1>1, <1>2 DEF SavedAt, LiveAt, ConsentAt, SwitchAt

(* A step about one source, that saves or leaves the file.                 *)
LEMMA OneSource ==
  ASSUME ConsentInv, TypesInv', Up', NEW s \in Source, LiveAt(s)',
         \A t \in Source \ {s} : Same(t),
         \/ saveState
         \/ disk' = disk /\ key' = key /\ SavedAt(s)'
  PROVE  ConsentInv'
  <1>1. \A t \in Source : LiveAt(t)'
    <2>1. SUFFICES ASSUME NEW t \in Source, t # s PROVE LiveAt(t)'
      OBVIOUS
    <2>. QED
      BY <2>1, SameLives DEF ConsentInv
  <1>2. CASE saveState
    BY <1>1, <1>2, FileWritten DEF ConsentInv
  <1>3. CASE disk' = disk /\ key' = key /\ SavedAt(s)'
    <2>1. SUFFICES ASSUME NEW t \in Source, t # s PROVE SavedAt(t)'
      BY <1>1, <1>3 DEF ConsentInv
    <2>2. Same(t) /\ SavedAt(t)
      BY <2>1 DEF ConsentInv
    <2>. QED
      BY <1>3, <2>2, FileServes DEF Same
  <1>. QED
    BY <1>2, <1>3

LEMMA ApplyKeepsConsent ==
  ASSUME ConsentInv, TypesInv', NEW s \in Source, NEW to \in Config, NEW was \in BOOLEAN,
         queue[s] # <<>>, hasAgreement(s), Head(queue[s]).kind \in {"enable", "resume"},
         Head(queue[s]).kind = "resume" => On(s), Apply(s, to, was)
  PROVE  ConsentInv'
  <1>1. TypesInv /\ StateTyped /\ RunningTyped /\ HistoryTyped /\ LiveAt(s) /\ SavedAt(s)
    BY DEF ConsentInv, TypesInv
  <1> DEFINE on == [to EXCEPT !.enabled = TRUE]
  <1>2. /\ config' = [config EXCEPT ![s] = on]
        /\ active' = [active EXCEPT ![s] = None]
        /\ phase' = [phase EXCEPT ![s] = IF active[s] # None THEN "destroying" ELSE "starting"]
        /\ UNCHANGED <<key, defs, agreed, disk, queue, consented>>
    BY DEF Apply, InstanceReleased
  <1>3. on \in Config /\ on.enabled = TRUE
    BY Switched
  <1> HIDE DEF on
  <1>4. wanted[s] \/ Head(queue[s]).kind = "enable"
    BY <1>1 DEF LiveAt, SwitchAt
  <1>5. wanted' = [wanted EXCEPT ![s] = wanted[s] \/ Head(queue[s]).kind = "enable"]
    BY DEF Apply
  <1>6. wanted'[s] /\ \A t \in Source \ {s} : wanted'[t] = wanted[t]
    BY <1>1, <1>4, <1>5, Zenon DEF HistoryTyped
  <1>7. config'[s] = on /\ active'[s] = None /\ phase'[s] \in {"destroying", "starting"}
    BY <1>1, <1>2 DEF StateTyped, RunningTyped
  <1>8. On(s)'
    BY <1>3, <1>7, Names DEF On
  <1>9. hasAgreement(s)' /\ ShapeOf(s)' = ShapeOf(s)
    BY <1>2 DEF hasAgreement, ShapeOf
  <1>10. LiveAt(s)'
    BY <1>1, <1>2, <1>6, <1>7, <1>8, <1>9 DEF LiveAt, ConsentAt, SwitchAt
  <1>11. \A t \in Source \ {s} : Same(t)
    BY <1>1, <1>2, <1>6 DEF Same, StateTyped, RunningTyped
  <1>12. SavedAt(s)'
    BY <1>1, <1>2, <1>6, <1>7, FileServes
  <1>13. Up'
    BY <1>1, <1>2 DEF RunningTyped, Up
  <1>. QED
    BY <1>2, <1>10, <1>11, <1>12, <1>13, OneSource

LEMMA SwitchOffKeepsConsent ==
  ASSUME ConsentInv, TypesInv', NEW s \in Source, queue[s] # <<>>, active[s] = None,
         active' = active, SwitchedOff(s)
  PROVE  ConsentInv'
  <1>1. TypesInv /\ StateTyped /\ RunningTyped /\ HistoryTyped /\ LiveAt(s)
    BY DEF ConsentInv, TypesInv
  <1>2. /\ queue' = [queue EXCEPT ![s] = Tail(queue[s])]
        /\ phase' = [phase EXCEPT ![s] = "idle"]
        /\ wanted' = [wanted EXCEPT ![s] = FALSE] /\ key' = key /\ saveState
    BY DEF SwitchedOff, Pop
  <1>3. \/ /\ config' = Off(s)
           /\ \/ agreed' = Revoked(s) /\ consented' = [consented EXCEPT ![s] = None]
              \/ UNCHANGED <<agreed, consented>>
           /\ UNCHANGED defs
        \/ /\ config' = [config EXCEPT ![s] = None]
           /\ defs' = [defs EXCEPT ![s] = None]
           /\ agreed' = Revoked(s)
           /\ consented' = [consented EXCEPT ![s] = None]
    BY DEF SwitchedOff
  <1>4. ~On(s)' /\ \A t \in Source \ {s} : config'[t] = config[t]
    <2>1. CASE config' = Off(s)
      BY <1>1, <2>1, OffTyped DEF On, StateTyped
    <2>2. CASE config' = [config EXCEPT ![s] = None]
      BY <1>1, <2>2 DEF On, StateTyped
    <2>. QED
      BY <1>3, <2>1, <2>2
  <1>5. hasAgreement(s)' => consented'[s] = ShapeOf(s)'
    <2>1. CASE agreed' = Revoked(s)
      BY <1>1, <2>1, Names DEF hasAgreement, Revoked, StateTyped, Shape
    <2>2. CASE UNCHANGED <<agreed, consented, defs>>
      BY <1>1, <2>2 DEF hasAgreement, ShapeOf, LiveAt, ConsentAt
    <2>. QED
      BY <1>3, <2>1, <2>2
  <1>6. LiveAt(s)'
    BY <1>1, <1>2, <1>4, <1>5 DEF LiveAt, ConsentAt, SwitchAt, RunningTyped
  <1>7. \A t \in Source \ {s} : Same(t)
    BY <1>1, <1>2, <1>3, <1>4 DEF Same, StateTyped, RunningTyped, HistoryTyped, Revoked
  <1>8. Up'
    BY <1>1, <1>2 DEF RunningTyped, Up
  <1>. QED
    BY <1>2, <1>6, <1>7, <1>8, OneSource

(* An operation ends with nothing done. *)
LEMMA PopKeepsConsent ==
  ASSUME ConsentInv, TypesInv', NEW s \in Source, queue[s] # <<>>, Pop(s),
         UNCHANGED <<key, config, defs, agreed, disk, active, consented, wanted>>
  PROVE  ConsentInv'
  <1>1. RunningTyped /\ LiveAt(s) /\ SavedAt(s)
    BY DEF ConsentInv, TypesInv
  <1>2. phase'[s] = "idle" /\ \A t \in Source \ {s} : phase'[t] = phase[t] /\ queue'[t] = queue[t]
    BY <1>1 DEF Pop, RunningTyped
  <1>3. /\ hasAgreement(s)' <=> hasAgreement(s)
        /\ ShapeOf(s)' = ShapeOf(s) /\ (On(s)' <=> On(s))
    BY DEF hasAgreement, ShapeOf, On
  <1>4. LiveAt(s)'
    BY <1>1, <1>2, <1>3 DEF LiveAt, ConsentAt, SwitchAt
  <1>5. SavedAt(s)'
    BY <1>1, FileServes
  <1>6. \A t \in Source \ {s} : Same(t)
    BY <1>2 DEF Same
  <1>7. Up'
    BY <1>1 DEF RunningTyped, Up
  <1>. QED
    BY <1>4, <1>5, <1>6, <1>7, OneSource

LEMMA LifecycleKeepsConsent ==
  ASSUME ConsentInv, TypesInv', NEW s \in Source, Lifecycle(s) PROVE ConsentInv'
  <1>1. TypesInv /\ StateTyped /\ RunningTyped /\ HistoryTyped /\ LiveAt(s) /\ SavedAt(s)
    BY DEF ConsentInv, TypesInv
  <1>2. queue[s] # <<>>
    BY <1>1 DEF RunningTyped, Lifecycle, Refused, BeginEnable, Installed, InstallFails,
       Destroyed, InitSucceeds, InitFails, BeginDisable, EndDisable, Running
  <1>3. Head(queue[s]).change \in Setting \cup {Keep}
    <2>1. Head(queue[s]) \in Op
      BY <1>1, <1>2, HeadTailProperties DEF RunningTyped
    <2>. QED
      BY <2>1 DEF Op
  <1>4. Up
    BY <1>1, <1>2 DEF RunningTyped
  <1>5. CASE Refused(s) \/ InstallFails(s)
    BY <1>2, <1>5, PopKeepsConsent DEF Refused, InstallFails, state, history
  <1>6. CASE BeginEnable(s)
    <2> DEFINE to == Changed(s, Head(queue[s]).change)
    <2>1. to \in Config /\ Effective(s).enabled \in BOOLEAN
      BY <1>1, <1>3, ChangedTyped, EffectiveTyped DEF Config
    <2>2. /\ hasAgreement(s) /\ Head(queue[s]).kind \in {"enable", "resume"}
          /\ phase[s] = "idle"
      BY <1>6 DEF BeginEnable, Granted, Running
    <2>3. Head(queue[s]).kind = "resume" => On(s)
      BY <1>6 DEF BeginEnable, Granted, StillToResume, On
    <2>4. CASE Apply(s, to, Effective(s).enabled)
      BY <1>2, <2>1, <2>2, <2>3, <2>4, ApplyKeepsConsent
    <2>5. CASE /\ phase' = [phase EXCEPT ![s] = "installing"]
               /\ UNCHANGED <<key, state, disk, backups, active, queue, shown, history>>
      <3>1. UNCHANGED <<key, config, defs, agreed, disk, active, queue, consented, wanted>>
        BY <2>5 DEF state, history
      <3>2. /\ hasAgreement(s)' <=> hasAgreement(s)
            /\ ShapeOf(s)' = ShapeOf(s) /\ (On(s)' <=> On(s))
        BY <3>1 DEF hasAgreement, ShapeOf, On
      <3>3. phase'[s] = "installing" /\ \A t \in Source \ {s} : phase'[t] = phase[t]
        BY <1>1, <2>5 DEF RunningTyped
      <3>4. LiveAt(s)'
        BY <1>1, <2>2, <2>3, <3>1, <3>2, <3>3 DEF LiveAt, ConsentAt, SwitchAt
      <3>5. SavedAt(s)' /\ Up'
        BY <1>1, <1>4, <3>1, FileServes DEF Up
      <3>6. \A t \in Source \ {s} : Same(t)
        BY <3>1, <3>3 DEF Same
      <3>. QED
        BY <3>1, <3>4, <3>5, <3>6, OneSource
    <2>. QED
      BY <1>6, <2>4, <2>5 DEF BeginEnable
  <1>7. CASE Installed(s)
    <2>1. held[s] \in Held /\ Effective(s) \in Config
      BY <1>1, <1>7, EffectiveTyped DEF Installed, RunningTyped
    <2>2. held[s].to \in Config /\ Effective(s).enabled \in BOOLEAN
      BY <2>1 DEF Held, Config
    <2>3. /\ hasAgreement(s) /\ Head(queue[s]).kind \in {"enable", "resume"}
          /\ Head(queue[s]).kind = "resume" => On(s)
      BY <1>1, <1>7 DEF Installed, LiveAt, ConsentAt, SwitchAt
    <2>. QED
      BY <1>2, <1>7, <2>2, <2>3, ApplyKeepsConsent DEF Installed
  <1>8. CASE Destroyed(s)
    <2>1. /\ UNCHANGED <<key, config, defs, agreed, disk, active, queue, consented, wanted>>
          /\ phase' = [phase EXCEPT ![s] = "starting"] /\ phase[s] = "destroying"
      BY <1>8 DEF Destroyed, state, history
    <2>2. /\ hasAgreement(s)' <=> hasAgreement(s)
          /\ ShapeOf(s)' = ShapeOf(s) /\ (On(s)' <=> On(s))
      BY <2>1 DEF hasAgreement, ShapeOf, On
    <2>3. phase'[s] = "starting" /\ \A t \in Source \ {s} : phase'[t] = phase[t]
      BY <1>1, <2>1 DEF RunningTyped
    <2>4. LiveAt(s)'
      BY <1>1, <2>1, <2>2, <2>3 DEF LiveAt, ConsentAt, SwitchAt
    <2>5. SavedAt(s)' /\ Up'
      BY <1>1, <1>4, <2>1, FileServes DEF Up
    <2>6. \A t \in Source \ {s} : Same(t)
      BY <2>1, <2>3 DEF Same
    <2>. QED
      BY <2>1, <2>4, <2>5, <2>6, OneSource
  <1>9. CASE InitSucceeds(s)
    <2>1. /\ active' = [active EXCEPT ![s] = ShapeOf(s)] /\ saveState /\ phase[s] = "starting"
          /\ UNCHANGED <<key, config, defs, agreed, consented, wanted>>
          /\ queue' = [queue EXCEPT ![s] = Tail(queue[s])]
          /\ phase' = [phase EXCEPT ![s] = "idle"]
      BY <1>9 DEF InitSucceeds, Answered, Pop, state
    <2>2. /\ hasAgreement(s)' <=> hasAgreement(s)
          /\ ShapeOf(s)' = ShapeOf(s) /\ (On(s)' <=> On(s))
      BY <2>1 DEF hasAgreement, ShapeOf, On
    <2>3. active'[s] = ShapeOf(s) /\ phase'[s] = "idle"
      BY <1>1, <2>1 DEF RunningTyped
    <2>4. LiveAt(s)'
      BY <1>1, <2>1, <2>2, <2>3 DEF LiveAt, ConsentAt, SwitchAt
    <2>5. \A t \in Source \ {s} : Same(t)
      BY <1>1, <2>1 DEF Same, RunningTyped
    <2>6. Up'
      BY <1>4, <2>1 DEF Up
    <2>. QED
      BY <2>1, <2>4, <2>5, <2>6, OneSource
  <1>10. CASE InitFails(s)
    <2>1. /\ phase[s] = "starting" /\ Pop(s)
          /\ UNCHANGED <<key, defs, agreed, active, consented>>
      BY <1>10 DEF InitFails, Answered
    <2>2. CASE UNCHANGED <<config, wanted, disk>>
      BY <1>2, <2>1, <2>2, PopKeepsConsent
    <2>3. CASE /\ config' = [config EXCEPT ![s] = [held[s].to EXCEPT !.enabled = FALSE]]
               /\ wanted' = [wanted EXCEPT ![s] = FALSE] /\ saveState
      <3>1. held[s].to \in Config /\ active[s] = None
        BY <1>1, <2>1 DEF RunningTyped, Held
      <3>2. config'[s].enabled = FALSE
        BY <1>1, <2>3, <3>1, Switched DEF StateTyped
      <3>3. ~On(s)'
        BY <3>2 DEF On
      <3>4. phase'[s] = "idle" /\ active'[s] = None
        BY <1>1, <2>1, <3>1 DEF Pop, RunningTyped
      <3>5. (hasAgreement(s)' => hasAgreement(s)) /\ ShapeOf(s)' = ShapeOf(s)
        BY <2>1 DEF hasAgreement, ShapeOf
      <3>7. LiveAt(s)'
        BY <1>1, <2>1, <3>3, <3>4, <3>5 DEF LiveAt, ConsentAt, SwitchAt
      <3>8. \A t \in Source \ {s} : Same(t)
        BY <1>1, <2>1, <2>3 DEF Same, StateTyped, RunningTyped, HistoryTyped, Pop
      <3>9. Up'
        BY <1>4, <2>1 DEF Up
      <3>. QED
        BY <2>3, <3>7, <3>8, <3>9, OneSource
    <2>. QED
      BY <1>10, <2>2, <2>3 DEF InitFails
  <1>11. CASE BeginDisable(s)
    <2>1. CASE Pop(s) /\ UNCHANGED <<key, state, disk, backups, active, shown, history>>
      BY <1>2, <2>1, PopKeepsConsent DEF state, history
    <2>2. CASE active[s] = None /\ SwitchedOff(s) /\ UNCHANGED active
      BY <1>2, <2>2, SwitchOffKeepsConsent
    <2>3. CASE /\ active' = InstanceReleased(s)
               /\ phase' = [phase EXCEPT ![s] = "disabling"]
               /\ UNCHANGED <<key, state, disk, backups, queue, held, shown, history>>
      <3>1. UNCHANGED <<key, config, defs, agreed, disk, queue, consented, wanted>>
        BY <2>3 DEF state, history
      <3>2. /\ hasAgreement(s)' <=> hasAgreement(s)
            /\ ShapeOf(s)' = ShapeOf(s) /\ (On(s)' <=> On(s))
        BY <3>1 DEF hasAgreement, ShapeOf, On
      <3>3. /\ phase'[s] = "disabling" /\ active'[s] = None
            /\ \A t \in Source \ {s} : phase'[t] = phase[t] /\ active'[t] = active[t]
        BY <1>1, <2>3 DEF RunningTyped, InstanceReleased
      <3>4. LiveAt(s)'
        BY <1>1, <3>1, <3>2, <3>3 DEF LiveAt, ConsentAt, SwitchAt
      <3>5. SavedAt(s)' /\ Up'
        BY <1>1, <1>4, <3>1, <3>3, FileServes DEF Up
      <3>6. \A t \in Source \ {s} : Same(t)
        BY <3>1, <3>3 DEF Same
      <3>. QED
        BY <3>1, <3>4, <3>5, <3>6, OneSource
    <2>. QED
      BY <1>11, <2>1, <2>2, <2>3 DEF BeginDisable
  <1>12. CASE EndDisable(s)
    <2>1. active[s] = None
      BY <1>1, <1>12 DEF EndDisable, RunningTyped
    <2>. QED
      BY <1>2, <1>12, <2>1, SwitchOffKeepsConsent DEF EndDisable
  <1>. QED
    BY <1>5, <1>6, <1>7, <1>8, <1>9, <1>10, <1>11, <1>12 DEF Lifecycle

LEMMA UpdateKeepsConsent ==
  ASSUME ConsentInv, TypesInv', NEW s \in Source, NEW origin, NEW c \in Setting \cup {Keep},
         updateSourceConfig(s, origin, c)
  PROVE  ConsentInv'
  <1>1. TypesInv /\ StateTyped /\ RunningTyped /\ LiveAt(s)
    BY DEF ConsentInv, TypesInv
  <1>2. /\ Up /\ config' = [config EXCEPT ![s] = Changed(s, c)] /\ saveState
        /\ UNCHANGED <<key, defs, agreed, active, queue, phase, consented, wanted>>
    BY DEF updateSourceConfig, running
  <1>3. config'[s] = Changed(s, c) /\ \A t \in Source \ {s} : config'[t] = config[t]
    BY <1>1, <1>2 DEF StateTyped
  <1>4. /\ Changed(s, c) \in Config /\ Changed(s, c).enabled = Effective(s).enabled
        /\ config[s] # None => Effective(s) = config[s]
        /\ config[s] = None => Effective(s).enabled = FALSE
    BY <1>1, ChangedTyped, EffectiveTyped
  <1>5. On(s)' <=> On(s)
    <2>1. CASE config[s] = None
      BY <1>3, <1>4, <2>1 DEF On
    <2>2. CASE config[s] # None
      BY <1>3, <1>4, <2>2, Names DEF On
    <2>. QED
      BY <2>1, <2>2
  <1>6. /\ hasAgreement(s)' <=> hasAgreement(s)
        /\ ShapeOf(s)' = ShapeOf(s)
    BY <1>2 DEF hasAgreement, ShapeOf
  <1>7. LiveAt(s)'
    BY <1>1, <1>2, <1>5, <1>6 DEF LiveAt, ConsentAt, SwitchAt
  <1>8. \A t \in Source \ {s} : Same(t)
    BY <1>2, <1>3 DEF Same
  <1>9. Up'
    BY <1>2 DEF Up
  <1>. QED
    BY <1>2, <1>7, <1>8, <1>9, OneSource

LEMMA AddKeepsConsent ==
  ASSUME ConsentInv, TypesInv', NEW c \in Custom, NEW d \in Def, addCustomSource(c, d)
  PROVE  ConsentInv'
  <1>1. TypesInv /\ StateTyped /\ RunningTyped /\ c \in Source /\ LiveAt(c)
    BY SourceAssumption DEF ConsentInv, TypesInv, SourceAssumption
  <1>2. /\ Up /\ ~Exists(c) /\ defs' = [defs EXCEPT ![c] = d]
        /\ agreed' = [agreed EXCEPT ![c] = None] /\ saveState
        /\ UNCHANGED <<key, config, active, queue, phase, consented, wanted>>
    BY DEF addCustomSource, Revoked, running, history
  <1>3. ~hasAgreement(c)
    BY <1>2, Names DEF Exists, hasAgreement, Shape
  <1>4. ~hasAgreement(c)'
    BY <1>1, <1>2, Names DEF hasAgreement, StateTyped, Shape
  <1>5. On(c)' <=> On(c)
    BY <1>2 DEF On
  <1>6. LiveAt(c)'
    BY <1>1, <1>2, <1>3, <1>4, <1>5 DEF LiveAt, ConsentAt, SwitchAt
  <1>7. \A t \in Source \ {c} : Same(t)
    BY <1>1, <1>2 DEF Same, StateTyped
  <1>8. Up'
    BY <1>2 DEF Up
  <1>. QED
    BY <1>1, <1>2, <1>6, <1>7, <1>8, OneSource

LEMMA AgreeKeepsConsent ==
  ASSUME ConsentInv, TypesInv', NEW s \in Source, recordAgreement(s) PROVE ConsentInv'
  <1>1. TypesInv /\ StateTyped /\ RunningTyped /\ HistoryTyped /\ LiveAt(s)
    BY DEF ConsentInv, TypesInv
  <1>2. /\ Up /\ shown[s] # None /\ shown[s] = ShapeOf(s) /\ saveState
        /\ agreed' = [agreed EXCEPT ![s] = shown[s]]
        /\ consented' = [consented EXCEPT ![s] = shown[s]]
        /\ UNCHANGED <<key, config, defs, active, queue, phase, wanted>>
    BY DEF recordAgreement, running
  <1>3. ShapeOf(s)' = ShapeOf(s) /\ (On(s)' <=> On(s))
    BY <1>2 DEF ShapeOf, On
  <1>4. agreed'[s] = ShapeOf(s) /\ consented'[s] = ShapeOf(s)
    BY <1>1, <1>2 DEF StateTyped, HistoryTyped
  <1>5. hasAgreement(s)'
    BY <1>1, <1>2, <1>4 DEF hasAgreement, ShapeOf, StateTyped
  <1>6. LiveAt(s)'
    BY <1>1, <1>2, <1>3, <1>4, <1>5 DEF LiveAt, ConsentAt, SwitchAt
  <1>7. \A t \in Source \ {s} : Same(t)
    BY <1>1, <1>2 DEF Same, StateTyped, HistoryTyped
  <1>8. Up'
    BY <1>2 DEF Up
  <1>. QED
    BY <1>2, <1>6, <1>7, <1>8, OneSource

(* Steps that change nothing the invariant speaks of.                      *)
LEMMA QuietStep ==
  ASSUME ConsentInv, TypesInv',
         UNCHANGED <<key, config, defs, agreed, active, phase, consented, wanted>>,
         \A t \in Source : phase[t] # "idle" => Head(queue'[t]) = Head(queue[t]),
         (saveState /\ Up) \/ disk' = disk
  PROVE  ConsentInv'
  <1>1. \A t \in Source : LiveAt(t)'
    <2>1. SUFFICES ASSUME NEW t \in Source PROVE LiveAt(t)'
      OBVIOUS
    <2>2. Same(t)
      BY DEF Same
    <2>. QED
      BY <2>2, SameLives DEF ConsentInv
  <1>2. CASE saveState /\ Up
    <2>1. Up'
      BY <1>2 DEF Up
    <2>. QED
      BY <1>1, <1>2, <2>1, FileWritten DEF ConsentInv
  <1>3. CASE disk' = disk
    <2>1. SUFFICES ASSUME NEW t \in Source PROVE SavedAt(t)'
      BY <1>1 DEF ConsentInv
    <2>. QED
      BY <1>3, FileServes DEF ConsentInv
  <1>. QED
    BY <1>2, <1>3

LEMMA RestoreKeepsConsent ==
  ASSUME ConsentInv, TypesInv', restoreEnabledSources PROVE ConsentInv'
  <1>1. TypesInv /\ StateTyped /\ RunningTyped
    BY DEF ConsentInv, TypesInv
  <1>2. /\ Up /\ Up' /\ UNCHANGED <<key, defs, agreed, active, phase, consented, wanted>>
        /\ \A s \in Source \ Gone : config'[s] = config[s]
        /\ \A s \in Gone : config'[s].enabled = FALSE
        /\ queue' = [s \in Source |-> IF s \in Resume THEN Append(queue[s], ResumeOp) ELSE queue[s]]
        /\ ResumeOp \in Op
        /\ IF Gone = {} THEN UNCHANGED disk ELSE saveState
    BY <1>1, RestoreEffect DEF history, Up
  <1>3. \A t \in Source : phase[t] # "idle" => Head(queue'[t]) = Head(queue[t])
    <2>1. SUFFICES ASSUME NEW t \in Source, phase[t] # "idle"
                   PROVE  Head(queue'[t]) = Head(queue[t])
      OBVIOUS
    <2>2. queue[t] \in Seq(Op) /\ queue[t] # <<>>
      BY <1>1, <2>1 DEF RunningTyped
    <2>3. queue'[t] = IF t \in Resume THEN Append(queue[t], ResumeOp) ELSE queue[t]
      BY <1>2
    <2>4. Head(Append(queue[t], ResumeOp)) = Head(queue[t])
      BY <1>2, <2>2, QueuedBehind
    <2>. QED
      BY <2>3, <2>4
  <1>4. CASE Gone = {}
    <2>1. config' = config
      BY <1>1, <1>2, <1>4 DEF StateTyped, TypesInv
    <2>. QED
      BY <1>2, <1>3, <1>4, <2>1, QuietStep
  <1>5. CASE Gone # {}
    <2>1. \A t \in Source : LiveAt(t)'
      <3>1. SUFFICES ASSUME NEW t \in Source PROVE LiveAt(t)'
        OBVIOUS
      <3>2. CASE t \notin Gone
        <4>1. Same(t)
          BY <1>2, <1>3, <3>2 DEF Same
        <4>. QED
          BY <4>1, SameLives DEF ConsentInv
      <3>3. CASE t \in Gone
        <4>1. ~hasAgreement(t) /\ active[t] = None
          BY <3>3 DEF Gone, Due
        <4>2. ~hasAgreement(t)'
          BY <1>2, <4>1 DEF hasAgreement
        <4>3. ~On(t)'
          BY <1>2, <3>3 DEF On
        <4>4. phase[t] \notin {"installing", "destroying", "starting"}
          BY <4>1 DEF ConsentInv, LiveAt, ConsentAt
        <4>. QED
          BY <1>2, <4>1, <4>2, <4>3, <4>4 DEF LiveAt, ConsentAt, SwitchAt
      <3>. QED
        BY <3>2, <3>3
    <2>. QED
      BY <1>2, <1>5, <2>1, FileWritten DEF ConsentInv
  <1>. QED
    BY <1>4, <1>5

LEMMA StartKeepsConsent ==
  ASSUME ConsentInv, TypesInv', NEW k \in Key, Start(k) PROVE ConsentInv'
  <1>1. TypesInv /\ RunningTyped
    BY DEF ConsentInv, TypesInv
  <1>2. ~Up /\ UNCHANGED <<disk, active, queue, phase, consented, wanted>>
    BY DEF Start, running
  <1>3. \A t \in Source : active[t] = None /\ phase[t] = "idle"
    BY <1>1, <1>2 DEF RunningTyped
  <1>4. \A t \in Source : SavedAt(t)'
    BY <1>2, <1>3, FileServes DEF ConsentInv
  <1>5. \/ /\ config' = Empty(k).config /\ defs' = Empty(k).defs /\ agreed' = Empty(k).agreed
        \/ /\ disk # None
           /\ config' = disk.config /\ defs' = disk.defs /\ agreed' = disk.agreed
    BY DEF Start, Load, Unreadable
  <1>6. ASSUME NEW t \in Source PROVE LiveAt(t)'
    <2>1. CASE config' = Empty(k).config /\ defs' = Empty(k).defs /\ agreed' = Empty(k).agreed
      <3>1. config'[t] = None /\ agreed'[t] = None
        BY <2>1 DEF Empty
      <3>2. ~On(t)' /\ ~hasAgreement(t)'
        BY <3>1, Names DEF On, hasAgreement, Shape
      <3>. QED
        BY <1>2, <1>3, <3>2 DEF LiveAt, ConsentAt, SwitchAt
    <2>2. CASE /\ disk # None
               /\ config' = disk.config /\ defs' = disk.defs /\ agreed' = disk.agreed
      <3>1. /\ On(t)' <=> SavedOn(t)
            /\ hasAgreement(t)' <=> SavedAgreed(t)
            /\ ShapeOf(t)' = SavedShape(t)
        BY <2>2 DEF On, SavedOn, hasAgreement, SavedAgreed, ShapeOf, SavedShape
      <3>2. SavedAt(t)
        BY DEF ConsentInv
      <3>. QED
        BY <1>2, <1>3, <2>2, <3>1, <3>2 DEF LiveAt, ConsentAt, SwitchAt, SavedAt
    <2>. QED
      BY <1>5, <2>1, <2>2
  <1>. QED
    BY <1>4, <1>6 DEF ConsentInv

LEMMA DieKeepsConsent ==
  ASSUME ConsentInv, TypesInv', Die,
         disk' = disk \/ \E s \in Source : DieRemoving(s)
  PROVE  ConsentInv'
  <1>1. TypesInv /\ StateTyped /\ RunningTyped
    BY DEF ConsentInv, TypesInv
  <1>2. /\ config' = [s \in Source |-> None] /\ agreed' = [s \in Source |-> None]
        /\ active' = [s \in Source |-> None] /\ phase' = [s \in Source |-> "idle"]
        /\ UNCHANGED <<consented, wanted>>
    BY DEF Die, Empty
  <1>3. ASSUME NEW t \in Source PROVE LiveAt(t)'
    <2>1. ~On(t)' /\ ~hasAgreement(t)'
      BY <1>2, Names DEF On, hasAgreement, Shape
    <2>. QED
      BY <1>2, <2>1 DEF LiveAt, ConsentAt, SwitchAt
  <1>4. ASSUME NEW t \in Source PROVE SavedAt(t)'
    <2>1. CASE disk' = disk
      BY <1>2, <2>1, FileServes DEF ConsentInv
    <2>2. ASSUME NEW s \in Source, DieRemoving(s) PROVE SavedAt(t)'
      <3>1. /\ disk' = [key |-> key, config |-> Off(s), defs |-> defs, agreed |-> agreed,
                        cursor |-> cursor]
        BY <1>1, <2>2, DieRemovingTyped
      <3>2. disk'.config = Off(s) /\ disk'.defs = defs /\ disk'.agreed = agreed
        BY <3>1
      <3>3. SavedOn(t)' => On(t)
        <4>1. SavedOn(t)' <=> Off(s)[t] # None /\ Off(s)[t].enabled
          BY <3>2 DEF SavedOn
        <4>2. CASE t = s
          BY <1>1, <4>1, <4>2, OffTyped
        <4>3. CASE t # s
          BY <1>1, <4>1, <4>3, OffTyped DEF On
        <4>. QED
          BY <4>2, <4>3
      <3>4. /\ SavedAgreed(t)' <=> hasAgreement(t)
            /\ SavedShape(t)' = ShapeOf(t)
        BY <3>2 DEF SavedAgreed, hasAgreement, SavedShape, ShapeOf
      <3>. QED
        BY <1>2, <3>3, <3>4 DEF SavedAt, ConsentInv, LiveAt, ConsentAt, SwitchAt
    <2>. QED
      BY <2>1, <2>2
  <1>. QED
    BY <1>3, <1>4 DEF ConsentInv

LEMMA ConsentStays == ConsentInv /\ [RegistryNext]_registryVars => ConsentInv'
  <1>1. SUFFICES ASSUME ConsentInv, [RegistryNext]_registryVars PROVE ConsentInv'
    OBVIOUS
  <1>2. TypesInv' /\ TypesInv /\ RunningTyped
    BY <1>1, TypesStay DEF ConsentInv, TypesInv
  <1>3. CASE Stop
    BY <1>1, <1>2, <1>3, DieKeepsConsent DEF Stop
  <1>4. ASSUME NEW s \in Source, DieRemoving(s) PROVE ConsentInv'
    BY <1>1, <1>2, <1>4, DieKeepsConsent DEF DieRemoving
  <1>5. ASSUME NEW s \in Source, NEW op \in Op, Call(s, op) PROVE ConsentInv'
    <2>1. /\ queue' = [queue EXCEPT ![s] = Append(queue[s], op)]
          /\ UNCHANGED <<key, config, defs, agreed, disk, active, phase, consented, wanted>>
      BY <1>5 DEF Call, state, history
    <2>2. \A t \in Source : phase[t] # "idle" => Head(queue'[t]) = Head(queue[t])
      BY <1>2, <2>1, QueuedBehind DEF RunningTyped
    <2>. QED
      BY <1>1, <1>2, <2>1, <2>2, QuietStep
  <1>6. ASSUME NEW s \in Source, Show(s) \/ saveCheckpoint(s) PROVE ConsentInv'
    BY <1>1, <1>2, <1>6, QuietStep DEF Show, saveCheckpoint, state, running, history
  <1>7. CASE UNCHANGED registryVars
    BY <1>1, <1>2, <1>7, QuietStep DEF registryVars, state, running, history
  <1>. QED
    BY <1>1, <1>2, <1>3, <1>4, <1>5, <1>6, <1>7, StartKeepsConsent, RestoreKeepsConsent,
       LifecycleKeepsConsent, UpdateKeepsConsent, AddKeepsConsent, AgreeKeepsConsent
       DEF RegistryNext

LEMMA ConsentStart == RegistryInit => ConsentInv
  <1>1. SUFFICES ASSUME RegistryInit PROVE ConsentInv
    OBVIOUS
  <1>2. /\ config = [s \in Source |-> None] /\ agreed = [s \in Source |-> None]
        /\ active = [s \in Source |-> None] /\ phase = [s \in Source |-> "idle"]
        /\ disk \in OldFiles \cup {None}
        /\ \A s \in Source \ Custom : disk # None /\ disk.agreed[s] # None => consented[s] = BuiltIn
    BY <1>1 DEF RegistryInit, Empty
  <1>3. \A s \in Source : disk # None /\ disk.config[s] # None => wanted[s]
    BY <1>1 DEF RegistryInit
  <1>4. ASSUME NEW t \in Source PROVE LiveAt(t)
    <2>1. ~On(t) /\ ~hasAgreement(t)
      BY <1>2, Names DEF On, hasAgreement, Shape
    <2>. QED
      BY <1>2, <2>1 DEF LiveAt, ConsentAt, SwitchAt
  <1>5. ASSUME NEW t \in Source PROVE SavedAt(t)
    <2>1. CASE disk = None
      BY <1>2, <2>1 DEF SavedAt
    <2>2. CASE disk # None
      <3>1. SavedOn(t) => wanted[t]
        BY <1>3, <2>2 DEF SavedOn
      <3>2. SavedAgreed(t) => consented[t] = SavedShape(t)
        <4>1. CASE t \in Custom
          <5>1. disk.agreed[t] = Listed
            BY <1>2, <2>2, <4>1, OldFileTyped
          <5>. QED
            BY <4>1, <5>1, Names DEF SavedAgreed, Shape
        <4>2. CASE t \notin Custom
          BY <1>2, <2>2, <4>2 DEF SavedAgreed, SavedShape
        <4>. QED
          BY <4>1, <4>2
      <3>. QED
        BY <1>2, <3>1, <3>2 DEF SavedAt
    <2>. QED
      BY <2>1, <2>2
  <1>. QED
    BY <1>1, <1>4, <1>5, TypesStart DEF ConsentInv

(* Nothing runs but what the user saw, agreed to and did not withdraw,     *)
(* whatever agents, timers, removals and re-additions under one id do, and *)
(* whatever a restart reads from the file (recordAgreement,                *)
(* addCustomSource).                                                       *)
THEOREM ConsentIsKept == RegistrySpec => []OnlyConsentedRuns
  <1>1. ConsentInv => OnlyConsentedRuns
    BY DEF ConsentInv, LiveAt, ConsentAt, OnlyConsentedRuns
  <1>. QED
    BY ConsentStart, ConsentStays, <1>1, PTL DEF RegistrySpec

(* What was switched off runs again only when someone switches it on: not  *)
(* by a resume queued before the switch, nor after a restart at any moment *)
(* (restoreEnabledSources).                                                *)
THEOREM OffIsOff == RegistrySpec => []OffStaysOff
  <1>1. ConsentInv => OffStaysOff
    BY DEF ConsentInv, LiveAt, SwitchAt, OffStaysOff
  <1>. QED
    BY ConsentStart, ConsentStays, <1>1, PTL DEF RegistrySpec

(* Whatever runs is on and agreed to in the file, under the running        *)
(* process's key; and the state is well typed, one instance to a source    *)
(* (enableSourceUnlocked, saveState).                                      *)
THEOREM WhatRunsIsSaved == RegistrySpec => []RunningIsSaved
  <1>1. ConsentInv => RunningIsSaved
    <2>1. SUFFICES ASSUME ConsentInv PROVE RunningIsSaved
      OBVIOUS
    <2>2. TypesInv /\ StateTyped /\ DiskTyped /\ RunningTyped
      BY <2>1 DEF ConsentInv, TypesInv
    <2>3. Up => [key |-> key, config |-> config, defs |-> defs, agreed |-> agreed,
                 cursor |-> cursor] \in Saved
      BY <2>2 DEF StateTyped, Saved, Up
    <2>4. RegistryTypeOK
      BY <2>2, <2>3 DEF RegistryTypeOK, StateTyped, DiskTyped, RunningTyped
    <2>5. \A s \in Source : active[s] # None =>
            /\ disk # None /\ disk.key = key
            /\ disk.config[s] # None /\ disk.config[s].enabled
            /\ disk.agreed[s] = agreed[s] /\ hasAgreement(s)
      BY <2>1 DEF ConsentInv, SavedAt, SavedOn, LiveAt, ConsentAt
    <2>. QED
      BY <2>4, <2>5 DEF RunningIsSaved
  <1>. QED
    BY ConsentStart, ConsentStays, <1>1, PTL DEF RegistrySpec

-----------------------------------------------------------------------------
(* Settings: the ones in force are those the user was last told are        *)
(* stored; no operation, save or restart puts others there, and no agent   *)
(* can.                                                                    *)

UnsureTyped == unsure \in [Source -> SUBSET {"overlap", "lost"}]

(* What the user will have been told when the operation at the head of the *)
(* queue is answered. *)
ToldNow(s) ==
  LET op == Head(queue[s])
  IN  IF op.origin = "user" /\ op.change # Keep THEN op.change ELSE chosen[s]

SavedSettings(s) ==
  IF disk = None THEN Default ELSE IF disk.config[s] = None THEN Default ELSE disk.config[s].settings

(* In memory: what was told, until an enable puts its own settings there.  *)
InMemoryAt(s) ==
  /\ Up /\ phase[s] \in {"idle", "installing", "disabling"} => Effective(s).settings = chosen[s]
  /\ phase[s] = "installing" => held[s].to.settings = ToldNow(s)
  /\ phase[s] \in {"destroying", "starting"} =>
       /\ config[s] # None /\ config[s].settings = ToldNow(s)
       /\ held[s].to.settings = ToldNow(s)

(* On disk: the same, but for a user's enable that another save caught     *)
(* half-way; its own save is still to come.                                *)
OnDiskAt(s) ==
  \/ SavedSettings(s) = chosen[s]
  \/ phase[s] \in {"destroying", "starting"} /\ Head(queue[s]).origin = "user"

SettingsAt(s) == unsure[s] = {} => InMemoryAt(s) /\ OnDiskAt(s)

SettingsInv == TypesInv /\ UnsureTyped /\ \A s \in Source : SettingsAt(s)

(* Nothing of the settings of a source changed. *)
SameSettings(t) ==
  /\ Effective(t)'.settings = Effective(t).settings
  /\ config[t] # None => config'[t] # None /\ config'[t].settings = config[t].settings
  /\ phase'[t] = phase[t] /\ held'[t] = held[t]
  /\ chosen'[t] = chosen[t] /\ unsure'[t] = unsure[t]
  /\ phase[t] # "idle" => Head(queue'[t]) = Head(queue[t])

LEMMA SameInMemory ==
  ASSUME NEW t \in Source, SameSettings(t), InMemoryAt(t), Up' => Up PROVE InMemoryAt(t)'
  <1>1. phase[t] # "idle" => ToldNow(t)' = ToldNow(t)
    BY DEF SameSettings, ToldNow
  <1>. QED
    BY <1>1 DEF SameSettings, InMemoryAt

LEMMA SameOnDisk ==
  ASSUME NEW t \in Source, OnDiskAt(t), disk' = disk, chosen'[t] = chosen[t], phase'[t] = phase[t],
         phase[t] # "idle" => Head(queue'[t]) = Head(queue[t])
  PROVE  OnDiskAt(t)'
  BY DEF OnDiskAt, SavedSettings

(* A save puts the settings in memory on disk. *)
LEMMA SettingsSaved ==
  ASSUME TypesInv', Up', saveState, NEW t \in Source, InMemoryAt(t)' PROVE OnDiskAt(t)'
  <1>1. disk' # None /\ disk'.config = config'
    BY SavedTyped DEF TypesInv
  <1>2. SavedSettings(t)' = IF config'[t] = None THEN Default ELSE config'[t].settings
    BY <1>1 DEF SavedSettings
  <1>3. SavedSettings(t)' = Effective(t)'.settings
    BY <1>2 DEF Effective
  <1>4. phase'[t] \in Phase
    BY DEF TypesInv, RunningTyped
  <1>5. CASE phase'[t] \in {"idle", "installing", "disabling"}
    BY <1>3, <1>5 DEF InMemoryAt, OnDiskAt
  <1>6. CASE phase'[t] \in {"destroying", "starting"}
    <2>1. SavedSettings(t)' = ToldNow(t)'
      BY <1>2, <1>6 DEF InMemoryAt
    <2>. QED
      BY <1>6, <2>1 DEF ToldNow, OnDiskAt
  <1>. QED
    BY <1>4, <1>5, <1>6 DEF Phase

LEMMA SettingsOfOne ==
  ASSUME SettingsInv, TypesInv', UnsureTyped', Up, Up', NEW s \in Source,
         \A t \in Source \ {s} : SameSettings(t),
         unsure'[s] = {} => InMemoryAt(s)',
         saveState \/ (disk' = disk /\ (unsure'[s] = {} => OnDiskAt(s)'))
  PROVE  SettingsInv'
  <1>1. SUFFICES ASSUME NEW t \in Source, unsure'[t] = {} PROVE InMemoryAt(t)' /\ OnDiskAt(t)'
    BY DEF SettingsInv, SettingsAt
  <1>2. InMemoryAt(t)'
    <2>1. CASE t = s
      BY <1>1, <2>1
    <2>2. CASE t # s
      BY <1>1, <2>2, SameInMemory DEF SettingsInv, SettingsAt, SameSettings
    <2>. QED
      BY <2>1, <2>2
  <1>3. OnDiskAt(t)'
    <2>1. CASE saveState
      BY <1>2, <2>1, SettingsSaved
    <2>2. CASE disk' = disk /\ t = s /\ ~saveState
      BY <1>1, <2>2
    <2>3. CASE disk' = disk /\ t # s
      BY <1>1, <2>3, SameOnDisk DEF SettingsInv, SettingsAt, SameSettings
    <2>. QED
      BY <2>1, <2>2, <2>3
  <1>. QED
    BY <1>2, <1>3

(* What the settings of a source are after a change of its entry. *)
LEMMA SettingsChange ==
  ASSUME TypesInv', NEW t \in Source
  PROVE  /\ config'[t] # None => Effective(t)'.settings = config'[t].settings
         /\ config'[t] = None => Effective(t)'.settings = Default
  BY DEF Effective

LEMMA OthersUntouched ==
  ASSUME TypesInv, NEW t \in Source, config'[t] = config[t],
         phase'[t] = phase[t], held'[t] = held[t], queue'[t] = queue[t],
         chosen'[t] = chosen[t], unsure'[t] = unsure[t]
  PROVE  SameSettings(t)
  BY DEF SameSettings, Effective

(* The operation at the head: what it asks for is what will be told.       *)
LEMMA GrantedSettings ==
  ASSUME SettingsInv, NEW s \in Source, Up, queue[s] # <<>>, phase[s] = "idle", Granted(s),
         unsure[s] = {}
  PROVE  Changed(s, Head(queue[s]).change).settings = ToldNow(s)
  <1> DEFINE op == Head(queue[s])
  <1>1. op \in Op
    BY HeadTailProperties DEF SettingsInv, TypesInv, RunningTyped
  <1>2. op.change \in Setting \cup {Keep} /\ op.origin \in {"user", "agent"}
    BY <1>1 DEF Op
  <1>3. Effective(s).settings = chosen[s]
    BY DEF SettingsInv, SettingsAt, InMemoryAt
  <1>4. op.change \in {Keep, Effective(s).settings} \/ op.origin = "user"
    BY DEF Granted, applyConfigChange
  <1>5. /\ op.change = Keep => Changed(s, op.change).settings = Effective(s).settings
        /\ op.change # Keep => Changed(s, op.change).settings = op.change
    BY <1>2, ChangedTyped DEF SettingsInv, TypesInv
  <1>. QED
    BY <1>2, <1>3, <1>4, <1>5 DEF ToldNow

LEMMA ApplyKeepsSettings ==
  ASSUME SettingsInv, TypesInv', NEW s \in Source, NEW to \in Config, NEW was \in BOOLEAN,
         queue[s] # <<>>, phase[s] \in {"idle", "installing"}, Up,
         unsure[s] = {} => to.settings = ToldNow(s), Apply(s, to, was)
  PROVE  SettingsInv'
  <1> DEFINE on == [to EXCEPT !.enabled = TRUE]
  <1>1. /\ config' = [config EXCEPT ![s] = on]
        /\ phase' = [phase EXCEPT ![s] = IF active[s] # None THEN "destroying" ELSE "starting"]
        /\ held' = [held EXCEPT ![s] = [to |-> to, was |-> was]]
        /\ UNCHANGED <<key, disk, queue, chosen, unsure>>
    BY DEF Apply
  <1>2. on \in Config /\ on.settings = to.settings
    BY Switched
  <1> HIDE DEF on
  <1>3. TypesInv /\ StateTyped /\ RunningTyped
    BY DEF SettingsInv, TypesInv
  <1>4. /\ config'[s] = on /\ phase'[s] \in {"destroying", "starting"}
        /\ held'[s].to = to
    BY <1>1, <1>3 DEF StateTyped, RunningTyped
  <1>5. ToldNow(s)' = ToldNow(s)
    BY <1>1 DEF ToldNow
  <1>6. unsure'[s] = {} => InMemoryAt(s)'
    BY <1>1, <1>2, <1>4, <1>5, Names DEF InMemoryAt
  <1>7. unsure'[s] = {} => OnDiskAt(s)'
    BY <1>1 , <1>3, <1>4 DEF SettingsInv, SettingsAt, OnDiskAt, SavedSettings
  <1>8. \A t \in Source \ {s} : SameSettings(t)
    BY <1>1, <1>3, OthersUntouched DEF StateTyped, RunningTyped
  <1>9. Up' /\ UnsureTyped'
    BY <1>1 DEF Up, SettingsInv, UnsureTyped
  <1>. QED
    BY <1>1, <1>6, <1>7, <1>8, <1>9, SettingsOfOne

LEMMA SwitchOffKeepsSettings ==
  ASSUME SettingsInv, TypesInv', NEW s \in Source, queue[s] # <<>>, Up,
         phase[s] \in {"idle", "disabling"}, SwitchedOff(s)
  PROVE  SettingsInv'
  <1>1. TypesInv /\ StateTyped /\ RunningTyped /\ HistoryTyped /\ UnsureTyped
    BY DEF SettingsInv, TypesInv
  <1>2. /\ queue' = [queue EXCEPT ![s] = Tail(queue[s])]
        /\ phase' = [phase EXCEPT ![s] = "idle"] /\ held' = [held EXCEPT ![s] = None]
        /\ UNCHANGED <<key, unsure>> /\ saveState
    BY DEF SwitchedOff, Pop
  <1>3. \/ config' = Off(s) /\ UNCHANGED chosen
        \/ config' = [config EXCEPT ![s] = None] /\ chosen' = [chosen EXCEPT ![s] = Default]
    BY DEF SwitchedOff
  <1>4. unsure[s] = {} => Effective(s).settings = chosen[s]
    BY <1>1 DEF SettingsInv, SettingsAt, InMemoryAt
  <1>5. /\ config[s] # None => Effective(s).settings = config[s].settings
        /\ config[s] = None => Effective(s).settings = Default
    BY DEF Effective
  <1>6. unsure[s] = {} => Effective(s)'.settings = chosen'[s]
    <2>1. CASE config' = Off(s) /\ UNCHANGED chosen
      BY <1>1, <1>4, <1>5, <2>1, OffTyped, SettingsChange, Names
    <2>2. CASE config' = [config EXCEPT ![s] = None] /\ chosen' = [chosen EXCEPT ![s] = Default]
      BY <1>1, <2>2, SettingsChange DEF StateTyped, HistoryTyped
    <2>. QED
      BY <1>3, <2>1, <2>2
  <1>7. phase'[s] = "idle"
    BY <1>1, <1>2 DEF RunningTyped
  <1>8. unsure'[s] = {} => InMemoryAt(s)'
    BY <1>2, <1>6, <1>7 DEF InMemoryAt
  <1>9. \A t \in Source \ {s} : config'[t] = config[t] /\ chosen'[t] = chosen[t]
    BY <1>1, <1>3, OffTyped DEF StateTyped, HistoryTyped
  <1>10. \A t \in Source \ {s} : SameSettings(t)
    BY <1>1, <1>2, <1>9, OthersUntouched DEF RunningTyped
  <1>11. Up' /\ UnsureTyped'
    BY <1>1, <1>2 DEF Up, UnsureTyped
  <1>. QED
    BY <1>2, <1>8, <1>10, <1>11, SettingsOfOne

(* A step after which the settings of every source are what they were.     *)
LEMMA SettingsOfAll ==
  ASSUME SettingsInv, TypesInv', UnsureTyped', Up, Up', \A t \in Source : SameSettings(t),
         saveState \/ disk' = disk
  PROVE  SettingsInv'
  <1>1. CASE Source = {}
    BY <1>1 DEF SettingsInv
  <1>2. ASSUME NEW s \in Source PROVE SettingsInv'
    <2>1. unsure'[s] = {} => InMemoryAt(s)'
      BY SameInMemory DEF SettingsInv, SettingsAt, SameSettings
    <2>2. disk' = disk => (unsure'[s] = {} => OnDiskAt(s)')
      BY SameOnDisk DEF SettingsInv, SettingsAt, SameSettings
    <2>. QED
      BY <2>1, <2>2, SettingsOfOne
  <1>. QED
    BY <1>1, <1>2

(* An operation leaves its queue with nothing changed.                     *)
LEMMA PopKeepsSettings ==
  ASSUME SettingsInv, TypesInv', NEW s \in Source, queue[s] # <<>>, Pop(s), Up,
         phase[s] \in {"idle", "installing"},
         UNCHANGED <<key, config, disk, chosen, unsure>>
  PROVE  SettingsInv'
  <1>1. TypesInv /\ RunningTyped /\ UnsureTyped
    BY DEF SettingsInv, TypesInv
  <1>2. /\ queue' = [queue EXCEPT ![s] = Tail(queue[s])]
        /\ phase' = [phase EXCEPT ![s] = "idle"] /\ held' = [held EXCEPT ![s] = None]
    BY DEF Pop
  <1>3. \A t \in Source \ {s} : SameSettings(t)
    BY <1>1, <1>2, OthersUntouched DEF RunningTyped
  <1>4. phase'[s] = "idle" /\ Effective(s)' = Effective(s)
    BY <1>1, <1>2 DEF RunningTyped, Effective
  <1>5. unsure'[s] = {} => InMemoryAt(s)' /\ OnDiskAt(s)'
    BY <1>4 DEF SettingsInv, SettingsAt, InMemoryAt, OnDiskAt, SavedSettings
  <1>6. Up' /\ UnsureTyped'
    BY <1>1 DEF Up, UnsureTyped
  <1>. QED
    BY <1>3, <1>5, <1>6, SettingsOfOne

(* The operation at the head is answered: what is in memory is told.       *)
LEMMA AnswerKeepsSettings ==
  ASSUME SettingsInv, TypesInv', NEW s \in Source, queue[s] # <<>>, Up, phase[s] = "starting",
         Answered(s), key' = key,
         \/ config' = config
         \/ config' = [config EXCEPT ![s] = [held[s].to EXCEPT !.enabled = FALSE]],
         saveState \/ (config' = config /\ disk' = disk /\ Head(queue[s]).origin = "agent")
  PROVE  SettingsInv'
  <1>1. TypesInv /\ StateTyped /\ RunningTyped /\ HistoryTyped /\ UnsureTyped
    BY DEF SettingsInv, TypesInv
  <1>2. /\ queue' = [queue EXCEPT ![s] = Tail(queue[s])]
        /\ phase' = [phase EXCEPT ![s] = "idle"] /\ held' = [held EXCEPT ![s] = None]
        /\ unsure' = unsure
        /\ chosen' = IF Head(queue[s]).origin = "user" THEN Told(s, Head(queue[s]).change)
                                                       ELSE chosen
    BY DEF Answered, Pop
  <1>3. held[s].to \in Config
    BY <1>1 DEF RunningTyped, Held
  <1>4. chosen'[s] = ToldNow(s) /\ \A t \in Source \ {s} : chosen'[t] = chosen[t]
    BY <1>1, <1>2 DEF HistoryTyped, Told, ToldNow
  <1>5. \A t \in Source \ {s} : config'[t] = config[t]
    BY <1>1 DEF StateTyped
  <1>6. \A t \in Source \ {s} : SameSettings(t)
    BY <1>1, <1>2, <1>4, <1>5, OthersUntouched DEF RunningTyped
  <1>7. unsure[s] = {} => Effective(s)'.settings = ToldNow(s)
    <2>1. SUFFICES ASSUME unsure[s] = {} PROVE Effective(s)'.settings = ToldNow(s)
      OBVIOUS
    <2>2. /\ config[s] # None /\ config[s].settings = ToldNow(s)
          /\ held[s].to.settings = ToldNow(s)
      BY <2>1 DEF SettingsInv, SettingsAt, InMemoryAt
    <2>3. CASE config' = config
      BY <2>2, <2>3, SettingsChange
    <2>4. CASE config' = [config EXCEPT ![s] = [held[s].to EXCEPT !.enabled = FALSE]]
      <3> DEFINE off == [held[s].to EXCEPT !.enabled = FALSE]
      <3>1. off \in Config /\ off.settings = held[s].to.settings
        BY <1>3, Switched
      <3>2. config'[s] = off
        BY <1>1, <2>4 DEF StateTyped
      <3> HIDE DEF off
      <3>. QED
        BY <2>2, <3>1, <3>2, SettingsChange, Names
    <2>. QED
      BY <2>3, <2>4
  <1>8. phase'[s] = "idle"
    BY <1>1, <1>2 DEF RunningTyped
  <1>9. unsure'[s] = {} => InMemoryAt(s)'
    BY <1>2, <1>4, <1>7, <1>8 DEF InMemoryAt
  <1>10. ASSUME disk' = disk, Head(queue[s]).origin = "agent", unsure'[s] = {} PROVE OnDiskAt(s)'
    <2>1. SavedSettings(s) = chosen[s]
      BY <1>2, <1>10 DEF SettingsInv, SettingsAt, OnDiskAt
    <2>2. chosen' = chosen
      BY <1>2, <1>10
    <2>. QED
      BY <1>10, <2>1, <2>2 DEF OnDiskAt, SavedSettings
  <1>11. Up' /\ UnsureTyped'
    BY <1>1, <1>2 DEF Up, UnsureTyped
  <1>. QED
    BY <1>6, <1>9, <1>10, <1>11, SettingsOfOne

LEMMA LifecycleKeepsSettings ==
  ASSUME SettingsInv, NEW s \in Source, Lifecycle(s) PROVE SettingsInv'
  <1>1. TypesInv /\ StateTyped /\ RunningTyped /\ UnsureTyped /\ TypesInv'
    BY LifecycleTyped DEF SettingsInv, TypesInv
  <1>2. queue[s] # <<>>
    BY <1>1 DEF RunningTyped, Lifecycle, Refused, BeginEnable, Installed, InstallFails,
       Destroyed, InitSucceeds, InitFails, BeginDisable, EndDisable, Running
  <1>3. Up
    BY <1>1, <1>2 DEF RunningTyped
  <1>4. ASSUME NEW p \in {"installing", "starting", "disabling"},
               phase' = [phase EXCEPT ![s] = p], \A t \in Source \ {s} : held'[t] = held[t],
               UNCHANGED <<key, config, disk, queue, chosen, unsure>>,
               unsure[s] = {} => InMemoryAt(s)' /\ OnDiskAt(s)'
        PROVE  SettingsInv'
    <2>1. \A t \in Source \ {s} : SameSettings(t)
      BY <1>1, <1>4, OthersUntouched DEF RunningTyped
    <2>2. Up' /\ UnsureTyped'
      BY <1>1, <1>3, <1>4 DEF Up, UnsureTyped
    <2>. QED
      BY <1>1, <1>3, <1>4, <2>1, <2>2, SettingsOfOne
  <1>5. CASE Refused(s) \/ InstallFails(s)
    BY <1>1, <1>2, <1>3, <1>5, PopKeepsSettings DEF Refused, InstallFails, state, history
  <1>6. CASE BeginEnable(s)
    <2> DEFINE to == Changed(s, Head(queue[s]).change)
    <2>1. phase[s] = "idle" /\ Granted(s)
      BY <1>6 DEF BeginEnable
    <2>2. unsure[s] = {} => to.settings = ToldNow(s)
      BY <1>2, <1>3, <2>1, GrantedSettings
    <2>3. to \in Config /\ Effective(s).enabled \in BOOLEAN
      <3>1. Head(queue[s]) \in Op
        BY <1>1, <1>2, HeadTailProperties DEF RunningTyped
      <3>2. Head(queue[s]).change \in Setting \cup {Keep}
        BY <3>1 DEF Op
      <3>. QED
        BY <1>1, <3>2, ChangedTyped, EffectiveTyped DEF Config
    <2>4. CASE Apply(s, to, Effective(s).enabled)
      BY <1>1, <1>2, <1>3, <2>1, <2>2, <2>3, <2>4, ApplyKeepsSettings
    <2>5. CASE /\ phase' = [phase EXCEPT ![s] = "installing"]
               /\ held' = [held EXCEPT ![s] = [to |-> to, was |-> FALSE]]
               /\ UNCHANGED <<key, state, disk, backups, active, queue, shown, history, limits>>
      <3> HIDE DEF to
      <3>1. held'[s].to = to /\ phase'[s] = "installing" /\ \A t \in Source \ {s} : held'[t] = held[t]
        BY <1>1, <2>5 DEF RunningTyped
      <3>2. ToldNow(s)' = ToldNow(s) /\ Effective(s)' = Effective(s)
        BY <2>5 DEF ToldNow, Effective, history, state
      <3>3. unsure[s] = {} => InMemoryAt(s)' /\ OnDiskAt(s)'
        BY <1>3, <2>1, <2>2, <2>5, <3>1, <3>2
           DEF SettingsInv, SettingsAt, InMemoryAt, OnDiskAt, SavedSettings, history, state
      <3>. QED
        BY <1>4, <2>5, <3>1, <3>3 DEF state, history
    <2>. QED
      BY <1>6, <2>4, <2>5 DEF BeginEnable
  <1>7. CASE Installed(s)
    <2>1. phase[s] = "installing" /\ Apply(s, held[s].to, Effective(s).enabled)
      BY <1>7 DEF Installed
    <2>2. held[s].to \in Config /\ Effective(s).enabled \in BOOLEAN
      <3>1. held[s] \in Held
        BY <1>1, <2>1 DEF RunningTyped
      <3>2. Effective(s) \in Config
        BY <1>1, EffectiveTyped
      <3>. QED
        BY <3>1, <3>2 DEF Held, Config
    <2>3. unsure[s] = {} => held[s].to.settings = ToldNow(s)
      BY <2>1 DEF SettingsInv, SettingsAt, InMemoryAt
    <2>. QED
      BY <1>1, <1>2, <1>3, <2>1, <2>2, <2>3, ApplyKeepsSettings
  <1>8. CASE Destroyed(s)
    <2>1. /\ phase[s] = "destroying" /\ phase' = [phase EXCEPT ![s] = "starting"]
          /\ UNCHANGED <<key, config, disk, queue, held, chosen, unsure>>
      BY <1>8 DEF Destroyed, state, history
    <2>2. phase'[s] = "starting" /\ ToldNow(s)' = ToldNow(s)
      BY <1>1, <2>1 DEF RunningTyped, ToldNow
    <2>3. unsure[s] = {} => InMemoryAt(s)' /\ OnDiskAt(s)'
      BY <2>1, <2>2 DEF SettingsInv, SettingsAt, InMemoryAt, OnDiskAt, SavedSettings
    <2>. QED
      BY <1>4, <2>1, <2>3
  <1>9. CASE InitSucceeds(s)
    <2>1. phase[s] = "starting" /\ Answered(s) /\ UNCHANGED <<key, config>> /\ saveState
      BY <1>9 DEF InitSucceeds, state
    <2>. QED
      BY <1>1, <1>2, <1>3, <2>1, AnswerKeepsSettings
  <1>10. CASE InitFails(s)
    <2>1. phase[s] = "starting" /\ Answered(s) /\ key' = key
      BY <1>10 DEF InitFails
    <2>2. \/ /\ config' = [config EXCEPT ![s] = [held[s].to EXCEPT !.enabled = FALSE]]
             /\ saveState
          \/ Head(queue[s]).origin = "agent" /\ UNCHANGED <<config, disk>>
      BY <1>10 DEF InitFails
    <2>. QED
      BY <1>1, <1>2, <1>3, <2>1, <2>2, AnswerKeepsSettings
  <1>11. CASE BeginDisable(s)
    <2>1. phase[s] = "idle"
      BY <1>11 DEF BeginDisable
    <2>2. CASE Pop(s) /\ UNCHANGED <<key, state, disk, backups, active, shown, history, limits>>
      BY <1>1, <1>2, <1>3, <2>1, <2>2, PopKeepsSettings DEF state, history
    <2>3. CASE SwitchedOff(s)
      BY <1>1, <1>2, <1>3, <2>1, <2>3, SwitchOffKeepsSettings
    <2>4. CASE /\ phase' = [phase EXCEPT ![s] = "disabling"]
               /\ UNCHANGED <<key, state, disk, backups, queue, held, shown, history, limits>>
      <3>1. UNCHANGED <<key, config, disk, queue, held, chosen, unsure>>
        BY <2>4 DEF state, history
      <3>2. phase'[s] = "disabling" /\ Effective(s)' = Effective(s)
        BY <1>1, <2>4, <3>1 DEF RunningTyped, Effective
      <3>3. unsure[s] = {} => InMemoryAt(s)' /\ OnDiskAt(s)'
        BY <1>3, <2>1, <3>1, <3>2 DEF SettingsInv, SettingsAt, InMemoryAt, OnDiskAt, SavedSettings
      <3>. QED
        BY <1>4, <2>4, <3>1, <3>3
    <2>. QED
      BY <1>11, <2>2, <2>3, <2>4 DEF BeginDisable
  <1>12. CASE EndDisable(s)
    BY <1>1, <1>2, <1>3, <1>12, SwitchOffKeepsSettings DEF EndDisable
  <1>. QED
    BY <1>5, <1>6, <1>7, <1>8, <1>9, <1>10, <1>11, <1>12 DEF Lifecycle

-----------------------------------------------------------------------------
(* The other operations.                                                   *)

LEMMA UpdateKeepsSettings ==
  ASSUME SettingsInv, NEW s \in Source, NEW origin, NEW c \in Setting \cup {Keep},
         updateSourceConfig(s, origin, c)
  PROVE  SettingsInv'
  <1>1. TypesInv /\ StateTyped /\ RunningTyped /\ HistoryTyped /\ UnsureTyped /\ TypesInv'
    BY UpdateTyped DEF SettingsInv, TypesInv
  <1>2. /\ Up /\ config' = [config EXCEPT ![s] = Changed(s, c)] /\ saveState
        /\ UNCHANGED <<key, active, queue, phase, held>>
        /\ chosen' = IF origin = "user" THEN Told(s, c) ELSE chosen
        /\ unsure' = [unsure EXCEPT ![s] = IF Awaiting(s) THEN unsure[s] \union {"overlap"}
                                                          ELSE unsure[s]]
        /\ c \in {Keep, Effective(s).settings} \/ origin = "user"
    BY DEF updateSourceConfig, running, applyConfigChange
  <1>3. /\ Changed(s, c) \in Config
        /\ c = Keep => Changed(s, c).settings = Effective(s).settings
        /\ c # Keep => Changed(s, c).settings = c
    BY <1>1, ChangedTyped
  <1>4. /\ chosen'[s] = IF origin = "user" /\ c # Keep THEN c ELSE chosen[s]
        /\ \A t \in Source \ {s} : chosen'[t] = chosen[t]
    BY <1>1, <1>2 DEF HistoryTyped, Told
  <1>5. Effective(s)'.settings = Changed(s, c).settings
    <2>1. config'[s] = Changed(s, c)
      BY <1>1, <1>2 DEF StateTyped
    <2>. QED
      BY <1>1, <1>3, <2>1, SettingsChange, Names
  <1>6. UnsureTyped' /\ Up'
    BY <1>1, <1>2 DEF UnsureTyped, Up
  <1>7. unsure'[s] = {} => ~Awaiting(s) /\ unsure[s] = {}
    BY <1>1, <1>2 DEF UnsureTyped
  <1>8. unsure'[s] = {} => InMemoryAt(s)'
    <2>1. SUFFICES ASSUME unsure'[s] = {} PROVE InMemoryAt(s)'
      OBVIOUS
    <2>2. phase[s] \in {"idle", "disabling"}
      BY <1>1, <1>7, <2>1 DEF Awaiting, RunningTyped, Phase
    <2>3. Effective(s).settings = chosen[s]
      BY <1>2, <1>7, <2>1, <2>2 DEF SettingsInv, SettingsAt, InMemoryAt
    <2>4. Effective(s)'.settings = chosen'[s]
      BY <1>2, <1>3, <1>4, <1>5, <2>3
    <2>. QED
      BY <1>2, <2>2, <2>4 DEF InMemoryAt
  <1>9. \A t \in Source \ {s} : SameSettings(t)
    <2>1. \A t \in Source \ {s} : config'[t] = config[t] /\ unsure'[t] = unsure[t]
      BY <1>1, <1>2 DEF StateTyped, UnsureTyped
    <2>. QED
      BY <1>1, <1>2, <1>4, <2>1, OthersUntouched
  <1>. QED
    BY <1>1, <1>2, <1>6, <1>8, <1>9, SettingsOfOne

(* Nothing of any source's settings, queue or operation changes. *)
LEMMA QuietSettings ==
  ASSUME SettingsInv, TypesInv', Up, UNCHANGED <<key, config, phase, held, queue, chosen, unsure>>,
         saveState \/ disk' = disk
  PROVE  SettingsInv'
  <1>1. \A t \in Source : SameSettings(t)
    BY OthersUntouched DEF SettingsInv
  <1>2. Up' /\ UnsureTyped'
    BY DEF Up, SettingsInv, UnsureTyped
  <1>. QED
    BY <1>1, <1>2, SettingsOfAll

LEMMA CallKeepsSettings ==
  ASSUME SettingsInv, NEW s \in Source, NEW op \in Op, Call(s, op) PROVE SettingsInv'
  <1>1. TypesInv /\ RunningTyped /\ TypesInv'
    BY CallTyped DEF SettingsInv, TypesInv
  <1>2. /\ Up /\ queue' = [queue EXCEPT ![s] = Append(queue[s], op)]
        /\ UNCHANGED <<key, config, disk, phase, held, chosen, unsure>>
    BY DEF Call, state, history
  <1>3. queue[s] # <<>> => Head(queue'[s]) = Head(queue[s])
    BY <1>1, <1>2, QueuedBehind DEF RunningTyped
  <1>4. \A t \in Source : phase[t] # "idle" => Head(queue'[t]) = Head(queue[t])
    BY <1>1, <1>2, <1>3 DEF RunningTyped
  <1>5. \A t \in Source : SameSettings(t)
    BY <1>2, <1>4 DEF SameSettings, Effective
  <1>6. Up' /\ UnsureTyped'
    BY <1>2 DEF Up, SettingsInv, UnsureTyped
  <1>. QED
    BY <1>1, <1>2, <1>5, <1>6, SettingsOfAll

LEMMA RestoreKeepsSettings ==
  ASSUME SettingsInv, restoreEnabledSources PROVE SettingsInv'
  <1>1. TypesInv /\ StateTyped /\ RunningTyped /\ TypesInv'
    BY RestoreTyped DEF SettingsInv, TypesInv
  <1>2. /\ Up /\ UNCHANGED <<key, phase, held, chosen, unsure>>
        /\ saveState \/ disk' = disk
    BY <1>1, RestoreEffect DEF history
  <1>3. ASSUME NEW t \in Source PROVE SameSettings(t)
    <2>1. config[t] # None => config'[t] # None /\ config'[t].settings = config[t].settings
      BY <1>1, RestoreEffect, Names
    <2>2. config[t] = None => config'[t] = None
      BY <1>1, RestoreEffect, Names
    <2>3. Effective(t)'.settings = Effective(t).settings
      BY <2>1, <2>2 DEF Effective
    <2>4. phase[t] # "idle" => Head(queue'[t]) = Head(queue[t])
      <3>1. queue[t] \in Seq(Op) /\ (phase[t] # "idle" => queue[t] # <<>>)
        BY <1>1 DEF RunningTyped
      <3>2. queue'[t] \in {queue[t], Append(queue[t], ResumeOp)}
        BY <1>1, RestoreEffect
      <3>3. ResumeOp \in Op
        BY <1>1, RestoreEffect
      <3>4. queue[t] # <<>> => Head(Append(queue[t], ResumeOp)) = Head(queue[t])
        BY <3>1, <3>3, QueuedBehind
      <3>. QED
        BY <3>1, <3>2, <3>4
    <2>. QED
      BY <1>2, <2>1, <2>3, <2>4 DEF SameSettings
  <1>4. Up' /\ UnsureTyped'
    BY <1>2 DEF Up, SettingsInv, UnsureTyped
  <1>. QED
    BY <1>1, <1>2, <1>3, <1>4, SettingsOfAll

(* A start finds what is on disk, or tells that it cannot read it.         *)
LEMMA StartKeepsSettings ==
  ASSUME SettingsInv, NEW k \in Key, Start(k) PROVE SettingsInv'
  <1>1. TypesInv /\ RunningTyped /\ DiskTyped /\ TypesInv'
    BY StartTyped DEF SettingsInv, TypesInv
  <1>2. ~Up /\ UNCHANGED <<disk, phase, queue, chosen>>
    BY DEF Start, running
  <1>3. \A t \in Source : phase[t] = "idle" /\ phase'[t] = "idle"
    BY <1>1, <1>2 DEF RunningTyped
  <1>4. CASE Unreadable(k)
    <2>1. unsure' = [s \in Source |-> {"lost"}]
      BY <1>4 DEF Start
    <2>2. UnsureTyped' /\ \A t \in Source : SettingsAt(t)'
      BY <2>1 DEF UnsureTyped, SettingsAt
    <2>. QED
      BY <1>1, <2>2 DEF SettingsInv
  <1>5. CASE ~Unreadable(k)
    <2>1. unsure' = unsure /\ config' = (IF disk = None THEN Empty(k) ELSE disk).config
      BY <1>5 DEF Start, Load
    <2>2. ASSUME NEW t \in Source, unsure'[t] = {} PROVE InMemoryAt(t)' /\ OnDiskAt(t)'
      <3>1. SavedSettings(t) = chosen[t]
        BY <1>3, <2>1, <2>2 DEF SettingsInv, SettingsAt, OnDiskAt
      <3>2. config'[t] = IF disk = None THEN None ELSE disk.config[t]
        BY <2>1 DEF Empty
      <3>3. Effective(t)'.settings = SavedSettings(t)
        BY <3>2 DEF Effective, SavedSettings
      <3>. QED
        BY <1>2, <1>3, <3>1, <3>3 DEF InMemoryAt, OnDiskAt, SavedSettings
    <2>3. UnsureTyped'
      BY <2>1 DEF SettingsInv, UnsureTyped
    <2>. QED
      BY <1>1, <2>2, <2>3 DEF SettingsInv, SettingsAt
  <1>. QED
    BY <1>4, <1>5

LEMMA DieKeepsSettings ==
  ASSUME SettingsInv, TypesInv', Die,
         \A t \in Source : phase[t] = "idle" /\ unsure[t] = {} => SavedSettings(t)' = chosen[t]
  PROVE  SettingsInv'
  <1>1. /\ key' = None /\ phase' = [s \in Source |-> "idle"] /\ chosen' = chosen
        /\ unsure' = [s \in Source |-> IF phase[s] # "idle" THEN {"lost"} ELSE unsure[s]]
    BY DEF Die
  <1>2. ASSUME NEW t \in Source, unsure'[t] = {} PROVE InMemoryAt(t)' /\ OnDiskAt(t)'
    <2>1. phase[t] = "idle" /\ unsure[t] = {}
      BY <1>1, <1>2
    <2>. QED
      BY <1>1, <2>1 DEF InMemoryAt, OnDiskAt, Up
  <1>3. UnsureTyped'
    BY <1>1 DEF SettingsInv, UnsureTyped
  <1>. QED
    BY <1>2, <1>3 DEF SettingsInv, SettingsAt

LEMMA StopKeepsSettings == SettingsInv /\ Stop => SettingsInv'
  <1>1. SUFFICES ASSUME SettingsInv, Stop PROVE SettingsInv'
    OBVIOUS
  <1>2. TypesInv' /\ disk' = disk /\ Die
    BY <1>1, DieTyped DEF Stop, SettingsInv, TypesInv, DiskTyped
  <1>3. \A t \in Source : phase[t] = "idle" /\ unsure[t] = {} => SavedSettings(t)' = chosen[t]
    BY <1>1, <1>2 DEF SettingsInv, SettingsAt, OnDiskAt, SavedSettings
  <1>. QED
    BY <1>1, <1>2, <1>3, DieKeepsSettings

LEMMA DieRemovingKeepsSettings ==
  ASSUME SettingsInv, NEW s \in Source, DieRemoving(s) PROVE SettingsInv'
  <1>1. TypesInv /\ StateTyped /\ RunningTyped
    BY DEF SettingsInv, TypesInv
  <1>2. /\ Die /\ UNCHANGED shown /\ disk' \in Saved
        /\ disk' = [key |-> key, config |-> Off(s), defs |-> defs, agreed |-> agreed, cursor |-> cursor]
    BY <1>1, DieRemovingTyped
  <1>3. phase[s] = "disabling" /\ Up
    BY <1>1 DEF DieRemoving, RunningTyped
  <1>4. ASSUME NEW t \in Source, phase[t] = "idle", unsure[t] = {}
        PROVE  SavedSettings(t)' = chosen[t]
    <2>1. t # s
      BY <1>3, <1>4
    <2>2. disk'.config[t] = config[t] /\ disk' # None
      BY <1>1, <1>2, <2>1, OffTyped, Names
    <2>3. Effective(t).settings = chosen[t]
      BY <1>3, <1>4 DEF SettingsInv, SettingsAt, InMemoryAt
    <2>4. SavedSettings(t)' = Effective(t).settings
      BY <2>2 DEF SavedSettings, Effective
    <2>. QED
      BY <2>3, <2>4
  <1>. QED
    BY <1>1, <1>2, <1>4, DieTyped, DieKeepsSettings

LEMMA SettingsStay == SettingsInv /\ [RegistryNext]_registryVars => SettingsInv'
  <1>1. SUFFICES ASSUME SettingsInv, [RegistryNext]_registryVars PROVE SettingsInv'
    OBVIOUS
  <1>2. TypesInv /\ TypesInv' /\ RunningTyped
    BY <1>1, TypesStay DEF SettingsInv, TypesInv
  <1>3. ASSUME NEW s \in Source, recordAgreement(s) PROVE SettingsInv'
    BY <1>1, <1>2, <1>3, QuietSettings DEF recordAgreement, running
  <1>4. ASSUME NEW s \in Source, saveCheckpoint(s) PROVE SettingsInv'
    BY <1>1, <1>2, <1>4, QuietSettings DEF saveCheckpoint, running, history
  <1>5. ASSUME NEW s \in Source, Show(s) PROVE SettingsInv'
    BY <1>1, <1>2, <1>5, QuietSettings DEF Show, state, running, history
  <1>6. ASSUME NEW c \in Custom, NEW d \in Def, addCustomSource(c, d) PROVE SettingsInv'
    BY <1>1, <1>2, <1>6, QuietSettings DEF addCustomSource, running, history
  <1>7. CASE UNCHANGED registryVars
    BY <1>1, <1>2, <1>7
       DEF registryVars, state, running, history, SettingsInv, UnsureTyped, SettingsAt,
           InMemoryAt, OnDiskAt, SavedSettings, ToldNow, Effective, Up
  <1>. QED
    BY <1>1, <1>3, <1>4, <1>5, <1>6, <1>7, StartKeepsSettings, StopKeepsSettings,
       RestoreKeepsSettings, LifecycleKeepsSettings, CallKeepsSettings, UpdateKeepsSettings,
       DieRemovingKeepsSettings DEF RegistryNext

LEMMA SettingsStart == RegistryInit => SettingsInv
  <1>1. SUFFICES ASSUME RegistryInit PROVE SettingsInv
    OBVIOUS
  <1>2. /\ key = None /\ disk \in OldFiles \cup {None}
        /\ phase = [s \in Source |-> "idle"]
        /\ chosen = [s \in Source |-> Default] /\ unsure = [s \in Source |-> {}]
    BY <1>1 DEF RegistryInit
  <1>3. ASSUME NEW s \in Source PROVE SettingsAt(s)
    <2>1. SavedSettings(s) = Default
      BY <1>2, OldFileTyped DEF SavedSettings
    <2>. QED
      BY <1>2, <2>1 DEF SettingsAt, InMemoryAt, OnDiskAt, Up
  <1>. QED
    BY <1>1, <1>2, <1>3, TypesStart DEF SettingsInv, UnsureTyped

(* The settings in force are those the user was last told are stored,      *)
(* after any calls, agents, failed starts, removals and restarts, unless a *)
(* configure landed in an enable, an operation was cut short or the file   *)
(* could not be read (updateSourceConfig, enableSourceUnlocked).           *)
THEOREM SettingsAreTheUsers == RegistrySpec => []SettingsKeptAlone
  <1>1. SettingsInv => SettingsKeptAlone
    BY DEF SettingsInv, SettingsAt, InMemoryAt, SettingsKeptAlone, InForce, Effective
  <1>. QED
    BY SettingsStart, SettingsStay, <1>1, PTL DEF RegistrySpec
=============================================================================
