---------------------------- MODULE StoreLockProofs ----------------------------
(***************************************************************************)
(* Proof that a server that took a store over opens it only when the       *)
(* holder it displaced has stepped down or is overdue to, for any number   *)
(* of servers and hosts, deaths and pauses, and any periods of which the   *)
(* wait after a takeover is longer than the heartbeat.                     *)
(***************************************************************************)
EXTENDS StoreLock, TLAPS

LockTyped ==
  /\ path \in Process \cup {Nobody} /\ written \subseteq Process
  /\ inPlace \in {path, Nobody}
  /\ age \in [Process -> 0 .. (StaleAfter + 1)]
  /\ pc \in [Process -> Places]
  /\ aside \in [Process -> Process \cup {Nobody}]
  /\ observed \in [Process -> Process \cup {Empty}]
  /\ forced \in [Process -> BOOLEAN] /\ displaced \in [Process -> SUBSET Process]
  /\ reclaims \in [Process -> -1 .. MaxReclaims] /\ timer \in [Process -> Nat]
  /\ joined \in [Process -> BOOLEAN] /\ paused \in [Process -> BOOLEAN]
  /\ exits \in 0 .. MaxExits /\ pauses \in 0 .. MaxPauses

(* Where a process is between its start and its own lock, and after it.    *)
(* One that has written its lock never acquires again.                     *)
Acquiring == {"opening", "waiting", "judged", "moved"}
Holding   == {"primary", "grace"}
AfterLock == Holding \cup {"fenced", "releasing", "gone"}

(* What a process has done where it is; the lock it takes over is live.    *)
PlaceOK(p) ==
  /\ pc[p] \in {"primary", "secondary", "fenced"} => joined[p]
  /\ pc[p] = "moved" => aside[p] # Nobody
  /\ pc[p] = "grace" => displaced[p] # {}
  /\ pc[p] \in Acquiring => reclaims[p] < MaxReclaims
  /\ p \in written => pc[p] \in AfterLock
  /\ pc[p] \in {"judged", "moved"} /\ forced[p] => p \in Takeover /\ observed[p] \in written
  /\ displaced[p] \subseteq written \ {p}
  /\ displaced[p] # {} => p \in Takeover

TimerOK(p) ==
  /\ pc[p] = "primary" => timer[p] <= Heartbeat
  /\ pc[p] = "grace" => timer[p] <= TakeoverGrace

(* While a lock stays in place, whoever it displaced cannot renew, and is  *)
(* due before the wait of the new holder ends.                             *)
Outwaits(p, q) ==
  inPlace = p /\ q \in displaced[p] /\ pc[q] \in Holding =>
    /\ pc[p] = "grace" => timer[q] <= timer[p]
    /\ pc[p] = "primary" => timer[q] = 0

LockInv ==
  /\ LockTyped
  /\ \A p \in Process : PlaceOK(p) /\ TimerOK(p)
  /\ \A p, q \in Process : Outwaits(p, q)

LEMMA InitInv == LockInit => LockInv
  <1>. SUFFICES ASSUME LockInit PROVE LockInv
    OBVIOUS
  <1>1. LockTyped
    BY LockAssumption, TimingAssumption, LockBounds
       DEF LockInit, LockTyped, Places, Calling
  <1>2. ASSUME NEW p \in Process PROVE PlaceOK(p) /\ TimerOK(p)
    BY <1>2, LockAssumption, TimingAssumption
       DEF LockInit, PlaceOK, TimerOK, Acquiring, AfterLock, Holding
  <1>3. ASSUME NEW p \in Process, NEW q \in Process PROVE Outwaits(p, q)
    BY <1>3 DEF LockInit, Outwaits
  <1>. QED
    BY <1>1, <1>2, <1>3 DEF LockInv

-----------------------------------------------------------------------------
(* Types                                                                   *)

LEMMA GivingUp ==
  ASSUME LockTyped, NEW p \in Process, NEW foreign \in BOOLEAN, GiveUp(p, foreign)
  PROVE  /\ pc' \in [Process -> Places]
         /\ timer' \in [Process -> Nat] /\ joined' \in [Process -> BOOLEAN]
  BY TimingAssumption DEF GiveUp, Go, LockTyped, Places, Calling

LEMMA FailingReclaim ==
  ASSUME LockTyped, NEW p \in Process, PlaceOK(p), pc[p] \in Acquiring, ReclaimFailed(p)
  PROVE  /\ pc' \in [Process -> Places] /\ reclaims' \in [Process -> -1 .. MaxReclaims]
         /\ timer' \in [Process -> Nat] /\ joined' \in [Process -> BOOLEAN]
  <1>1. reclaims' \in [Process -> -1 .. MaxReclaims]
    BY TimingAssumption DEF ReclaimFailed, LockTyped, PlaceOK
  <1>2. CASE reclaims[p] + 1 < MaxReclaims
    BY <1>1, <1>2 DEF ReclaimFailed, Go, LockTyped, Places, Calling
  <1>3. CASE ~(reclaims[p] + 1 < MaxReclaims)
    BY <1>1, <1>3, GivingUp DEF ReclaimFailed, LockTyped
  <1>. QED
    BY <1>2, <1>3

LEMMA TypesKept ==
  ASSUME LockInv, LockNext
  PROVE  LockTyped'
  <1>. USE LockAssumption, TimingAssumption, LockBounds
  <1>1. LockTyped /\ \A p \in Process : PlaceOK(p)
    BY DEF LockInv
  <1>2. \A n \in 0 .. (StaleAfter + 1) : Older(n) \in 0 .. (StaleAfter + 1)
    BY DEF Older, Least
  <1>3. ASSUME NEW p \in Process, Start(p)
        PROVE  LockTyped'
    BY <1>3, <1>1 DEF Start, Acquire, Go, LockTyped, Places, Calling
  <1>4. ASSUME NEW p \in Process, Retry(p)
        PROVE  LockTyped'
    BY <1>4, <1>1 DEF Retry, Acquire, Go, LockTyped, Places, Calling
  <1>5. ASSUME NEW p \in Process, Create(p)
        PROVE  LockTyped'
    BY <1>5, <1>1 DEF Create, Go, LockTyped, Places, Calling
  <1>6. ASSUME NEW p \in Process, Judge(p)
        PROVE  LockTyped'
    BY <1>6, <1>1 DEF Judge, Content, Go, LockTyped, Places, Calling
  <1>7. ASSUME NEW p \in Process, Refuse(p)
        PROVE  LockTyped'
    BY <1>7, <1>1, GivingUp DEF Refuse, LockTyped
  <1>8. ASSUME NEW p \in Process, Await(p)
        PROVE  LockTyped'
    BY <1>8, <1>1 DEF Await, Go, LockTyped, Places
  <1>9. ASSUME NEW p \in Process, MoveAside(p)
        PROVE  LockTyped'
    BY <1>9, <1>1 DEF MoveAside, Go, LockTyped, Places, Calling
  <1>10. ASSUME NEW p \in Process, MovedAlready(p)
        PROVE  LockTyped'
    <2>1. pc[p] \in Acquiring
      BY <1>10 DEF MovedAlready, At, Acquiring
    <2>. QED
      BY <1>10, <1>1, <2>1, FailingReclaim DEF MovedAlready, LockTyped
  <1>11. ASSUME NEW p \in Process, Discard(p)
        PROVE  LockTyped'
    <2>1. IF forced[p] THEN observed[p] \in Process ELSE TRUE
      BY <1>11, <1>1 DEF Discard, At, LockTyped, PlaceOK
    <2>2. displaced' \in [Process -> SUBSET Process]
      BY <1>11, <1>1, <2>1 DEF Discard, LockTyped
    <2>. QED
      BY <1>11, <1>1, <2>2 DEF Discard, Go, LockTyped, Places, Calling
  <1>12. ASSUME NEW p \in Process, PutBack(p)
        PROVE  LockTyped'
    <2>1. pc[p] \in Acquiring
      BY <1>12 DEF PutBack, At, Acquiring
    <2>2. path' \in Process \cup {Nobody} /\ inPlace' \in {path', Nobody}
          /\ aside' \in [Process -> Process \cup {Nobody}]
      BY <1>12, <1>1 DEF PutBack, LockTyped
    <2>. QED
      BY <1>12, <1>1, <2>1, <2>2, FailingReclaim DEF PutBack, LockTyped
  <1>13. ASSUME NEW p \in Process, Write(p)
        PROVE  LockTyped'
    <2>1. written' \subseteq Process /\ age' \in [Process -> 0 .. (StaleAfter + 1)]
      BY <1>13, <1>1 DEF Write, LockTyped
    <2>2. Heartbeat \in Nat /\ TakeoverGrace \in Nat
      BY TimingAssumption
    <2>3. /\ pc' \in [Process -> Places] /\ timer' \in [Process -> Nat]
          /\ joined' \in [Process -> BOOLEAN]
      <3>0. {"primary", "grace"} \subseteq Places /\ pc \in [Process -> Places]
        BY <1>1 DEF Places, Calling, LockTyped
      <3>1. CASE Grace(p) = 0
        <4>1. Go(p, "primary") /\ timer' = [timer EXCEPT ![p] = Heartbeat]
              /\ joined' = [joined EXCEPT ![p] = TRUE]
          BY <1>13, <3>1 DEF Write
        <4>. QED
          BY <1>1, <2>2, <3>0, <4>1 DEF Go, LockTyped
      <3>2. CASE Grace(p) # 0
        <4>1. Grace(p) \in Nat
          BY <2>2 DEF Grace
        <4>. QED
          BY <1>13, <1>1, <3>2, <4>1 DEF Write, Go, LockTyped, Places, Calling
      <3>. QED
        BY <3>1, <3>2
    <2>. QED
      BY <1>13, <1>1, <2>1, <2>3 DEF Write, LockTyped
  <1>14. ASSUME NEW p \in Process, OpenAfterGrace(p)
        PROVE  LockTyped'
    BY <1>14, <1>1 DEF OpenAfterGrace, Go, LockTyped, Places
  <1>15. ASSUME NEW p \in Process, Beat(p)
        PROVE  LockTyped'
    BY <1>15, <1>1 DEF Beat, Go, LockTyped, Places
  <1>16. ASSUME NEW p \in Process, RemoveLock(p)
        PROVE  LockTyped'
    BY <1>16, <1>1 DEF RemoveLock, Go, LockTyped, Places
  <1>17. ASSUME NEW p \in Process, Close(p)
        PROVE  LockTyped'
    BY <1>17, <1>1 DEF Close, Exiting, Go, LockTyped, Places, Calling
  <1>18. ASSUME NEW p \in Process, Die(p)
        PROVE  LockTyped'
    BY <1>18, <1>1 DEF Die, Exiting, Go, LockTyped, Places
  <1>19. ASSUME NEW p \in Process, Pause(p)
        PROVE  LockTyped'
    BY <1>19, <1>1 DEF Pause, LockTyped
  <1>20. ASSUME NEW p \in Process, Resume(p)
        PROVE  LockTyped'
    BY <1>20, <1>1 DEF Resume, LockTyped
  <1>21. CASE Tick
    BY <1>21, <1>1, <1>2 DEF Tick, Less, LockTyped, Places, Calling
  <1>22. QED
    BY <1>3, <1>4, <1>5, <1>6, <1>7, <1>8, <1>9, <1>10, <1>11, <1>12, <1>13,
      <1>14, <1>15, <1>16, <1>17, <1>18, <1>19, <1>20, <1>21
       DEF LockNext, Step

-----------------------------------------------------------------------------
(* Places and timers                                                       *)

LEMMA PlacesKept ==
  ASSUME LockInv, LockNext
  PROVE  \A a \in Process : PlaceOK(a)'
  <1>. USE LockAssumption, TimingAssumption
  <1>1. LockTyped /\ \A p \in Process : PlaceOK(p)
    BY DEF LockInv
  <1>3. ASSUME NEW p \in Process, Start(p)
        PROVE  \A a \in Process : PlaceOK(a)'
    BY <1>3, <1>1 DEF Start, Acquire, At, Go, LockTyped, PlaceOK, Holding,
      AfterLock
  <1>4. ASSUME NEW p \in Process, Retry(p)
        PROVE  \A a \in Process : PlaceOK(a)'
    BY <1>4, <1>1 DEF Retry, Acquire, At, Go, LockTyped, PlaceOK, Holding,
      AfterLock
  <1>5. ASSUME NEW p \in Process, Create(p)
        PROVE  \A a \in Process : PlaceOK(a)'
    BY <1>5, <1>1 DEF Create, At, Go, PlaceOK, Acquiring, Holding, AfterLock
  <1>6. ASSUME NEW p \in Process, Judge(p)
        PROVE  \A a \in Process : PlaceOK(a)'
    BY <1>6, <1>1 DEF Judge, Content, FreshForeign, At, Go, LockTyped,
      PlaceOK, Acquiring, Holding, AfterLock
  <1>7. ASSUME NEW p \in Process, Refuse(p)
        PROVE  \A a \in Process : PlaceOK(a)'
    BY <1>7, <1>1 DEF Refuse, GiveUp, At, Go, LockTyped, PlaceOK, Acquiring,
      Holding, AfterLock
  <1>8. ASSUME NEW p \in Process, Await(p)
        PROVE  \A a \in Process : PlaceOK(a)'
    BY <1>8, <1>1 DEF Await, At, Go, LockTyped, PlaceOK, Acquiring, Holding,
      AfterLock
  <1>9. ASSUME NEW p \in Process, MoveAside(p)
        PROVE  \A a \in Process : PlaceOK(a)'
    BY <1>9, <1>1 DEF MoveAside, At, Go, LockTyped, PlaceOK, Acquiring,
      Holding, AfterLock
  <1>10. ASSUME NEW p \in Process, MovedAlready(p)
        PROVE  \A a \in Process : PlaceOK(a)'
    BY <1>10, <1>1 DEF MovedAlready, ReclaimFailed, GiveUp, At, Go, LockTyped,
      PlaceOK, Acquiring, Holding, AfterLock
  <1>11. ASSUME NEW p \in Process, Discard(p)
        PROVE  \A a \in Process : PlaceOK(a)'
    BY <1>11, <1>1 DEF Discard, At, Go, LockTyped, PlaceOK, Acquiring,
      Holding, AfterLock
  <1>12. ASSUME NEW p \in Process, PutBack(p)
        PROVE  \A a \in Process : PlaceOK(a)'
    BY <1>12, <1>1 DEF PutBack, ReclaimFailed, GiveUp, At, Go, LockTyped,
      PlaceOK, Acquiring, Holding, AfterLock
  <1>13. ASSUME NEW p \in Process, Write(p)
        PROVE  \A a \in Process : PlaceOK(a)'
    BY <1>13, <1>1 DEF Write, Grace, Go, LockTyped, PlaceOK, Acquiring,
      Holding, AfterLock
  <1>14. ASSUME NEW p \in Process, OpenAfterGrace(p)
        PROVE  \A a \in Process : PlaceOK(a)'
    BY <1>14, <1>1 DEF OpenAfterGrace, Go, LockTyped, PlaceOK, Acquiring,
      Holding, AfterLock
  <1>15. ASSUME NEW p \in Process, Beat(p)
        PROVE  \A a \in Process : PlaceOK(a)'
    BY <1>15, <1>1 DEF Beat, At, Go, LockTyped, PlaceOK, Acquiring, AfterLock
  <1>16. ASSUME NEW p \in Process, RemoveLock(p)
        PROVE  \A a \in Process : PlaceOK(a)'
    BY <1>16, <1>1 DEF RemoveLock, Go, PlaceOK, Acquiring, AfterLock
  <1>17. ASSUME NEW p \in Process, Close(p)
        PROVE  \A a \in Process : PlaceOK(a)'
    BY <1>17, <1>1 DEF Close, Go, PlaceOK, Acquiring, AfterLock
  <1>18. ASSUME NEW p \in Process, Die(p)
        PROVE  \A a \in Process : PlaceOK(a)'
    BY <1>18, <1>1 DEF Die, Go, PlaceOK, Acquiring, AfterLock
  <1>19. ASSUME NEW p \in Process, Pause(p)
        PROVE  \A a \in Process : PlaceOK(a)'
    BY <1>19, <1>1 DEF Pause, PlaceOK
  <1>20. ASSUME NEW p \in Process, Resume(p)
        PROVE  \A a \in Process : PlaceOK(a)'
    BY <1>20, <1>1 DEF Resume, PlaceOK
  <1>21. CASE Tick
    BY <1>21, <1>1 DEF Tick, At, PlaceOK, Acquiring, Holding, AfterLock
  <1>22. QED
    BY <1>3, <1>4, <1>5, <1>6, <1>7, <1>8, <1>9, <1>10, <1>11, <1>12, <1>13,
      <1>14, <1>15, <1>16, <1>17, <1>18, <1>19, <1>20, <1>21
       DEF LockNext, Step

LEMMA TimersKept ==
  ASSUME LockInv, LockNext
  PROVE  \A a \in Process : TimerOK(a)'
  <1>. USE TimingAssumption
  <1>1. LockTyped /\ \A p \in Process : TimerOK(p)
    BY DEF LockInv
  <1>3. ASSUME NEW p \in Process, Start(p)
        PROVE  \A a \in Process : TimerOK(a)'
    BY <1>3, <1>1 DEF Start, Acquire, Go, LockTyped, TimerOK
  <1>4. ASSUME NEW p \in Process, Retry(p)
        PROVE  \A a \in Process : TimerOK(a)'
    BY <1>4, <1>1 DEF Retry, Acquire, Go, TimerOK
  <1>5. ASSUME NEW p \in Process, Create(p)
        PROVE  \A a \in Process : TimerOK(a)'
    BY <1>5, <1>1 DEF Create, Go, TimerOK
  <1>6. ASSUME NEW p \in Process, Judge(p)
        PROVE  \A a \in Process : TimerOK(a)'
    BY <1>6, <1>1 DEF Judge, Go, TimerOK
  <1>7. ASSUME NEW p \in Process, Refuse(p)
        PROVE  \A a \in Process : TimerOK(a)'
    BY <1>7, <1>1 DEF Refuse, GiveUp, Go, LockTyped, TimerOK
  <1>8. ASSUME NEW p \in Process, Await(p)
        PROVE  \A a \in Process : TimerOK(a)'
    BY <1>8, <1>1 DEF Await, Go, TimerOK
  <1>9. ASSUME NEW p \in Process, MoveAside(p)
        PROVE  \A a \in Process : TimerOK(a)'
    BY <1>9, <1>1 DEF MoveAside, Go, TimerOK
  <1>10. ASSUME NEW p \in Process, MovedAlready(p)
        PROVE  \A a \in Process : TimerOK(a)'
    BY <1>10, <1>1 DEF MovedAlready, ReclaimFailed, GiveUp, Go, LockTyped,
      TimerOK
  <1>11. ASSUME NEW p \in Process, Discard(p)
        PROVE  \A a \in Process : TimerOK(a)'
    BY <1>11, <1>1 DEF Discard, Go, TimerOK
  <1>12. ASSUME NEW p \in Process, PutBack(p)
        PROVE  \A a \in Process : TimerOK(a)'
    BY <1>12, <1>1 DEF PutBack, ReclaimFailed, GiveUp, Go, LockTyped, TimerOK
  <1>13. ASSUME NEW p \in Process, Write(p)
        PROVE  \A a \in Process : TimerOK(a)'
    BY <1>13, <1>1 DEF Write, Grace, Go, LockTyped, TimerOK
  <1>14. ASSUME NEW p \in Process, OpenAfterGrace(p)
        PROVE  \A a \in Process : TimerOK(a)'
    BY <1>14, <1>1 DEF OpenAfterGrace, Go, TimerOK
  <1>15. ASSUME NEW p \in Process, Beat(p)
        PROVE  \A a \in Process : TimerOK(a)'
    BY <1>15, <1>1 DEF Beat, Go, LockTyped, TimerOK
  <1>16. ASSUME NEW p \in Process, RemoveLock(p)
        PROVE  \A a \in Process : TimerOK(a)'
    BY <1>16, <1>1 DEF RemoveLock, Go, TimerOK
  <1>17. ASSUME NEW p \in Process, Close(p)
        PROVE  \A a \in Process : TimerOK(a)'
    BY <1>17, <1>1 DEF Close, Go, TimerOK
  <1>18. ASSUME NEW p \in Process, Die(p)
        PROVE  \A a \in Process : TimerOK(a)'
    BY <1>18, <1>1 DEF Die, Go, TimerOK
  <1>19. ASSUME NEW p \in Process, Pause(p)
        PROVE  \A a \in Process : TimerOK(a)'
    BY <1>19, <1>1 DEF Pause, TimerOK
  <1>20. ASSUME NEW p \in Process, Resume(p)
        PROVE  \A a \in Process : TimerOK(a)'
    BY <1>20, <1>1 DEF Resume, TimerOK
  <1>21. CASE Tick
    BY <1>21, <1>1 DEF Tick, Less, LockTyped, TimerOK
  <1>22. QED
    BY <1>3, <1>4, <1>5, <1>6, <1>7, <1>8, <1>9, <1>10, <1>11, <1>12, <1>13,
      <1>14, <1>15, <1>16, <1>17, <1>18, <1>19, <1>20, <1>21
       DEF LockNext, Step

-----------------------------------------------------------------------------
(* Who displaced whom                                                      *)

LEMMA OutwaitsKept ==
  ASSUME LockInv, LockNext
  PROVE  \A a, b \in Process : Outwaits(a, b)'
  <1>. USE LockAssumption, TimingAssumption
  <1>1. LockTyped /\ \A p \in Process : PlaceOK(p) /\ TimerOK(p)
    BY DEF LockInv
  <1>2. \A a, b \in Process : Outwaits(a, b)
    BY DEF LockInv
  <1>3. ASSUME NEW p \in Process, Start(p)
        PROVE  \A a, b \in Process : Outwaits(a, b)'
    BY <1>3, <1>1, <1>2 DEF Start, Acquire, Go, LockTyped, Outwaits, Holding
  <1>4. ASSUME NEW p \in Process, Retry(p)
        PROVE  \A a, b \in Process : Outwaits(a, b)'
    BY <1>4, <1>1, <1>2 DEF Retry, Acquire, Go, Outwaits, Holding
  <1>5. ASSUME NEW p \in Process, Create(p)
        PROVE  \A a, b \in Process : Outwaits(a, b)'
    BY <1>5, <1>1, <1>2 DEF Create, Go, LockTyped, Outwaits
  <1>6. ASSUME NEW p \in Process, Judge(p)
        PROVE  \A a, b \in Process : Outwaits(a, b)'
    BY <1>6, <1>1, <1>2 DEF Judge, Go, Outwaits, Holding
  <1>7. ASSUME NEW p \in Process, Refuse(p)
        PROVE  \A a, b \in Process : Outwaits(a, b)'
    BY <1>7, <1>1, <1>2 DEF Refuse, GiveUp, Go, LockTyped, Outwaits, Holding
  <1>8. ASSUME NEW p \in Process, Await(p)
        PROVE  \A a, b \in Process : Outwaits(a, b)'
    BY <1>8, <1>1, <1>2 DEF Await, Go, Outwaits, Holding
  <1>9. ASSUME NEW p \in Process, MoveAside(p)
        PROVE  \A a, b \in Process : Outwaits(a, b)'
    BY <1>9, <1>1, <1>2 DEF MoveAside, Outwaits
  <1>10. ASSUME NEW p \in Process, MovedAlready(p)
        PROVE  \A a, b \in Process : Outwaits(a, b)'
    BY <1>10, <1>1, <1>2 DEF MovedAlready, LockTyped, Outwaits
  <1>11. ASSUME NEW p \in Process, Discard(p)
        PROVE  \A a, b \in Process : Outwaits(a, b)'
    BY <1>11, <1>1, <1>2 DEF Discard, Go, LockTyped, Outwaits, Holding
  <1>12. ASSUME NEW p \in Process, PutBack(p)
        PROVE  \A a, b \in Process : Outwaits(a, b)'
    BY <1>12, <1>1, <1>2 DEF PutBack, ReclaimFailed, GiveUp, Go, LockTyped,
      Outwaits, Holding
  <1>13. ASSUME NEW p \in Process, Write(p)
        PROVE  \A a, b \in Process : Outwaits(a, b)'
    BY <1>13, <1>1, <1>2 DEF Write, Grace, At, Go, LockTyped, PlaceOK,
      TimerOK, Outwaits, Holding, AfterLock
  <1>14. ASSUME NEW p \in Process, OpenAfterGrace(p)
        PROVE  \A a, b \in Process : Outwaits(a, b)'
    BY <1>14, <1>1, <1>2 DEF OpenAfterGrace, At, Go, LockTyped, Outwaits
  <1>15. ASSUME NEW p \in Process, Beat(p)
        PROVE  \A a, b \in Process : Outwaits(a, b)'
    BY <1>15, <1>1, <1>2 DEF Beat, TakenOver, Content, Empty, Go, LockTyped,
      PlaceOK, Outwaits
  <1>16. ASSUME NEW p \in Process, RemoveLock(p)
        PROVE  \A a, b \in Process : Outwaits(a, b)'
    BY <1>16, <1>1, <1>2 DEF RemoveLock, Outwaits
  <1>17. ASSUME NEW p \in Process, Close(p)
        PROVE  \A a, b \in Process : Outwaits(a, b)'
    BY <1>17, <1>1, <1>2 DEF Close, Go, Outwaits, Holding
  <1>18. ASSUME NEW p \in Process, Die(p)
        PROVE  \A a, b \in Process : Outwaits(a, b)'
    BY <1>18, <1>1, <1>2 DEF Die, Go, Outwaits, Holding
  <1>19. ASSUME NEW p \in Process, Pause(p)
        PROVE  \A a, b \in Process : Outwaits(a, b)'
    BY <1>19, <1>1, <1>2 DEF Pause, Outwaits
  <1>20. ASSUME NEW p \in Process, Resume(p)
        PROVE  \A a, b \in Process : Outwaits(a, b)'
    BY <1>20, <1>1, <1>2 DEF Resume, Outwaits
  <1>21. CASE Tick
    BY <1>21, <1>1, <1>2 DEF Tick, Less, LockTyped, Outwaits, Holding
  <1>22. QED
    BY <1>3, <1>4, <1>5, <1>6, <1>7, <1>8, <1>9, <1>10, <1>11, <1>12, <1>13,
      <1>14, <1>15, <1>16, <1>17, <1>18, <1>19, <1>20, <1>21
       DEF LockNext, Step

-----------------------------------------------------------------------------
LEMMA StepInv == LockInv /\ [LockNext]_lockVars => LockInv'
  <1>1. ASSUME LockInv, LockNext PROVE LockInv'
    BY <1>1, TypesKept, PlacesKept, TimersKept, OutwaitsKept DEF LockInv
  <1>2. ASSUME LockInv, UNCHANGED lockVars PROVE LockInv'
    BY <1>2
       DEF LockInv, LockTyped, PlaceOK, TimerOK, Outwaits, Acquiring, Holding,
           AfterLock, lockVars
  <1>. QED
    BY <1>1, <1>2

(* A server that took the lock over, and whose own lock has been in place  *)
(* since, opens the database only when the holder it displaced has stepped *)
(* down or is overdue to: the wait of acquireStoreLock is long enough.     *)
THEOREM DisplacedHaveStopped == LockSpec => []DisplacedHasStopped
  <1>1. LockInv => LockTypeOK
    BY DEF LockInv, LockTyped, LockTypeOK, PlaceOK
  <1>2. LockInv => DisplacedHasStopped
    BY <1>1 DEF LockInv, LockTyped, Outwaits, Holding, At, DisplacedHasStopped
  <1>. QED
    BY InitInv, StepInv, <1>2, PTL DEF LockSpec
=============================================================================
