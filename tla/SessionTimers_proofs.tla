-------------------------- MODULE SessionTimers_proofs --------------------------
(***************************************************************************)
(* Proofs about SessionTimers, for any durations, warning points and grace  *)
(* period, and any bounds.                                                  *)
(***************************************************************************)
EXTENDS SessionTimers, TLAPS

(* What each map refers to: timeouts of its kind, those of the section timer *)
(* only while it runs, and due at the times it implies.                     *)
MapsInv ==
    /\ activeTimer # None => (activeTimer.isPaused <=> activeTimer.timer = None)
    /\ MainTimer # None => /\ MainTimer.kind = "expiration"
                           /\ MainTimer.due = activeTimer.startedAt + activeTimer.timeRemaining
    /\ syncInterval # None => syncInterval.kind = "sync" /\ Running
    /\ graceTimer # None => graceTimer.kind = "grace"
    /\ \A a \in warningTimers :
          /\ a.kind = "warning" /\ Running
          /\ a.due + a.says = activeTimer.startedAt + activeTimer.timeRemaining
    /\ Running => activeTimer.startedAt <= now

TimersInv == TypeOK /\ MapsInv /\ armed \subseteq Kept

-----------------------------------------------------------------------------
LEMMA TimeoutType ==
  ASSUME TypeOK, NEW kind \in {"expiration", "warning", "sync", "grace"},
         NEW due \in Nat, NEW says \in Nat
  PROVE  /\ Timeout(kind, due, says) \in Timeouts
         /\ Timeout(kind, due, says) # None
         /\ Timeout(kind, due, says).kind = kind
         /\ Timeout(kind, due, says).due = due
         /\ Timeout(kind, due, says).says = says
BY NoEntry DEF Timeout, Timeouts, TypeOK

LEMMA TimeoutFields ==
  ASSUME NEW a \in Timeouts
  PROVE  a.due \in Nat /\ a.says \in Nat /\ a # None
BY NoEntry DEF Timeouts

LEMMA InfoFields ==
  ASSUME NEW i \in TimerInfo
  PROVE  /\ i # None /\ i.timer \in Timeouts \cup {None} /\ i.startedAt \in Nat
         /\ i.timeRemaining \in Nat /\ i.isPaused \in BOOLEAN
BY NoEntry DEF TimerInfo

LEMMA TimeLeftType ==
  ASSUME NEW i \in TimerInfo, now \in Nat, i.isPaused \/ i.startedAt <= now
  PROVE  TimeLeft(i) \in Nat
BY InfoFields DEF TimeLeft, Later

LEMMA WarningTypes ==
  ASSUME TypeOK, NEW ms \in Nat
  PROVE  \A a \in Warnings(ms) : /\ a \in Timeouts /\ a.kind = "warning"
                                 /\ a.due + a.says = now + ms
<1> SUFFICES ASSUME NEW w \in WarningPoints, w < ms
             PROVE  /\ Timeout("warning", now + ms - w, w) \in Timeouts
                    /\ Timeout("warning", now + ms - w, w).kind = "warning"
                    /\ Timeout("warning", now + ms - w, w).due
                          + Timeout("warning", now + ms - w, w).says = now + ms
  BY DEF Warnings
<1>1. w \in Nat /\ now \in Nat
  BY TimerAssumption DEF TypeOK
<1>2. now + ms - w \in Nat
  BY <1>1
<1> QED BY <1>1, <1>2, TimeoutType

(* While no timer runs, nothing but the grace period is armed.              *)
LEMMA NotRunning ==
  ASSUME TimersInv, ~Running
  PROVE  armed \subseteq {graceTimer} /\ warningTimers = {} /\ syncInterval = None
<1>1. warningTimers = {} /\ syncInterval = None
  BY DEF TimersInv, MapsInv
<1>2. MainTimer = None
  BY DEF TimersInv, MapsInv, MainTimer, Running
<1>3. None \notin armed
  BY NoEntry DEF TimersInv, TypeOK
<1> QED BY <1>1, <1>2, <1>3 DEF TimersInv, Kept

LEMMA NothingCleared ==
  ASSUME TimersInv
  PROVE  Cleared = {}
BY DEF TimersInv, Cleared

-----------------------------------------------------------------------------
(* Operators that several methods share. *)

LEMMA ForgotInv ==
  ASSUME TimersInv, armed' = {}, ForgetAll, immediates' \in Nat, rings' \in Nat,
         now' \in Nat, arms' \in Nat
  PROVE  TimersInv' /\ ~Running' /\ activeTimer' = None
<1>1. TypeOK'
  BY DEF TypeOK, ForgetAll, ForgetCallbacks
<1>2. activeTimer' = None /\ syncInterval' = None /\ graceTimer' = None /\ warningTimers' = {}
  BY DEF ForgetAll
<1>3. MapsInv'
  BY <1>2 DEF MapsInv, MainTimer, Running
<1> QED BY <1>1, <1>2, <1>3 DEF TimersInv, Running

LEMMA RunInv ==
  ASSUME TimersInv, NEW ms \in Nat, NEW onSync \in BOOLEAN, NEW others,
         others \subseteq {graceTimer'} \cap Timeouts,
         Run(ms, onSync, others), now' = now,
         graceTimer' \in Timeouts \cup {None}, graceTimer' # None => graceTimer'.kind = "grace",
         expirationCallback' \in BOOLEAN, syncCallback' \in BOOLEAN, graceCallback' \in BOOLEAN,
         immediates' \in Nat, rings' \in Nat
  PROVE  TimersInv' /\ Phase' = "running" /\ Left' = ms
<1> DEFINE main == Timeout("expiration", now + ms, 0)
           sync == Timeout("sync", now, 0)
           info == [timer |-> main, startedAt |-> now, timeRemaining |-> ms,
                    isPaused |-> FALSE]
<1>0. TypeOK /\ now \in Nat /\ now + ms \in Nat /\ 0 \in Nat
  BY DEF TimersInv, TypeOK
<1>1. /\ main \in Timeouts /\ main # None /\ main.kind = "expiration" /\ main.due = now + ms
      /\ sync \in Timeouts /\ sync # None /\ sync.kind = "sync"
  BY <1>0, TimeoutType
<1>2. \A a \in Warnings(ms) : /\ a \in Timeouts /\ a.kind = "warning"
                              /\ a.due + a.says = now + ms
  BY <1>0, WarningTypes
<1>3. /\ activeTimer' = info /\ arms' = arms + 1
      /\ \/ /\ warningTimers' = Warnings(ms) /\ syncInterval' = sync
            /\ armed' = others \cup {main, sync} \cup Warnings(ms)
         \/ warningTimers' = {} /\ syncInterval' = None /\ armed' = others \cup {main}
  BY DEF Run
<1> HIDE DEF main, sync
<1>4. /\ info \in TimerInfo /\ info # None /\ info.timer = main /\ ~info.isPaused
      /\ info.startedAt = now /\ info.timeRemaining = ms
  <2>1. info \in TimerInfo
    BY <1>0, <1>1 DEF TimerInfo
  <2>2. info # None
    BY <2>1, NoEntry
  <2>3. info.timer = main /\ info.isPaused = FALSE /\ info.startedAt = now /\ info.timeRemaining = ms
    OBVIOUS
  <2> QED BY <2>1, <2>2, <2>3
<1> HIDE DEF info
<1>5. Running' /\ MainTimer' = main
  BY <1>3, <1>4 DEF Running, MainTimer
<1>6. TypeOK'
  <2>1. armed' \subseteq Timeouts /\ warningTimers' \subseteq Timeouts
    BY <1>1, <1>2, <1>3
  <2> QED BY <1>0, <1>1, <1>3, <1>4, <2>1 DEF TypeOK
<1>7. MapsInv'
  BY <1>0, <1>1, <1>2, <1>3, <1>4, <1>5 DEF MapsInv
<1>8. armed' \subseteq Kept'
  BY <1>3, <1>5 DEF Kept
<1>9. Phase' = "running"
  BY <1>3, <1>4 DEF Phase
<1>10. Left' = ms
  BY <1>0, <1>3, <1>4 DEF Left, TimeLeft, Later
<1> QED BY <1>6, <1>7, <1>8, <1>9, <1>10 DEF TimersInv

-----------------------------------------------------------------------------
(* The abstract timer. *)

LEMMA LeftType ==
  ASSUME TimersInv
  PROVE  /\ Left \in Nat
         /\ Running <=> Phase = "running"
         /\ Running => /\ activeTimer \in TimerInfo
                       /\ Left = Later(activeTimer.timeRemaining, now - activeTimer.startedAt)
<1>1. now \in Nat /\ activeTimer \in TimerInfo \cup {None} /\ (Running => activeTimer.startedAt <= now)
  BY DEF TimersInv, TypeOK, MapsInv
<1>2. Running => activeTimer \in TimerInfo
  BY <1>1 DEF Running
<1>3. Left \in Nat
  BY <1>1, TimeLeftType DEF Left, Running
<1> QED BY <1>2, <1>3 DEF Running, Phase, Left, TimeLeft

LEMMA ForgotTimer ==
  ASSUME TimersInv, armed' = {}, ForgetAll, immediates' \in Nat, rings' \in Nat,
         now' \in Nat, arms' \in Nat
  PROVE  TimersInv' /\ Phase' = "off" /\ Left' = 0
BY ForgotInv DEF Phase, Left

(* A step of the methods keeps the invariant, and is a step of Countdown.    *)
Refined == TimersInv' /\ [Timer!Next]_(Timer!countdownVars)

LEMMA StartRefined ==
  ASSUME TimersInv, StartSectionTimer
  PROVE  Refined
<1>1. PICK ms \in Durations, onSync \in BOOLEAN :
         /\ IF ms = 0
            THEN /\ armed' = Cleared /\ ForgetAll
                 /\ immediates' = immediates + 1 /\ arms' = arms + 1
            ELSE /\ Run(ms, onSync, Cleared) /\ graceTimer' = None /\ ForgetCallbacks
                 /\ UNCHANGED immediates
         /\ UNCHANGED <<rings, now>>
  BY DEF StartSectionTimer
<1>2. Cleared = {} /\ ms \in Nat /\ immediates \in Nat /\ rings \in Nat /\ now \in Nat /\ arms \in Nat
  BY NothingCleared, TimerAssumption DEF TimersInv, TypeOK
<1>3. CASE ms = 0
  <2>1. TimersInv' /\ Phase' = "off" /\ Left' = 0
    BY <1>1, <1>2, <1>3, ForgotTimer
  <2>2. Timer!Start
    BY <1>1, <1>3, <2>1 DEF Timer!Start
  <2> QED BY <2>1, <2>2 DEF Refined, Timer!Next
<1>4. CASE ms # 0
  <2>1. TimersInv' /\ Phase' = "running" /\ Left' = ms
    BY <1>1, <1>2, <1>4, RunInv DEF ForgetCallbacks
  <2>2. Timer!Start
    BY <1>1, <1>4, <2>1 DEF Timer!Start
  <2> QED BY <2>1, <2>2 DEF Refined, Timer!Next
<1> QED BY <1>3, <1>4

LEMMA PauseRefined ==
  ASSUME TimersInv, PauseTimer
  PROVE  Refined
<1> DEFINE info == [activeTimer EXCEPT !.timer = None, !.isPaused = TRUE,
                                       !.timeRemaining = TimeLeft(activeTimer)]
<1>1. /\ activeTimer' = info /\ syncInterval' = None /\ warningTimers' = {}
      /\ armed' = armed \ ({MainTimer, syncInterval} \cup warningTimers)
      /\ UNCHANGED <<graceTimer, callbacks, immediates, rings, now, arms>>
  BY DEF PauseTimer
<1>2. /\ Running /\ activeTimer \in TimerInfo /\ Left \in Nat /\ Phase = "running"
      /\ Left = TimeLeft(activeTimer)
  BY LeftType, NoEntry DEF PauseTimer, Left, Running
<1>3. /\ info \in TimerInfo /\ info.timer = None /\ info.isPaused = TRUE
      /\ info.timeRemaining = Left
  BY <1>2 DEF TimerInfo
<1>4. info # None
  BY <1>3, NoEntry
<1> HIDE DEF info
<1>5. TypeOK'
  BY <1>1, <1>3 DEF TimersInv, TypeOK, callbacks
<1>6. ~Running' /\ MainTimer' = None /\ Phase' = "paused" /\ Left' = Left
  BY <1>1, <1>3, <1>4 DEF Running, MainTimer, Phase, Left, TimeLeft
<1>7. MapsInv'
  BY <1>1, <1>3, <1>4, <1>6 DEF MapsInv, TimersInv
<1>8. armed' \subseteq Kept'
  BY <1>1 DEF TimersInv, Kept
<1>9. Timer!Pause
  BY <1>1, <1>2, <1>6 DEF Timer!Pause
<1> QED BY <1>5, <1>7, <1>8, <1>9 DEF Refined, TimersInv, Timer!Next

LEMMA ResumeRefined ==
  ASSUME TimersInv, ResumeTimer
  PROVE  Refined
<1>0. PICK onSync \in BOOLEAN :
         /\ IF activeTimer.timeRemaining = 0
            THEN /\ armed' = Cleared /\ ForgetAll
                 /\ immediates' = immediates + 1 /\ UNCHANGED arms
            ELSE /\ Run(activeTimer.timeRemaining, onSync \/ syncCallback,
                        armed \ {syncInterval})
                 /\ UNCHANGED <<graceTimer, callbacks, immediates>>
         /\ UNCHANGED <<rings, now>>
  BY DEF ResumeTimer
<1>1. activeTimer # None /\ activeTimer.isPaused /\ activeTimer \in TimerInfo
  BY DEF ResumeTimer, TimersInv, TypeOK
<1>2. PICK ms \in Nat : ms = activeTimer.timeRemaining
  BY <1>1, InfoFields
<1>3. /\ ~Running /\ Phase = "paused" /\ Left = ms
      /\ armed \ {syncInterval} \subseteq {graceTimer} \cap Timeouts
  BY <1>1, <1>2, NotRunning DEF Running, Phase, Left, TimeLeft, TimersInv, TypeOK
<1>4. Cleared = {} /\ immediates \in Nat /\ rings \in Nat /\ now \in Nat /\ arms \in Nat
  BY NothingCleared DEF TimersInv, TypeOK
<1>5. CASE ms = 0
  <2>1. TimersInv' /\ Phase' = "off" /\ Left' = 0
    BY <1>0, <1>2, <1>4, <1>5, ForgotTimer
  <2>2. Timer!Resume
    BY <1>0, <1>2, <1>3, <1>5, <2>1 DEF Timer!Resume
  <2> QED BY <2>1, <2>2 DEF Refined, Timer!Next
<1>6. CASE ms # 0
  <2>1. PICK withSync \in BOOLEAN : withSync = (onSync \/ syncCallback)
    OBVIOUS
  <2>2. /\ Run(ms, withSync, armed \ {syncInterval})
        /\ UNCHANGED <<graceTimer, callbacks, immediates, rings, now>>
    BY <1>0, <1>2, <1>6, <2>1
  <2>3. /\ graceTimer' \in Timeouts \cup {None} /\ (graceTimer' # None => graceTimer'.kind = "grace")
        /\ expirationCallback' \in BOOLEAN /\ syncCallback' \in BOOLEAN
        /\ graceCallback' \in BOOLEAN
    BY <2>2 DEF TimersInv, TypeOK, MapsInv, callbacks
  <2>4. TimersInv' /\ Phase' = "running" /\ Left' = ms
    BY <1>3, <1>4, <2>2, <2>3, RunInv
  <2>5. Timer!Resume
    BY <1>3, <1>6, <2>2, <2>4 DEF Timer!Resume
  <2> QED BY <2>4, <2>5 DEF Refined, Timer!Next
<1> QED BY <1>5, <1>6

LEMMA ClearsRefined ==
  ASSUME TimersInv, ClearTimer \/ ForceExpire
  PROVE  Refined
<1>1. /\ armed' = {} /\ ForgetAll /\ UNCHANGED <<rings, now, arms>>
      /\ immediates' \in {immediates, immediates + 1}
  BY NothingCleared DEF ClearTimer, ForceExpire
<1>2. immediates \in Nat /\ rings \in Nat /\ now \in Nat /\ arms \in Nat
  BY DEF TimersInv, TypeOK
<1>3. TimersInv' /\ Phase' = "off" /\ Left' = 0
  BY <1>1, <1>2, ForgotTimer
<1>4. Timer!Clear \/ Timer!Start
  BY <1>1, <1>3 DEF Timer!Clear, Timer!Start
<1> QED BY <1>3, <1>4 DEF Refined, Timer!Next

(* The timer is left alone: the same information at the same time, or no     *)
(* time that counts.                                                        *)
LEMMA SameTimer ==
  ASSUME activeTimer' = activeTimer, now' = now
  PROVE  Phase' = Phase /\ Left' = Left /\ Running' = Running /\ MainTimer' = MainTimer
BY DEF Phase, Left, Running, MainTimer, TimeLeft

LEMMA GraceRefined ==
  ASSUME TimersInv, StartGracePeriod \/ ClearGracePeriod \/ GraceEnds
  PROVE  Refined
<1>1. /\ UNCHANGED <<activeTimer, syncInterval, warningTimers, expirationCallback,
                     syncCallback, immediates, rings, now>>
      /\ graceCallback' = FALSE /\ arms' \in {arms, arms + 1}
  BY DEF StartGracePeriod, ClearGracePeriod, GraceEnds
<1>2. /\ graceTimer' \in Timeouts \cup {None} /\ (graceTimer' # None => graceTimer'.kind = "grace")
      /\ armed' \subseteq (armed \ {graceTimer}) \cup {graceTimer'}
      /\ None \notin armed' /\ armed' \subseteq Timeouts
  <2>0. armed \subseteq Timeouts /\ None \notin armed /\ now + GracePeriod \in Nat
    BY NoEntry, TimerAssumption DEF TimersInv, TypeOK
  <2>1. CASE StartGracePeriod
    <3>1. /\ Timeout("grace", now + GracePeriod, 0) \in Timeouts
          /\ Timeout("grace", now + GracePeriod, 0).kind = "grace"
      BY <2>0, TimeoutType DEF TimersInv
    <3> QED BY <2>0, <2>1, <3>1, NoEntry DEF StartGracePeriod
  <2>2. CASE ClearGracePeriod \/ GraceEnds
    <3>1. graceTimer' = None /\ armed' \subseteq armed \ {graceTimer}
      BY <2>2 DEF ClearGracePeriod, GraceEnds
    <3> QED BY <2>0, <3>1
  <2> QED BY <2>1, <2>2
<1>3. Phase' = Phase /\ Left' = Left /\ Running' = Running /\ MainTimer' = MainTimer
  BY <1>1, SameTimer
<1>4. TypeOK'
  <2>1. arms' \in Nat
    BY <1>1 DEF TimersInv, TypeOK
  <2>2. graceCallback' \in BOOLEAN
    BY <1>1
  <2> QED BY <1>1, <1>2, <2>1, <2>2 DEF TimersInv, TypeOK
<1>5. MapsInv'
  BY <1>1, <1>2, <1>3 DEF TimersInv, MapsInv
<1>6. armed' \subseteq Kept'
  BY <1>1, <1>2, <1>3 DEF TimersInv, Kept
<1> QED BY <1>1, <1>3, <1>4, <1>5, <1>6 DEF Refined, TimersInv, Timer!countdownVars

LEMMA ExpireRefined ==
  ASSUME TimersInv, Expire
  PROVE  Refined
<1>1. PICK a \in armed : /\ a.kind = "expiration" /\ a.due <= now
                         /\ armed' = Cleared \ {a} /\ ForgetAll /\ rings' = rings + 1
                         /\ UNCHANGED <<immediates, now, arms>>
  BY DEF Expire, Due
<1>2. a \in Timeouts /\ a \in Kept /\ now \in Nat /\ immediates \in Nat /\ rings \in Nat /\ arms \in Nat
  BY DEF TimersInv, TypeOK
<1>3. a = MainTimer
  BY <1>1, <1>2, TimeoutFields DEF TimersInv, MapsInv, Kept
<1>4. /\ Running /\ activeTimer \in TimerInfo
      /\ a.due = activeTimer.startedAt + activeTimer.timeRemaining
  BY <1>2, <1>3, TimeoutFields DEF TimersInv, TypeOK, MapsInv, MainTimer, Running
<1>5. Phase = "running" /\ Left = 0
  BY <1>1, <1>2, <1>4, LeftType, InfoFields, TimeoutFields DEF Later
<1>6. TimersInv' /\ Phase' = "off" /\ Left' = 0
  BY <1>1, <1>2, NothingCleared, ForgotTimer
<1>7. Timer!Ring
  BY <1>1, <1>5, <1>6 DEF Timer!Ring
<1> QED BY <1>6, <1>7 DEF Refined, Timer!Next

LEMMA FiresRefined ==
  ASSUME TimersInv, Warn \/ Sync
  PROVE  Refined
<1>1. /\ UNCHANGED <<activeTimer, graceTimer, warningTimers, callbacks, immediates, rings,
                     now, arms>>
      /\ \/ armed' \subseteq armed /\ syncInterval' = syncInterval
         \/ armed' = armed \ {syncInterval} /\ syncInterval' = None
  BY DEF Warn, Sync, maps
<1>2. Phase' = Phase /\ Left' = Left /\ Running' = Running /\ MainTimer' = MainTimer
  BY <1>1, SameTimer
<1>3. TypeOK'
  BY <1>1 DEF TimersInv, TypeOK, callbacks
<1>4. MapsInv'
  BY <1>1, <1>2 DEF TimersInv, MapsInv
<1>5. armed' \subseteq Kept'
  BY <1>1, <1>2 DEF TimersInv, Kept
<1> QED BY <1>1, <1>2, <1>3, <1>4, <1>5 DEF Refined, TimersInv, Timer!countdownVars

LEMMA ImmediateRefined ==
  ASSUME TimersInv, Immediate
  PROVE  Refined
<1>1. /\ immediates \in Nat /\ immediates > 0 /\ rings \in Nat
      /\ immediates' = immediates - 1 /\ rings' = rings + 1
      /\ UNCHANGED <<maps, callbacks, armed, now, arms>>
  BY DEF Immediate, TimersInv, TypeOK
<1>2. Phase' = Phase /\ Left' = Left /\ Running' = Running /\ MainTimer' = MainTimer
  BY <1>1, SameTimer DEF maps
<1>3. immediates - 1 \in Nat /\ rings + 1 \in Nat
  BY <1>1
<1>4. TypeOK'
  BY <1>1, <1>3 DEF TimersInv, TypeOK, maps, callbacks
<1>5. MapsInv' /\ armed' \subseteq Kept'
  BY <1>1, <1>2 DEF TimersInv, MapsInv, Kept, maps
<1>6. Timer!Ring
  BY <1>1, <1>2 DEF Timer!Ring
<1> QED BY <1>4, <1>5, <1>6 DEF Refined, TimersInv, Timer!Next

LEMMA TickRefined ==
  ASSUME TimersInv, Tick
  PROVE  Refined
<1>1. now \in Nat /\ now' = now + 1 /\ UNCHANGED <<maps, callbacks, armed, immediates, rings, arms>>
  BY DEF Tick, TimersInv, TypeOK
<1>2. Phase' = Phase /\ Running' = Running /\ MainTimer' = MainTimer
  BY <1>1 DEF Phase, Running, MainTimer, maps
<1>3. TypeOK'
  BY <1>1 DEF TimersInv, TypeOK, maps, callbacks
<1>4. Running => activeTimer \in TimerInfo /\ activeTimer.startedAt <= now
  BY LeftType DEF TimersInv, MapsInv
<1>5. Running => activeTimer.startedAt <= now + 1
  BY <1>1, <1>4, InfoFields
<1>6. MapsInv'
  BY <1>1, <1>2, <1>5 DEF TimersInv, MapsInv, maps
<1>7. armed' \subseteq Kept'
  BY <1>1, <1>2 DEF TimersInv, Kept, maps
<1>8. CASE ~Running
  <2>1. Left' = Left
    BY <1>1, <1>8 DEF Left, TimeLeft, Running, maps
  <2> QED BY <1>1, <1>2, <1>3, <1>6, <1>7, <2>1 DEF Refined, TimersInv, Timer!countdownVars
<1>9. CASE Running
  <2>1. /\ Left = Later(activeTimer.timeRemaining, now - activeTimer.startedAt)
        /\ Phase = "running"
    BY <1>9, LeftType
  <2>2. Left' = Later(activeTimer.timeRemaining, now + 1 - activeTimer.startedAt)
    BY <1>1, <1>4, <1>9, InfoFields DEF Left, TimeLeft, Later, Running, maps
  <2>3. Left' = IF Left > 0 THEN Left - 1 ELSE Left
    BY <1>1, <1>4, <1>9, <2>1, <2>2, InfoFields DEF Later
  <2>4. Timer!TimePasses \/ UNCHANGED Timer!countdownVars
    BY <1>1, <1>2, <2>1, <2>3, LeftType DEF Timer!TimePasses, Timer!countdownVars
  <2> QED BY <1>3, <1>6, <1>7, <2>4 DEF Refined, TimersInv, Timer!Next
<1> QED BY <1>8, <1>9

LEMMA InitTimers == Init => TimersInv /\ Timer!Init
<1> SUFFICES ASSUME Init PROVE TimersInv /\ Timer!Init
  OBVIOUS
<1>1. TypeOK
  BY DEF Init, TypeOK
<1>2. MapsInv /\ armed \subseteq Kept
  BY DEF Init, MapsInv, MainTimer, Running, Kept
<1>3. Timer!Init
  BY DEF Init, Timer!Init, Phase, Left
<1> QED BY <1>1, <1>2, <1>3 DEF TimersInv

LEMMA StepRefined == TimersInv /\ [Next]_vars => Refined
<1> SUFFICES ASSUME TimersInv, [Next]_vars PROVE Refined
  OBVIOUS
<1>1. CASE UNCHANGED vars
  <2>1. Phase' = Phase /\ Left' = Left
    BY <1>1, SameTimer DEF vars, maps
  <2>2. TimersInv'
    BY <1>1 DEF vars, maps, callbacks, TimersInv, TypeOK, MapsInv, Kept, MainTimer, Running
  <2> QED BY <1>1, <2>1, <2>2 DEF Refined, Timer!countdownVars, vars
<1> QED BY <1>1, StartRefined, PauseRefined, ResumeRefined, ClearsRefined, GraceRefined,
        ExpireRefined, FiresRefined, ImmediateRefined, TickRefined DEF Next

LEMMA TimersKept == Spec => []TimersInv
<1>1. TimersInv /\ [Next]_vars => TimersInv'
  BY StepRefined DEF Refined
<1> QED BY <1>1, InitTimers, PTL DEF Spec

(* The maps, the callbacks and the timeouts stay within their types, however *)
(* the methods are called and however late timeouts fire.                   *)
THEOREM TimerTypes == Spec => []TypeOK
<1>1. TimersInv => TypeOK
  BY DEF TimersInv
<1> QED BY <1>1, TimersKept, PTL

(* No timeout outlives the entry that would clear it, nothing of a section   *)
(* timer fires while it is paused or gone, and no warning comes early.       *)
THEOREM NoTimeoutStrays == Spec => []NoStrayTimeout
<1>1. TimersInv => NoStrayTimeout
  <2> SUFFICES ASSUME TimersInv, NEW a \in armed
               PROVE  /\ a.kind # "grace" => Running
                      /\ a.kind = "warning" /\ a.due <= now => TimeLeft(activeTimer) <= a.says
    BY DEF NoStrayTimeout, TimersInv
  <2>1. a \in Timeouts /\ a \in Kept /\ a.due \in Nat /\ a.says \in Nat /\ a # None /\ now \in Nat
    BY TimeoutFields DEF TimersInv, TypeOK
  <2>2. a = MainTimer => Running /\ a.kind = "expiration"
    BY <2>1 DEF TimersInv, MapsInv, MainTimer, Running
  <2>3. a = syncInterval => Running /\ a.kind = "sync"
    BY <2>1 DEF TimersInv, MapsInv
  <2>4. a \in warningTimers =>
           Running /\ a.due + a.says = activeTimer.startedAt + activeTimer.timeRemaining
    BY DEF TimersInv, MapsInv
  <2>5. a = graceTimer => a.kind = "grace"
    BY <2>1 DEF TimersInv, MapsInv
  <2>6. ASSUME a \in warningTimers, a.due <= now PROVE TimeLeft(activeTimer) <= a.says
    <3>1. /\ Running /\ activeTimer \in TimerInfo /\ activeTimer.startedAt <= now
          /\ TimeLeft(activeTimer) = Later(activeTimer.timeRemaining, now - activeTimer.startedAt)
      BY <2>4, <2>6, LeftType DEF TimersInv, MapsInv, Running, TimeLeft
    <3> QED BY <2>1, <2>4, <2>6, <3>1, InfoFields DEF Later
  <2> QED BY <2>1, <2>2, <2>3, <2>4, <2>5, <2>6 DEF Kept
<1> QED BY <1>1, TimersKept, PTL

(* TimerService implements the countdown: its starts, pauses, resumes and    *)
(* clears, and its timeouts, are steps of Countdown or leave it as it is.    *)
THEOREM CountdownImplemented == Spec => ImplementsCountdown
<1>1. Init => Timer!Init
  BY InitTimers
<1>2. TimersInv /\ [Next]_vars => [Timer!Next]_(Timer!countdownVars)
  BY StepRefined DEF Refined
<1> QED BY <1>1, <1>2, TimersKept, PTL DEF Spec, ImplementsCountdown, Timer!Spec
==============================================================================
