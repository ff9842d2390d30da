----------------------------- MODULE SessionTimers -----------------------------
(***************************************************************************)
(* The timers TimerService keeps for one session: the section timer with    *)
(* its warnings and its periodic sync, and the grace period.  Sessions do   *)
(* not share anything.  Each method runs without interruption; the timeouts *)
(* and intervals it arms belong to Node and fire, perhaps late, until they  *)
(* are cleared by the reference one of the maps keeps.                      *)
(*                                                                         *)
(* The methods are called in any order, as the class allows: in this        *)
(* program the controller starts, clears and resumes timers, and nothing    *)
(* calls pauseTimer, startGracePeriod or forceExpire.                       *)
(***************************************************************************)
EXTENDS Naturals, FiniteSets

CONSTANTS Durations,      \* timeRemainingMs of a start
          WarningPoints,  \* the times left at which a warning is sent
          GracePeriod,    \* gracePeriodMs
          None,           \* no entry
          MaxNow,         \* bound on the clock
          MaxArms         \* bound on the calls that arm timeouts

ASSUME TimerAssumption == /\ Durations \subseteq Nat
                          /\ WarningPoints \subseteq Nat \ {0}
                          /\ GracePeriod \in Nat
                          /\ None \notin Nat
                          /\ MaxNow \in Nat
                          /\ MaxArms \in Nat

VARIABLES activeTimer,         \* activeTimers.get(sessionId)
          syncInterval,        \* syncIntervals.get(sessionId)
          graceTimer,          \* graceTimers.get(sessionId)
          warningTimers,       \* warningTimers.get(sessionId), or no warnings
          expirationCallback,  \* whether expirationCallbacks has one
          syncCallback,        \* whether syncCallbacks has one
          graceCallback,       \* whether graceCallbacks has one
          armed,               \* the timeouts and intervals of Node
          immediates,          \* expiration callbacks passed to setImmediate
          rings,               \* expiration callbacks made
          now,                 \* Date.now()
          arms                 \* calls that have armed timeouts

maps == <<activeTimer, syncInterval, graceTimer, warningTimers>>
callbacks == <<expirationCallback, syncCallback, graceCallback>>
vars == <<maps, callbacks, armed, immediates, rings, now, arms>>

(* What setTimeout and setInterval return.                                  *)
Timeouts == [kind : {"expiration", "warning", "sync", "grace"},
             arm  : Nat,    \* tells the calls apart
             due  : Nat,    \* not before; an interval may fire at any time
             says : Nat]    \* secondsRemaining of a warning

TimerInfo == [timer : Timeouts \cup {None}, startedAt : Nat, timeRemaining : Nat,
              isPaused : BOOLEAN]

ASSUME NoEntry == None \notin Timeouts /\ None \notin TimerInfo

TypeOK == /\ activeTimer \in TimerInfo \cup {None}
          /\ syncInterval \in Timeouts \cup {None}
          /\ graceTimer \in Timeouts \cup {None}
          /\ warningTimers \subseteq Timeouts
          /\ expirationCallback \in BOOLEAN
          /\ syncCallback \in BOOLEAN
          /\ graceCallback \in BOOLEAN
          /\ armed \subseteq Timeouts
          /\ immediates \in Nat
          /\ rings \in Nat
          /\ now \in Nat
          /\ arms \in Nat

Init == /\ activeTimer = None
        /\ syncInterval = None
        /\ graceTimer = None
        /\ warningTimers = {}
        /\ expirationCallback = FALSE
        /\ syncCallback = FALSE
        /\ graceCallback = FALSE
        /\ armed = {}
        /\ immediates = 0
        /\ rings = 0
        /\ now = 0
        /\ arms = 0

-----------------------------------------------------------------------------
(* Definitions named Bug... are not part of the model: each is the          *)
(* definition that follows it with a plausible mistake, kept to show that a *)
(* property can fail.                                                       *)

Timeout(kind, due, says) == [kind |-> kind, arm |-> arms, due |-> due, says |-> says]

MainTimer == IF activeTimer = None THEN None ELSE activeTimer.timer

(* calls of clearTimeout and clearInterval in clearTimer.                   *)
Kept == {MainTimer, syncInterval, graceTimer} \cup warningTimers

BugWarningsStay == armed \ {MainTimer, syncInterval, graceTimer}

Cleared == armed \ Kept

ForgetCallbacks == /\ expirationCallback' = FALSE
                   /\ syncCallback' = FALSE
                   /\ graceCallback' = FALSE

(* The maps after clearTimer.                                               *)
ForgetAll == /\ activeTimer' = None
             /\ syncInterval' = None
             /\ graceTimer' = None
             /\ warningTimers' = {}
             /\ ForgetCallbacks

ClearTimer == /\ armed' = Cleared
              /\ ForgetAll
              /\ UNCHANGED <<immediates, rings, now, arms>>

(* setupWarningTimers.                                                      *)
Warnings(ms) == {Timeout("warning", now + ms - w, w) : w \in {p \in WarningPoints : p < ms}}

MayArm(ms) == arms < MaxArms /\ now + ms <= MaxNow

(* The section timer runs for ms, with warnings and sync if onSync is there. *)
Run(ms, onSync, others) ==
    LET main == Timeout("expiration", now + ms, 0)
        sync == Timeout("sync", now, 0)
    IN  /\ activeTimer' = [timer |-> main, startedAt |-> now, timeRemaining |-> ms,
                           isPaused |-> FALSE]
        /\ IF onSync
           THEN /\ warningTimers' = Warnings(ms)
                /\ syncInterval' = sync
                /\ armed' = others \cup {main, sync} \cup Warnings(ms)
           ELSE /\ warningTimers' = {}
                /\ syncInterval' = None
                /\ armed' = others \cup {main}
        /\ arms' = arms + 1

(* startSectionTimer stores the callbacks and then calls clearTimer, which   *)
(* deletes them.                                                            *)
StartSectionTimer ==
    \E ms \in Durations, onSync \in BOOLEAN :
        /\ MayArm(ms)
        /\ IF ms = 0
           THEN /\ armed' = Cleared
                /\ ForgetAll
                /\ immediates' = immediates + 1
                /\ arms' = arms + 1
           ELSE /\ Run(ms, onSync, Cleared)
                /\ graceTimer' = None
                /\ ForgetCallbacks
                /\ UNCHANGED immediates
        /\ UNCHANGED <<rings, now>>

Later(a, b) == IF a > b THEN a - b ELSE 0

(* Time left of a timer: kept while it is paused.                           *)
TimeLeft(info) == IF info.isPaused THEN info.timeRemaining
                  ELSE Later(info.timeRemaining, now - info.startedAt)

Running == activeTimer # None /\ ~activeTimer.isPaused

BugPauseUnfloored ==
    /\ Running
    /\ activeTimer' = [activeTimer EXCEPT
                          !.timer = None, !.isPaused = TRUE,
                          !.timeRemaining = @ - (now - activeTimer.startedAt)]
    /\ syncInterval' = None
    /\ warningTimers' = {}
    /\ armed' = armed \ ({MainTimer, syncInterval} \cup warningTimers)
    /\ UNCHANGED <<graceTimer, callbacks, immediates, rings, now, arms>>

BugPauseKeepsTime ==
    /\ Running
    /\ activeTimer' = [activeTimer EXCEPT !.timer = None, !.isPaused = TRUE]
    /\ syncInterval' = None
    /\ warningTimers' = {}
    /\ armed' = armed \ ({MainTimer, syncInterval} \cup warningTimers)
    /\ UNCHANGED <<graceTimer, callbacks, immediates, rings, now, arms>>

PauseTimer ==
    /\ Running
    /\ activeTimer' = [activeTimer EXCEPT !.timer = None, !.isPaused = TRUE,
                                          !.timeRemaining = TimeLeft(activeTimer)]
    /\ syncInterval' = None
    /\ warningTimers' = {}
    /\ armed' = armed \ ({MainTimer, syncInterval} \cup warningTimers)
    /\ UNCHANGED <<graceTimer, callbacks, immediates, rings, now, arms>>

(* resumeTimer, with the callbacks it is given or finds stored; without an   *)
(* expiration callback it changes nothing.                                  *)
ResumeTimer ==
    \E onExpiration, onSync \in BOOLEAN :
        /\ activeTimer # None
        /\ activeTimer.isPaused
        /\ onExpiration \/ expirationCallback
        /\ IF activeTimer.timeRemaining = 0
           THEN /\ armed' = Cleared
                /\ ForgetAll
                /\ immediates' = immediates + 1
                /\ UNCHANGED arms
           ELSE /\ MayArm(activeTimer.timeRemaining)
                /\ Run(activeTimer.timeRemaining, onSync \/ syncCallback,
                       armed \ {syncInterval})
                /\ UNCHANGED <<graceTimer, callbacks, immediates>>
        /\ UNCHANGED <<rings, now>>

(* startGracePeriod stores its callback and then calls clearGracePeriod,     *)
(* which deletes it.                                                        *)
StartGracePeriod ==
    LET grace == Timeout("grace", now + GracePeriod, 0)
    IN  /\ MayArm(GracePeriod)
        /\ graceTimer' = grace
        /\ graceCallback' = FALSE
        /\ armed' = (armed \ {graceTimer}) \cup {grace}
        /\ arms' = arms + 1
        /\ UNCHANGED <<activeTimer, syncInterval, warningTimers, expirationCallback,
                       syncCallback, immediates, rings, now>>

ClearGracePeriod ==
    /\ graceTimer' = None
    /\ graceCallback' = FALSE
    /\ armed' = armed \ {graceTimer}
    /\ UNCHANGED <<activeTimer, syncInterval, warningTimers, expirationCallback,
                   syncCallback, immediates, rings, now, arms>>

(* forceExpire: the stored callback, if there is one, is made soon.          *)
ForceExpire == /\ armed' = Cleared
               /\ ForgetAll
               /\ immediates' = IF expirationCallback THEN immediates + 1 ELSE immediates
               /\ UNCHANGED <<rings, now, arms>>

-----------------------------------------------------------------------------
(* A timeout fires once; an interval stays.                                 *)
Due(a, kind) == a \in armed /\ a.kind = kind /\ a.due <= now

Expire == \E a \in armed : /\ Due(a, "expiration")
                           /\ armed' = Cleared \ {a}
                           /\ ForgetAll
                           /\ rings' = rings + 1
                           /\ UNCHANGED <<immediates, now, arms>>

(* The map keeps the warning that has been sent.                            *)
Warn == \E a \in armed : /\ Due(a, "warning")
                         /\ armed' = armed \ {a}
                         /\ UNCHANGED <<maps, callbacks, immediates, rings, now, arms>>

(* The sync of a running timer sends the time left; an interval that finds   *)
(* none stops the interval of the map.                                      *)
Sync == \E a \in armed :
           /\ Due(a, "sync")
           /\ IF Running THEN UNCHANGED <<armed, syncInterval>>
              ELSE armed' = armed \ {syncInterval} /\ syncInterval' = None
           /\ UNCHANGED <<activeTimer, graceTimer, warningTimers, callbacks, immediates,
                          rings, now, arms>>

GraceEnds == \E a \in armed :
                /\ Due(a, "grace")
                /\ armed' = armed \ {a, graceTimer}
                /\ graceTimer' = None
                /\ graceCallback' = FALSE
                /\ UNCHANGED <<activeTimer, syncInterval, warningTimers, expirationCallback,
                               syncCallback, immediates, rings, now, arms>>

Immediate == /\ immediates > 0
             /\ immediates' = immediates - 1
             /\ rings' = rings + 1
             /\ UNCHANGED <<maps, callbacks, armed, now, arms>>

Tick == now < MaxNow /\ now' = now + 1
          /\ UNCHANGED <<maps, callbacks, armed, immediates, rings, arms>>

Next == \/ StartSectionTimer \/ PauseTimer \/ ResumeTimer \/ ClearTimer \/ ForceExpire
        \/ StartGracePeriod \/ ClearGracePeriod
        \/ Expire \/ Warn \/ Sync \/ GraceEnds \/ Immediate \/ Tick

Spec == Init /\ [][Next]_vars

-----------------------------------------------------------------------------
(* Every timeout and interval of Node is one a map refers to, so that a      *)
(* clear reaches it, and only a running timer has an expiration, warnings or *)
(* sync ahead of it.  A warning comes when that much time is left, or later. *)
NoStrayTimeout ==
    /\ armed \subseteq Kept
    /\ \A a \in armed : a.kind # "grace" => Running
    /\ \A a \in armed : a.kind = "warning" /\ a.due <= now => TimeLeft(activeTimer) <= a.says

Phase == IF activeTimer = None THEN "off"
         ELSE IF activeTimer.isPaused THEN "paused" ELSE "running"

Left == IF activeTimer = None THEN 0 ELSE TimeLeft(activeTimer)

Timer == INSTANCE Countdown WITH phase <- Phase, left <- Left, due <- immediates

(* The section timer counts down as Countdown says, through starts, pauses   *)
(* and resumes: a callback comes once, when no time is left, and clearing or *)
(* pausing takes no time from it and gives it none.                          *)
ImplementsCountdown == Timer!Spec
=============================================================================
