---------------------------- MODULE Co2Gate_proofs ----------------------------
(***************************************************************************)
(* Proofs about PowerSave and about the gate that drives it, for every     *)
(* delay, grace, generation width and choice of stimuli.                   *)
(*                                                                         *)
(* First PowerSave by itself, under callers that may do anything.  The     *)
(* inductive invariant adds to the properties what they need: which        *)
(* handles may be owned at all, and that the wake levels of the two pins   *)
(* are exactly what the two "armed" flags say, also while                  *)
(* set_co2_bus_powered_down is half done.                                  *)
(*                                                                         *)
(* Then Co2Gate: the gate drives power_save through its operations only,   *)
(* so that what is proved of PowerSave holds of the composed system; the   *)
(* sniffer is on exactly in the phases that need it; and, as long as       *)
(* nobody uses the Energy Save switch, the gate's phase and power_save's   *)
(* view of the bus never disagree.                                         *)
(***************************************************************************)
EXTENDS Co2Gate, TLAPS

LockStates == [Handles -> [held : BOOLEAN, count : Int]]

Exact(l) == \A h \in Handles : l[h].count = IF l[h].held THEN 1 ELSE 0

\* m is l after calls that touched handles of H only.
Touches(l, m, H) ==
    /\ m \in LockStates
    /\ Exact(m)
    /\ \A h \in Handles \ H : m[h] = l[h]

LemmaContext(l) == l \in LockStates /\ Exact(l)

WakeExact ==
    /\ ~(co2_scl_wakeup_armed /\ co2_warmup_wakeup_armed)
    /\ gpioWake["sda"] = IF co2_warmup_wakeup_armed THEN "low" ELSE "off"
    /\ gpioWake["scl"] = IF co2_warmup_wakeup_armed THEN "low"
                         ELSE IF co2_scl_wakeup_armed THEN "high" ELSE "off"

ArmedInState ==
    /\ co2_warmup_wakeup_armed => co2_warmup
    /\ co2_warmup /\ pc # "bus" => co2_warmup_wakeup_armed
    /\ co2_scl_wakeup_armed /\ pc # "bus" => co2_powered_down
    /\ external_power => /\ ~co2_warmup /\ ~co2_powered_down
                         /\ ~co2_scl_wakeup_armed /\ pc # "bus"

IInv ==
    /\ TypeOK
    /\ OwnershipExact
    /\ NeverFalselyUnlocked
    /\ WakeExact
    /\ ArmedInState

-----------------------------------------------------------------------------
(* What the lock calls do. *)

\* An acquire sets one handle's flag and count and nothing else.
LEMMA AcquiredTouches ==
    ASSUME NEW l, LemmaContext(l), NEW h \in Handles, ~Held(l, h)
    PROVE  /\ Touches(l, Acquired(l, h), {h})
           /\ Held(Acquired(l, h), h)
  BY DEF LemmaContext, LockStates, Exact, Touches, Acquired, Held

\* A release touches the handles it is given, and never takes one.
LEMMA ReleaseTouches ==
    ASSUME NEW l, LemmaContext(l), NEW H \in SUBSET Handles,
           NEW m \in ReleaseOutcomes(l, H)
    PROVE  /\ Touches(l, m, H)
           /\ \A h \in Handles : Held(m, h) => Held(l, h)
  <1>1. PICK R \in SUBSET {h \in H : Held(l, h)} :
               m = [h \in Handles |-> IF h \in R THEN Released(l, h)[h] ELSE l[h]]
    BY DEF ReleaseOutcomes
  <1>2. ASSUME NEW h \in Handles
        PROVE  m[h] = IF h \in R THEN [held |-> FALSE, count |-> l[h].count - 1] ELSE l[h]
    BY <1>1, <1>2 DEF Released, LemmaContext, LockStates
  <1>3. R \subseteq H /\ \A h \in R : l[h].held
    BY <1>1 DEF Held
  <1>4. m \in LockStates
    <2>1. ASSUME NEW h \in Handles
          PROVE  m[h] \in [held : BOOLEAN, count : Int]
      <3>1. l[h] \in [held : BOOLEAN, count : Int]
        BY DEF LemmaContext, LockStates
      <3>2. CASE h \in R
        <4>1. m[h] = [held |-> FALSE, count |-> l[h].count - 1]
          BY <1>2, <3>2
        <4>2. l[h].count - 1 \in Int
          BY <3>1
        <4>3. QED BY <4>1, <4>2
      <3>3. CASE h \notin R
        BY <1>2, <3>1, <3>3
      <3>4. QED BY <3>2, <3>3
    <2>2. QED BY <1>1, <2>1 DEF LockStates
  <1>5. Exact(m)
    <2> SUFFICES ASSUME NEW h \in Handles
                 PROVE  m[h].count = IF m[h].held THEN 1 ELSE 0
      BY DEF Exact
    <2>1. CASE h \in R
      <3>1. l[h].count = 1
        BY <1>3, <2>1 DEF LemmaContext, Exact
      <3>2. m[h] = [held |-> FALSE, count |-> l[h].count - 1]
        BY <1>2, <2>1
      <3>3. m[h] = [held |-> FALSE, count |-> 0]
        BY <3>1, <3>2
      <3>4. QED BY <3>3
    <2>2. CASE h \notin R
      BY <1>2, <2>2 DEF LemmaContext, Exact
    <2>3. QED BY <2>1, <2>2
  <1>6. \A h \in Handles : Held(m, h) => Held(l, h)
    BY <1>2, <1>3 DEF Held
  <1>7. \A h \in Handles \ H : m[h] = l[h]
    BY <1>2, <1>3
  <1>8. QED BY <1>4, <1>5, <1>6, <1>7 DEF Touches

\* An acquire of a pair, complete or not, touches that pair only.
LEMMA AcquireTouches ==
    ASSUME NEW l, LemmaContext(l), NEW s \in Handles, NEW c \in Handles, s # c,
           NEW m \in AcquireOutcomes(l, s, c)
    PROVE  Touches(l, m, {s, c})
  <1> DEFINE afterSleep == IF Held(l, s) THEN l ELSE Acquired(l, s)
             both == IF Held(l, c) THEN afterSleep ELSE Acquired(afterSleep, c)
  <1>1. m \in {l, afterSleep, both}
    BY DEF AcquireOutcomes
  <1>2. Touches(l, l, {s, c})
    BY DEF Touches, LemmaContext
  <1>3. Touches(l, afterSleep, {s, c}) /\ (Held(afterSleep, c) <=> Held(l, c))
    BY <1>2, AcquiredTouches DEF Touches, Held
  <1>4. Touches(l, both, {s, c})
    <2>1. CASE Held(l, c)
      BY <1>3, <2>1
    <2>2. CASE ~Held(l, c)
      <3>1. Touches(afterSleep, both, {c})
        BY <1>3, <2>2, AcquiredTouches DEF Touches, LemmaContext
      <3>2. QED BY <1>3, <3>1 DEF Touches
    <2>3. QED BY <2>1, <2>2
  <1>5. QED BY <1>1, <1>2, <1>3, <1>4

\* The invariant is what the lemmas about lock calls need.
LEMMA LocksInContext ==
    ASSUME TypeOK, OwnershipExact
    PROVE  LemmaContext(locks)
  BY DEF TypeOK, OwnershipExact, LemmaContext, LockStates, Exact

\* A step that leaves the window's own handles alone keeps the three facts
\* about locks.
LEMMA LocksPreserved ==
    ASSUME IInv, UNCHANGED lock_held,
           NEW H \in SUBSET (Handles \ {"awake", "cpu"}), Touches(locks, locks', H)
    PROVE  /\ locks' \in [Handles -> [held : BOOLEAN, count : Int]]
           /\ OwnershipExact'
           /\ NeverFalselyUnlocked'
  <1>1. {"awake", "cpu"} \subseteq Handles \ H
    BY DEF Handles
  <1>2. locks'["awake"] = locks["awake"] /\ locks'["cpu"] = locks["cpu"]
    BY <1>1 DEF Touches
  <1>3. QED
    BY <1>2 DEF IInv, Touches, LockStates, Exact, OwnershipExact,
                NeverFalselyUnlocked, AnyHeld, Held

\* The generation counters stay in range.
LEMMA GenInRange ==
    ASSUME NEW g \in 0 .. GenMod - 1
    PROVE  Bump(g) \in 0 .. GenMod - 1
  BY PowerSaveAssumption DEF Bump

-----------------------------------------------------------------------------
(* The inductive invariant, action by action. *)

\* The values counters and ages are reset to.
LEMMA ZeroInRange ==
    /\ 0 \in 0 .. GenMod - 1
    /\ 0 \in 0 .. MaxAwake + DrainGrace
    /\ RetryPeriod \in 0 .. RetryPeriod /\ 0 \in 0 .. RetryPeriod
  BY PowerSaveAssumption

\* Leaving battery policy disarms both pins.
LEMMA AllWakeOffDisarms ==
    ASSUME IInv, AllWakeOff
    PROVE  /\ gpioWake' \in [{"sda", "scl"} -> {"off", "low", "high"}]
           /\ gpioWake'["sda"] = "off" /\ gpioWake'["scl"] = "off"
           /\ co2_scl_wakeup_armed' = FALSE /\ co2_warmup_wakeup_armed' = FALSE
  <1>1. /\ WarmupWakeOff \in [{"sda", "scl"} -> {"off", "low", "high"}]
        /\ WarmupWakeOff["sda"] = "off"
        /\ ~co2_scl_wakeup_armed => WarmupWakeOff["scl"] = "off"
    BY DEF IInv, TypeOK, WakeExact, WarmupWakeOff
  <1>2. CASE co2_scl_wakeup_armed
    BY <1>1, <1>2 DEF AllWakeOff
  <1>3. CASE ~co2_scl_wakeup_armed
    BY <1>1, <1>3 DEF AllWakeOff
  <1>4. QED BY <1>2, <1>3

\* The static initialisers satisfy the invariant.
LEMMA InitInv == Init => IInv
  <1> SUFFICES ASSUME Init PROVE IInv
    OBVIOUS
  <1>1. \A h \in Handles : locks[h] = Free
    BY DEF Init
  <1>2. locks \in [Handles -> [held : BOOLEAN, count : Int]]
    BY DEF Init, Free
  <1>3. OwnershipExact /\ NeverFalselyUnlocked
    BY <1>1 DEF OwnershipExact, NeverFalselyUnlocked, AnyHeld, Held, Handles, Free
  <1>4. gpioWake = [p \in {"sda", "scl"} |-> "off"]
    BY DEF Init
  <1>5. gpioWake \in [{"sda", "scl"} -> {"off", "low", "high"}]
    BY <1>4
  <1>6. TypeOK
    BY <1>2, <1>5, ZeroInRange DEF Init, TypeOK
  <1>7. WakeExact /\ ArmedInState
    BY <1>4 DEF Init, WakeExact, ArmedInState
  <1>8. QED BY <1>3, <1>6, <1>7 DEF IInv

\* RtRhEdge keeps the invariant.
LEMMA RtRhEdgeInv == ASSUME IInv, RtRhEdge PROVE IInv'
  <1>1. LemmaContext(locks) /\ ~Held(locks, "awake") /\ ~Held(locks, "cpu")
    BY LocksInContext DEF IInv, RtRhEdge, NeverFalselyUnlocked, AnyHeld
  <1> DEFINE one == Acquired(locks, "awake")
  <1>2. Touches(locks, one, {"awake"}) /\ ~Held(one, "cpu")
    BY <1>1, AcquiredTouches DEF Touches, Handles, Held
  <1>3. Touches(one, Acquired(one, "cpu"), {"cpu"})
    BY <1>2, AcquiredTouches DEF Touches, LemmaContext, Handles
  <1>4. locks' = Acquired(one, "cpu") \/ locks' = one
    BY DEF RtRhEdge
  <1>5. locks' \in [Handles -> [held : BOOLEAN, count : Int]] /\ OwnershipExact'
    BY <1>2, <1>3, <1>4 DEF Touches, LockStates, Exact, OwnershipExact
  <1>6. TypeOK'
    <2>1. lock_held' \in BOOLEAN /\ rtrh_complete' \in BOOLEAN /\ co2_after_rtrh' \in BOOLEAN
      BY DEF RtRhEdge, OpenWindow
    <2>2. windowAge' \in 0 .. MaxAwake + DrainGrace
      BY ZeroInRange DEF RtRhEdge, OpenWindow
    <2>3. now_us' \in {"none", "taken", "wrapped"}
      BY DEF IInv, TypeOK, RtRhEdge, OpenWindow
    <2>4. wake_gen' \in 0 .. GenMod - 1
      BY GenInRange DEF IInv, TypeOK, RtRhEdge
    <2>5. QED
      BY <1>5, <2>1, <2>2, <2>3, <2>4
      DEF IInv, TypeOK, RtRhEdge, co2Vars, wakeVars, modeVars
  <1>7. NeverFalselyUnlocked'
    BY DEF RtRhEdge, OpenWindow, NeverFalselyUnlocked
  <1>8. WakeExact' /\ ArmedInState'
    BY DEF IInv, RtRhEdge, WakeExact, ArmedInState, co2Vars, wakeVars, modeVars
  <1>9. QED BY <1>5, <1>6, <1>7, <1>8 DEF IInv

\* Co2Edge keeps the invariant.
LEMMA Co2EdgeInv == ASSUME IInv, Co2Edge PROVE IInv'
  <1>1. LemmaContext(locks) /\ ~Held(locks, "edgeAwake") /\ ~Held(locks, "edgeCpu")
    BY LocksInContext DEF IInv, Co2Edge, Co2EdgeCounts, AnyHeld
  <1> DEFINE one == Acquired(locks, "edgeAwake")
  <1>2. Touches(locks, one, {"edgeAwake"}) /\ ~Held(one, "edgeCpu")
    BY <1>1, AcquiredTouches DEF Touches, Handles, Held
  <1>3. Touches(one, Acquired(one, "edgeCpu"), {"edgeCpu"})
    BY <1>2, AcquiredTouches DEF Touches, LemmaContext, Handles
  <1>4. locks' = Acquired(one, "edgeCpu") \/ locks' = one
    BY DEF Co2Edge
  <1>5. Touches(locks, locks', {"edgeAwake", "edgeCpu"})
    BY <1>2, <1>3, <1>4 DEF Touches
  <1>6. /\ locks' \in [Handles -> [held : BOOLEAN, count : Int]]
        /\ OwnershipExact' /\ NeverFalselyUnlocked'
    BY <1>5, LocksPreserved DEF Co2Edge, windowVars, Handles
  <1>7. TypeOK'
    BY <1>6, GenInRange
    DEF IInv, TypeOK, Co2Edge, co2Vars, wakeVars, windowVars, loopVars, modeVars
  <1>8. WakeExact' /\ ArmedInState'
    BY DEF IInv, Co2Edge, WakeExact, ArmedInState, co2Vars, wakeVars, loopVars, modeVars
  <1>9. QED BY <1>6, <1>7, <1>8 DEF IInv

\* SetExternalPower keeps the invariant.
LEMMA SetExternalPowerInv ==
    ASSUME IInv, NEW present \in BOOLEAN, SetExternalPower(present) PROVE IInv'
  <1> DEFINE touched == {"edgeAwake", "edgeCpu", "co2Awake", "co2Cpu", "usbAwake", "usbCpu"}
  <1>1. LemmaContext(locks)
    BY LocksInContext DEF IInv
  <1>2. Touches(locks, locks', touched)
    <2>1. CASE ~present
      <3>1. locks' \in ReleaseOutcomes(locks, {"usbAwake", "usbCpu"})
        BY <2>1 DEF SetExternalPower
      <3>2. Touches(locks, locks', {"usbAwake", "usbCpu"})
        BY <1>1, <3>1, ReleaseTouches DEF Handles
      <3>3. QED BY <3>2 DEF Touches
    <2>2. CASE present
      <3>1. PICK l1 \in ReleaseOutcomes(locks, {"edgeAwake", "edgeCpu"}) :
            \E l2 \in ReleaseOutcomes(l1, {"co2Awake", "co2Cpu"}) :
               \/ locks' \in AcquireOutcomes(l2, "usbAwake", "usbCpu")
               \/ locks' = l2
        BY <2>2 DEF SetExternalPower
      <3>2. Touches(locks, l1, {"edgeAwake", "edgeCpu"})
        BY <1>1, ReleaseTouches DEF Handles
      <3>3. PICK l2 \in ReleaseOutcomes(l1, {"co2Awake", "co2Cpu"}) :
               \/ locks' \in AcquireOutcomes(l2, "usbAwake", "usbCpu")
               \/ locks' = l2
        BY <3>1
      <3>4. Touches(l1, l2, {"co2Awake", "co2Cpu"})
        BY <3>2, ReleaseTouches DEF Handles, Touches, LemmaContext
      <3>5. Touches(l2, locks', {"usbAwake", "usbCpu"})
        <4>1. CASE locks' = l2
          BY <3>4, <4>1 DEF Touches
        <4>2. CASE locks' \in AcquireOutcomes(l2, "usbAwake", "usbCpu")
          BY <3>4, <4>2, AcquireTouches DEF Handles, Touches, LemmaContext
        <4>3. QED BY <3>3, <4>1, <4>2
      <3>6. QED BY <3>2, <3>4, <3>5 DEF Touches
    <2>3. QED BY <2>1, <2>2
  <1>3. /\ locks' \in [Handles -> [held : BOOLEAN, count : Int]]
        /\ OwnershipExact' /\ NeverFalselyUnlocked'
    BY <1>2, LocksPreserved DEF SetExternalPower, windowVars, Handles
  <1>4. CASE present
    <2>1. /\ UsbDropsCo2 /\ external_power' = present
          /\ UNCHANGED <<windowVars, genVars, loopVars, configured, transport_busy, faulty>>
      BY <1>4 DEF SetExternalPower
    <2>2. /\ gpioWake' \in [{"sda", "scl"} -> {"off", "low", "high"}]
          /\ gpioWake'["sda"] = "off" /\ gpioWake'["scl"] = "off"
          /\ co2_scl_wakeup_armed' = FALSE /\ co2_warmup_wakeup_armed' = FALSE
      BY <2>1, AllWakeOffDisarms DEF UsbDropsCo2
    <2>3. pc' # "bus"
      BY <2>1 DEF SetExternalPower, loopVars
    <2>4. WakeExact' /\ ArmedInState'
      BY <2>1, <2>2, <2>3 DEF UsbDropsCo2, WakeExact, ArmedInState
    <2>5. TypeOK'
      BY <1>3, <2>1, <2>2 DEF IInv, TypeOK, UsbDropsCo2, windowVars, genVars, loopVars
    <2>6. QED BY <1>3, <2>4, <2>5 DEF IInv
  <1>5. CASE ~present
    <2>1. WakeExact' /\ ArmedInState'
      BY <1>5 DEF IInv, SetExternalPower, WakeExact, ArmedInState, co2Vars, wakeVars, loopVars
    <2>2. TypeOK'
      BY <1>3, <1>5 DEF IInv, TypeOK, SetExternalPower, co2Vars, wakeVars,
                        windowVars, genVars, loopVars
    <2>3. QED BY <1>3, <2>1, <2>2 DEF IInv
  <1>6. QED BY <1>4, <1>5

\* SetCo2Bus keeps the invariant.
LEMMA SetCo2BusInv ==
    ASSUME IInv, NEW pd \in BOOLEAN, SetCo2BusPoweredDown(pd) PROVE IInv'
  <1>1. LemmaContext(locks)
    BY LocksInContext DEF IInv
  <1>2. CASE external_power
    <2>1. /\ UsbDropsCo2 /\ pc' = pc
          /\ UNCHANGED <<windowVars, genVars, modeVars, retryAge, now_us>>
      BY <1>2 DEF SetCo2BusPoweredDown
    <2>0. /\ gpioWake' \in [{"sda", "scl"} -> {"off", "low", "high"}]
          /\ gpioWake'["sda"] = "off" /\ gpioWake'["scl"] = "off"
          /\ co2_scl_wakeup_armed' = FALSE /\ co2_warmup_wakeup_armed' = FALSE
      BY <2>1, AllWakeOffDisarms DEF UsbDropsCo2
    <2>2. Touches(locks, locks', {"edgeAwake", "edgeCpu", "co2Awake", "co2Cpu"})
      <3>1. PICK l1 \in ReleaseOutcomes(locks, {"edgeAwake", "edgeCpu"}) :
               locks' \in ReleaseOutcomes(l1, {"co2Awake", "co2Cpu"})
        BY <1>2 DEF SetCo2BusPoweredDown
      <3>2. Touches(locks, l1, {"edgeAwake", "edgeCpu"})
        BY <1>1, ReleaseTouches DEF Handles
      <3>3. Touches(l1, locks', {"co2Awake", "co2Cpu"})
        BY <3>1, <3>2, ReleaseTouches DEF Handles, Touches, LemmaContext
      <3>4. QED BY <3>2, <3>3 DEF Touches
    <2>3. /\ locks' \in [Handles -> [held : BOOLEAN, count : Int]]
          /\ OwnershipExact' /\ NeverFalselyUnlocked'
      BY <2>1, <2>2, LocksPreserved DEF windowVars, Handles
    <2>4. TypeOK'
      BY <2>1, <2>3, <2>0 DEF IInv, TypeOK, UsbDropsCo2, windowVars, genVars, modeVars
    <2>5. WakeExact' /\ ArmedInState'
      BY <1>2, <2>1, <2>0 DEF IInv, UsbDropsCo2, WakeExact, ArmedInState, modeVars
    <2>6. QED BY <2>3, <2>4, <2>5 DEF IInv
  <1>3. CASE ~external_power
    <2>1. /\ EnterBus(pd) /\ pc = "idle"
          /\ UNCHANGED <<wakeVars, co2_warmup, locks, windowVars, genVars, modeVars,
                         retryAge, now_us>>
      BY <1>3 DEF SetCo2BusPoweredDown
    <2>2. TypeOK' /\ OwnershipExact' /\ NeverFalselyUnlocked'
      <3>1. /\ co2_state_initialized' \in BOOLEAN /\ co2_powered_down' \in BOOLEAN
            /\ pc' \in {"idle", "bus", "window"}
        BY <2>1 DEF IInv, TypeOK, EnterBus
      <3>2. OwnershipExact' /\ NeverFalselyUnlocked'
        BY <2>1 DEF IInv, OwnershipExact, NeverFalselyUnlocked, AnyHeld, Held, windowVars
      <3>3. TypeOK'
        BY <2>1, <3>1 DEF IInv, TypeOK, wakeVars, windowVars, genVars, modeVars
      <3>4. QED BY <3>2, <3>3
    <2>3. WakeExact' /\ ArmedInState'
      BY <1>3, <2>1 DEF IInv, EnterBus, WakeExact, ArmedInState, wakeVars, modeVars
    <2>4. QED BY <2>2, <2>3 DEF IInv
  <1>4. QED BY <1>2, <1>3

\* ApplyBus keeps the invariant.
LEMMA ApplyBusInv == ASSUME IInv, ApplyBus PROVE IInv'
  <1>1. LemmaContext(locks)
    BY LocksInContext DEF IInv
  <1>2. PICK l1 \in ReleaseOutcomes(locks, {"edgeAwake", "edgeCpu"}) :
          \/ /\ co2_powered_down
             /\ locks' \in ReleaseOutcomes(l1, {"co2Awake", "co2Cpu"})
             /\ \/ /\ gpioWake' = [WarmupWakeOff EXCEPT !["scl"] = "high"]
                   /\ co2_scl_wakeup_armed' = TRUE
                \/ /\ gpioWake' = WarmupWakeOff
                   /\ UNCHANGED co2_scl_wakeup_armed
             /\ co2_after_rtrh' \in BOOLEAN
          \/ /\ ~co2_powered_down
             /\ gpioWake' = IF co2_scl_wakeup_armed
                            THEN [WarmupWakeOff EXCEPT !["scl"] = "off"] ELSE WarmupWakeOff
             /\ co2_scl_wakeup_armed' = FALSE
             /\ locks' \in AcquireOutcomes(l1, "co2Awake", "co2Cpu")
             /\ UNCHANGED co2_after_rtrh
    BY DEF ApplyBus, NothingToAwait, IInv, TypeOK
  <1>3. /\ pc = "bus" /\ pc' = "idle" /\ co2_warmup' = FALSE
        /\ co2_warmup_wakeup_armed' = FALSE
        /\ UNCHANGED <<co2_state_initialized, co2_powered_down, lock_held, rtrh_complete,
                       windowAge, genVars, modeVars, retryAge, now_us>>
    BY DEF ApplyBus
  <1>4. Touches(locks, l1, {"edgeAwake", "edgeCpu"})
    BY <1>1, ReleaseTouches DEF Handles
  <1>5. LemmaContext(l1)
    BY <1>4 DEF Touches, LemmaContext
  <1>6. Touches(l1, locks', {"co2Awake", "co2Cpu"})
    <2>1. CASE locks' \in ReleaseOutcomes(l1, {"co2Awake", "co2Cpu"})
      BY <1>5, <2>1, ReleaseTouches DEF Handles
    <2>2. CASE locks' \in AcquireOutcomes(l1, "co2Awake", "co2Cpu")
      BY <1>5, <2>2, AcquireTouches DEF Handles
    <2>3. QED BY <1>2, <2>1, <2>2
  <1>7. Touches(locks, locks', {"edgeAwake", "edgeCpu", "co2Awake", "co2Cpu"})
    BY <1>4, <1>6 DEF Touches
  <1>8. /\ locks' \in [Handles -> [held : BOOLEAN, count : Int]]
        /\ OwnershipExact' /\ NeverFalselyUnlocked'
    BY <1>3, <1>7, LocksPreserved DEF Handles
  <1>9. /\ WarmupWakeOff \in [{"sda", "scl"} -> {"off", "low", "high"}]
        /\ WarmupWakeOff["sda"] = "off"
        /\ WarmupWakeOff["scl"] = IF co2_scl_wakeup_armed THEN "high" ELSE "off"
    BY DEF IInv, TypeOK, WakeExact, WarmupWakeOff
  <1>10. /\ gpioWake' \in [{"sda", "scl"} -> {"off", "low", "high"}]
         /\ co2_scl_wakeup_armed' \in BOOLEAN /\ co2_after_rtrh' \in BOOLEAN
    BY <1>2, <1>9 DEF IInv, TypeOK
  <1>11. TypeOK'
    <2>1. /\ pc' \in {"idle", "bus", "window"} /\ co2_warmup' \in BOOLEAN
          /\ co2_warmup_wakeup_armed' \in BOOLEAN
      BY <1>3
    <2>2. /\ configured' \in BOOLEAN /\ external_power' \in BOOLEAN
          /\ transport_busy' \in BOOLEAN /\ faulty' \in BOOLEAN
          /\ co2_state_initialized' \in BOOLEAN /\ co2_powered_down' \in BOOLEAN
          /\ lock_held' \in BOOLEAN /\ rtrh_complete' \in BOOLEAN
      BY <1>3 DEF IInv, TypeOK, modeVars
    <2>3. /\ co2_activity_gen' \in 0 .. GenMod - 1 /\ wake_gen' \in 0 .. GenMod - 1
          /\ windowAge' \in 0 .. MaxAwake + DrainGrace /\ retryAge' \in 0 .. RetryPeriod
          /\ now_us' \in {"none", "taken", "wrapped"}
      BY <1>3 DEF IInv, TypeOK, genVars
    <2>4. QED
      BY <1>8, <1>10, <2>1, <2>2, <2>3 DEF TypeOK
  <1>12. WakeExact'
    <2>1. gpioWake'["sda"] = "off"
      BY <1>2, <1>9
    <2>2. gpioWake'["scl"] = IF co2_scl_wakeup_armed' THEN "high" ELSE "off"
      <3>1. CASE co2_powered_down
        BY <1>2, <1>9, <3>1
      <3>2. CASE ~co2_powered_down
        <4>1. gpioWake' = (IF co2_scl_wakeup_armed
                            THEN [WarmupWakeOff EXCEPT !["scl"] = "off"] ELSE WarmupWakeOff)
              /\ co2_scl_wakeup_armed' = FALSE
          BY <1>2, <3>2
        <4>2. gpioWake'["scl"] = "off"
          BY <4>1, <1>9
        <4>3. QED BY <4>1, <4>2
      <3>3. QED BY <3>1, <3>2
    <2>3. QED BY <1>3, <2>1, <2>2 DEF WakeExact
  <1>13. ArmedInState'
    BY <1>2, <1>3 DEF IInv, ArmedInState, modeVars
  <1>14. QED BY <1>8, <1>11, <1>12, <1>13 DEF IInv

\* BeginCo2Warmup keeps the invariant.
LEMMA BeginCo2WarmupInv == ASSUME IInv, BeginCo2Warmup PROVE IInv'
  <1>1. LemmaContext(locks)
    BY LocksInContext DEF IInv
  <1>2. Touches(locks, locks', {"co2Awake", "co2Cpu"})
    BY <1>1, ReleaseTouches DEF BeginCo2Warmup, Handles
  <1>3. /\ locks' \in [Handles -> [held : BOOLEAN, count : Int]]
        /\ OwnershipExact' /\ NeverFalselyUnlocked'
    BY <1>2, LocksPreserved DEF BeginCo2Warmup, windowVars, Handles
  <1>4. TypeOK'
    BY <1>3 DEF IInv, TypeOK, BeginCo2Warmup, windowVars, genVars, loopVars, modeVars
  <1>5. WakeExact' /\ ArmedInState'
    BY DEF IInv, BeginCo2Warmup, WakeExact, ArmedInState, loopVars, modeVars
  <1>6. QED BY <1>3, <1>4, <1>5 DEF IInv

\* BeginCo2WarmupFails keeps the invariant.
LEMMA BeginCo2WarmupFailsInv == ASSUME IInv, BeginCo2WarmupFails PROVE IInv'
  <1>1. TypeOK' /\ OwnershipExact' /\ NeverFalselyUnlocked'
    BY DEF IInv, TypeOK, OwnershipExact, NeverFalselyUnlocked, AnyHeld, Held,
           BeginCo2WarmupFails, EnterBus, windowVars, genVars, modeVars
  <1>2. WakeExact' /\ ArmedInState'
    BY DEF IInv, BeginCo2WarmupFails, EnterBus, WakeExact, ArmedInState, modeVars
  <1>3. QED BY <1>1, <1>2 DEF IInv

\* PromoteCo2Warmup keeps the invariant.
LEMMA PromoteCo2WarmupInv == ASSUME IInv, PromoteCo2Warmup PROVE IInv'
  <1>1. LemmaContext(locks)
    BY LocksInContext DEF IInv
  <1>2. PICK l1 \in AcquireOutcomes(locks, "co2Awake", "co2Cpu") :
          locks' \in ReleaseOutcomes(l1, {"edgeAwake", "edgeCpu"}) \/ locks' = l1
    BY DEF PromoteCo2Warmup, HandoffReleased
  <1>3. Touches(locks, l1, {"co2Awake", "co2Cpu"})
    BY <1>1, AcquireTouches DEF Handles
  <1>4. Touches(l1, locks', {"edgeAwake", "edgeCpu"})
    <2>1. CASE locks' = l1
      BY <1>3, <2>1 DEF Touches
    <2>2. CASE locks' \in ReleaseOutcomes(l1, {"edgeAwake", "edgeCpu"})
      BY <1>3, <2>2, ReleaseTouches DEF Handles, Touches, LemmaContext
    <2>3. QED BY <1>2, <2>1, <2>2
  <1>5. Touches(locks, locks', {"edgeAwake", "edgeCpu", "co2Awake", "co2Cpu"})
    BY <1>3, <1>4 DEF Touches
  <1>6. /\ locks' \in [Handles -> [held : BOOLEAN, count : Int]]
        /\ OwnershipExact' /\ NeverFalselyUnlocked'
    BY <1>5, LocksPreserved DEF PromoteCo2Warmup, windowVars, Handles
  <1>7. TypeOK'
    BY <1>6 DEF IInv, TypeOK, PromoteCo2Warmup, WarmupWakeOff, windowVars, genVars, loopVars, modeVars
  <1>8. WakeExact' /\ ArmedInState'
    BY DEF IInv, PromoteCo2Warmup, WarmupWakeOff, WakeExact, ArmedInState, loopVars, modeVars
  <1>9. QED BY <1>6, <1>7, <1>8 DEF IInv

\* LoopReconcile keeps the invariant.
LEMMA LoopReconcileInv == ASSUME IInv, LoopReconcile PROVE IInv'
  <1> DEFINE usbPair == {"usbAwake", "usbCpu"}
             co2 == {"co2Awake", "co2Cpu"}
             edge == {"edgeAwake", "edgeCpu"}
  <1>1. LemmaContext(locks)
    BY LocksInContext DEF IInv
  <1>2. PICK l1, l2 : /\ l1 \in RetryUsb(locks) \/ l1 = locks
                      /\ l2 \in RetryCo2(l1) \/ l2 = l1
                      /\ locks' \in DropHandoff(l2)
    BY DEF LoopReconcile
  <1>3. Touches(locks, l1, usbPair)
    <2>1. CASE l1 = locks
      BY <1>1, <2>1 DEF Touches, LemmaContext
    <2>2. CASE l1 \in AcquireOutcomes(locks, "usbAwake", "usbCpu")
      BY <1>1, <2>2, AcquireTouches DEF Handles
    <2>3. CASE l1 \in ReleaseOutcomes(locks, usbPair)
      BY <1>1, <2>3, ReleaseTouches DEF Handles
    <2>4. QED BY <1>2, <2>1, <2>2, <2>3 DEF RetryUsb
  <1>4. Touches(l1, l2, co2)
    <2>1. CASE l2 = l1
      BY <1>3, <2>1 DEF Touches
    <2>2. CASE l2 \in AcquireOutcomes(l1, "co2Awake", "co2Cpu")
      BY <1>3, <2>2, AcquireTouches DEF Handles, Touches, LemmaContext
    <2>3. CASE l2 \in ReleaseOutcomes(l1, co2)
      BY <1>3, <2>3, ReleaseTouches DEF Handles, Touches, LemmaContext
    <2>4. QED BY <1>2, <2>1, <2>2, <2>3 DEF RetryCo2
  <1>5. Touches(l2, locks', edge)
    <2>1. CASE locks' = l2
      BY <1>4, <2>1 DEF Touches
    <2>2. CASE locks' \in ReleaseOutcomes(l2, edge)
      BY <1>4, <2>2, ReleaseTouches DEF Handles, Touches, LemmaContext
    <2>3. QED BY <1>2, <2>1, <2>2 DEF DropHandoff, HandoffReleased
  <1>6. Touches(locks, locks', usbPair \cup co2 \cup edge)
    BY <1>3, <1>4, <1>5 DEF Touches
  <1>7. /\ locks' \in [Handles -> [held : BOOLEAN, count : Int]]
        /\ OwnershipExact' /\ NeverFalselyUnlocked'
    BY <1>6, LocksPreserved DEF LoopReconcile, windowVars, Handles
  <1>8. retryAge' \in 0 .. RetryPeriod
    BY ZeroInRange DEF IInv, TypeOK, LoopReconcile
  <1>9. TypeOK'
    BY <1>7, <1>8 DEF IInv, TypeOK, LoopReconcile, co2Vars, wakeVars, windowVars, genVars, modeVars
  <1>10. WakeExact' /\ ArmedInState'
    BY DEF IInv, LoopReconcile, WakeExact, ArmedInState, co2Vars, wakeVars, modeVars
  <1>11. QED BY <1>7, <1>9, <1>10 DEF IInv

\* LoopWindow keeps the invariant.
LEMMA LoopWindowInv == ASSUME IInv, LoopWindow PROVE IInv'
  <1>1. LemmaContext(locks)
    BY LocksInContext DEF IInv
  <1>2. /\ locks' \in [Handles -> [held : BOOLEAN, count : Int]]
        /\ OwnershipExact' /\ NeverFalselyUnlocked'
        /\ lock_held' \in BOOLEAN /\ rtrh_complete' \in BOOLEAN /\ co2_after_rtrh' \in BOOLEAN
    <2>1. CASE WindowMayClose
      <3>1. locks' \in ReleaseOutcomes(locks, {"awake", "cpu"}) /\ CloseWindow(locks')
        BY <2>1 DEF LoopWindow
      <3>2. Touches(locks, locks', {"awake", "cpu"})
        BY <1>1, <3>1, ReleaseTouches DEF Handles
      <3>3. NeverFalselyUnlocked'
        BY <2>1, <3>1 DEF WindowMayClose, CloseWindow, NeverFalselyUnlocked, AnyHeld, Held
      <3>4. QED
        BY <3>1, <3>2, <3>3 DEF Touches, LockStates, Exact, OwnershipExact, CloseWindow, IInv, TypeOK
    <2>2. CASE ~WindowMayClose
      BY <2>2 DEF LoopWindow, IInv, TypeOK, OwnershipExact, NeverFalselyUnlocked, AnyHeld, Held
    <2>3. QED BY <2>1, <2>2
  <1>3. TypeOK'
    BY <1>2 DEF IInv, TypeOK, LoopWindow, co2Vars, wakeVars, genVars, modeVars
  <1>4. WakeExact' /\ ArmedInState'
    BY DEF IInv, LoopWindow, WakeExact, ArmedInState, co2Vars, wakeVars, modeVars
  <1>5. QED BY <1>2, <1>3, <1>4 DEF IInv

\* The calls and environment steps that touch neither locks nor wake sources.
LEMMA PlainStepInv ==
    ASSUME IInv,
           \/ Setup \/ OnRtrhComplete \/ OnValidCo2 \/ Tick \/ Heal
           \/ \E busy \in BOOLEAN : SetTransportBusy(busy)
           \/ UNCHANGED vars
    PROVE  IInv'
  <1>1. /\ UNCHANGED <<co2Vars, wakeVars, genVars, locks, lock_held, now_us, pc, external_power>>
        /\ configured' \in BOOLEAN /\ transport_busy' \in BOOLEAN /\ faulty' \in BOOLEAN
        /\ rtrh_complete' \in BOOLEAN /\ co2_after_rtrh' \in BOOLEAN
    BY DEF IInv, TypeOK, Setup, OnRtrhComplete, OnValidCo2, Tick, Heal, SetTransportBusy,
           vars, windowVars, loopVars, modeVars, co2Vars, FullyHeld, Held
  <1>2. windowAge' \in 0 .. MaxAwake + DrainGrace /\ retryAge' \in 0 .. RetryPeriod
    <2>1. CASE Tick
      BY <2>1, PowerSaveAssumption DEF Tick, IInv, TypeOK
    <2>2. CASE ~Tick
      BY <2>2 DEF IInv, TypeOK, Setup, OnRtrhComplete, OnValidCo2, Heal, SetTransportBusy,
                  vars, windowVars, loopVars, modeVars
    <2>3. QED BY <2>1, <2>2
  <1>3. TypeOK' /\ OwnershipExact' /\ NeverFalselyUnlocked'
    BY <1>1, <1>2 DEF IInv, TypeOK, OwnershipExact, NeverFalselyUnlocked, AnyHeld, Held,
                      co2Vars, wakeVars, genVars
  <1>4. WakeExact' /\ ArmedInState'
    BY <1>1 DEF IInv, WakeExact, ArmedInState, co2Vars, wakeVars
  <1>5. QED BY <1>3, <1>4 DEF IInv

\* Every step keeps the invariant.
LEMMA NextInv == IInv /\ [Next]_vars => IInv'
  <1> SUFFICES ASSUME IInv, [Next]_vars PROVE IInv'
    OBVIOUS
  <1>1. CASE RtRhEdge
    BY <1>1, RtRhEdgeInv
  <1>2. CASE Co2Edge
    BY <1>2, Co2EdgeInv
  <1>3. CASE \E present \in BOOLEAN : SetExternalPower(present)
    BY <1>3, SetExternalPowerInv
  <1>4. CASE \E pd \in BOOLEAN : SetCo2BusPoweredDown(pd)
    BY <1>4, SetCo2BusInv
  <1>5. CASE ApplyBus
    BY <1>5, ApplyBusInv
  <1>6. CASE BeginCo2Warmup
    BY <1>6, BeginCo2WarmupInv
  <1>7. CASE BeginCo2WarmupFails
    BY <1>7, BeginCo2WarmupFailsInv
  <1>8. CASE PromoteCo2Warmup
    BY <1>8, PromoteCo2WarmupInv
  <1>9. CASE LoopReconcile
    BY <1>9, LoopReconcileInv
  <1>10. CASE LoopWindow
    BY <1>10, LoopWindowInv
  <1>11. QED
    BY <1>1, <1>2, <1>3, <1>4, <1>5, <1>6, <1>7, <1>8, <1>9, <1>10, PlainStepInv DEF Next

-----------------------------------------------------------------------------
(* The theorems. *)

\* The inductive invariant holds in every reachable state.
THEOREM Inductive == Spec => []IInv
  BY InitInv, NextInv, PTL DEF Spec

\* power_save.cpp keeps every variable in its range.
THEOREM TypeCorrect == Spec => []TypeOK
  <1>1. IInv => TypeOK
    BY DEF IInv
  <1>2. QED BY <1>1, Inductive, PTL

\* For every one of the eight handles the driver's flag and the count of
\* esp_pm agree in every state, whichever calls fail and wherever the two
\* interrupt handlers run: no handle is acquired recursively or released twice.
THEOREM OwnershipIsExact == Spec => []OwnershipExact
  <1>1. IInv => OwnershipExact
    BY DEF IInv
  <1>2. QED BY <1>1, Inductive, PTL

\* The RT/RH window is never shown as closed while one of its handles is owned.
THEOREM NoFalseUnlock == Spec => []NeverFalselyUnlocked
  <1>1. IInv => NeverFalselyUnlocked
    BY DEF IInv
  <1>2. QED BY <1>1, Inductive, PTL

\* A warm-up can always be left by a bus edge, and SCL HIGH is armed for a
\* powered-down bus only.
THEOREM WakeIsSound == Spec => []WakeMatchesBusState
  <1>1. IInv => WakeMatchesBusState
    BY DEF IInv, WakeExact, ArmedInState, WakeMatchesBusState
  <1>2. QED BY <1>1, Inductive, PTL

\* USB policy leaves no CO2 wake source and no warm-up behind.
THEOREM UsbDisarmsAll == Spec => []UsbIsQuiescent
  <1>1. IInv => UsbIsQuiescent
    BY DEF IInv, WakeExact, ArmedInState, UsbIsQuiescent
  <1>2. QED BY <1>1, Inductive, PTL

\* What PromoteCo2Warmup does with the two sleep locks.
LEMMA PromotionCovered ==
    ASSUME IInv, PromoteCo2Warmup, locks["edgeAwake"].count > 0
    PROVE  locks'["co2Awake"].count > 0 \/ locks'["edgeAwake"].count > 0
  <1>1. LemmaContext(locks)
    BY LocksInContext DEF IInv
  <1>2. PICK l1 \in AcquireOutcomes(locks, "co2Awake", "co2Cpu") :
          locks' \in HandoffReleased(l1)
    BY DEF PromoteCo2Warmup
  <1>3. Touches(locks, l1, {"co2Awake", "co2Cpu"})
    BY <1>1, AcquireTouches DEF Handles
  <1>4. CASE FullyHeld(l1, "co2Awake", "co2Cpu")
    <2>1. Touches(l1, locks', {"edgeAwake", "edgeCpu"})
      BY <1>2, <1>3, <1>4, ReleaseTouches DEF HandoffReleased, Handles, Touches, LemmaContext
    <2>2. locks'["co2Awake"] = l1["co2Awake"]
      BY <2>1 DEF Touches, Handles
    <2>3. l1["co2Awake"].count = 1
      BY <1>3, <1>4 DEF Touches, Exact, FullyHeld, Held, Handles
    <2>4. QED BY <2>2, <2>3
  <1>5. CASE ~FullyHeld(l1, "co2Awake", "co2Cpu")
    <2>1. locks' = l1
      BY <1>2, <1>5 DEF HandoffReleased
    <2>2. l1["edgeAwake"] = locks["edgeAwake"]
      BY <1>3 DEF Touches, Handles
    <2>3. QED BY <2>1, <2>2
  <1>6. QED BY <1>4, <1>5

\* Promotion from warm-up to the full-power window leaves no gap, whatever the
\* lock calls return: the task's sleep lock is owned before the interrupt's is
\* given back, or the interrupt's is kept.  Only PromoteCo2Warmup leaves a
\* warm-up in one step on battery (<1>1), and that step is covered.
THEOREM PromotionIsSeamless == Spec => PromotionKeepsAwake
  <1> DEFINE Leaving == /\ pc = "idle" /\ pc' = "idle"
                        /\ co2_warmup /\ ~co2_warmup' /\ ~external_power'
  <1>1. ASSUME IInv, Next, Leaving PROVE PromoteCo2Warmup
    <2>1. CASE \E present \in BOOLEAN : SetExternalPower(present)
      <3>1. PICK present \in BOOLEAN : SetExternalPower(present)
        BY <2>1
      <3>2. external_power' = present
        BY <3>1 DEF SetExternalPower
      <3>3. ~present
        BY <1>1, <3>2
      <3>4. UNCHANGED co2Vars
        BY <3>1, <3>3 DEF SetExternalPower
      <3>5. QED BY <1>1, <3>4 DEF co2Vars
    <2>2. CASE \E pd \in BOOLEAN : SetCo2BusPoweredDown(pd)
      <3>1. PICK pd \in BOOLEAN : SetCo2BusPoweredDown(pd)
        BY <2>2
      <3>2. external_power' = external_power
        BY <3>1 DEF SetCo2BusPoweredDown, modeVars
      <3>3. ~external_power
        BY <1>1, <3>2
      <3>4. UNCHANGED co2_warmup
        BY <3>1, <3>3 DEF SetCo2BusPoweredDown
      <3>5. QED BY <1>1, <3>4
    <2>3. CASE RtRhEdge \/ Co2Edge \/ Setup
      BY <1>1, <2>3 DEF RtRhEdge, Co2Edge, Setup, co2Vars
    <2>4. CASE ApplyBus \/ BeginCo2Warmup \/ BeginCo2WarmupFails
      BY <1>1, <2>4 DEF ApplyBus, BeginCo2Warmup, BeginCo2WarmupFails
    <2>5. CASE \/ OnRtrhComplete \/ OnValidCo2 \/ LoopReconcile \/ LoopWindow \/ Tick \/ Heal
               \/ \E busy \in BOOLEAN : SetTransportBusy(busy)
      BY <1>1, <2>5 DEF OnRtrhComplete, OnValidCo2, LoopReconcile, LoopWindow, Tick, Heal,
                        SetTransportBusy, co2Vars
    <2>6. QED BY <1>1, <2>1, <2>2, <2>3, <2>4, <2>5 DEF Next
  <1>2. IInv /\ [Next]_vars => [KeepsAwake]_vars
    <2> SUFFICES ASSUME IInv, Next, Leaving, locks["edgeAwake"].count > 0
                 PROVE  locks'["co2Awake"].count > 0 \/ locks'["edgeAwake"].count > 0
      BY DEF KeepsAwake
    <2>1. QED BY <1>1, PromotionCovered
  <1>3. QED BY <1>2, Inductive, PTL DEF Spec, PromotionKeepsAwake

\* A step keeps DeadBusNotAwaited: the two flags it relates are written together
\* wherever one of them can become TRUE outside set_co2_bus_powered_down.
LEMMA DeadBusStep ==
    ASSUME DeadBusNotAwaited, [Next]_vars PROVE DeadBusNotAwaited'
  <1>1. CASE RtRhEdge
    BY <1>1 DEF RtRhEdge, OpenWindow, DeadBusNotAwaited
  <1>2. CASE \E present \in BOOLEAN : SetExternalPower(present)
    <2>1. PICK present \in BOOLEAN : SetExternalPower(present)
      BY <1>2
    <2>2. UNCHANGED <<windowVars, loopVars>>
      BY <2>1 DEF SetExternalPower
    <2>3. co2_powered_down' => co2_powered_down
      BY <2>1 DEF SetExternalPower, UsbDropsCo2, co2Vars
    <2>4. QED BY <2>2, <2>3 DEF windowVars, loopVars, DeadBusNotAwaited
  <1>3. CASE \E pd \in BOOLEAN : SetCo2BusPoweredDown(pd)
    <2>1. PICK pd \in BOOLEAN : SetCo2BusPoweredDown(pd)
      BY <1>3
    <2>2. UNCHANGED windowVars /\ pc = "idle"
      BY <2>1 DEF SetCo2BusPoweredDown
    <2>3. pc' = "bus" \/ (co2_powered_down' => co2_powered_down)
      BY <2>1 DEF SetCo2BusPoweredDown, UsbDropsCo2, EnterBus
    <2>4. QED BY <2>2, <2>3 DEF windowVars, DeadBusNotAwaited
  <1>4. CASE ApplyBus
    BY <1>4 DEF ApplyBus, NothingToAwait, DeadBusNotAwaited
  <1>5. CASE BeginCo2Warmup \/ BeginCo2WarmupFails
    BY <1>5 DEF BeginCo2Warmup, BeginCo2WarmupFails, EnterBus, windowVars, loopVars,
                DeadBusNotAwaited
  <1>6. CASE OnRtrhComplete
    BY <1>6 DEF OnRtrhComplete, co2Vars, DeadBusNotAwaited
  <1>7. CASE LoopWindow
    <2>1. \/ lock_held' = FALSE
          \/ UNCHANGED <<lock_held, rtrh_complete, co2_after_rtrh>>
      BY <1>7 DEF LoopWindow, CloseWindow
    <2>2. UNCHANGED co2_powered_down /\ pc = "window"
      BY <1>7 DEF LoopWindow, co2Vars
    <2>3. QED BY <2>1, <2>2 DEF DeadBusNotAwaited
  <1>8. CASE \/ Co2Edge \/ Setup \/ PromoteCo2Warmup \/ OnValidCo2 \/ LoopReconcile
             \/ Tick \/ Heal \/ \E busy \in BOOLEAN : SetTransportBusy(busy)
             \/ UNCHANGED vars
    BY <1>8 DEF Co2Edge, Setup, PromoteCo2Warmup, OnValidCo2, LoopReconcile, Tick, Heal,
                SetTransportBusy, vars, co2Vars, windowVars, loopVars, DeadBusNotAwaited
  <1>9. QED
    BY <1>1, <1>2, <1>3, <1>4, <1>5, <1>6, <1>7, <1>8 DEF Next

\* An RT/RH window never waits for CO2 from a bus known to be dead.
THEOREM DeadBusIsNotAwaited == Spec => []DeadBusNotAwaited
  <1>1. Init => DeadBusNotAwaited
    BY DEF Init, DeadBusNotAwaited
  <1>2. DeadBusNotAwaited /\ [Next]_vars => DeadBusNotAwaited'
    BY DeadBusStep
  <1>3. QED BY <1>1, <1>2, PTL DEF Spec

-----------------------------------------------------------------------------
(* Drivers that do not fail: the locks are those the policy wants. *)

\* Which handles the mode, the window and the bus state call for.  While
\* set_co2_bus_powered_down is half done the CO2 pair is between two states.
HealthyInv ==
    /\ ~faulty
    /\ Held(locks, "awake") <=> lock_held
    /\ Held(locks, "cpu") <=> lock_held
    /\ Held(locks, "edgeAwake") <=> Held(locks, "edgeCpu")
    /\ Held(locks, "usbAwake") => external_power
    /\ Held(locks, "usbCpu") => external_power
    /\ external_power => ~co2_state_initialized
    /\ pc = "bus" => co2_state_initialized
    /\ pc # "bus" => /\ Held(locks, "edgeAwake") => co2_warmup
                     /\ Held(locks, "co2Awake") <=> Co2ShouldBeHeld
                     /\ Held(locks, "co2Cpu") <=> Co2ShouldBeHeld
                     /\ co2_warmup => co2_state_initialized /\ ~co2_powered_down

\* A release that does not fail gives back all it is asked to.
LEMMA HealthyRelease ==
    ASSUME ~faulty, NEW l, LemmaContext(l), NEW H \in SUBSET Handles,
           NEW m \in ReleaseOutcomes(l, H)
    PROVE  /\ LemmaContext(m)
           /\ \A h \in H : ~Held(m, h)
           /\ \A h \in Handles \ H : m[h] = l[h]
  <1>1. m = [h \in Handles |-> IF h \in {x \in H : Held(l, x)} THEN Released(l, h)[h] ELSE l[h]]
    BY DEF ReleaseOutcomes
  <1>2. Touches(l, m, H)
    BY ReleaseTouches
  <1>3. ASSUME NEW h \in H PROVE ~Held(m, h)
    <2>1. CASE Held(l, h)
      <3>1. m[h] = [held |-> FALSE, count |-> l[h].count - 1]
        BY <1>1, <2>1 DEF Released, LemmaContext, LockStates
      <3>2. QED BY <3>1 DEF Held
    <2>2. CASE ~Held(l, h)
      BY <1>1, <2>2 DEF Held
    <2>3. QED BY <2>1, <2>2
  <1>4. QED BY <1>2, <1>3 DEF Touches, LemmaContext

\* An acquire that does not fail leaves the whole pair owned.
LEMMA HealthyAcquire ==
    ASSUME ~faulty, NEW l, LemmaContext(l), NEW s \in Handles, NEW c \in Handles, s # c,
           NEW m \in AcquireOutcomes(l, s, c)
    PROVE  /\ LemmaContext(m)
           /\ Held(m, s) /\ Held(m, c)
           /\ \A h \in Handles \ {s, c} : m[h] = l[h]
  <1> DEFINE afterSleep == IF Held(l, s) THEN l ELSE Acquired(l, s)
             both == IF Held(l, c) THEN afterSleep ELSE Acquired(afterSleep, c)
  <1>1. m = both
    BY DEF AcquireOutcomes
  <1>2. Touches(l, m, {s, c})
    BY AcquireTouches
  <1>3. /\ LemmaContext(afterSleep) /\ Held(afterSleep, s)
        /\ Held(afterSleep, c) <=> Held(l, c)
    BY AcquiredTouches DEF Touches, LemmaContext, Held
  <1>4. Held(m, s) /\ Held(m, c)
    <2>1. CASE Held(l, c)
      BY <1>1, <1>3, <2>1
    <2>2. CASE ~Held(l, c)
      <3>1. Touches(afterSleep, m, {c}) /\ Held(m, c)
        BY <1>1, <1>3, <2>2, AcquiredTouches
      <3>2. QED BY <1>3, <3>1 DEF Touches, Held
    <2>3. QED BY <2>1, <2>2
  <1>5. QED BY <1>2, <1>4 DEF Touches, LemmaContext

\* The steps that leave the lock handles alone.
LEMMA HealthyPlain ==
    ASSUME IInv, HealthyInv,
           \/ Setup \/ OnRtrhComplete \/ OnValidCo2 \/ Tick \/ Heal
           \/ \E busy \in BOOLEAN : SetTransportBusy(busy)
           \/ UNCHANGED vars
    PROVE  HealthyInv'
  <1>1. UNCHANGED <<co2Vars, locks, lock_held, pc, external_power, faulty>>
    BY DEF HealthyInv, Setup, OnRtrhComplete, OnValidCo2, Tick, Heal, SetTransportBusy,
           vars, windowVars, loopVars, modeVars, co2Vars
  <1>2. QED BY <1>1 DEF HealthyInv, Held, Co2ShouldBeHeld, co2Vars

\* The two interrupt handlers take pairs.
LEMMA HealthyEdges ==
    ASSUME IInv, HealthyInv, RtRhEdge \/ Co2Edge PROVE HealthyInv'
  <1>1. LemmaContext(locks)
    BY LocksInContext DEF IInv
  <1>2. CASE RtRhEdge
    <2> DEFINE one == Acquired(locks, "awake")
    <2>1. ~Held(locks, "awake") /\ ~Held(locks, "cpu")
      BY <1>2 DEF HealthyInv, RtRhEdge
    <2>2. locks' = Acquired(one, "cpu") /\ lock_held' = TRUE
      BY <1>2 DEF RtRhEdge, OpenWindow, HealthyInv
    <2>3. /\ LemmaContext(one) /\ Held(one, "awake") /\ ~Held(one, "cpu")
          /\ \A h \in Handles \ {"awake"} : one[h] = locks[h]
      BY <1>1, <2>1, AcquiredTouches DEF Touches, LemmaContext, Handles, Held
    <2>4. Held(locks', "cpu") /\ \A h \in Handles \ {"cpu"} : locks'[h] = one[h]
      BY <2>2, <2>3, AcquiredTouches DEF Touches, Handles
    <2>5. Held(locks', "awake")
      BY <2>3, <2>4 DEF Handles, Held
    <2>6. \A h \in Handles \ {"awake", "cpu"} : locks'[h] = locks[h]
      BY <2>3, <2>4
    <2>7. UNCHANGED <<co2Vars, external_power, faulty, pc>>
      BY <1>2 DEF RtRhEdge, modeVars
    <2>8. QED BY <2>2, <2>4, <2>5, <2>6, <2>7
              DEF HealthyInv, Held, Handles, Co2ShouldBeHeld, co2Vars
  <1>3. CASE Co2Edge
    <2> DEFINE one == Acquired(locks, "edgeAwake")
    <2>1. ~Held(locks, "edgeAwake") /\ ~Held(locks, "edgeCpu") /\ co2_warmup
      BY <1>3 DEF Co2Edge, Co2EdgeCounts, AnyHeld
    <2>2. locks' = Acquired(one, "edgeCpu")
      BY <1>3 DEF Co2Edge, HealthyInv
    <2>3. /\ LemmaContext(one) /\ Held(one, "edgeAwake") /\ ~Held(one, "edgeCpu")
          /\ \A h \in Handles \ {"edgeAwake"} : one[h] = locks[h]
      BY <1>1, <2>1, AcquiredTouches DEF Touches, LemmaContext, Handles, Held
    <2>4. Held(locks', "edgeCpu") /\ \A h \in Handles \ {"edgeCpu"} : locks'[h] = one[h]
      BY <2>2, <2>3, AcquiredTouches DEF Touches, Handles
    <2>5. Held(locks', "edgeAwake")
      BY <2>3, <2>4 DEF Handles, Held
    <2>6. \A h \in Handles \ {"edgeAwake", "edgeCpu"} : locks'[h] = locks[h]
      BY <2>3, <2>4
    <2>7. UNCHANGED <<co2Vars, lock_held, external_power, faulty, pc>>
      BY <1>3 DEF Co2Edge, modeVars, windowVars, loopVars
    <2>8. QED BY <2>1, <2>4, <2>5, <2>6, <2>7
              DEF HealthyInv, Held, Handles, Co2ShouldBeHeld, co2Vars
  <1>4. QED BY <1>2, <1>3

\* set_external_power: on USB the CO2 machinery lets go, on battery the USB pair.
LEMMA HealthyPower ==
    ASSUME IInv, HealthyInv, NEW present \in BOOLEAN, SetExternalPower(present)
    PROVE  HealthyInv'
  <1>1. LemmaContext(locks) /\ ~faulty
    BY LocksInContext DEF IInv, HealthyInv
  <1>2. /\ pc = "idle" /\ pc' = "idle" /\ external_power' = present
        /\ UNCHANGED <<lock_held, faulty>>
    BY DEF SetExternalPower, windowVars, loopVars
  <1>3. CASE present
    <2>1. PICK l1 \in ReleaseOutcomes(locks, {"edgeAwake", "edgeCpu"}) :
          \E l2 \in ReleaseOutcomes(l1, {"co2Awake", "co2Cpu"}) :
             locks' \in AcquireOutcomes(l2, "usbAwake", "usbCpu") \/ locks' = l2
      BY <1>3 DEF SetExternalPower
    <2>2. /\ LemmaContext(l1) /\ ~Held(l1, "edgeAwake") /\ ~Held(l1, "edgeCpu")
          /\ l1["awake"] = locks["awake"] /\ l1["cpu"] = locks["cpu"]
      BY <1>1, <2>1, HealthyRelease DEF Handles
    <2>3. PICK l2 \in ReleaseOutcomes(l1, {"co2Awake", "co2Cpu"}) :
             locks' \in AcquireOutcomes(l2, "usbAwake", "usbCpu") \/ locks' = l2
      BY <2>1
    <2>4. /\ LemmaContext(l2) /\ ~Held(l2, "co2Awake") /\ ~Held(l2, "co2Cpu")
          /\ \A h \in {"awake", "cpu", "edgeAwake", "edgeCpu"} : l2[h] = l1[h]
      BY <1>1, <2>2, <2>3, HealthyRelease DEF Handles
    <2>5. \A h \in {"awake", "cpu", "edgeAwake", "edgeCpu", "co2Awake", "co2Cpu"} :
             locks'[h] = l2[h]
      BY <1>1, <2>3, <2>4, HealthyAcquire DEF Handles
    <2>6. co2_warmup' = FALSE /\ co2_state_initialized' = FALSE
      BY <1>3 DEF SetExternalPower, UsbDropsCo2
    <2>7. QED BY <1>2, <1>3, <2>2, <2>4, <2>5, <2>6 DEF HealthyInv, Held, Co2ShouldBeHeld
  <1>4. CASE ~present
    <2>1. locks' \in ReleaseOutcomes(locks, {"usbAwake", "usbCpu"}) /\ UNCHANGED co2Vars
      BY <1>4 DEF SetExternalPower
    <2>2. /\ ~Held(locks', "usbAwake") /\ ~Held(locks', "usbCpu")
          /\ \A h \in Handles \ {"usbAwake", "usbCpu"} : locks'[h] = locks[h]
      BY <1>1, <2>1, HealthyRelease DEF Handles
    <2>3. Co2ShouldBeHeld' <=> Co2ShouldBeHeld
      BY <1>2, <1>4, <2>1 DEF HealthyInv, Co2ShouldBeHeld, co2Vars
    <2>4. QED BY <1>2, <1>4, <2>1, <2>2, <2>3 DEF HealthyInv, Held, Handles, co2Vars
  <1>5. QED BY <1>3, <1>4

\* set_co2_bus_powered_down and its second half.
LEMMA HealthyBus ==
    ASSUME IInv, HealthyInv, (\E pd \in BOOLEAN : SetCo2BusPoweredDown(pd)) \/ ApplyBus
    PROVE  HealthyInv'
  <1>1. LemmaContext(locks) /\ ~faulty
    BY LocksInContext DEF IInv, HealthyInv
  <1>2. ASSUME NEW pd \in BOOLEAN, SetCo2BusPoweredDown(pd) PROVE HealthyInv'
    <2>1. /\ pc = "idle" /\ UNCHANGED <<lock_held, external_power, faulty>>
      BY <1>2 DEF SetCo2BusPoweredDown, windowVars, modeVars
    <2>2. CASE external_power
      <3>1. PICK l1 \in ReleaseOutcomes(locks, {"edgeAwake", "edgeCpu"}) :
               locks' \in ReleaseOutcomes(l1, {"co2Awake", "co2Cpu"})
        BY <1>2, <2>2 DEF SetCo2BusPoweredDown
      <3>2. /\ LemmaContext(l1) /\ ~Held(l1, "edgeAwake") /\ ~Held(l1, "edgeCpu")
            /\ \A h \in Handles \ {"edgeAwake", "edgeCpu"} : l1[h] = locks[h]
        BY <1>1, <3>1, HealthyRelease DEF Handles
      <3>3. /\ ~Held(locks', "co2Awake") /\ ~Held(locks', "co2Cpu")
            /\ \A h \in Handles \ {"co2Awake", "co2Cpu"} : locks'[h] = l1[h]
        BY <1>1, <3>1, <3>2, HealthyRelease DEF Handles
      <3>4. co2_warmup' = FALSE /\ co2_state_initialized' = FALSE /\ pc' = "idle"
        BY <1>2, <2>1, <2>2 DEF SetCo2BusPoweredDown, UsbDropsCo2
      <3>5. QED BY <2>1, <2>2, <3>2, <3>3, <3>4 DEF HealthyInv, Held, Handles, Co2ShouldBeHeld
    <2>3. CASE ~external_power
      <3>1. EnterBus(pd) /\ UNCHANGED <<co2_warmup, locks>>
        BY <1>2, <2>3 DEF SetCo2BusPoweredDown
      <3>2. CASE UNCHANGED <<co2_state_initialized, co2_powered_down, pc>>
        BY <2>1, <3>1, <3>2 DEF HealthyInv, Held, Co2ShouldBeHeld
      <3>3. CASE co2_state_initialized' = TRUE /\ pc' = "bus"
        BY <2>1, <2>3, <3>1, <3>3 DEF HealthyInv, Held
      <3>4. QED BY <3>1, <3>2, <3>3 DEF EnterBus
    <2>4. QED BY <2>2, <2>3
  <1>3. CASE ApplyBus
    <2>1. PICK l1 \in ReleaseOutcomes(locks, {"edgeAwake", "edgeCpu"}) :
             \/ co2_powered_down /\ locks' \in ReleaseOutcomes(l1, {"co2Awake", "co2Cpu"})
             \/ ~co2_powered_down /\ locks' \in AcquireOutcomes(l1, "co2Awake", "co2Cpu")
      BY <1>3 DEF ApplyBus
    <2>2. /\ LemmaContext(l1) /\ ~Held(l1, "edgeAwake") /\ ~Held(l1, "edgeCpu")
          /\ \A h \in Handles \ {"edgeAwake", "edgeCpu"} : l1[h] = locks[h]
      BY <1>1, <2>1, HealthyRelease DEF Handles
    <2>3. /\ \A h \in Handles \ {"co2Awake", "co2Cpu"} : locks'[h] = l1[h]
          /\ co2_powered_down => ~Held(locks', "co2Awake") /\ ~Held(locks', "co2Cpu")
          /\ ~co2_powered_down => Held(locks', "co2Awake") /\ Held(locks', "co2Cpu")
      <3>1. CASE co2_powered_down
        BY <1>1, <2>1, <2>2, <3>1, HealthyRelease DEF Handles
      <3>2. CASE ~co2_powered_down
        BY <1>1, <2>1, <2>2, <3>2, HealthyAcquire DEF Handles
      <3>3. QED BY <3>1, <3>2
    <2>4. /\ pc = "bus" /\ pc' = "idle" /\ co2_warmup' = FALSE
          /\ UNCHANGED <<co2_state_initialized, co2_powered_down, lock_held, external_power,
                         faulty>>
      BY <1>3 DEF ApplyBus, modeVars
    <2>5. co2_state_initialized /\ ~external_power
      BY <2>4 DEF HealthyInv
    <2>6. QED BY <2>2, <2>3, <2>4, <2>5 DEF HealthyInv, Held, Handles, Co2ShouldBeHeld
  <1>4. QED BY <1>2, <1>3

\* The warm-up begins without the CO2 pair and is promoted with it.
LEMMA HealthyWarmup ==
    ASSUME IInv, HealthyInv, BeginCo2Warmup \/ BeginCo2WarmupFails \/ PromoteCo2Warmup
    PROVE  HealthyInv'
  <1>1. LemmaContext(locks) /\ ~faulty
    BY LocksInContext DEF IInv, HealthyInv
  <1>2. CASE BeginCo2Warmup
    <2>1. locks' \in ReleaseOutcomes(locks, {"co2Awake", "co2Cpu"})
      BY <1>2 DEF BeginCo2Warmup
    <2>2. /\ ~Held(locks', "co2Awake") /\ ~Held(locks', "co2Cpu")
          /\ \A h \in Handles \ {"co2Awake", "co2Cpu"} : locks'[h] = locks[h]
      BY <1>1, <2>1, HealthyRelease DEF Handles
    <2>3. /\ pc = "idle" /\ co2_warmup' = TRUE /\ co2_state_initialized' = TRUE
          /\ co2_powered_down' = FALSE /\ ~external_power
          /\ UNCHANGED <<lock_held, external_power, faulty, pc>>
      BY <1>2 DEF BeginCo2Warmup, windowVars, loopVars, modeVars
    <2>4. QED BY <2>2, <2>3 DEF HealthyInv, Held, Handles, Co2ShouldBeHeld
  <1>3. CASE BeginCo2WarmupFails
    BY <1>1, <1>3 DEF BeginCo2WarmupFails
  <1>4. CASE PromoteCo2Warmup
    <2>1. PICK l1 \in AcquireOutcomes(locks, "co2Awake", "co2Cpu") :
             locks' \in HandoffReleased(l1)
      BY <1>4 DEF PromoteCo2Warmup
    <2>2. /\ LemmaContext(l1) /\ Held(l1, "co2Awake") /\ Held(l1, "co2Cpu")
          /\ \A h \in Handles \ {"co2Awake", "co2Cpu"} : l1[h] = locks[h]
      BY <1>1, <2>1, HealthyAcquire DEF Handles
    <2>3. locks' \in ReleaseOutcomes(l1, {"edgeAwake", "edgeCpu"})
      BY <2>1, <2>2 DEF HandoffReleased, FullyHeld
    <2>4. /\ ~Held(locks', "edgeAwake") /\ ~Held(locks', "edgeCpu")
          /\ \A h \in Handles \ {"edgeAwake", "edgeCpu"} : locks'[h] = l1[h]
      BY <1>1, <2>2, <2>3, HealthyRelease DEF Handles
    <2>5. /\ pc = "idle" /\ co2_warmup /\ co2_warmup' = FALSE /\ ~external_power
          /\ UNCHANGED <<lock_held, external_power, faulty, pc, co2_state_initialized,
                         co2_powered_down>>
      BY <1>4 DEF PromoteCo2Warmup, windowVars, loopVars, modeVars
    <2>6. co2_state_initialized /\ ~co2_powered_down
      BY <2>5 DEF HealthyInv
    <2>7. Held(locks', "co2Awake") /\ Held(locks', "co2Cpu")
      BY <2>2, <2>4 DEF Held, Handles
    <2>8. QED BY <2>2, <2>4, <2>5, <2>6, <2>7 DEF HealthyInv, Held, Handles, Co2ShouldBeHeld
  <1>5. QED BY <1>2, <1>3, <1>4

\* loop(): the retry finds at most a missing USB pair, and the window gives back
\* both of its handles.
LEMMA HealthyLoop ==
    ASSUME IInv, HealthyInv, LoopReconcile \/ LoopWindow PROVE HealthyInv'
  <1>1. LemmaContext(locks) /\ ~faulty
    BY LocksInContext DEF IInv, HealthyInv
  <1>2. CASE LoopReconcile
    <2>1. PICK l1, l2 : /\ l1 \in RetryUsb(locks) \/ l1 = locks
                        /\ l2 \in RetryCo2(l1) \/ l2 = l1
                        /\ locks' \in DropHandoff(l2)
      BY <1>2 DEF LoopReconcile
    <2>2. /\ pc = "idle" /\ pc' = "window"
          /\ UNCHANGED <<co2Vars, lock_held, external_power, faulty>>
      BY <1>2 DEF LoopReconcile, windowVars, modeVars
    <2>3. ~BatteryHoldsUsb /\ ~Co2HeldTooLong /\ ~Co2LacksLocks
      BY <2>2 DEF HealthyInv, BatteryHoldsUsb, Co2HeldTooLong, Co2LacksLocks, Co2ShouldBeFree,
                  Co2ShouldBeHeld, AnyHeld, FullyHeld
    <2>4. /\ LemmaContext(l1)
          /\ \A h \in Handles \ {"usbAwake", "usbCpu"} : l1[h] = locks[h]
          /\ l1 = locks \/ external_power
      <3>1. CASE l1 = locks
        BY <1>1, <3>1
      <3>2. CASE l1 \in AcquireOutcomes(locks, "usbAwake", "usbCpu") /\ external_power
        BY <1>1, <3>2, HealthyAcquire DEF Handles
      <3>3. QED BY <2>1, <2>3, <3>1, <3>2 DEF RetryUsb, UsbLacksLocks
    <2>5. l2 = l1
      BY <2>1, <2>3 DEF RetryCo2
    <2>6. /\ \A h \in Handles \ {"edgeAwake", "edgeCpu"} : locks'[h] = l1[h]
          /\ \/ locks' = l1
             \/ ~co2_warmup /\ ~Held(locks', "edgeAwake") /\ ~Held(locks', "edgeCpu")
      <3>1. CASE locks' = l1
        BY <3>1
      <3>2. CASE ~co2_warmup /\ locks' \in ReleaseOutcomes(l1, {"edgeAwake", "edgeCpu"})
        BY <1>1, <2>4, <3>2, HealthyRelease DEF Handles
      <3>3. QED BY <2>1, <2>5, <3>1, <3>2 DEF DropHandoff, HandoffReleased
    <2>7. QED BY <2>2, <2>4, <2>6 DEF HealthyInv, Held, Handles, Co2ShouldBeHeld, co2Vars
  <1>3. CASE LoopWindow
    <2>1. /\ pc = "window" /\ pc' = "idle" /\ UNCHANGED <<co2Vars, external_power, faulty>>
      BY <1>3 DEF LoopWindow, modeVars
    <2>2. CASE WindowMayClose
      <3>1. locks' \in ReleaseOutcomes(locks, {"awake", "cpu"}) /\ CloseWindow(locks')
        BY <1>3, <2>2 DEF LoopWindow
      <3>2. /\ ~Held(locks', "awake") /\ ~Held(locks', "cpu")
            /\ \A h \in Handles \ {"awake", "cpu"} : locks'[h] = locks[h]
        BY <1>1, <3>1, HealthyRelease DEF Handles
      <3>3. lock_held' = FALSE
        BY <3>1, <3>2 DEF CloseWindow, AnyHeld
      <3>4. QED BY <2>1, <3>2, <3>3 DEF HealthyInv, Held, Handles, Co2ShouldBeHeld, co2Vars
    <2>3. CASE ~WindowMayClose
      <3>1. UNCHANGED <<locks, lock_held>>
        BY <1>3, <2>3 DEF LoopWindow
      <3>2. QED BY <2>1, <3>1 DEF HealthyInv, Held, Co2ShouldBeHeld, co2Vars
    <2>4. QED BY <2>2, <2>3
  <1>4. QED BY <1>2, <1>3

\* HealthyInv says what LocksMatchPolicy asks between two calls.
LEMMA HealthyImplies == ASSUME IInv, HealthyInv PROVE LocksMatchPolicy
  <1> SUFFICES ASSUME pc = "idle"
               PROVE  LET taken == {h \in Handles : locks[h].count > 0} IN
                      /\ taken \cap {"awake", "cpu"} = IF lock_held THEN {"awake", "cpu"} ELSE {}
                      /\ taken \cap {"co2Awake", "co2Cpu"}
                             = IF Co2ShouldBeHeld THEN {"co2Awake", "co2Cpu"} ELSE {}
                      /\ taken \cap {"edgeAwake", "edgeCpu"}
                             \in IF co2_warmup THEN {{}, {"edgeAwake", "edgeCpu"}} ELSE {{}}
                      /\ ~external_power => taken \cap {"usbAwake", "usbCpu"} = {}
    BY DEF LocksMatchPolicy
  <1> DEFINE taken == {h \in Handles : locks[h].count > 0}
  <1>1. \A h \in Handles : h \in taken <=> Held(locks, h)
    BY DEF IInv, OwnershipExact, Held
  <1>2. ASSUME NEW a \in Handles, NEW b \in Handles
        PROVE  /\ Held(locks, a) /\ Held(locks, b) => taken \cap {a, b} = {a, b}
               /\ ~Held(locks, a) /\ ~Held(locks, b) => taken \cap {a, b} = {}
    BY <1>1
  <1> HIDE DEF taken
  <1>3. taken \cap {"awake", "cpu"} = IF lock_held THEN {"awake", "cpu"} ELSE {}
    BY <1>2 DEF HealthyInv, Handles
  <1>4. taken \cap {"co2Awake", "co2Cpu"}
            = IF Co2ShouldBeHeld THEN {"co2Awake", "co2Cpu"} ELSE {}
    BY <1>2 DEF HealthyInv, Handles
  <1>5. taken \cap {"edgeAwake", "edgeCpu"}
            \in IF co2_warmup THEN {{}, {"edgeAwake", "edgeCpu"}} ELSE {{}}
    BY <1>2 DEF HealthyInv, Handles
  <1>6. ~external_power => taken \cap {"usbAwake", "usbCpu"} = {}
    BY <1>2 DEF HealthyInv, Handles
  <1>7. QED BY <1>3, <1>4, <1>5, <1>6 DEF taken

\* With drivers that do not fail, whoever calls power_save in whatever order, the
\* locks esp_pm counts between two calls are those the policy wants.
THEOREM LocksAreThePolicys == Spec /\ ~faulty => []LocksMatchPolicy
  <1>1. Init /\ ~faulty => HealthyInv
    <2> SUFFICES ASSUME Init, ~faulty PROVE HealthyInv
      OBVIOUS
    <2>1. \A h \in Handles : ~Held(locks, h)
      BY DEF Init, Free, Held
    <2>2. QED BY <2>1 DEF Init, HealthyInv, Handles, Co2ShouldBeHeld
  <1>2. IInv /\ HealthyInv /\ [Next]_vars => HealthyInv'
    BY HealthyPlain, HealthyEdges, HealthyPower, HealthyBus, HealthyWarmup, HealthyLoop DEF Next
  <1>3. IInv /\ HealthyInv => LocksMatchPolicy
    BY HealthyImplies
  <1>4. QED BY <1>1, <1>2, <1>3, Inductive, PTL DEF Spec

-----------------------------------------------------------------------------
(* The gate: capture and watch follow the phase. *)

\* Capture and watch are functions of the phase, in the middle of a pass too.
CaptureInv ==
    /\ exporting \in BOOLEAN /\ capture \in BOOLEAN /\ watch \in BOOLEAN
    /\ capture <=> phase \in {"Active", "Warmup"}
    /\ watch <=> phase = "Warmup"

\* Closing the capture and resetting the gate set capture and watch with the phase.
LEMMA CloseCaptureInv == ASSUME CaptureInv, CloseCapture, UNCHANGED exporting PROVE CaptureInv'
  BY DEF CaptureInv, CloseCapture, SetCaptureEnabled

\* The same for the reset.
LEMMA ResetGateInv == ASSUME CaptureInv, ResetGate PROVE CaptureInv'
  BY DEF CaptureInv, ResetGate, SetCaptureEnabled

\* Every step of the composed system keeps CaptureInv.
LEMMA CaptureStep ==
    ASSUME CaptureInv, [GateNext]_allVars PROVE CaptureInv'
  <1>1. ASSUME NEW force, ApplyPolicy(force) PROVE CaptureInv'
    BY <1>1, ResetGateInv DEF ApplyPolicy, CaptureInv, phaseVars, snifferVars
  <1>2. CASE FirstPolicy \/ EnergySaveGrace \/ UsbChange \/ EnergySaveSwitch
    BY <1>1, <1>2 DEF FirstPolicy, EnergySaveGrace, UsbChange, EnergySaveSwitch
  <1>3. CASE \/ PowerSetup \/ StartPass \/ GateWaitIdle \/ GateGuard \/ PollNothing \/ PollExport
             \/ MarkTransport \/ PowerReconcile \/ PowerWindow \/ FinishBus \/ RtrhDone
             \/ RtRhWake \/ NetChange \/ GateTick \/ DriversHeal \/ UNCHANGED allVars
             \/ \E low \in BOOLEAN : BusEdge(low)
    <2>1. \/ UNCHANGED <<phase, capture, watch>>
          \/ /\ UNCHANGED <<capture, watch>>
             /\ phase \in {"WaitIdleStable", "Guard"}
             /\ phase' \in {"WaitIdleStable", "Guard", "WakeArmed"}
      BY <1>3 DEF PowerSetup, StartPass, GateWaitIdle, GateGuard, PollNothing, PollExport,
                  MarkTransport, PowerReconcile, PowerWindow, FinishBus, RtrhDone, RtRhWake,
                  NetChange, GateTick, DriversHeal, BusEdge, allVars, gateVars, snifferVars,
                  phaseVars
    <2>2. exporting' \in BOOLEAN
      BY <1>3 DEF CaptureInv, PowerSetup, StartPass, GateWaitIdle, GateGuard, PollNothing,
                  PollExport, MarkTransport, PowerReconcile, PowerWindow, FinishBus, RtrhDone,
                  RtRhWake, NetChange, GateTick, DriversHeal, BusEdge, allVars, gateVars,
                  snifferVars, phaseVars
    <2>3. QED BY <2>1, <2>2 DEF CaptureInv
  <1>4. CASE GateExternal
    BY <1>4, ResetGateInv DEF GateExternal, CaptureInv, phaseVars, snifferVars
  <1>5. CASE GateRequested
    BY <1>5, CloseCaptureInv DEF GateRequested, CaptureInv
  <1>6. CASE GateActive
    <2>1. \/ UNCHANGED <<phaseVars, snifferVars>>
          \/ /\ watch' = FALSE /\ SetCaptureEnabled(FALSE)
             /\ phase' = "WakeArmed" /\ UNCHANGED exporting
      BY <1>6 DEF GateActive
    <2>2. CASE UNCHANGED <<phaseVars, snifferVars>>
      BY <2>2 DEF CaptureInv, phaseVars, snifferVars
    <2>3. CASE /\ watch' = FALSE /\ SetCaptureEnabled(FALSE)
               /\ phase' = "WakeArmed" /\ UNCHANGED exporting
      <3>1. capture' = FALSE
        BY <2>3 DEF SetCaptureEnabled
      <3>2. QED BY <2>3, <3>1 DEF CaptureInv
    <2>4. QED BY <2>1, <2>2, <2>3
  <1>7. CASE GateWake
    <2>1. \/ UNCHANGED <<phaseVars, snifferVars>>
          \/ /\ capture' = TRUE /\ UNCHANGED exporting
             /\ \/ watch' = TRUE /\ phase' = "Warmup"
                \/ watch' = FALSE /\ phase' = "Active"
      BY <1>7 DEF GateWake
    <2>2. CASE UNCHANGED <<phaseVars, snifferVars>>
      BY <2>2 DEF CaptureInv, phaseVars, snifferVars
    <2>3. CASE /\ capture' = TRUE /\ UNCHANGED exporting
               /\ \/ watch' = TRUE /\ phase' = "Warmup"
                  \/ watch' = FALSE /\ phase' = "Active"
      BY <2>3 DEF CaptureInv
    <2>4. QED BY <2>1, <2>2, <2>3
  <1>8. CASE GateWarmup
    BY <1>8 DEF GateWarmup, CaptureInv, phaseVars, snifferVars
  <1>9. CASE \E r \in Readings : \E export \in ExportOutcomes : PollCapture(r, export)
    <2>1. PICK r \in Readings, export \in ExportOutcomes : PollCapture(r, export)
      BY <1>9
    <2>2. exporting' \in BOOLEAN
      BY <2>1 DEF PollCapture, ExportOutcomes
    <2>3. \/ CloseCapture
          \/ UNCHANGED <<phase, watch, capture>>
      BY <2>1 DEF PollCapture
    <2>4. CASE UNCHANGED <<phase, watch, capture>>
      BY <2>2, <2>4 DEF CaptureInv
    <2>5. CASE CloseCapture
      <3>1. watch' = FALSE /\ capture' = FALSE /\ phase' = "WaitIdleStable"
        BY <2>5 DEF CloseCapture, SetCaptureEnabled
      <3>2. QED BY <2>2, <3>1 DEF CaptureInv
    <2>6. QED BY <2>3, <2>4, <2>5
  <1>10. QED
    BY <1>2, <1>3, <1>4, <1>5, <1>6, <1>7, <1>8, <1>9 DEF GateNext, LoopStep

\* CaptureInv holds in every reachable state of the composed system.
LEMMA CaptureInvHolds == GateSpec => []CaptureInv
  <1>1. GateInit => CaptureInv
    BY DEF GateInit, CaptureInv
  <1>2. CaptureInv /\ [GateNext]_allVars => CaptureInv'
    BY CaptureStep
  <1>3. QED BY <1>1, <1>2, PTL DEF GateSpec

\* The edge interrupt is on in the two phases that look at the bus and off in
\* the others, whatever the switches, the resets and the interrupts do.
THEOREM CaptureIsGated == GateSpec => []CaptureFollowsPhase
  <1>1. CaptureInv => CaptureFollowsPhase
    BY DEF CaptureInv, CaptureFollowsPhase
  <1>2. QED BY <1>1, CaptureInvHolds, PTL

-----------------------------------------------------------------------------
(* PowerSave as a part. *)

\* Whatever one step of the composed system does, power_save takes one of its
\* own steps or none.
LEMMA GateStepIsPowerStep ==
    ASSUME CaptureInv, [GateNext]_allVars PROVE [Next]_vars
  <1>1. ASSUME NEW force, ApplyPolicy(force) PROVE [Next]_vars
    <2>1. External' \in BOOLEAN
      BY DEF External
    <2>2. SetExternalPower(External') \/ UNCHANGED vars
      BY <1>1 DEF ApplyPolicy
    <2>3. QED BY <2>1, <2>2 DEF Next
  <1>2. CASE PowerSetup
    BY <1>2 DEF PowerSetup, Next
  <1>3. CASE FirstPolicy \/ EnergySaveGrace \/ UsbChange \/ EnergySaveSwitch
    BY <1>1, <1>3 DEF FirstPolicy, EnergySaveGrace, UsbChange, EnergySaveSwitch
  <1>4. CASE StartPass \/ GateRequested \/ GateWaitIdle \/ PollNothing \/ PollExport \/ NetChange
    BY <1>4 DEF StartPass, GateRequested, GateWaitIdle, PollNothing, PollExport, NetChange
  <1>5. CASE GateExternal \/ GateActive \/ GateGuard
    <2>1. \/ SetCo2BusPoweredDown(TRUE) \/ SetCo2BusPoweredDown(FALSE)
          \/ UNCHANGED vars
      BY <1>5 DEF GateExternal, GateActive, GateGuard
    <2>2. QED BY <2>1 DEF Next
  <1>6. CASE GateWake \/ GateWarmup
    BY <1>6 DEF GateWake, GateWarmup, Next
  <1>7. CASE \E r \in Readings : \E export \in ExportOutcomes : PollCapture(r, export)
    <2>1. OnValidCo2 \/ UNCHANGED vars
      BY <1>7 DEF PollCapture
    <2>2. QED BY <2>1 DEF Next
  <1>8. CASE MarkTransport
    <2>1. PICK rtrhExport \in RtrhExports : SetTransportBusy(exporting \/ rtrhExport)
      BY <1>8 DEF MarkTransport
    <2>2. (exporting \/ rtrhExport) \in BOOLEAN
      OBVIOUS
    <2>3. QED BY <2>1, <2>2 DEF Next
  <1>9. CASE PowerReconcile \/ PowerWindow \/ FinishBus
    BY <1>9 DEF PowerReconcile, PowerWindow, FinishBus, Next
  <1>10. CASE RtrhDone \/ RtRhWake \/ GateTick \/ DriversHeal
    BY <1>10 DEF RtrhDone, RtRhWake, GateTick, DriversHeal, Next
  <1>11. CASE \E low \in BOOLEAN : BusEdge(low)
    <2>1. Co2Edge \/ UNCHANGED vars
      BY <1>11 DEF BusEdge
    <2>2. QED BY <2>1 DEF Next
  <1>12. CASE UNCHANGED allVars
    BY <1>12 DEF allVars
  <1>13. QED
    BY <1>2, <1>3, <1>4, <1>5, <1>6, <1>7, <1>8, <1>9, <1>10, <1>11, <1>12
    DEF GateNext, LoopStep

\* The gate, the policy and the sniffer use power_save by its operations: every
\* behaviour of the composed system is a behaviour of PowerSave.
THEOREM GateDrivesPowerSave == GateSpec => Spec
  <1>1. GateInit => Init
    BY DEF GateInit
  <1>2. CaptureInv /\ [GateNext]_allVars => [Next]_vars
    BY GateStepIsPowerStep
  <1>3. QED BY <1>1, <1>2, CaptureInvHolds, PTL DEF GateSpec, Spec

\* So no lock handle is taken twice or given back twice in the whole system.
THEOREM GateKeepsOwnership == GateSpec => []OwnershipExact
  BY GateDrivesPowerSave, OwnershipIsExact, PTL

\* And, with drivers that work, the gate leaves power_save with the locks that the
\* policy wants and no others: between two windows the device sleeps.
THEOREM GateLocksAreThePolicys == GateSpec /\ ~faulty => []LocksMatchPolicy
  BY GateDrivesPowerSave, LocksAreThePolicys, PTL

-----------------------------------------------------------------------------
(* The gate and power_save agree, as long as nobody switches Energy Save Mode. *)

\* What the agreement needs: the policy in force is the USB state, under USB the
\* gate is Active, and set_co2_bus_powered_down is half done only in the rest of
\* a gate pass that left the gate Active or waiting for the rail.
PhaseInv ==
    /\ policyActive = FALSE /\ graceAge = -1
    /\ stage \in {"setup", "apply"} => ~external_power /\ phase = "Active" /\ pc = "idle"
    /\ stage \notin {"setup", "apply"} => (external_power <=> usb)
    /\ co2_powered_down <=> phase = "WakeArmed"
    /\ co2_warmup <=> phase = "Warmup"
    /\ external_power => phase = "Active"
    /\ pc = "bus" => stage = "co2" /\ phase \in {"Active", "WakeArmed"}

\* The state PhaseInv is about, and a step that leaves it alone.
Quietly ==
    /\ UNCHANGED <<policyActive, usb, external_power, co2_powered_down, co2_warmup, phase>>
    /\ graceAge' = graceAge
    /\ pc' = "bus" => pc = "bus" /\ stage' = stage
    /\ stage \in {"setup", "apply"} => pc' = pc
    /\ stage' \in {"setup", "apply"} <=> stage \in {"setup", "apply"}

\* A step that is quiet in this sense keeps PhaseInv.
LEMMA QuietStep == ASSUME PhaseInv, Quietly PROVE PhaseInv'
  BY DEF PhaseInv, Quietly

\* The calls of power_save that do not change its view of the bus.
LEMMA PlainCalls ==
    ASSUME \/ Setup \/ RtRhEdge \/ Co2Edge \/ OnRtrhComplete \/ OnValidCo2 \/ Heal \/ Tick
           \/ (\E busy : SetTransportBusy(busy)) \/ UNCHANGED vars
    PROVE  UNCHANGED <<external_power, co2_powered_down, co2_warmup, pc>>
  BY DEF Setup, RtRhEdge, Co2Edge, OnRtrhComplete, OnValidCo2, Heal, Tick, SetTransportBusy,
         vars, co2Vars, modeVars, loopVars

\* A policy change resets the gate and what power_save knows of the bus.
LEMMA PolicyStep ==
    ASSUME PhaseInv, TypeOK, NEW force \in BOOLEAN, ApplyPolicy(force), UNCHANGED <<policyActive, graceAge>>,
           stage' = "policy",
           \/ force = TRUE /\ stage = "apply"
           \/ force = FALSE /\ stage = "policy"
    PROVE  PhaseInv'
  <1>1. External' <=> usb'
    BY DEF PhaseInv, External
  <1>2. CASE ~(force \/ External' # external_power)
    <2>1. UNCHANGED <<vars, phaseVars, snifferVars>>
      BY <1>2 DEF ApplyPolicy
    <2>2. UNCHANGED <<external_power, co2_powered_down, co2_warmup, pc, phase>>
      BY <2>1 DEF vars, co2Vars, modeVars, loopVars, phaseVars
    <2>3. QED BY <1>1, <1>2, <2>2 DEF PhaseInv
  <1>3. CASE force \/ External' # external_power
    <2>0. SetExternalPower(External') /\ ResetGate
      BY <1>3 DEF ApplyPolicy
    <2>1. external_power' = External' /\ phase' = "Active" /\ pc = "idle" /\ pc' = "idle"
      BY <2>0 DEF SetExternalPower, ResetGate, loopVars
    <2>2. CASE External'
      <3>1. co2_warmup' = FALSE /\ co2_powered_down' = FALSE
        BY <2>0, <2>2 DEF SetExternalPower, UsbDropsCo2
      <3>2. QED BY <1>1, <2>1, <2>2, <3>1 DEF PhaseInv
    <2>3. CASE ~External'
      <3>1. UNCHANGED <<co2_warmup, co2_powered_down>>
        BY <2>0, <2>3 DEF SetExternalPower, co2Vars
      <3>2. phase = "Active"
        <4>1. CASE stage = "apply"
          BY <4>1 DEF PhaseInv
        <4>2. CASE force = FALSE
          <5>1. External' = FALSE
            BY <2>3 DEF External
          <5>2. external_power = TRUE
            BY <1>3, <4>2, <5>1 DEF TypeOK
          <5>3. QED BY <5>2 DEF PhaseInv
        <4>3. QED BY <4>1, <4>2
      <3>3. QED BY <1>1, <2>1, <2>3, <3>1, <3>2 DEF PhaseInv
    <2>4. QED BY <2>2, <2>3
  <1>4. QED BY <1>2, <1>3

\* set_co2_bus_powered_down on battery: the new bus state is recorded at once.
LEMMA BatteryBusCall ==
    ASSUME NEW pd \in BOOLEAN, SetCo2BusPoweredDown(pd), ~external_power,
           co2_powered_down \in BOOLEAN
    PROVE  /\ co2_powered_down' = pd
           /\ pc = "idle" /\ pc' \in {"idle", "bus"}
           /\ UNCHANGED <<co2_warmup, external_power>>
  BY DEF SetCo2BusPoweredDown, EnterBus, modeVars

\* Every pass of the gate keeps PhaseInv.
LEMMA GatePassStep ==
    ASSUME PhaseInv, TypeOK,
           \/ GateExternal \/ GateRequested \/ GateActive \/ GateWaitIdle \/ GateGuard
           \/ GateWake \/ GateWarmup
    PROVE  PhaseInv'
  <1>1. /\ stage = "gate" /\ stage' = "co2" /\ pc # "bus"
        /\ UNCHANGED <<usb, policyActive, graceAge>>
    BY DEF GateExternal, GateRequested, GateActive, GateWaitIdle, GateGuard, GateWake, GateWarmup,
           GatePass, policyVars, PhaseInv
  <1>2. External <=> external_power
    BY <1>1 DEF PhaseInv, External
  <1>3. co2_powered_down \in BOOLEAN
    BY DEF TypeOK
  <1> DEFINE still == UNCHANGED <<external_power, co2_powered_down, co2_warmup, pc, phase>>
  <1>4. ASSUME UNCHANGED vars, phase' = phase PROVE PhaseInv'
    <2>1. still
      BY <1>4 DEF vars, co2Vars, modeVars, loopVars
    <2>2. QED BY <1>1, <2>1 DEF PhaseInv
  <1>5. CASE GateExternal
    <2>1. UNCHANGED vars /\ phase' = phase
      BY <1>2, <1>5 DEF GateExternal, PhaseInv, phaseVars
    <2>2. QED BY <1>4, <2>1
  <1>6. CASE GateRequested \/ GateWaitIdle
    <2>1. UNCHANGED <<external_power, co2_powered_down, co2_warmup, pc>>
      BY <1>6 DEF GateRequested, GateWaitIdle, vars, co2Vars, modeVars, loopVars
    <2>2. \/ phase' = phase
          \/ phase = "Active" /\ phase' = "WaitIdleStable" /\ ~External
          \/ phase = "WaitIdleStable" /\ phase' = "Guard"
      BY <1>6 DEF GateRequested, GateWaitIdle, CloseCapture
    <2>3. QED BY <1>1, <1>2, <2>1, <2>2 DEF PhaseInv
  <1>7. CASE GateActive
    <2>1. CASE UNCHANGED <<vars, phaseVars, snifferVars>>
      BY <1>4, <2>1 DEF phaseVars
    <2>2. CASE BusInUse /\ SetCo2BusPoweredDown(FALSE) /\ UNCHANGED phaseVars
      <3>1. phase = "Active" /\ phase' = "Active" /\ ~external_power
        BY <1>2, <1>7, <2>2 DEF GateActive, phaseVars
      <3>2. /\ co2_powered_down' = FALSE /\ pc' \in {"idle", "bus"}
            /\ UNCHANGED <<co2_warmup, external_power>>
        BY <1>3, <2>2, <3>1, BatteryBusCall
      <3>3. QED BY <1>1, <3>1, <3>2 DEF PhaseInv
    <2>3. CASE SetCo2BusPoweredDown(TRUE) /\ phase' = "WakeArmed"
      <3>1. phase = "Active" /\ ~external_power
        BY <1>2, <1>7 DEF GateActive
      <3>2. /\ co2_powered_down' = TRUE /\ pc' \in {"idle", "bus"}
            /\ UNCHANGED <<co2_warmup, external_power>>
        BY <1>3, <2>3, <3>1, BatteryBusCall
      <3>3. QED BY <1>1, <2>3, <3>1, <3>2 DEF PhaseInv
    <2>4. QED BY <1>7, <2>1, <2>2, <2>3 DEF GateActive
  <1>8. CASE GateGuard
    <2>1. CASE SetCo2BusPoweredDown(TRUE) /\ phase' = "WakeArmed"
      <3>1. phase = "Guard" /\ ~external_power
        BY <1>2, <1>8 DEF GateGuard
      <3>2. /\ co2_powered_down' = TRUE /\ pc' \in {"idle", "bus"}
            /\ UNCHANGED <<co2_warmup, external_power>>
        BY <1>3, <2>1, <3>1, BatteryBusCall
      <3>3. QED BY <1>1, <2>1, <3>1, <3>2 DEF PhaseInv
    <2>2. CASE UNCHANGED vars /\ phase' \in {"Guard", "WaitIdleStable"}
      <3>1. phase = "Guard"
        BY <1>8 DEF GateGuard
      <3>2. UNCHANGED <<external_power, co2_powered_down, co2_warmup, pc>>
        BY <2>2 DEF vars, co2Vars, modeVars, loopVars
      <3>3. QED BY <1>1, <2>2, <3>1, <3>2 DEF PhaseInv
    <2>3. QED BY <1>8, <2>1, <2>2 DEF GateGuard
  <1>9. CASE GateWake
    <2>1. phase = "WakeArmed" /\ ~external_power /\ co2_powered_down /\ ~co2_warmup
      BY <1>2, <1>9 DEF GateWake, PhaseInv
    <2>2. CASE UNCHANGED <<vars, phaseVars, snifferVars>>
      BY <1>4, <2>2 DEF phaseVars
    <2>3. CASE BeginCo2Warmup /\ phase' = "Warmup"
      <3>1. /\ co2_powered_down' = FALSE /\ co2_warmup' = TRUE
            /\ UNCHANGED <<external_power, pc>>
        BY <2>3 DEF BeginCo2Warmup, modeVars, loopVars
      <3>2. QED BY <1>1, <2>1, <2>3, <3>1 DEF PhaseInv
    <2>4. CASE BeginCo2WarmupFails /\ phase' = "Active"
      <3>1. /\ co2_powered_down' = FALSE /\ pc' \in {"idle", "bus"}
            /\ UNCHANGED <<co2_warmup, external_power>>
        BY <2>1, <2>4 DEF BeginCo2WarmupFails, EnterBus, modeVars
      <3>2. QED BY <1>1, <2>1, <2>4, <3>1 DEF PhaseInv
    <2>5. QED BY <1>9, <2>2, <2>3, <2>4 DEF GateWake
  <1>10. CASE GateWarmup
    <2>1. CASE UNCHANGED <<vars, phaseVars, snifferVars>>
      BY <1>4, <2>1 DEF phaseVars
    <2>2. CASE PromoteCo2Warmup /\ phase' = "Active"
      <3>1. phase = "Warmup" /\ ~external_power
        BY <1>2, <1>10 DEF GateWarmup
      <3>2. co2_warmup' = FALSE /\ UNCHANGED <<co2_powered_down, external_power, pc>>
        BY <2>2 DEF PromoteCo2Warmup, modeVars, loopVars
      <3>3. QED BY <1>1, <2>2, <3>1, <3>2 DEF PhaseInv
    <2>3. QED BY <1>10, <2>1, <2>2 DEF GateWarmup
  <1>11. QED
    BY <1>5, <1>6, <1>7, <1>8, <1>9, <1>10

\* Every step keeps PhaseInv when Energy Save Mode is left alone.
LEMMA PhaseStep ==
    ASSUME "energy" \notin Stimuli, PhaseInv, TypeOK, [GateNext]_allVars PROVE PhaseInv'
  <1>1. CASE PowerSetup
    BY <1>1, PlainCalls DEF PowerSetup, PhaseInv, phaseVars, policyVars
  <1>2. CASE FirstPolicy
    BY <1>2, PolicyStep DEF FirstPolicy, policyVars
  <1>3. CASE UsbChange
    BY <1>3, PolicyStep DEF UsbChange
  <1>4. CASE EnergySaveSwitch
    BY <1>4 DEF EnergySaveSwitch
  <1>5. CASE EnergySaveGrace
    <2>1. graceAge # -1
      BY <1>5, Co2GateAssumption DEF EnergySaveGrace
    <2>2. QED BY <2>1 DEF PhaseInv
  <1>6. CASE StartPass \/ PollNothing \/ PollExport \/ MarkTransport \/ NetChange \/ DriversHeal
    <2>1. UNCHANGED <<external_power, co2_powered_down, co2_warmup, pc>>
      BY <1>6, PlainCalls DEF StartPass, PollNothing, PollExport, MarkTransport, NetChange,
                              DriversHeal
    <2>2. Quietly
      BY <1>6, <2>1 DEF StartPass, PollNothing, PollExport, PollPass, MarkTransport, NetChange,
                        DriversHeal, Quietly, PhaseInv, phaseVars, policyVars, gateVars,
                        SetTransportBusy
    <2>3. QED BY <2>2, QuietStep
  <1>7. CASE RtrhDone \/ RtRhWake \/ GateTick \/ \E low \in BOOLEAN : BusEdge(low)
    <2>1. UNCHANGED <<external_power, co2_powered_down, co2_warmup, pc>>
      BY <1>7, PlainCalls DEF RtrhDone, RtRhWake, GateTick, BusEdge
    <2>2. UNCHANGED <<policyActive, usb, phase, stage>>
      BY <1>7 DEF RtrhDone, RtRhWake, GateTick, BusEdge, gateVars, phaseVars, policyVars
    <2>3. graceAge' = graceAge
      BY <1>7 DEF RtrhDone, RtRhWake, GateTick, BusEdge, gateVars, policyVars, PhaseInv, Advance
    <2>4. QED BY <2>1, <2>2, <2>3, QuietStep DEF Quietly
  <1>8. CASE PowerReconcile \/ PowerWindow
    <2>1. Quietly
      BY <1>8 DEF PowerReconcile, PowerWindow, LoopReconcile, LoopWindow, Quietly, gateVars,
                  phaseVars, policyVars, co2Vars, modeVars
    <2>2. QED BY <2>1, QuietStep
  <1>9. CASE FinishBus
    <2>1. /\ pc = "bus" /\ pc' = "idle" /\ co2_warmup' = FALSE
          /\ UNCHANGED <<co2_powered_down, external_power>>
      BY <1>9 DEF FinishBus, ApplyBus, modeVars
    <2>2. UNCHANGED <<phase, stage, usb, policyActive, graceAge>>
      BY <1>9 DEF FinishBus, gateVars, phaseVars, policyVars
    <2>3. QED BY <2>1, <2>2 DEF PhaseInv
  <1>10. CASE \E r \in Readings : \E export \in ExportOutcomes : PollCapture(r, export)
    <2>1. PICK r \in Readings, export \in ExportOutcomes : PollCapture(r, export)
      BY <1>10
    <2>2. UNCHANGED <<external_power, co2_powered_down, co2_warmup, pc>>
      BY <2>1, PlainCalls DEF PollCapture
    <2>3. /\ stage = "co2" /\ stage' = "busy" /\ pc = "idle"
          /\ UNCHANGED <<usb, policyActive, graceAge>>
      BY <2>1 DEF PollCapture, PollPass, policyVars
    <2>4. \/ UNCHANGED phase
          \/ phase = "Active" /\ phase' = "WaitIdleStable" /\ ~External
      BY <2>1 DEF PollCapture, GateNow, CloseCapture
    <2>5. QED BY <2>2, <2>3, <2>4 DEF PhaseInv, External
  <1>11. CASE \/ GateExternal \/ GateRequested \/ GateActive \/ GateWaitIdle \/ GateGuard
              \/ GateWake \/ GateWarmup
    BY <1>11, GatePassStep
  <1>12. CASE UNCHANGED allVars
    BY <1>12 DEF allVars, vars, gateVars, phaseVars, policyVars, co2Vars, modeVars, loopVars, PhaseInv
  <1>13. QED
    BY <1>1, <1>2, <1>3, <1>4, <1>5, <1>6, <1>7, <1>8, <1>9, <1>10, <1>11, <1>12
    DEF GateNext, LoopStep

\* Without Energy Save Mode being switched, the gate's phase and power_save's
\* record of the bus agree whenever power_save is not in the middle of a call:
\* for every delay, across USB plugging, wake-ups, failing drivers and debug
\* exports.  (The run on the switch shows why the assumption is needed.)
THEOREM PhaseAgrees ==
    ASSUME "energy" \notin Stimuli
    PROVE  GateSpec => []PhaseMatchesPower
  <1>1. GateInit => PhaseInv
    BY DEF GateInit, Init, PhaseInv
  <1>2. PhaseInv /\ TypeOK /\ [GateNext]_allVars => PhaseInv'
    BY PhaseStep
  <1>3. PhaseInv => PhaseMatchesPower
    BY DEF PhaseInv, PhaseMatchesPower
  <1>4. GateSpec => []TypeOK
    BY GateDrivesPowerSave, TypeCorrect, PTL
  <1>5. QED BY <1>1, <1>2, <1>3, <1>4, PTL DEF GateSpec

\* Drivers that do not fail give promote_co2_warmup the whole CO2 pair.
LEMMA PromotionHoldsPair ==
    ASSUME IInv, PromoteCo2Warmup, ~faulty
    PROVE  FullyHeld(locks', "co2Awake", "co2Cpu")
  <1>1. LemmaContext(locks)
    BY LocksInContext DEF IInv
  <1>2. PICK l1 \in AcquireOutcomes(locks, "co2Awake", "co2Cpu") :
          locks' \in HandoffReleased(l1)
    BY DEF PromoteCo2Warmup
  <1>3. Touches(locks, l1, {"co2Awake", "co2Cpu"})
    BY <1>1, AcquireTouches DEF Handles
  <1>4. FullyHeld(l1, "co2Awake", "co2Cpu")
    <2> DEFINE afterSleep == IF Held(locks, "co2Awake") THEN locks ELSE Acquired(locks, "co2Awake")
               both == IF Held(locks, "co2Cpu") THEN afterSleep
                       ELSE Acquired(afterSleep, "co2Cpu")
    <2>1. l1 = both
      BY <1>2 DEF AcquireOutcomes
    <2>2. /\ afterSleep \in LockStates /\ Held(afterSleep, "co2Awake")
          /\ Held(afterSleep, "co2Cpu") <=> Held(locks, "co2Cpu")
      BY <1>1, AcquiredTouches DEF Touches, LemmaContext, Handles, Held
    <2>3. CASE Held(locks, "co2Cpu")
      BY <2>1, <2>2, <2>3 DEF FullyHeld
    <2>4. CASE ~Held(locks, "co2Cpu")
      <3>1. l1 = [afterSleep EXCEPT !["co2Cpu"] =
                    [held |-> TRUE, count |-> afterSleep["co2Cpu"].count + 1]]
        BY <2>1, <2>4 DEF Acquired
      <3>2. l1["co2Cpu"].held /\ l1["co2Awake"] = afterSleep["co2Awake"]
        BY <2>2, <3>1 DEF LockStates, Handles
      <3>3. QED BY <2>2, <3>2 DEF FullyHeld, Held
    <2>5. QED BY <2>3, <2>4
  <1>5. Touches(l1, locks', {"edgeAwake", "edgeCpu"})
    BY <1>2, <1>3, <1>4, ReleaseTouches DEF HandoffReleased, Handles, Touches, LemmaContext
  <1>6. QED BY <1>4, <1>5 DEF Touches, FullyHeld, Held, Handles

\* One pass of the gate over a powered bus, case by case.
LEMMA GateStaysAwake ==
    ASSUME IInv, PhaseInv, [GateNext]_allVars PROVE [AwakeAfterGate]_allVars
  <1> SUFFICES ASSUME GateNext, stage = "gate", stage' = "co2", ~External, ~faulty,
                      ~busLow, phase' = "Active", ~requested
               PROVE  /\ ~co2_powered_down'
                      /\ pc' = "bus" \/ FullyHeld(locks', "co2Awake", "co2Cpu")
    BY DEF AwakeAfterGate
  <1>1. GateActive \/ GateWake \/ GateWarmup
    <2>1. ~GateRequested /\ ~GateExternal /\ ~GateWaitIdle /\ ~GateGuard
      BY DEF GateRequested, GateExternal, GateWaitIdle, GateGuard
    <2>2. ~PowerSetup /\ ~FirstPolicy /\ ~EnergySaveGrace
      BY DEF PowerSetup, FirstPolicy, EnergySaveGrace
    <2>3. ~StartPass /\ ~PollNothing /\ ~PollExport /\ ~MarkTransport
      BY DEF StartPass, PollNothing, PollExport, PollPass, MarkTransport
    <2>4. ~PowerReconcile /\ ~PowerWindow
      BY DEF PowerReconcile, PowerWindow, gateVars
    <2>5. ~(\E r \in Readings : \E export \in ExportOutcomes : PollCapture(r, export))
      BY DEF PollCapture, PollPass
    <2>6. ~FinishBus /\ ~RtrhDone /\ ~RtRhWake /\ ~DriversHeal /\ ~NetChange /\ ~GateTick
      BY DEF FinishBus, RtrhDone, RtRhWake, DriversHeal, NetChange, GateTick, gateVars
    <2>7. ~UsbChange /\ ~EnergySaveSwitch /\ ~(\E low \in BOOLEAN : BusEdge(low))
      BY DEF UsbChange, EnergySaveSwitch, BusEdge
    <2>8. QED BY <2>1, <2>2, <2>3, <2>4, <2>5, <2>6, <2>7, Zenon DEF GateNext, LoopStep
  <1>2. ~external_power
    BY DEF PhaseInv, External
  <1>3. co2_powered_down \in BOOLEAN
    BY DEF IInv, TypeOK
  <1>4. CASE GateActive
    <2>1. phase = "Active" /\ ~co2_powered_down
      BY <1>4 DEF GateActive, PhaseInv
    <2>2. BusInUse
      BY <2>1 DEF BusInUse
    <2>3. SetCo2BusPoweredDown(FALSE)
      BY <1>4, <2>2 DEF GateActive, QuietPowerDown
    <2>4. ~co2_powered_down'
      BY <1>2, <1>3, <2>3, BatteryBusCall
    <2>5. pc' = "bus" \/ (FullyHeld(locks, "co2Awake", "co2Cpu") /\ UNCHANGED locks)
      BY <1>2, <2>3 DEF SetCo2BusPoweredDown, EnterBus
    <2>6. QED BY <2>4, <2>5 DEF FullyHeld, Held
  <1>5. CASE GateWake
    <2>1. BeginCo2WarmupFails
      BY <1>5 DEF GateWake, phaseVars
    <2>2. QED BY <2>1 DEF BeginCo2WarmupFails
  <1>6. CASE GateWarmup
    <2>1. PromoteCo2Warmup
      BY <1>6 DEF GateWarmup, phaseVars
    <2>2. ~co2_powered_down'
      BY <1>6, <2>1 DEF PromoteCo2Warmup, GateWarmup, PhaseInv
    <2>3. QED BY <2>1, <2>2, PromotionHoldsPair
  <1>7. QED BY <1>1, <1>4, <1>5, <1>6

\* On battery, with drivers that work, a gate pass that finds the bus powered
\* leaves the CO2 lock pair owned or about to be taken.
THEOREM NativeWindowIsAwake ==
    ASSUME "energy" \notin Stimuli
    PROVE  GateSpec => NativeWindowAwake
  <1>1. GateInit => PhaseInv
    BY DEF GateInit, Init, PhaseInv
  <1>2. PhaseInv /\ TypeOK /\ [GateNext]_allVars => PhaseInv'
    BY PhaseStep
  <1>3. IInv => TypeOK
    BY DEF IInv
  <1>4. GateSpec => []IInv
    BY GateDrivesPowerSave, Inductive, PTL
  <1>5. IInv /\ PhaseInv /\ [GateNext]_allVars => [AwakeAfterGate]_allVars
    BY GateStaysAwake
  <1>6. QED BY <1>1, <1>2, <1>3, <1>4, <1>5, PTL DEF GateSpec, NativeWindowAwake

=============================================================================
