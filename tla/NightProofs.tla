----------------------------- MODULE NightProofs ------------------------------
(***************************************************************************)
(* Theorems about Night.tla, for every value of its constants.             *)
(***************************************************************************)
EXTENDS Night, TLAPS

USE DEF mainVars, autoVars, ledVars, worldVars, applyVars, vars, applyUnchanged, mainUnchanged

-----------------------------------------------------------------------------
(* The average.                                                            *)

\* The shifts never take the average above the brightest exposure there is.
LEMMA EmaBounded ==
    ASSUME NEW a \in Nat, NEW r \in Nat, NEW high \in Nat, a <= high, r <= high
    PROVE  a - a \div 4 + r \div 4 <= high
OBVIOUS

AvgInv == avg \in Int /\ \A high \in Evs : (\A e \in Evs : e <= high) => avg <= high

LEMMA ReadingBounded ==
    ASSUME ev \in Evs
    PROVE  Reading \in Nat /\ Reading <= ev
BY ConfigAssumption DEF Reading

LEMMA EmaType ==
    ASSUME ev \in Evs, AvgInv, avg' = Ema(Reading)
    PROVE  AvgInv'
<1>0. Reading \in Nat /\ Reading <= ev /\ Evs \subseteq Nat /\ ev \in Nat
  BY ReadingBounded, ConfigAssumption
<1>1. CASE avg < 0
  <2>1. avg' = Reading
    BY <1>1 DEF Ema
  <2> QED
    BY <1>0, <2>1 DEF AvgInv
<1>2. CASE ~(avg < 0)
  <2>1. avg \in Nat /\ avg' = avg - avg \div 4 + Reading \div 4
    BY <1>2 DEF Ema, AvgInv
  <2>2. avg' \in Int
    BY <1>0, <2>1
  <2>3. ASSUME NEW high \in Evs, \A e \in Evs : e <= high PROVE avg' <= high
    <3>1. high \in Nat /\ avg <= high /\ Reading <= high
      BY <1>0, <2>3 DEF AvgInv
    <3> QED
      BY <1>0, <2>1, <3>1, EmaBounded
  <2> QED
    BY <2>2, <2>3 DEF AvgInv
<1> QED
  BY <1>1, <1>2

-----------------------------------------------------------------------------
(* Types.                                                                  *)

\* The types of the threads' places and of the call they make, and the others.
CallTypes ==
    /\ mode \in {0, 1} /\ enc \in [Settings -> {"day", "night"}]
    /\ saved \in {"none", "day", "night"}
    /\ pc \in [Threads -> Labels] /\ arg \in [Threads -> {0, 1}]
    /\ lastNight \in {-1, 0, 1}

AutoTypes ==
    /\ ev \in Evs /\ AvgInv
    /\ ispNight \in {-1, 0, 1} /\ lastState \in {-1, 0, 1} /\ pmode \in {0, 1}
    /\ cut \in {0, 1} /\ ticks \in -1..GraceTicks

BooleanTypes ==
    /\ enabled \in BOOLEAN /\ leds \in BOOLEAN /\ lamp \in BOOLEAN /\ fault \in BOOLEAN
    /\ overridden \in BOOLEAN

LEMMA TypeParts == TypeOK <=> CallTypes /\ AutoTypes /\ BooleanTypes
<1>1. {leds, lamp} \subseteq BOOLEAN <=> leds \in BOOLEAN /\ lamp \in BOOLEAN
  BY Zenon
<1> QED
  BY <1>1 DEF TypeOK, CallTypes, AutoTypes, BooleanTypes, AvgInv

\* What moves a thread.
LEMMA GoTypes ==
    ASSUME pc \in [Threads -> Labels], NEW t \in Threads, NEW l \in Labels, Go(t, l)
    PROVE  /\ pc' \in [Threads -> Labels] /\ pc'[t] = l
           /\ \A u \in Threads \ {t} : pc'[u] = pc[u]
BY DEF Go

LEMMA CallGo ==
    ASSUME CallTypes, NEW t \in Threads, NEW night \in {0, 1}, Call(t, night)
    PROVE  /\ arg' \in [Threads -> {0, 1}] /\ arg'[t] = night
           /\ \A u \in Threads \ {t} : arg'[u] = arg[u]
           /\ pc' \in [Threads -> Labels] /\ pc'[t] = "get rc"
           /\ \A u \in Threads \ {t} : pc'[u] = pc[u]
<1>1. "get rc" \in Labels
  BY DEF Labels
<1> QED
  BY <1>1, GoTypes DEF Call, CallTypes

SetLabels == {"rc", "grey", "fps"}

LEMMA WantedType ==
    ASSUME CallTypes, NEW t \in Threads, NEW s \in SetLabels
    PROVE  Wanted(t, s) \in {"day", "night"}
BY DEF Wanted, CallTypes, SetLabels, Settings

\* One SDK call: where the thread goes, and what it may change.
LEMMA ApplyEffect ==
    ASSUME CallTypes, NEW t \in Threads, Apply(t)
    PROVE  /\ pc[t] \in Applying /\ pc'[t] \in Applying
           /\ pc' \in [Threads -> Labels]
           /\ \A u \in Threads \ {t} : pc'[u] = pc[u]
           /\ UNCHANGED applyUnchanged
           /\ enc' \in [Settings -> {"day", "night"}]
           /\ saved' \in {"none", "day", "night"}
           /\ faults' = faults \/ Fails
<1> USE DEF CallTypes
<1>1. CASE GetRc(t)
  <2>1. PICK l \in {"rc", "done"} : Go(t, l)
    BY <1>1 DEF GetRc
  <2>2. l \in Labels /\ l \in Applying
    BY DEF Labels, Applying
  <2> QED
    BY <1>1, <2>1, <2>2, GoTypes DEF GetRc, Applying
<1>2. CASE Denoise(t)
  <2>1. PICK l \in {"grey", "save", "set denoise"} : Go(t, l)
    BY <1>2 DEF Denoise
  <2>2. l \in Labels /\ l \in Applying
    BY DEF Labels, Applying
  <2>3. enc' \in [Settings -> {"day", "night"}]
    <3>1. \/ enc' = enc
          \/ enc' = [enc EXCEPT !["denoise"] = IF saved = "none" THEN @ ELSE saved]
      BY <1>2 DEF Denoise
    <3> QED
      BY <3>1 DEF Settings
  <2> QED
    BY <1>2, <2>1, <2>2, <2>3, GoTypes DEF Denoise, Applying
<1>3. CASE SaveDenoise(t)
  <2>1. "set denoise" \in Labels /\ "set denoise" \in Applying
    BY DEF Labels, Applying
  <2>2. saved' \in {"none", "day", "night"}
    BY <1>3 DEF SaveDenoise, Settings
  <2> QED
    BY <1>3, <2>1, <2>2, GoTypes DEF SaveDenoise, Applying
<1>4. CASE SetDenoise(t)
  <2>1. "grey" \in Labels /\ "grey" \in Applying
    BY DEF Labels, Applying
  <2> QED
    BY <1>4, <2>1, GoTypes DEF SetDenoise, Applying
<1>5. ASSUME NEW s \in SetLabels, Set(t, s)
      PROVE  /\ pc[t] \in Applying /\ pc'[t] \in Applying
             /\ pc' \in [Threads -> Labels]
             /\ \A u \in Threads \ {t} : pc'[u] = pc[u]
             /\ UNCHANGED applyUnchanged
             /\ enc' \in [Settings -> {"day", "night"}]
             /\ saved' \in {"none", "day", "night"}
             /\ faults' = faults \/ Fails
  <2>1. NextLabel[s] \in Labels /\ NextLabel[s] \in Applying
    <3>1. NextLabel["rc"] = "denoise" /\ NextLabel["grey"] = "fps" /\ NextLabel["fps"] = "done"
      BY DEF NextLabel
    <3> QED
      BY <3>1 DEF Labels, Applying, SetLabels
  <2>2. Wanted(t, s) \in {"day", "night"}
    BY WantedType
  <2>3. enc' \in [Settings -> {"day", "night"}]
    BY <1>5, <2>2 DEF Set
  <2> QED
    BY <1>5, <2>1, <2>3, GoTypes DEF Set, Applying, SetLabels
<1> QED
  BY <1>1, <1>2, <1>3, <1>4, <1>5 DEF Apply, SetLabels

LEMMA FirstPcTypes ==
    /\ FirstPc \in [Threads -> Labels]
    /\ FirstPc["main"] = "startup"
    /\ FirstPc["auto"] = IF enabled THEN "poll" ELSE "off"
<1>1. DOMAIN FirstPc = Threads
  BY DEF FirstPc, Threads
<1>2. FirstPc["main"] = "startup" /\ FirstPc["auto"] = IF enabled THEN "poll" ELSE "off"
  BY DEF FirstPc
<1>3. FirstPc = [t \in Threads |-> FirstPc[t]]
  BY <1>1 DEF FirstPc
<1> QED
  BY <1>2, <1>3 DEF Threads, Labels

\* What main() does outside its calls leaves alone what the autonight thread has.
LEMMA MainEffect ==
    ASSUME CallTypes, Startup \/ StartupSave \/ Differs \/ MainCall \/ MainDone
    PROVE  /\ CallTypes' /\ pc'["auto"] = pc["auto"]
           /\ pc'["main"] \in {"startup save", "check", "call", "get rc"}
           /\ UNCHANGED <<mode, overridden, autoVars, ledVars, worldVars, enc>>
<1> USE DEF CallTypes
<1>0. {"auto", "main"} = Threads
  BY DEF Threads
<1>1. CASE Startup
  <2>1. PICK l \in {"startup save", "check"} : Go("main", l)
    BY <1>1 DEF Startup
  <2>2. l \in Labels
    BY DEF Labels
  <2> QED
    BY <1>0, <1>1, <2>1, <2>2, GoTypes DEF Startup
<1>2. CASE StartupSave
  <2>1. "check" \in Labels /\ Go("main", "check")
    BY <1>2 DEF StartupSave, Labels
  <2>2. saved' \in {"none", "day", "night"}
    BY <1>2 DEF StartupSave, Settings
  <2> QED
    BY <1>0, <1>2, <2>1, <2>2, GoTypes DEF StartupSave
<1>3. CASE Differs
  <2>1. "call" \in Labels /\ Go("main", "call")
    BY <1>3 DEF Differs, Labels
  <2> QED
    BY <1>0, <1>3, <2>1, GoTypes DEF Differs
<1>4. CASE MainCall
  <2>1. Call("main", mode)
    BY <1>4 DEF MainCall
  <2> QED
    BY <1>0, <1>4, <2>1, CallGo DEF MainCall
<1>5. CASE MainDone
  <2>1. "check" \in Labels /\ Go("main", "check")
    BY <1>5 DEF MainDone, Labels
  <2> QED
    BY <1>0, <1>5, <2>1, GoTypes DEF MainDone
<1> QED
  BY <1>1, <1>2, <1>3, <1>4, <1>5

LEMMA PollTypes ==
    ASSUME TypeOK, PlaceInv, Poll
    PROVE  TypeOK' /\ PlaceInv' /\ pc'["auto"] \in {"publish", "leds"}
           /\ pc'["main"] = pc["main"]
<1>0. CallTypes /\ AutoTypes /\ BooleanTypes
  BY TypeParts
<1>1. AvgInv'
  BY <1>0, EmaType DEF Poll, AutoTypes
<1>2. IspMode(avg') \in {0, 1}
  BY <1>0 DEF IspMode, AutoTypes
<1>3. ispNight' \in {0, 1} /\ pmode' \in {0, 1} /\ cut' \in {0, 1}
  BY <1>0, <1>2 DEF Poll, AutoTypes, IrCut
<1>4. PICK l \in {"publish", "leds"} : Go("auto", l)
  BY DEF Poll
<1>5. /\ pc' \in [Threads -> Labels] /\ pc'["auto"] \in {"publish", "leds"}
      /\ pc'["main"] = pc["main"]
  <2>1. l \in Labels
    BY DEF Labels
  <2> QED
    BY <1>0, <1>4, <2>1, GoTypes DEF CallTypes, Threads
<1>6. /\ UNCHANGED <<mode, overridden, lastNight, lastState, leds, lamp, ticks, fault, ev, enabled>>
      /\ UNCHANGED <<enc, saved, arg>> /\ pc["auto"] = "poll"
  BY DEF Poll
<1>7. TypeOK'
  <2>1. {leds, lamp}' \subseteq BOOLEAN /\ overridden' \in BOOLEAN
    BY <1>0, <1>6, Zenon DEF BooleanTypes
  <2> QED
    BY <1>0, <1>1, <1>3, <1>5, <1>6, <2>1
       DEF TypeOK, CallTypes, AutoTypes, BooleanTypes, AvgInv
<1>8. PlaceInv'
  BY <1>3, <1>5, <1>6 DEF PlaceInv
<1> QED
  BY <1>5, <1>7, <1>8

LEMMA LedsTypes ==
    ASSUME TypeOK, PlaceInv, Leds
    PROVE  TypeOK' /\ PlaceInv' /\ pc'["auto"] = "poll" /\ pc'["main"] = pc["main"]
<1>0. CallTypes /\ AutoTypes /\ BooleanTypes
  BY TypeParts
<1>1. leds' \in BOOLEAN
  BY Zenon DEF Leds, WantLeds
<1>2. lamp' \in BOOLEAN
  BY <1>0, <1>1, Zenon DEF Leds, BooleanTypes
<1>3. fault' \in BOOLEAN
  <2>1. fault' = fault \/ fault' = (avg > DayThresh)
    BY Zenon DEF Leds
  <2>2. (avg > DayThresh) \in BOOLEAN
    BY <1>0, ConfigAssumption DEF AutoTypes, AvgInv
  <2> QED
    BY <1>0, <2>1, <2>2, Zenon DEF BooleanTypes
<1>4. ticks' \in -1..GraceTicks
  BY <1>0, ConfigAssumption DEF Leds, AutoTypes
<1>5. pc' \in [Threads -> Labels] /\ pc'["auto"] = "poll" /\ pc'["main"] = pc["main"]
  <2>1. Go("auto", "poll") /\ "poll" \in Labels
    BY DEF Leds, Labels
  <2> QED
    BY <1>0, <2>1, GoTypes DEF CallTypes, Threads
<1>6. /\ UNCHANGED <<mode, overridden, lastNight, avg, ispNight, lastState, pmode, cut,
                      ev, enabled>>
      /\ UNCHANGED <<enc, saved, arg>> /\ pc["auto"] = "leds"
  BY DEF Leds
<1>7. TypeOK'
  <2>1. {leds, lamp}' \subseteq BOOLEAN /\ overridden' \in BOOLEAN
    BY <1>0, <1>1, <1>2, <1>6, Zenon DEF BooleanTypes
  <2> QED
    BY <1>0, <1>3, <1>4, <1>5, <1>6, <2>1
       DEF TypeOK, CallTypes, AutoTypes, BooleanTypes, AvgInv
<1>8. PlaceInv'
  BY <1>5, <1>6 DEF PlaceInv
<1> QED
  BY <1>5, <1>7, <1>8

LEMMA StepTypes ==
    ASSUME TypeOK, PlaceInv, [Next]_vars
    PROVE  TypeOK' /\ PlaceInv'
<1>0. CallTypes /\ AutoTypes /\ BooleanTypes
  BY TypeParts
<1>1. ASSUME CallTypes', AutoTypes', UNCHANGED <<enabled, leds, lamp, fault>>,
             overridden' = overridden \/ overridden' \in BOOLEAN
      PROVE  TypeOK'
  <2>1. {leds, lamp}' \subseteq BOOLEAN /\ overridden' \in BOOLEAN
    BY <1>0, <1>1, Zenon DEF BooleanTypes
  <2> QED
    BY <1>0, <1>1, <2>1 DEF TypeOK, CallTypes, AutoTypes, BooleanTypes, AvgInv
<1>2. ASSUME UNCHANGED <<ev, avg, ispNight, lastState, pmode, cut, ticks>>
      PROVE  AutoTypes'
  BY <1>0, <1>2 DEF AutoTypes, AvgInv
<1>3. CASE Light
  <2>1. CallTypes' /\ AutoTypes'
    BY <1>0, <1>3 DEF Light, CallTypes, AutoTypes, AvgInv
  <2> QED
    BY <1>1, <1>3, <2>1 DEF Light, PlaceInv
<1>4. CASE SigUsr1
  <2>1. CallTypes'
    BY <1>0, <1>4 DEF SigUsr1, CallTypes
  <2> QED
    <3>1. overridden' \in BOOLEAN
      BY <1>4, Zenon DEF SigUsr1
    <3> QED
      BY <1>1, <1>2, <1>4, <2>1, <3>1 DEF SigUsr1, PlaceInv
<1>5. CASE Restart
  <2>1. CallTypes'
    <3>1. pc' \in [Threads -> Labels]
      BY <1>5, FirstPcTypes DEF Restart
    <3> QED
      BY <1>5, <3>1 DEF Restart, CallTypes
  <2>2. AutoTypes'
    BY <1>0, <1>5, ConfigAssumption DEF Restart, AutoTypes, AvgInv
  <2>3. {leds, lamp}' \subseteq BOOLEAN /\ fault' \in BOOLEAN /\ overridden' \in BOOLEAN
    BY <1>0, <1>5, Zenon DEF Restart, BooleanTypes
  <2>4. TypeOK'
    BY <1>0, <1>5, <2>1, <2>2, <2>3
       DEF Restart, TypeOK, CallTypes, AutoTypes, BooleanTypes, AvgInv
  <2>5. PlaceInv'
    BY <1>5, FirstPcTypes DEF Restart, PlaceInv, Starting, Applying
  <2> QED
    BY <2>4, <2>5
<1>6. ASSUME NEW t \in Threads, Apply(t) PROVE TypeOK' /\ PlaceInv'
  <2>1. /\ pc[t] \in Applying /\ pc'[t] \in Applying
        /\ pc' \in [Threads -> Labels]
        /\ \A u \in Threads \ {t} : pc'[u] = pc[u]
        /\ UNCHANGED applyUnchanged
        /\ enc' \in [Settings -> {"day", "night"}]
        /\ saved' \in {"none", "day", "night"}
    BY <1>0, <1>6, ApplyEffect
  <2>2. CallTypes'
    BY <1>0, <2>1 DEF CallTypes
  <2>3. TypeOK'
    BY <1>1, <1>2, <2>1, <2>2
  <2>4. PlaceInv'
    <3>1. {"auto", "main"} = Threads
      BY DEF Threads
    <3> QED
      BY <2>1, <3>1 DEF PlaceInv, Applying
  <2> QED
    BY <2>3, <2>4
<1>7. CASE Startup \/ StartupSave \/ Differs \/ MainCall \/ MainDone
  <2>1. /\ CallTypes' /\ pc'["auto"] = pc["auto"]
        /\ pc'["main"] \in {"startup save", "check", "call", "get rc"}
        /\ UNCHANGED <<mode, overridden, autoVars, ledVars, worldVars, enc>>
    BY <1>0, <1>7, MainEffect
  <2>2. TypeOK'
    BY <1>1, <1>2, <2>1
  <2> QED
    BY <2>1, <2>2 DEF PlaceInv, Starting, Applying
<1>8. CASE Publish
  <2>1. ispNight \in {0, 1}
    BY <1>8 DEF Publish, PlaceInv
  <2>2. Call("auto", ispNight) /\ "auto" \in Threads /\ "main" \in Threads \ {"auto"}
    BY <1>8 DEF Publish, Threads
  <2>3. /\ arg' \in [Threads -> {0, 1}] /\ pc' \in [Threads -> Labels]
        /\ pc'["auto"] = "get rc"
        /\ \A u \in Threads \ {"auto"} : pc'[u] = pc[u]
    BY <1>0, <2>1, <2>2, CallGo, Zenon
  <2>4. CallTypes'
    BY <1>0, <1>8, <2>1, <2>2, <2>3 DEF Publish, CallTypes
  <2>5. TypeOK'
    <3>1. overridden' \in BOOLEAN
      BY <1>8, Zenon DEF Publish
    <3> QED
      BY <1>1, <1>2, <1>8, <2>4, <3>1 DEF Publish
  <2>6. PlaceInv'
    BY <1>8, <2>1, <2>2, <2>3 DEF Publish, PlaceInv, Applying
  <2> QED
    BY <2>5, <2>6
<1>9. CASE AutoDone
  <2>1. Go("auto", "leds") /\ "leds" \in Labels
    BY <1>9 DEF AutoDone, Labels
  <2>2. pc' \in [Threads -> Labels] /\ pc'["auto"] = "leds" /\ pc'["main"] = pc["main"]
    BY <1>0, <2>1, GoTypes DEF CallTypes, Threads
  <2>3. CallTypes' /\ AutoTypes'
    BY <1>0, <1>9, <2>2 DEF AutoDone, CallTypes, AutoTypes, AvgInv
  <2> QED
    BY <1>1, <1>9, <2>2, <2>3 DEF AutoDone, PlaceInv, Applying
<1>10. CASE Poll \/ Leds
  BY <1>10, PollTypes, LedsTypes
<1>11. CASE Frame \/ UNCHANGED vars
  <2>1. CallTypes'
    BY <1>0, <1>11 DEF Frame, CallTypes
  <2> QED
    BY <1>1, <1>2, <1>11, <2>1 DEF Frame, PlaceInv
<1> QED
  BY <1>3, <1>4, <1>5, <1>6, <1>7, <1>8, <1>9, <1>10, <1>11
     DEF Next, MainStep, AutoStep, Threads

LEMMA InitTypes == Init => TypeOK /\ PlaceInv
<1> SUFFICES ASSUME Init PROVE TypeOK /\ PlaceInv
  OBVIOUS
<1>1. CallTypes
  <2>1. pc \in [Threads -> Labels]
    BY FirstPcTypes DEF Init
  <2> QED
    BY <2>1 DEF Init, CallTypes
<1>2. AutoTypes
  BY ConfigAssumption DEF Init, AutoTypes, AvgInv
<1>3. BooleanTypes
  BY Zenon DEF Init, BooleanTypes
<1>4. PlaceInv
  BY FirstPcTypes DEF Init, PlaceInv, Starting, Applying
<1> QED
  BY <1>1, <1>2, <1>3, <1>4, TypeParts

LEMMA TypeInvariant == Spec => [](TypeOK /\ PlaceInv)
<1>1. TypeOK /\ PlaceInv /\ [Next]_vars => (TypeOK /\ PlaceInv)'
  BY StepTypes
<1> QED
  BY <1>1, InitTypes, PTL DEF Spec

\* The variables keep their types; in particular the shifts of the moving average
\* never carry it above the brightest exposure the scene has, whatever the light
\* does and however often the daemon is started again.
THEOREM TypeCorrect == Spec => []TypeOK
BY TypeInvariant, PTL

-----------------------------------------------------------------------------
(* The encoder.                                                            *)

\* Neither a SIGUSR1 nor autonight changes g_night_mode while one of the threads
\* is reconfiguring the encoder, and a configuration that lowers the frame rate at
\* night says what the rate is by day.
Orderly == Patient /\ (NightFps => DayFps)

\* The call for a mode asks for what that mode should have.
LEMMA WantedProper ==
    ASSUME CallTypes, Orderly, NEW t \in Threads, arg[t] = mode, NEW s \in SetLabels,
           ~NightFps => enc["fps"] = "day"
    PROVE  Wanted(t, s) = Proper(s, mode)
<1>1. mode \in {0, 1}
  BY DEF CallTypes
<1>2. CASE s = "rc"
  BY <1>1, <1>2 DEF Wanted, Proper
<1>3. CASE s = "grey"
  BY <1>1, <1>3 DEF Wanted, Proper
<1>4. CASE s = "fps"
  <2>1. Wanted(t, s) = IF mode = 1 /\ NightFps THEN "night"
                       ELSE IF mode = 0 /\ DayFps THEN "day" ELSE enc["fps"]
    BY <1>4 DEF Wanted
  <2>2. Proper(s, mode) = IF mode = 1 /\ NightFps THEN "night" ELSE "day"
    BY <1>4 DEF Proper
  <2> QED
    BY <1>1, <2>1, <2>2 DEF Orderly
<1> QED
  BY <1>2, <1>3, <1>4 DEF SetLabels

LEMMA ProperDay ==
    /\ \A s : Proper(s, 0) = "day"
    /\ \A m : ~NightFps => Proper("fps", m) = "day"
    /\ \A m : m = 1 /\ NightDenoise => Proper("denoise", m) = "night"
    /\ \A m : ~(m = 1 /\ NightDenoise) => Proper("denoise", m) = "day"
BY DEF Proper

\* One SDK call that does not fail: at most one setting changes, to what the mode
\* in force should have, and when main() makes it, it goes on to the next.
LEMMA ApplySets ==
    ASSUME CallTypes, Orderly, PlaceInv, ApplyInv, faults = 0, ~Fails,
           NEW t \in Threads, Apply(t)
    PROVE  /\ pc'[t] # "save" /\ saved' = saved
           /\ pc'[t] = "set denoise" => mode = 1 /\ NightDenoise
           /\ \E D \in SUBSET Settings :
                 /\ \A s \in Settings : enc'[s] = IF s \in D THEN Proper(s, mode) ELSE enc[s]
                 /\ t = "main" => SetByMain' \subseteq SetByMain \cup D
<1> USE DEF CallTypes
<1>1. arg[t] = mode /\ mode \in {0, 1} /\ (~NightFps => enc["fps"] = "day") /\ pc[t] # "save"
  BY ApplyEffect DEF ApplyInv
<1>2. ASSUME NEW D \in SUBSET Settings,
             \A s \in Settings : enc'[s] = IF s \in D THEN Proper(s, mode) ELSE enc[s],
             t = "main" => SetByMain' \subseteq SetByMain \cup D
      PROVE  \E E \in SUBSET Settings :
                 /\ \A s \in Settings : enc'[s] = IF s \in E THEN Proper(s, mode) ELSE enc[s]
                 /\ t = "main" => SetByMain' \subseteq SetByMain \cup E
  BY <1>2
<1>3. ASSUME enc' = enc, t = "main" => SetByMain' \subseteq SetByMain
      PROVE  \E E \in SUBSET Settings :
                 /\ \A s \in Settings : enc'[s] = IF s \in E THEN Proper(s, mode) ELSE enc[s]
                 /\ t = "main" => SetByMain' \subseteq SetByMain \cup E
  <2>1. /\ \A s \in Settings : enc'[s] = IF s \in {} THEN Proper(s, mode) ELSE enc[s]
        /\ t = "main" => SetByMain' \subseteq SetByMain \cup {}
    BY <1>3
  <2>2. {} \in SUBSET Settings
    OBVIOUS
  <2> QED
    BY <1>2, <2>1, <2>2
<1>4. CASE GetRc(t)
  <2>1. Go(t, "rc") /\ UNCHANGED <<enc, saved>>
    BY <1>4 DEF GetRc
  <2>2. pc'[t] = "rc"
    BY <2>1 DEF Go
  <2>3. t = "main" => SetByMain' = {}
    BY <2>2 DEF SetByMain
  <2> QED
    BY <1>3, <2>1, <2>2, <2>3
<1>5. ASSUME NEW s \in SetLabels, Set(t, s)
      PROVE  /\ pc'[t] # "save" /\ saved' = saved
             /\ pc'[t] = "set denoise" => mode = 1 /\ NightDenoise
             /\ \E D \in SUBSET Settings :
                   /\ \A r \in Settings :
                         enc'[r] = IF r \in D THEN Proper(r, mode) ELSE enc[r]
                   /\ t = "main" => SetByMain' \subseteq SetByMain \cup D
  <2>1. /\ enc' = [enc EXCEPT ![s] = Proper(s, mode)] /\ Go(t, NextLabel[s])
        /\ saved' = saved /\ pc[t] = s
    BY <1>1, <1>5, WantedProper DEF Set
  <2>2. s \in Settings
    BY DEF SetLabels, Settings
  <2>3. \A r \in Settings : enc'[r] = IF r \in {s} THEN Proper(r, mode) ELSE enc[r]
    BY <2>1, <2>2
  <2>4. pc'[t] = NextLabel[s]
    BY <2>1 DEF Go
  <2>5. NextLabel["rc"] = "denoise" /\ NextLabel["grey"] = "fps" /\ NextLabel["fps"] = "done"
    BY DEF NextLabel
  <2>6. t = "main" => SetByMain' \subseteq SetByMain \cup {s}
    BY <2>1, <2>4, <2>5 DEF SetByMain, SetLabels, Settings
  <2> QED
    BY <1>2, <2>1, <2>2, <2>3, <2>4, <2>5, <2>6 DEF SetLabels
<1>6. CASE Denoise(t)
  <2>1. saved' = saved /\ pc[t] = "denoise"
    BY <1>6 DEF Denoise
  <2>2. CASE ~(mode = 1 /\ NightDenoise)
    <3>1. /\ enc' = [enc EXCEPT !["denoise"] = IF saved = "none" THEN @ ELSE saved]
          /\ Go(t, "grey")
      BY <1>1, <1>6, <2>2 DEF Denoise
    <3>2. pc'[t] = "grey"
      BY <3>1 DEF Go
    <3>3. (IF saved = "none" THEN enc["denoise"] ELSE saved) = "day"
      BY DEF ApplyInv, Settings
    <3>4. \A s \in Settings :
             enc'[s] = IF s \in {"denoise"} THEN Proper(s, mode) ELSE enc[s]
      BY <2>2, <3>1, <3>3, ProperDay DEF Settings
    <3>5. t = "main" => SetByMain' \subseteq SetByMain \cup {"denoise"}
      BY <2>1, <3>2 DEF SetByMain
    <3> QED
      BY <1>2, <2>1, <3>2, <3>4, <3>5 DEF Settings
  <2>3. CASE mode = 1 /\ NightDenoise
    <3>1. saved # "none"
      BY <2>3 DEF ApplyInv
    <3>2. Go(t, "set denoise") /\ enc' = enc
      BY <1>1, <1>6, <2>3, <3>1 DEF Denoise
    <3>3. pc'[t] = "set denoise"
      BY <3>2 DEF Go
    <3>4. t = "main" => SetByMain' \subseteq SetByMain
      BY <2>1, <3>3 DEF SetByMain
    <3> QED
      BY <1>3, <2>1, <2>3, <3>2, <3>3, <3>4
  <2> QED
    BY <2>2, <2>3
<1>7. ~SaveDenoise(t)
  BY <1>1 DEF SaveDenoise
<1>8. CASE SetDenoise(t)
  <2>1. /\ enc' = [enc EXCEPT !["denoise"] = "night"] /\ Go(t, "grey")
        /\ saved' = saved /\ pc[t] = "set denoise"
    BY <1>8 DEF SetDenoise
  <2>2. pc'[t] = "grey"
    BY <2>1 DEF Go
  <2>3. Proper("denoise", mode) = "night"
    BY <2>1, ProperDay DEF ApplyInv
  <2>4. \A s \in Settings :
           enc'[s] = IF s \in {"denoise"} THEN Proper(s, mode) ELSE enc[s]
    BY <2>1, <2>3
  <2>5. t = "main" => SetByMain' \subseteq SetByMain \cup {"denoise"}
    BY <2>1, <2>2 DEF SetByMain
  <2> QED
    BY <1>2, <2>1, <2>2, <2>4, <2>5 DEF Settings
<1> QED
  BY <1>4, <1>5, <1>6, <1>7, <1>8 DEF Apply, SetLabels

LEMMA FaultsStep == ASSUME TypeOK, [Next]_vars PROVE faults' = faults \/ Fails
<1>1. CASE \E t \in Threads : Apply(t)
  BY <1>1, ApplyEffect, TypeParts
<1>2. CASE Light \/ SigUsr1 \/ Restart \/ Frame \/ UNCHANGED vars
  BY <1>2 DEF Light, SigUsr1, Restart, Frame
<1>3. CASE Startup \/ StartupSave \/ Differs \/ MainCall \/ MainDone
  BY <1>3 DEF Startup, StartupSave, Differs, MainCall, MainDone
<1>4. CASE Poll \/ Publish \/ AutoDone \/ Leds
  BY <1>4 DEF Poll, Publish, AutoDone, Leds
<1> QED
  BY <1>1, <1>2, <1>3, <1>4 DEF Next, MainStep, AutoStep, Threads

LEMMA FaultsKept ==
    ASSUME TypeOK, PlaceInv, ApplyInv, [Next]_vars, faults' = 0
    PROVE  faults = 0 /\ ~Fails
<1>1. ~Fails
  <2>1. faults \in Nat
    BY DEF ApplyInv
  <2> QED
    BY <2>1 DEF Fails
<1>2. faults' = faults \/ Fails
  BY FaultsStep
<1> QED
  BY <1>1, <1>2

LEMMA StepApply ==
    ASSUME TypeOK, TypeOK', PlaceInv, ApplyInv, Orderly, [Next]_vars
    PROVE  ApplyInv'
<1>0. CallTypes /\ {"auto", "main"} = Threads
  BY TypeParts DEF Threads
<1>1. faults' \in Nat
  <2>1. faults' = faults \/ Fails
    BY FaultsStep
  <2>2. faults \in Nat
    BY DEF ApplyInv
  <2> QED
    BY <2>1, <2>2 DEF Fails
<1> SUFFICES ASSUME faults' = 0 PROVE ApplyInv'
  BY <1>1 DEF ApplyInv
<1>2. faults = 0 /\ ~Fails
  BY FaultsKept
<1>3. /\ \A t \in Threads : pc[t] \in Applying => arg[t] = mode
      /\ \A t \in Threads : pc[t] # "save"
      /\ \A t \in Threads : pc[t] = "set denoise" => mode = 1 /\ NightDenoise
      /\ pc["main"] \in Starting =>
            /\ mode = 0 /\ lastNight = -1 /\ saved \in {"none", "day"}
            /\ \A s \in Settings : enc[s] = "day"
      /\ pc["main"] \notin Starting => saved = "day"
      /\ ~NightFps => enc["fps"] = "day"
      /\ \A s \in SetByMain : enc[s] = Proper(s, mode)
  BY <1>2 DEF ApplyInv
<1>4. ASSUME NEW t \in Threads, Apply(t) PROVE ApplyInv'
  <2>1. /\ pc[t] \in Applying /\ pc'[t] \in Applying
        /\ \A u \in Threads \ {t} : pc'[u] = pc[u]
        /\ UNCHANGED <<mode, lastNight, arg>>
    BY <1>0, <1>4, ApplyEffect
  <2>2. /\ pc'[t] # "save" /\ saved' = saved
        /\ pc'[t] = "set denoise" => mode = 1 /\ NightDenoise
    BY <1>0, <1>2, <1>4, ApplySets
  <2>3. PICK D \in SUBSET Settings :
               /\ \A s \in Settings : enc'[s] = IF s \in D THEN Proper(s, mode) ELSE enc[s]
               /\ t = "main" => SetByMain' \subseteq SetByMain \cup D
    BY <1>0, <1>2, <1>4, ApplySets
  <2>4. t # "main" => SetByMain' = SetByMain /\ pc'["main"] = pc["main"]
    BY <1>0, <2>1 DEF SetByMain
  <2>5. SetByMain' \subseteq SetByMain \cup D /\ SetByMain' \subseteq Settings
    BY <2>3, <2>4 DEF SetByMain, Settings
  <2>6. \A s \in SetByMain' : enc'[s] = Proper(s, mode)
    BY <1>3, <2>3, <2>5
  <2>7. pc'["main"] \in Starting <=> pc["main"] \in Starting
    BY <1>0, <2>1, <2>4 DEF Starting, Applying
  <2>8. pc["main"] \in Starting => \A s \in Settings : enc'[s] = "day"
    BY <1>3, <2>3, ProperDay
  <2>9. ~NightFps => enc'["fps"] = "day"
    BY <1>3, <2>3, ProperDay DEF Settings
  <2>10. \A u \in Threads : pc'[u] \in Applying => arg'[u] = mode'
    BY <1>3, <2>1
  <2>11. \A u \in Threads : pc'[u] # "save" /\ (pc'[u] = "set denoise" => mode' = 1 /\ NightDenoise)
    BY <1>3, <2>1, <2>2
  <2> QED
    BY <1>1, <1>3, <2>1, <2>2, <2>6, <2>7, <2>8, <2>9, <2>10, <2>11 DEF ApplyInv
<1>5. CASE Startup \/ StartupSave
  <2>1. /\ pc["main"] \in Starting /\ pc'["auto"] = pc["auto"]
        /\ UNCHANGED <<mode, enc, arg, lastNight>>
    BY <1>0, <1>5, MainEffect DEF Startup, StartupSave, Starting
  <2>2. \/ pc'["main"] = "startup save" /\ saved' = saved
        \/ pc'["main"] = "check" /\ saved' = "day"
    <3>1. CASE Startup
      BY <1>0, <1>3, <2>1, <3>1 DEF Startup, Go, CallTypes
    <3>2. CASE StartupSave
      BY <1>0, <1>2, <1>3, <2>1, <3>2 DEF StartupSave, Go, CallTypes, Settings
    <3> QED
      BY <1>5, <3>1, <3>2
  <2>3. SetByMain' = {}
    <3>1. lastNight' # mode'
      <4>1. lastNight' = lastNight /\ mode' = mode
        BY <2>1
      <4>2. lastNight = -1 /\ mode = 0
        BY <1>3, <2>1
      <4> QED
        BY <4>1, <4>2
    <3>2. pc'["main"] \in {"startup save", "check"}
      BY <2>2
    <3> QED
      BY <3>1, <3>2 DEF SetByMain
  <2> QED
    BY <1>0, <1>1, <1>3, <2>1, <2>2, <2>3 DEF ApplyInv, Starting, Applying
<1>6. CASE Differs
  <2>1. /\ pc["main"] = "check" /\ pc'["main"] = "call" /\ pc'["auto"] = pc["auto"]
        /\ UNCHANGED <<mode, enc, arg, lastNight, saved>>
    BY <1>0, <1>6, MainEffect DEF Differs, Go, CallTypes
  <2>2. SetByMain' = {}
    BY <2>1 DEF SetByMain
  <2> QED
    BY <1>0, <1>1, <1>3, <2>1, <2>2 DEF ApplyInv, Starting, Applying
<1>7. CASE MainCall
  <2>1. /\ pc["main"] = "call" /\ Call("main", mode)
        /\ UNCHANGED <<mode, enc, lastNight, saved>>
    BY <1>7 DEF MainCall
  <2>2. mode \in {0, 1} /\ "main" \in Threads /\ "auto" \in Threads \ {"main"}
    BY <1>0 DEF CallTypes, Threads
  <2>3. /\ arg'["main"] = mode /\ \A u \in Threads \ {"main"} : arg'[u] = arg[u]
        /\ pc'["main"] = "get rc" /\ \A u \in Threads \ {"main"} : pc'[u] = pc[u]
    BY <1>0, <2>1, <2>2, CallGo, Zenon
  <2>4. arg'["auto"] = arg["auto"] /\ pc'["auto"] = pc["auto"]
    BY <2>2, <2>3
  <2>5. SetByMain' = {}
    BY <2>3 DEF SetByMain
  <2> QED
    BY <1>0, <1>1, <1>3, <2>1, <2>3, <2>4, <2>5 DEF ApplyInv, Starting, Applying
<1>8. CASE MainDone
  <2>1. /\ pc["main"] = "done" /\ pc'["main"] = "check" /\ pc'["auto"] = pc["auto"]
        /\ UNCHANGED <<mode, enc, arg, saved>> /\ lastNight' = mode
    BY <1>0, <1>8, MainEffect DEF MainDone, Go, CallTypes
  <2>2. SetByMain' = SetByMain
    BY <2>1 DEF SetByMain
  <2> QED
    BY <1>0, <1>1, <1>3, <2>1, <2>2 DEF ApplyInv, Starting, Applying
<1>9. CASE Publish
  <2>1. /\ mode' = ispNight /\ UNCHANGED <<enc, saved, lastNight>>
        /\ ispNight \in {0, 1} /\ Call("auto", ispNight) /\ pc["auto"] = "publish"
    BY <1>9 DEF Publish, PlaceInv
  <2>2. "auto" \in Threads /\ "main" \in Threads \ {"auto"}
    BY <1>0 DEF Threads
  <2>3. /\ arg'["auto"] = ispNight /\ \A u \in Threads \ {"auto"} : arg'[u] = arg[u]
        /\ pc'["auto"] = "get rc" /\ \A u \in Threads \ {"auto"} : pc'[u] = pc[u]
    BY <1>0, <2>1, <2>2, CallGo, Zenon
  <2>4. arg'["main"] = arg["main"] /\ pc'["main"] = pc["main"]
    BY <2>2, <2>3
  <2>5. CASE ispNight = mode
    <3>1. SetByMain' = SetByMain
      BY <2>1, <2>4, <2>5 DEF SetByMain
    <3> QED
      BY <1>0, <1>1, <1>3, <2>1, <2>3, <2>4, <2>5, <3>1 DEF ApplyInv, Starting, Applying
  <2>6. CASE ispNight # mode
    <3>1. pc["main"] = "check" /\ lastNight = mode
      BY <1>9, <2>6 DEF Publish, MainCalm, Orderly
    <3>2. SetByMain' = {}
      BY <2>1, <2>4, <2>6, <3>1 DEF SetByMain
    <3> QED
      BY <1>0, <1>1, <1>3, <2>1, <2>3, <2>4, <3>1, <3>2 DEF ApplyInv, Starting, Applying
  <2> QED
    BY <2>5, <2>6
<1>10. CASE SigUsr1
  <2>1. /\ pc["main"] = "check" /\ lastNight = mode /\ pc["auto"] \notin Applying
        /\ mode' = 1 - mode /\ UNCHANGED <<pc, enc, saved, arg, lastNight>>
    BY <1>10 DEF SigUsr1, Orderly, Undisturbed, MainCalm
  <2>2. mode' # lastNight
    BY <1>0, <2>1 DEF CallTypes
  <2>3. SetByMain' = {}
    BY <2>1, <2>2 DEF SetByMain
  <2> QED
    BY <1>0, <1>1, <1>3, <2>1, <2>3 DEF ApplyInv, Starting, Applying
<1>11. CASE Restart
  <2>1. /\ pc' = FirstPc /\ mode' = 0 /\ lastNight' = -1 /\ saved' = "none"
        /\ enc' = [s \in Settings |-> "day"]
    BY <1>11 DEF Restart
  <2>2. pc'["main"] = "startup" /\ pc'["auto"] \in {"poll", "off"}
    BY <2>1, FirstPcTypes
  <2>3. SetByMain' = {}
    BY <2>2 DEF SetByMain
  <2> QED
    BY <1>0, <1>1, <2>1, <2>2, <2>3 DEF ApplyInv, Starting, Applying, Settings
<1>12. CASE AutoDone \/ Poll \/ Leds
  <2>1. pc'["main"] = pc["main"] /\ pc'["auto"] \in {"publish", "leds", "poll"}
    <3>1. AutoDone => pc'["auto"] = "leds" /\ pc'["main"] = pc["main"]
      BY <1>0 DEF AutoDone, Go, CallTypes
    <3> QED
      BY <1>12, <3>1, PollTypes, LedsTypes
  <2>2. UNCHANGED <<mode, enc, saved, arg, lastNight>>
    BY <1>12 DEF AutoDone, Poll, Leds
  <2>3. SetByMain' = SetByMain
    BY <2>1, <2>2 DEF SetByMain
  <2> QED
    BY <1>0, <1>1, <1>3, <2>1, <2>2, <2>3 DEF ApplyInv, Starting, Applying
<1>13. CASE Light \/ Frame \/ UNCHANGED vars
  <2>1. UNCHANGED <<pc, mode, enc, saved, arg, lastNight>>
    BY <1>13 DEF Light, Frame
  <2>2. SetByMain' = SetByMain
    BY <2>1 DEF SetByMain
  <2> QED
    BY <1>1, <1>3, <2>1, <2>2 DEF ApplyInv
<1> QED
  BY <1>4, <1>5, <1>6, <1>7, <1>8, <1>9, <1>10, <1>11, <1>12, <1>13
     DEF Next, MainStep, AutoStep, Threads

LEMMA InitApply == Init => ApplyInv
<1> SUFFICES ASSUME Init PROVE ApplyInv
  OBVIOUS
<1>1. pc["main"] = "startup" /\ pc["auto"] \in {"poll", "off"}
  BY FirstPcTypes DEF Init
<1>2. SetByMain = {}
  BY <1>1 DEF SetByMain
<1> QED
  BY <1>1, <1>2 DEF Init, ApplyInv, Starting, Applying, Threads, Settings

\* When both threads have finished reconfiguring, no setting of the encoder is
\* left over from the other mode, in any interleaving of the two threads' calls
\* for one mode, at start-up as well, with SIGUSR1 whether autonight runs or not --
\* as long as no SDK call failed and g_night_mode was never changed, by a signal
\* or by autonight, while either thread was in apply_night_encoding() (without
\* that the run night_race shows the contrary).
THEOREM EncoderRight ==
    ASSUME Orderly PROVE Spec => []EncoderFollowsMode
<1>1. TypeOK /\ PlaceInv /\ ApplyInv /\ [Next]_vars => ApplyInv'
  BY StepTypes, StepApply
<1>2. ApplyInv => EncoderFollowsMode
  BY DEF ApplyInv, EncoderFollowsMode, MainCalm, SetByMain, Starting
<1> QED
  BY <1>1, <1>2, InitApply, TypeInvariant, PTL DEF Spec
=============================================================================
