-------------------------------- MODULE Night --------------------------------
(***************************************************************************)
(* Day and night: the autonight thread of imp-common.c, which watches the   *)
(* exposure, and the main loop, which also looks at g_night_mode because    *)
(* SIGUSR1 may toggle it.  Both reconfigure the one encoder channel with    *)
(* apply_night_encoding() (capture_and_encoding.cpp), a sequence of SDK     *)
(* calls under no lock.                                                     *)
(*                                                                         *)
(* Each of the settings the encoder and the ISP have is "day" or "night";   *)
(* exposure is an integer on the scale of the thresholds.                   *)
(***************************************************************************)
EXTENDS Integers

CONSTANTS
    NightThresh, DayThresh, IrThresh,   \* AUTONIGHT_*_THRESH
    IrLedOff,       \* AUTONIGHT_IR_LED_OFF
    GraceTicks,     \* ir_check_grace_ticks
    NightRc, NightFps, NightDenoise,    \* the [night] overrides that are set
    DayFps,         \* RATENUM is set
    Evs, FirstEvs,  \* exposures of the scene, and of the scene at start
    Illuminated,    \* the exposure with a working illuminator on
    Works,          \* there is one
    Patient,        \* g_night_mode never changes while a thread reconfigures
    MaxLights, MaxSignals, MaxFaults, MaxRestarts   \* bounds

ASSUME ConfigAssumption ==
    /\ NightThresh \in Nat /\ DayThresh \in Nat /\ IrThresh \in Nat
    /\ DayThresh < NightThresh
    /\ IrLedOff \in BOOLEAN /\ Works \in BOOLEAN /\ Patient \in BOOLEAN
    /\ NightRc \in BOOLEAN /\ NightFps \in BOOLEAN
    /\ NightDenoise \in BOOLEAN /\ DayFps \in BOOLEAN
    /\ GraceTicks \in Nat /\ Illuminated \in Nat
    /\ FirstEvs \subseteq Evs /\ Evs \subseteq Nat
    /\ {MaxLights, MaxSignals, MaxFaults, MaxRestarts} \subseteq Nat

VARIABLES
    ev,             \* what the scene would expose to without illuminator
    enabled,        \* AUTONIGHT_ENABLED
    mode,           \* g_night_mode, 0 or 1
    enc,            \* the settings in force
    saved,          \* g_denoise_saved and what was saved, or "none"
    pc,             \* of both threads
    arg,            \* the argument of their apply_night_encoding()
    lastNight,      \* last_night of main()
    avg,            \* avgExp, -1 before the first reading
    ispNight, lastState,    \* isp_night, last_night_state; -1 at first
    pmode,          \* the running mode the ISP reports
    cut,            \* the IR-cut filter, which latches: 1 when released
    leds,           \* ir_leds_active
    lamp,           \* the LEDs: their GPIO keeps its value
    ticks,          \* ir_check_ticks_left, or -1 when no check is pending
    fault,          \* /var/run/hwstatus names ir_led
    overridden,     \* history: SIGUSR1 undid autonight's last switch
    lights, signals, faults, restarts   \* how often those happened

mainVars  == <<lastNight>>
autoVars  == <<avg, ispNight, lastState, pmode, cut>>
ledVars   == <<leds, lamp, ticks, fault>>
worldVars == <<ev, enabled, lights, signals, restarts>>
applyVars == <<enc, saved, arg, faults>>
vars == <<mode, overridden, pc, mainVars, autoVars, ledVars, worldVars, applyVars>>

Threads  == {"auto", "main"}
Settings == {"rc", "denoise", "grey", "fps"}

FirstPc == [auto |-> IF enabled THEN "poll" ELSE "off", main |-> "startup"]

Init ==
    /\ ev \in FirstEvs /\ enabled \in BOOLEAN
    /\ mode = 0 /\ overridden = FALSE
    /\ enc = [s \in Settings |-> "day"] /\ saved = "none"
    /\ pc = FirstPc
    /\ arg = [t \in Threads |-> 0]
    /\ lastNight = -1
    /\ avg = -1 /\ ispNight = -1 /\ lastState = -1 /\ pmode = 0 /\ cut = 0
    /\ leds = FALSE /\ lamp = FALSE /\ ticks = -1 /\ fault = FALSE
    /\ lights = 0 /\ signals = 0 /\ faults = 0 /\ restarts = 0

Go(t, label) == pc' = [pc EXCEPT ![t] = label]

-----------------------------------------------------------------------------
(* The world.                                                               *)

Applying == {"get rc", "rc", "denoise", "save", "set denoise", "grey", "fps", "done"}

\* The main thread is in its loop with nothing to reconfigure.
MainCalm == pc["main"] = "check" /\ lastNight = mode

\* ... and neither is the autonight thread in apply_night_encoding().
Undisturbed == MainCalm /\ pc["auto"] \notin Applying

Light ==
    /\ lights < MaxLights /\ lights' = lights + 1
    /\ ev' \in Evs \ {ev}
    /\ UNCHANGED <<mode, overridden, pc, mainVars, autoVars, ledVars, enabled, signals,
                   restarts, applyVars>>

\* sigusr1_handler(), which is there whether or not autonight runs.
SigUsr1 ==
    /\ signals < MaxSignals /\ signals' = signals + 1
    /\ Patient => Undisturbed
    /\ mode' = 1 - mode /\ overridden' = ~overridden
    /\ UNCHANGED <<pc, mainVars, autoVars, ledVars, ev, enabled, lights, restarts,
                   applyVars>>

\* The daemon ends, anywhere, and is started again: its variables, the encoder
\* and the ISP start over; filter and LEDs stay as they are.  The new autonight
\* thread clears a fault it finds in /var/run/hwstatus.
Restart ==
    /\ restarts < MaxRestarts /\ restarts' = restarts + 1
    /\ mode' = 0 /\ overridden' = FALSE
    /\ enc' = [s \in Settings |-> "day"] /\ saved' = "none"
    /\ pc' = FirstPc
    /\ arg' = [t \in Threads |-> 0]
    /\ lastNight' = -1
    /\ avg' = -1 /\ ispNight' = -1 /\ lastState' = -1 /\ pmode' = 0
    /\ leds' = FALSE /\ ticks' = -1 /\ fault' = FALSE
    /\ UNCHANGED <<ev, enabled, cut, lamp, lights, signals, faults>>

-----------------------------------------------------------------------------
(* apply_night_encoding(), one SDK call at a time.                          *)

applyUnchanged == <<mode, overridden, mainVars, autoVars, ledVars, worldVars, arg>>

Fails == faults < MaxFaults /\ faults' = faults + 1

Call(t, night) ==
    /\ Go(t, "get rc")
    /\ arg' = [arg EXCEPT ![t] = night]

GetRc(t) ==
    /\ pc[t] = "get rc"
    /\ \/ Go(t, "rc") /\ UNCHANGED faults
       \/ Go(t, "done") /\ Fails
    /\ UNCHANGED <<applyUnchanged, enc, saved>>

WantedKeepsFps(t, s) ==
    CASE s = "rc"   -> IF arg[t] = 1 /\ NightRc THEN "night" ELSE "day"
      [] s = "grey" -> IF arg[t] = 1 THEN "night" ELSE "day"
      [] s = "fps"  -> IF arg[t] = 1 /\ NightFps THEN "night" ELSE enc[s]

\* What a call asks for; without the override, or without a day rate to go
\* back to, the frame rate is left alone.
Wanted(t, s) ==
    CASE s = "rc"   -> IF arg[t] = 1 /\ NightRc THEN "night" ELSE "day"
      [] s = "grey" -> IF arg[t] = 1 THEN "night" ELSE "day"
      [] s = "fps"  -> IF arg[t] = 1 /\ NightFps THEN "night"
                       ELSE IF arg[t] = 0 /\ DayFps THEN "day"
                       ELSE enc[s]

NextLabel == [rc |-> "denoise", grey |-> "fps", fps |-> "done"]

\* SetChnAttrRcMode, SetChnColor2Grey, SetChnFrmRate: a failure is logged.
Set(t, s) ==
    /\ pc[t] = s
    /\ \/ enc' = [enc EXCEPT ![s] = Wanted(t, s)] /\ UNCHANGED faults
       \/ Fails /\ UNCHANGED enc
    /\ Go(t, NextLabel[s])
    /\ UNCHANGED <<applyUnchanged, saved>>

\* isp_denoise_apply(): by day what was saved is put back.
Denoise(t) ==
    /\ pc[t] = "denoise"
    /\ LET night == arg[t] = 1 /\ NightDenoise
       IN  \/ /\ ~night
              /\ enc' = [enc EXCEPT !["denoise"] = IF saved = "none" THEN @ ELSE saved]
              /\ Go(t, "grey")
           \/ night /\ saved = "none" /\ Go(t, "save") /\ UNCHANGED enc
           \/ night /\ saved # "none" /\ Go(t, "set denoise") /\ UNCHANGED enc
    /\ UNCHANGED <<applyUnchanged, saved, faults>>

\* isp_denoise_save() after its test of g_denoise_saved.
SaveDenoise(t) ==
    /\ pc[t] = "save"
    /\ \/ saved' = enc["denoise"] /\ UNCHANGED faults
       \/ Fails /\ UNCHANGED saved
    /\ Go(t, "set denoise")
    /\ UNCHANGED <<applyUnchanged, enc>>

SetDenoise(t) ==
    /\ pc[t] = "set denoise"
    /\ \/ enc' = [enc EXCEPT !["denoise"] = "night"] /\ UNCHANGED faults
       \/ Fails /\ UNCHANGED enc
    /\ Go(t, "grey")
    /\ UNCHANGED <<applyUnchanged, saved>>

Apply(t) ==
    \/ GetRc(t) \/ Denoise(t) \/ SaveDenoise(t) \/ SetDenoise(t)
    \/ \E s \in {"rc", "grey", "fps"} : Set(t, s)

-----------------------------------------------------------------------------
(* The main thread: the end of capture_and_encoding() and the main loop.    *)

mainUnchanged == <<mode, overridden, autoVars, ledVars, worldVars, enc>>

\* isp_denoise_save() once the autonight thread is running.
Startup ==
    /\ pc["main"] = "startup"
    /\ Go("main", IF saved = "none" THEN "startup save" ELSE "check")
    /\ UNCHANGED <<mainUnchanged, saved, arg, faults, lastNight>>

StartupSave ==
    /\ pc["main"] = "startup save"
    /\ \/ saved' = enc["denoise"] /\ UNCHANGED faults
       \/ Fails /\ UNCHANGED saved
    /\ Go("main", "check")
    /\ UNCHANGED <<mainUnchanged, arg, lastNight>>

Differs ==
    /\ pc["main"] = "check" /\ mode # lastNight
    /\ Go("main", "call")
    /\ UNCHANGED <<mainUnchanged, saved, arg, faults, lastNight>>

\* g_night_mode is read again for the call, and a third time after it.
MainCall ==
    /\ pc["main"] = "call"
    /\ Call("main", mode)
    /\ UNCHANGED <<mainUnchanged, saved, faults, lastNight>>

MainDone ==
    /\ pc["main"] = "done"
    /\ lastNight' = mode
    /\ Go("main", "check")
    /\ UNCHANGED <<mainUnchanged, saved, arg, faults>>

Frame == MainCalm /\ UNCHANGED vars

-----------------------------------------------------------------------------
(* The autonight thread.                                                    *)

Reading == IF lamp /\ Works /\ ev > Illuminated THEN Illuminated ELSE ev

EmaForgetsDecay(reading) ==
    IF avg < 0 THEN reading ELSE avg + reading \div 4

EmaShiftsTooFar(reading) ==
    IF avg < 0 THEN reading ELSE avg - avg \div 4 + reading \div 8

\* avgExp - (avgExp >> 2) + (ev >> 2)
Ema(reading) ==
    IF avg < 0 THEN reading ELSE avg - avg \div 4 + reading \div 4

\* The ISP mode after a poll: hysteresis between the two thresholds.
IspMode(average) ==
    IF average > NightThresh THEN 1
    ELSE IF average < DayThresh THEN 0
    ELSE pmode

\* Mutant: sample_set_IRCUT() is called on the way to night only.
IrCutOneWay(night) == cut' = IF night = 1 THEN 1 ELSE cut

\* sample_set_IRCUT(): a pulse on the GPIO of one or the other coil.
IrCut(night) == cut' = night

\* One poll up to the switch of the ISP and the IR-cut filter.  A failed
\* GetEVAttr changes nothing; the results of SetISPRunningMode and
\* sample_set_IRCUT are not looked at.
Poll ==
    /\ pc["auto"] = "poll"
    /\ avg' = Ema(Reading)
    /\ LET wanted == IspMode(avg')
       IN  \/ /\ wanted = pmode
              /\ ispNight' = IF ispNight < 0 THEN pmode ELSE ispNight
              /\ UNCHANGED <<pmode, cut, faults>>
           \/ /\ wanted # pmode
              /\ ispNight' = wanted
              /\ \/ pmode' = wanted /\ IrCut(wanted) /\ UNCHANGED faults
                 \/ IrCut(wanted) /\ Fails /\ UNCHANGED pmode
                 \/ pmode' = wanted /\ Fails /\ UNCHANGED cut
    /\ Go("auto", IF ispNight' # lastState THEN "publish" ELSE "leds")
    /\ UNCHANGED <<mode, overridden, mainVars, lastState, ledVars, worldVars, enc, saved,
                   arg>>

Publish ==
    /\ pc["auto"] = "publish"
    /\ Patient /\ ispNight # mode => MainCalm
    /\ mode' = ispNight /\ overridden' = FALSE
    /\ Call("auto", ispNight)
    /\ UNCHANGED <<mainVars, autoVars, ledVars, worldVars, enc, saved, faults>>

AutoDone ==
    /\ pc["auto"] = "done"
    /\ lastState' = ispNight
    /\ Go("auto", "leds")
    /\ UNCHANGED <<mode, overridden, mainVars, avg, ispNight, pmode, cut, ledVars,
                   worldVars, applyVars>>

WantLedsSingle == (avg > IrThresh) # IrLedOff

\* On above IrThresh, off at three quarters of it.
WantLeds ==
    LET wanted == IF leds THEN avg > (IrThresh * 3) \div 4 ELSE avg > IrThresh
    IN  wanted # IrLedOff

CheckBeginsAlways(on) == on

\* Going on starts the countdown of the health check.
CheckBegins(on) == on /\ ~leds

\* Control of the LEDs, the health check and the sleep.  The countdown
\* includes the poll that switched the LEDs on.
Leds ==
    /\ pc["auto"] = "leds"
    /\ leds' = WantLeds
    /\ lamp' = IF leds' # leds THEN leds' ELSE lamp
    /\ LET pending == IF CheckBegins(leds') THEN GraceTicks
                      ELSE IF leds' THEN ticks ELSE -1
       IN  /\ ticks' = IF pending > 1 THEN pending - 1 ELSE -1
           /\ fault' = IF pending = 1 THEN avg > DayThresh ELSE fault
    /\ Go("auto", "poll")
    /\ UNCHANGED <<mode, overridden, mainVars, autoVars, worldVars, applyVars>>

MainStep == Startup \/ StartupSave \/ Differs \/ MainCall \/ MainDone \/ Apply("main")
AutoStep == Poll \/ Publish \/ AutoDone \/ Leds \/ Apply("auto")

Next == Light \/ SigUsr1 \/ Restart \/ MainStep \/ Frame \/ AutoStep

\* Both threads keep running; failures of the SDK end after MaxFaults.
Spec == Init /\ [][Next]_vars
FairSpec == Spec /\ WF_vars(MainStep) /\ WF_vars(AutoStep)

-----------------------------------------------------------------------------
(* Properties.                                                             *)

Labels == {"poll", "off", "publish", "leds", "startup", "startup save",
           "check", "call", "done", "get rc", "rc", "denoise", "save",
           "set denoise", "grey", "fps"}

TypeOK ==
    /\ ev \in Evs /\ enabled \in BOOLEAN /\ mode \in {0, 1} /\ overridden \in BOOLEAN
    /\ enc \in [Settings -> {"day", "night"}]
    /\ saved \in {"none", "day", "night"}
    /\ pc \in [Threads -> Labels] /\ arg \in [Threads -> {0, 1}]
    /\ lastNight \in {-1, 0, 1}
    /\ ispNight \in {-1, 0, 1} /\ lastState \in {-1, 0, 1} /\ pmode \in {0, 1}
    /\ cut \in {0, 1} /\ {leds, lamp} \subseteq BOOLEAN
    /\ ticks \in -1..GraceTicks /\ fault \in BOOLEAN
    /\ avg \in Int
    /\ \A high \in Evs : (\A e \in Evs : e <= high) => avg <= high

\* What the encoder should do in a mode.
Proper(s, night) ==
    IF /\ night = 1
       /\ s = "rc" => NightRc
       /\ s = "fps" => NightFps
       /\ s = "denoise" => NightDenoise
    THEN "night" ELSE "day"

\* Whenever both threads have finished reconfiguring, every setting of the
\* encoder is that of g_night_mode: none is left over from the other mode.
\* Only under Patient: neither SIGUSR1 nor autonight may switch while one of the
\* threads is in apply_night_encoding().
EncoderFollowsMode ==
    MainCalm /\ pc["auto"] \in {"poll", "off"} /\ faults = 0
        => \A s \in Settings : enc[s] = Proper(s, mode)

\* Under an exposure that stays on one side (the LEDs' own light included) the
\* mode comes to agree with it, in spite of the rounding of the average (3 is what
\* the shifts may lose) -- but for a SIGUSR1 since autonight's last switch, which
\* nothing corrects while the light stays (line 1497 compares isp_night with its
\* own last value) -- as long as the SDK does what it is told: after a failed
\* SetISPRunningMode isp_night and the ISP differ, and the switch back, which
\* tests the ISP, may never come.
ModeFollowsLight ==
    [](faults = 0) =>
        /\ enabled /\ <>[](Reading > NightThresh + 3) => <>[](mode = 1 <=> ~overridden)
        /\ enabled /\ <>[](Reading + 3 < DayThresh) => <>[](mode = 0 <=> ~overridden)

\* exampleconf.ini:144: autonight "replaces external client SIGUSR1".  It does
\* not take the handler away.
ModeFollowsLightAlways ==
    enabled /\ <>[](Reading > NightThresh + 3) => <>[](mode = 1)

\* Under such an exposure the IR-cut filter comes to agree with it, although it
\* is moved only together with the ISP: at night after any restart, by day if
\* there was none (a restart puts the ISP, but not the filter, in day mode).
FilterFollowsLight ==
    [](faults = 0) /\ enabled =>
        /\ <>[](Reading > NightThresh + 3) => <>[](cut = 1)
        /\ [](restarts = 0) /\ <>[](Reading + 3 < DayThresh) => <>[](cut = 0)

\* README.md: "IR-cut filter + IR LED control": the filter follows the light,
\* and the LEDs are on when the daemon has them on, after a restart as well.
\* Neither holds.
FilterFollowsLightAlways ==
    enabled /\ <>[](Reading + 3 < DayThresh) => <>[](cut = 0)
LampIsKnown == lamp = leds

\* "A single threshold oscillates -- the IR light itself lowers exposure below
\* the threshold again": the LEDs stop switching some time after the light stops
\* changing, although their own light comes back in the average that controls
\* them -- for an illuminator whose light keeps the exposure above three
\* quarters of IrThresh (a brighter one does oscillate), and for a dead one.
LedsSettle == <>[][leds' = leds]_vars

\* LEDs that stay on while the exposure stays above the day threshold, dead ones
\* among them, are reported.
DeadLedsReported ==
    <>[](leds /\ Reading > DayThresh + 3) => <>[]fault

-----------------------------------------------------------------------------
(* The inductive invariant behind the safety properties, in parts          *)
(* (NightProofs proves it).                                                *)

Starting == {"startup", "startup save"}

\* Each thread is in its own code; what is published was polled.
PlaceInv ==
    /\ pc["auto"] \in {"poll", "off", "publish", "leds"} \cup Applying
    /\ pc["main"] \in {"check", "call"} \cup Starting \cup Applying
    /\ ~enabled => pc["auto"] = "off"
    /\ pc["auto"] \notin {"poll", "off"} => ispNight \in {0, 1}

\* The settings that the call of main() for this mode has made by now.
SetByMain ==
    CASE pc["main"] = "check" /\ lastNight = mode      -> Settings
      [] pc["main"] = "done"                           -> Settings
      [] pc["main"] \in {"denoise", "set denoise"}     -> {"rc"}
      [] pc["main"] = "grey"                           -> {"rc", "denoise"}
      [] pc["main"] = "fps"                            -> {"rc", "denoise", "grey"}
      [] OTHER                                         -> {}

\* While nothing fails and no switch meets main() reconfiguring, every call
\* under way is for the mode in force, what was saved is the day setting, and
\* what main() has set stays as it set it.
ApplyInv == faults \in Nat /\ (faults = 0 =>
    /\ \A t \in Threads : pc[t] \in Applying => arg[t] = mode
    /\ \A t \in Threads : pc[t] # "save"
    /\ \A t \in Threads : pc[t] = "set denoise" => mode = 1 /\ NightDenoise
    /\ pc["main"] \in Starting =>
          /\ mode = 0 /\ lastNight = -1 /\ saved \in {"none", "day"}
          /\ \A s \in Settings : enc[s] = "day"
    /\ pc["main"] \notin Starting => saved = "day"
    /\ ~NightFps => enc["fps"] = "day"
    /\ \A s \in SetByMain : enc[s] = Proper(s, mode))
=============================================================================
