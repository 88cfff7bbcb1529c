-------------------------- MODULE TelemetryProofs ---------------------------
(***************************************************************************)
(* What Telemetry promises, for every set of readings.  The numbers are    *)
(* lemmas about od_read_msd; the rest follows from where the flags can     *)
(* change, which is only where a command has found the link up.            *)
(***************************************************************************)
EXTENDS Telemetry, TLAPS

-----------------------------------------------------------------------------
(* Numbers                                                                 *)

(* Two quarters are a half, and one of them is lost towards zero.          *)
LEMMA HalvesAreNear == \A t \in Int : Halves(t) \in Int /\ 2 * Halves(t) - t \in -1 .. 1
<1> SUFFICES ASSUME NEW t \in Int PROVE Halves(t) \in Int /\ 2 * Halves(t) - t \in -1 .. 1
  OBVIOUS
<1>1. CASE t >= 0
  <2> DEFINE v == t \div 4
  <2>1. v \in Int /\ t - 4 * v \in 0 .. 3 /\ Quotient(t, 4) = v
    BY <1>1 DEF Quotient
  <2> HIDE DEF v
  <2>2. Halves(t) = v * 2 + Quotient((t - 4 * v) * 250000, 500000)
    BY <2>1 DEF Halves
  <2>3. PICK d \in 0 .. 3 : d = t - 4 * v
    BY <2>1
  <2>4. Quotient(d * 250000, 500000) = IF d < 2 THEN 0 ELSE 1
    BY <2>3 DEF Quotient
  <2> QED
    BY <2>1, <2>2, <2>3, <2>4
<1>2. CASE t < 0
  <2> DEFINE v == -((-t) \div 4)
  <2>1. v \in Int /\ 4 * v - t \in 0 .. 3 /\ Quotient(t, 4) = v
    BY <1>2 DEF Quotient
  <2> HIDE DEF v
  <2>2. Halves(t) = v * 2 + Quotient((t - 4 * v) * 250000, 500000)
    BY <2>1 DEF Halves
  <2>3. PICK d \in 0 .. 3 : d = 4 * v - t
    BY <2>1
  <2>4. (t - 4 * v) * 250000 = -(d * 250000)
    BY <2>1, <2>3
  <2>5. Quotient(-(d * 250000), 500000) = IF d < 2 THEN 0 ELSE -1
    BY <2>3 DEF Quotient
  <2> QED
    BY <2>1, <2>2, <2>3, <2>4, <2>5
<1> QED
  BY <1>1, <1>2

LEMMA NineBits ==
    \A v \in 0 .. 511 :
        /\ v % 256 \in Byte /\ (v \div 256) % 2 \in {0, 1}
        /\ (v % 256) + 256 * ((v \div 256) % 2) = v
BY DEF Byte

(* What SampleIsWhole asks of three fields, for a sample of t and r.       *)
Near(temperature, voltage, ninth, t, r) ==
    /\ \/ 2 * (temperature - 80) - t \in -1 .. 1
       \/ temperature = 0 /\ 2 * (temperature - 80) - t > 0
       \/ temperature = 255 /\ 2 * (temperature - 80) - t < 0
    /\ (voltage + 256 * ninth) * 1023 - r * 360 \in -511 .. 511

NearMsd(m, t, r) == Near(m.temperature, m.voltage, m.ninth, t, r)

(* The lemmas below argue with Near unexpanded, as an unknown predicate.   *)
LEMMA SampleMeans ==
    /\ SampleIsWhole <=> (reading # Nothing => NearMsd(msd, reading.temperature, reading.result))
    /\ SampleIsWhole' <=> (reading' # Nothing => NearMsd(msd', reading'.temperature, reading'.result))
<1>1. SampleIsWhole <=> (reading # Nothing => NearMsd(msd, reading.temperature, reading.result))
  BY ZenonT(60) DEF SampleIsWhole, NearMsd, Near
<1>2. SampleIsWhole' <=> (reading' # Nothing => NearMsd(msd', reading'.temperature, reading'.result))
  BY ZenonT(60) DEF SampleIsWhole, NearMsd, Near
<1> QED
  BY <1>1, <1>2

(* A sample leaves the flags alone and fits its fields, without loss.      *)
LEMMA EncodedIsWhole ==
    ASSUME msd \in Msd, NEW t \in Int, NEW r \in 0 .. 1023
    PROVE  /\ Encoded(t, r) \in Msd
           /\ Encoded(t, r).rebooted = msd.rebooted
           /\ Encoded(t, r).secured = msd.secured
           /\ NearMsd(Encoded(t, r), t, r)
<1> DEFINE m == Encoded(t, r)  h == Halves(t)  v == Voltage(r)
<1>1. h \in Int /\ 2 * h - t \in -1 .. 1
  BY HalvesAreNear
<1>2. v \in 0 .. 511 /\ v * 1023 - r * 360 \in -511 .. 511
  BY DEF Voltage
<1>3. v % 256 \in Byte /\ (v \div 256) % 2 \in {0, 1} /\ (v % 256) + 256 * ((v \div 256) % 2) = v
  BY <1>2, NineBits
<1>4. /\ m = [msd EXCEPT !.temperature = Clamp(h + 80), !.voltage = v % 256, !.ninth = (v \div 256) % 2]
      /\ m.temperature = Clamp(h + 80) /\ m.voltage = v % 256 /\ m.ninth = (v \div 256) % 2
      /\ m.rebooted = msd.rebooted /\ m.secured = msd.secured
  BY DEF Encoded, Msd
<1> HIDE DEF h, v
<1>5. Clamp(h + 80) \in Byte
  BY <1>1 DEF Clamp, Byte
<1> HIDE DEF m
<1>6. m \in Msd
  <2> DEFINE a == Clamp(h + 80)  b == v % 256  c == (v \div 256) % 2
  <2> a \in Byte /\ b \in Byte /\ c \in {0, 1} /\ m = [msd EXCEPT !.temperature = a, !.voltage = b, !.ninth = c]
    BY <1>3, <1>4, <1>5
  <2> HIDE DEF a, b, c
  <2> QED
    BY DEF Msd
<1>7. (m.voltage + 256 * m.ninth) * 1023 - r * 360 \in -511 .. 511
  BY <1>2, <1>3, <1>4
<1>8. \/ 2 * (m.temperature - 80) - t \in -1 .. 1
      \/ m.temperature = 0 /\ 2 * (m.temperature - 80) - t > 0
      \/ m.temperature = 255 /\ 2 * (m.temperature - 80) - t < 0
  BY <1>1, <1>4 DEF Clamp
<1>9. NearMsd(m, t, r)
  <2> DEFINE a == m.temperature  b == m.voltage  c == m.ninth
  <2>1. a \in Int /\ b \in Int /\ c \in Int
    BY <1>6 DEF Msd, Byte
  <2>2. (b + 256 * c) * 1023 - r * 360 \in -511 .. 511
    BY <1>7
  <2>3. \/ 2 * (a - 80) - t \in -1 .. 1
        \/ a = 0 /\ 2 * (a - 80) - t > 0
        \/ a = 255 /\ 2 * (a - 80) - t < 0
    BY <1>8
  <2> HIDE DEF a, b, c
  <2>4. Near(a, b, c, t, r)
    BY <2>1, <2>2, <2>3 DEF Near
  <2> QED
    BY <2>4 DEF NearMsd, a, b, c
<1> QED
  BY <1>4, <1>6, <1>9 DEF m

-----------------------------------------------------------------------------
(* The inductive invariant                                                 *)

Advertised ==
    /\ shown \in Msd \cup {Nothing}
    /\ air = "adv" <=> shown # Nothing
    /\ pc \in {"boot", "advertise"} => air = "idle"

(* The flags change where nothing is advertised.                           *)
Attended == pc \in {"answer", "told", "changed"} => air \in {"up", "lost", "idle"}

SecuredIsKnown == pc \notin {"boot", "changed"} => msd.secured = enabled

Telling == pc = "told" => told

(* From the sample to the update only the flags are up to date.            *)
Current ==
    pc \notin {"fast", "slow", "update"} /\ shown # Nothing => shown = msd \/ restart \/ refused

IInv ==
    /\ TypeOK /\ Advertised /\ Attended /\ SecuredIsKnown /\ Telling /\ Current
    /\ SampleIsWhole /\ ShownFlagsAreTrue /\ RebootIsTold

LEMMA NothingIsNothing ==
    /\ Nothing \notin Msd
    /\ Nothing \notin [temperature : Temperatures, result : Results]
BY DEF Nothing, Msd

LEMMA BlankIsMsd == Blank \in Msd
BY DEF Blank, Msd, Byte

LEMMA InitIInv == Init => IInv
<1> SUFFICES ASSUME Init PROVE IInv
  OBVIOUS
<1>1. TypeOK
  BY BlankIsMsd DEF Init, TypeOK
<1>2. msd.rebooted
  BY DEF Init, Blank
<1> QED
  BY <1>1, <1>2, NothingIsNothing
  DEF Init, IInv, Advertised, Attended, SecuredIsKnown, Telling, Current, SampleIsWhole,
      ShownFlagsAreTrue, RebootIsTold

LEMMA RebootIInv == IInv /\ Reboot => IInv'
<1> SUFFICES ASSUME IInv, Reboot PROVE IInv'
  OBVIOUS
<1>1. TypeOK'
  BY BlankIsMsd DEF IInv, Reboot, TypeOK
<1>2. msd'.rebooted
  BY DEF Reboot, Blank
<1> QED
  BY <1>1, <1>2, NothingIsNothing
  DEF Reboot, IInv, Advertised, Attended, SecuredIsKnown, Telling, Current, SampleIsWhole,
      ShownFlagsAreTrue, RebootIsTold

(* A record that keeps its three fields stays true to the last reading.    *)
LEMMA SampleStays ==
    ASSUME SampleIsWhole, reading' = reading, msd'.temperature = msd.temperature,
           msd'.voltage = msd.voltage, msd'.ninth = msd.ninth
    PROVE  SampleIsWhole'
BY SampleMeans DEF NearMsd

(* What a step keeps that samples nothing and changes no flag.             *)
LEMMA MsdStays ==
    IInv /\ UNCHANGED <<msd, reading>> /\ (told => told') => (SampleIsWhole /\ RebootIsTold)'
<1> SUFFICES ASSUME IInv, UNCHANGED <<msd, reading>>, told => told'
             PROVE  SampleIsWhole' /\ RebootIsTold'
  OBVIOUS
<1>1. SampleIsWhole'
  BY SampleStays DEF IInv
<1>2. RebootIsTold'
  BY DEF IInv, RebootIsTold
<1> QED
  BY <1>1, <1>2

LEMMA RadioIInv == IInv /\ (Connect \/ Connected \/ LinkLost \/ Disconnected) => IInv'
<1> SUFFICES ASSUME IInv, Connect \/ Connected \/ LinkLost \/ Disconnected PROVE IInv'
  OBVIOUS
<1>1. /\ UNCHANGED <<pc, msd, enabled, reading, told, restart, refused>>
      /\ air' \in {"linking", "up", "lost", "idle"} /\ air # "idle"
      /\ air' = "linking" => air = "adv"
      /\ shown' = Nothing
  BY DEF IInv, Advertised, Connect, Connected, LinkLost, Disconnected, Radio, Unmoved
<1>2. TypeOK'
  BY DEF IInv, TypeOK, Connect, Connected, LinkLost, Disconnected, Radio, Unmoved
<1>3. (Advertised /\ Attended /\ Current /\ ShownFlagsAreTrue)'
  BY <1>1 DEF IInv, Advertised, Attended, Current, ShownFlagsAreTrue
<1>4. (SecuredIsKnown /\ Telling)'
  BY <1>1 DEF IInv, SecuredIsKnown, Telling
<1> QED
  BY <1>1, <1>2, <1>3, <1>4, MsdStays DEF IInv

(* Steps of the loop between those that touch msd or the air.              *)
LEMMA QuietIInv == IInv /\ (Generation \/ NoStart \/ OtherCommand) => IInv'
<1> SUFFICES ASSUME IInv, Generation \/ NoStart \/ OtherCommand PROVE IInv'
  OBVIOUS
<1>1. /\ UNCHANGED <<msd, enabled, reading, told, air, shown, refused>>
      /\ pc \in {"top", "timer", "command"} /\ pc' \in {"top", "timer", "telemetry"}
  BY DEF Generation, NoStart, OtherCommand, radioVars, loopVars
<1>2. restart => restart'
  BY Zenon DEF Generation, NoStart, OtherCommand, loopVars
<1>3. TypeOK'
  BY <1>1 DEF IInv, TypeOK, Generation, NoStart, OtherCommand, radioVars, loopVars, LinkUp
<1>4. (Advertised /\ Attended /\ Current /\ ShownFlagsAreTrue /\ SecuredIsKnown /\ Telling)'
  BY <1>1, <1>2 DEF IInv, Advertised, Attended, Current, ShownFlagsAreTrue, SecuredIsKnown, Telling
<1> QED
  BY <1>1, <1>3, <1>4, MsdStays DEF IInv

(* A sample, in the words of the invariant.                                *)
LEMMA SampleStep ==
    ASSUME NEW t \in Temperatures, NEW r \in Results, msd \in Msd,
           reading' = [temperature |-> t, result |-> r],
           /\ msd' \in Msd
           /\ msd'.temperature = Encoded(t, r).temperature
           /\ msd'.voltage = Encoded(t, r).voltage /\ msd'.ninth = Encoded(t, r).ninth
    PROVE  SampleIsWhole'
<1>1. t \in Int /\ r \in 0 .. 1023
  BY TelemetryAssumption
<1>2. /\ reading'.temperature = t /\ reading'.result = r
  OBVIOUS
<1>3. NearMsd(Encoded(t, r), t, r)
  BY <1>1, EncodedIsWhole, ZenonT(30)
<1>4. NearMsd(msd', t, r)
  BY <1>3 DEF NearMsd
<1> QED
  BY <1>2, <1>4, SampleMeans

LEMMA SampledKeeps ==
    IInv /\ (Sampled \/ NotSampled) =>
        /\ msd' \in Msd
        /\ msd'.rebooted = msd.rebooted /\ msd'.secured = msd.secured
        /\ reading' \in [temperature : Temperatures, result : Results] \cup {Nothing}
        /\ SampleIsWhole'
<1> SUFFICES ASSUME IInv, Sampled \/ NotSampled
             PROVE  /\ msd' \in Msd
                    /\ msd'.rebooted = msd.rebooted /\ msd'.secured = msd.secured
                    /\ reading' \in [temperature : Temperatures, result : Results] \cup {Nothing}
                    /\ SampleIsWhole'
  OBVIOUS
<1>1. msd \in Msd /\ reading \in [temperature : Temperatures, result : Results] \cup {Nothing}
  BY DEF IInv, TypeOK
<1>2. CASE Sampled
  <2>1. PICK t \in Temperatures, r \in Results :
            msd' = Encoded(t, r) /\ reading' = [temperature |-> t, result |-> r]
    BY <1>2 DEF Sampled
  <2>2. t \in Int /\ r \in 0 .. 1023
    BY TelemetryAssumption
  <2>3. Encoded(t, r) \in Msd /\ Encoded(t, r).rebooted = msd.rebooted /\ Encoded(t, r).secured = msd.secured
    BY <1>1, <2>2, EncodedIsWhole, ZenonT(30)
  <2>4. SampleIsWhole'
    BY <1>1, <2>1, <2>3, SampleStep
  <2>5. reading' \in [temperature : Temperatures, result : Results]
    BY <2>1
  <2> QED
    BY <2>1, <2>3, <2>4, <2>5
<1>3. CASE NotSampled
  <2>1. msd' = msd /\ reading' = reading
    BY <1>3 DEF NotSampled
  <2>2. SampleIsWhole'
    BY <2>1, SampleStays DEF IInv
  <2> QED
    BY <1>1, <2>1, <2>2
<1> QED
  BY <1>2, <1>3

LEMMA SampleIInv == IInv /\ ((\E fast \in BOOLEAN : StartAgain(fast)) \/ Periodic \/ ReadMsd) => IInv'
<1> SUFFICES ASSUME IInv, (\E fast \in BOOLEAN : StartAgain(fast)) \/ Periodic \/ ReadMsd PROVE IInv'
  OBVIOUS
<1>1. /\ UNCHANGED <<enabled, changed, begun, fastAdvertising, restart, air, shown, refused, told>>
      /\ pc \in {"timer", "telemetry", "command"}
      /\ \/ (Sampled \/ NotSampled) /\ pc' \in {"fast", "slow", "update"}
         \/ Sampled /\ air = "up" /\ pc' = "answer"
         \/ NotSampled /\ pc' \in {"command", "top"}
  BY DEF StartAgain, Periodic, ReadMsd, loopVars, radioVars, Live, AfterSample
<1>2. /\ msd' \in Msd
      /\ msd'.rebooted = msd.rebooted /\ msd'.secured = msd.secured
      /\ reading' \in [temperature : Temperatures, result : Results] \cup {Nothing}
      /\ SampleIsWhole'
  BY <1>1, SampledKeeps
<1>3. TypeOK'
  BY <1>1, <1>2 DEF IInv, TypeOK
<1>4. (Advertised /\ Attended /\ ShownFlagsAreTrue /\ SecuredIsKnown /\ Telling)'
  BY <1>1, <1>2 DEF IInv, Advertised, Attended, ShownFlagsAreTrue, SecuredIsKnown, Telling
<1>5. Current'
  BY <1>1, <1>2 DEF IInv, Advertised, Current, NotSampled
<1>6. RebootIsTold'
  BY <1>1, <1>2 DEF IInv, RebootIsTold
<1> QED
  BY <1>2, <1>3, <1>4, <1>5, <1>6 DEF IInv

LEMMA BootIInv == IInv /\ Boot => IInv'
<1> SUFFICES ASSUME IInv, Boot PROVE IInv'
  OBVIOUS
<1>1. /\ UNCHANGED <<enabled, changed, begun, fastAdvertising, restart, air, shown, refused, told>>
      /\ pc = "boot" /\ pc' = "advertise" /\ air = "idle" /\ shown = Nothing
      /\ msd \in Msd /\ enabled \in BOOLEAN
  BY DEF Boot, loopVars, radioVars, IInv, Advertised, TypeOK
<1>2. /\ msd' \in Msd /\ msd'.rebooted = msd.rebooted /\ msd'.secured = enabled
      /\ reading' \in [temperature : Temperatures, result : Results] \cup {Nothing}
      /\ SampleIsWhole'
  <2>1. CASE \E t \in Temperatures, r \in Results :
                /\ msd' = [Encoded(t, r) EXCEPT !.secured = enabled]
                /\ reading' = [temperature |-> t, result |-> r]
    <3>1. PICK t \in Temperatures, r \in Results :
                /\ msd' = [Encoded(t, r) EXCEPT !.secured = enabled]
                /\ reading' = [temperature |-> t, result |-> r]
      BY <2>1
    <3>2. t \in Int /\ r \in 0 .. 1023
      BY TelemetryAssumption
    <3>3. Encoded(t, r) \in Msd /\ Encoded(t, r).rebooted = msd.rebooted
      BY <1>1, <3>2, EncodedIsWhole, ZenonT(30)
    <3>4. /\ msd' \in Msd /\ msd'.rebooted = msd.rebooted /\ msd'.secured = enabled
          /\ msd'.temperature = Encoded(t, r).temperature
          /\ msd'.voltage = Encoded(t, r).voltage /\ msd'.ninth = Encoded(t, r).ninth
      BY <1>1, <3>1, <3>3 DEF Msd
    <3>5. SampleIsWhole'
      BY <1>1, <3>1, <3>4, SampleStep
    <3>6. reading' \in [temperature : Temperatures, result : Results]
      BY <3>1
    <3> QED
      BY <3>4, <3>5, <3>6
  <2>2. CASE msd' = [msd EXCEPT !.secured = enabled] /\ UNCHANGED reading
    <3>1. /\ msd' \in Msd /\ msd'.rebooted = msd.rebooted /\ msd'.secured = enabled
          /\ msd'.temperature = msd.temperature /\ msd'.voltage = msd.voltage /\ msd'.ninth = msd.ninth
      BY <1>1, <2>2 DEF Msd
    <3>2. reading' \in [temperature : Temperatures, result : Results] \cup {Nothing}
      BY <2>2 DEF IInv, TypeOK
    <3>3. SampleIsWhole
      BY DEF IInv
    <3>4. UNCHANGED reading
      BY <2>2
    <3>5. SampleIsWhole'
      BY <3>1, <3>3, <3>4, SampleStays
    <3> QED
      BY <3>1, <3>2, <3>5
  <2> QED
    BY <2>1, <2>2 DEF Boot
<1>3. TypeOK'
  BY <1>1, <1>2 DEF IInv, TypeOK
<1>4. (Advertised /\ Attended /\ ShownFlagsAreTrue /\ SecuredIsKnown /\ Telling /\ Current)'
  BY <1>1, <1>2 DEF IInv, Advertised, Attended, ShownFlagsAreTrue, SecuredIsKnown, Telling, Current
<1>5. RebootIsTold'
  BY <1>1, <1>2 DEF IInv, RebootIsTold
<1> QED
  BY <1>2, <1>3, <1>4, <1>5 DEF IInv

(* What is shown becomes msd, or nothing, or stays.                        *)
LEMMA AirIInv == IInv /\ (AdvertiseFirst \/ Advertise \/ Update) => IInv'
<1> SUFFICES ASSUME IInv, AdvertiseFirst \/ Advertise \/ Update PROVE IInv'
  OBVIOUS
<1>1. UNCHANGED <<msd, enabled, reading, told>> /\ msd \in Msd
  BY DEF AdvertiseFirst, Advertise, Update, loopVars, IInv, TypeOK
<1>2. TypeOK'
  <2>1. CASE AdvertiseFirst
    BY <2>1 DEF IInv, TypeOK, AdvertiseFirst, AdvertiseStarts, loopVars, radioVars
  <2>2. CASE Advertise
    BY <2>2 DEF IInv, TypeOK, Advertise, radioVars
  <2>3. CASE Update
    BY <2>3 DEF IInv, TypeOK, Update, loopVars
  <2> QED
    BY <2>1, <2>2, <2>3
<1>3. /\ pc \in {"advertise", "fast", "slow", "update", "show"}
      /\ pc' \in {"top", "stopped", "telemetry", "command"}
  BY DEF AdvertiseFirst, Advertise, Update
<1>4. \/ air' = air /\ shown' = shown
      \/ air' = "adv" /\ shown' = msd
      \/ air' = "idle" /\ shown' = Nothing
  BY DEF AdvertiseFirst, AdvertiseStarts, Advertise, Update, radioVars
<1>5. \/ shown' = msd \/ shown' = Nothing \/ restart' = TRUE \/ refused' = TRUE
      \/ pc = "show" /\ shown' = shown /\ restart' = restart /\ refused' = refused
  BY DEF IInv, Advertised, AdvertiseFirst, AdvertiseStarts, Advertise, Update, LinkUp, radioVars, loopVars
<1>6. (Advertised /\ Attended /\ SecuredIsKnown /\ Telling)'
  BY <1>1, <1>3, <1>4, NothingIsNothing DEF IInv, Advertised, Attended, SecuredIsKnown, Telling
<1>7. Current'
  BY <1>1, <1>3, <1>5 DEF IInv, Current
<1>8. ShownFlagsAreTrue'
  BY <1>1, <1>3, <1>4 DEF IInv, Advertised, SecuredIsKnown, ShownFlagsAreTrue
<1> QED
  BY <1>1, <1>2, <1>6, <1>7, <1>8, MsdStays DEF IInv

LEMMA AnswerIInv == IInv /\ Answer => IInv'
<1> SUFFICES ASSUME IInv, Answer PROVE IInv'
  OBVIOUS
<1>1. /\ UNCHANGED <<msd, enabled, changed, begun, fastAdvertising, restart, air, shown, refused, reading>>
      /\ pc = "answer" /\ pc' \in {"told", "top"} /\ air \in {"up", "lost", "idle"}
  BY DEF Answer, loopVars, radioVars, Unheard, IInv, Attended
<1>2. told => told'
  BY DEF Answer
<1>3. pc' = "told" => told'
  <2> SUFFICES ASSUME pc' = "told" PROVE told'
    OBVIOUS
  <2>1. told' = (told \/ msd.rebooted)
    BY Zenon DEF Answer, Unheard
  <2>2. told \/ msd.rebooted
    BY DEF IInv, RebootIsTold
  <2> QED
    BY <2>1, <2>2
<1>4. TypeOK'
  <2>1. told' \in BOOLEAN
    BY DEF Answer, IInv, TypeOK, Msd
  <2> QED
    BY <1>1, <2>1 DEF IInv, TypeOK
<1>5. (Advertised /\ Attended /\ SecuredIsKnown /\ Telling /\ Current /\ ShownFlagsAreTrue)'
  BY <1>1, <1>3
  DEF IInv, Advertised, Attended, SecuredIsKnown, Telling, Current, ShownFlagsAreTrue
<1> QED
  BY <1>1, <1>2, <1>4, <1>5, MsdStays DEF IInv

(* A flag changes, and nothing is advertised.                              *)
LEMMA FlagIInv == IInv /\ (Told \/ ConfigChanged \/ ConfigNoticed) => IInv'
<1> SUFFICES ASSUME IInv, Told \/ ConfigChanged \/ ConfigNoticed PROVE IInv'
  OBVIOUS
<1>1. /\ UNCHANGED <<changed, begun, fastAdvertising, restart, air, shown, refused, reading, told>>
      /\ shown = Nothing /\ air \in {"up", "lost", "idle"}
      /\ pc' \in {"changed", "show"} /\ pc \in {"told", "command", "changed"}
  BY DEF Told, ConfigChanged, ConfigNoticed, Live, loopVars, radioVars, IInv, Advertised, Attended
<1>2. /\ enabled' \in BOOLEAN
      /\ msd' \in Msd
      /\ msd'.temperature = msd.temperature /\ msd'.voltage = msd.voltage /\ msd'.ninth = msd.ninth
      /\ msd'.rebooted = msd.rebooted \/ told
      /\ pc' # "changed" => msd'.secured = enabled'
  <2>1. enabled \in BOOLEAN /\ msd \in Msd
    BY DEF IInv, TypeOK
  <2>2. CASE Told
    BY <2>1, <2>2 DEF Told, Msd, loopVars, radioVars, IInv, SecuredIsKnown, Telling
  <2>3. CASE ConfigChanged
    BY <2>1, <2>3 DEF ConfigChanged
  <2>4. CASE ConfigNoticed
    BY <2>1, <2>4 DEF ConfigNoticed, Secured, Msd
  <2> QED
    BY <2>1, <2>2, <2>3, <2>4
<1>3. TypeOK'
  BY <1>1, <1>2 DEF IInv, TypeOK
<1>4. (Advertised /\ Attended /\ SecuredIsKnown /\ Telling /\ Current /\ ShownFlagsAreTrue)'
  BY <1>1, <1>2
  DEF IInv, Advertised, Attended, SecuredIsKnown, Telling, Current, ShownFlagsAreTrue
<1>5. SampleIsWhole'
  <2>1. SampleIsWhole /\ reading' = reading
    BY <1>1 DEF IInv
  <2> QED
    BY <1>1, <1>2, <2>1, SampleStays
<1>6. RebootIsTold'
  BY <1>1, <1>2 DEF IInv, RebootIsTold
<1> QED
  BY <1>3, <1>4, <1>5, <1>6 DEF IInv

LEMMA NextIInv == IInv /\ [Next]_vars => IInv'
<1> SUFFICES ASSUME IInv, [Next]_vars PROVE IInv'
  OBVIOUS
<1>1. CASE UNCHANGED vars
  <2>1. UNCHANGED <<msd, reading, told>>
    BY <1>1 DEF vars, loopVars
  <2>2. (TypeOK /\ Advertised /\ Attended /\ SecuredIsKnown)'
    BY <1>1 DEF vars, loopVars, radioVars, IInv, TypeOK, Advertised, Attended, SecuredIsKnown
  <2>3. (Telling /\ Current /\ ShownFlagsAreTrue)'
    BY <1>1 DEF vars, loopVars, radioVars, IInv, Telling, Current, ShownFlagsAreTrue
  <2> QED
    BY <2>1, <2>2, <2>3, MsdStays DEF IInv
<1>2. CASE Next
  BY <1>2, RebootIInv, RadioIInv, QuietIInv, SampleIInv, BootIInv, AirIInv, AnswerIInv, FlagIInv
  DEF Next
<1> QED
  BY <1>1, <1>2

-----------------------------------------------------------------------------

(* Every variable keeps its type.                                          *)
THEOREM TelemetryTypeCorrect == Spec => []TypeOK
<1>1. IInv => TypeOK
  BY DEF IInv, TypeOK
<1> QED
  BY <1>1, InitIInv, NextIInv, PTL DEF Spec

(* od_read_msd keeps temperature and voltage together and within half a    *)
(* unit, for every reading of the sensor and of the ADC.                   *)
THEOREM SamplesAreWhole == Spec => []SampleIsWhole
<1>1. IInv => SampleIsWhole
  BY DEF IInv
<1> QED
  BY <1>1, InitIInv, NextIInv, PTL DEF Spec

(* Nothing the controller or a client does makes the tag advertise a flag  *)
(* that is out of date.                                                    *)
THEOREM AdvertisedFlagsAreTrue == Spec => []ShownFlagsAreTrue
<1>1. IInv => ShownFlagsAreTrue
  BY DEF IInv
<1> QED
  BY <1>1, InitIInv, NextIInv, PTL DEF Spec

(* The main loop clears the reboot flag for a client that has it.          *)
THEOREM NoRebootIsMissed == Spec => []RebootIsTold
<1>1. IInv => RebootIsTold
  BY DEF IInv
<1> QED
  BY <1>1, InitIInv, NextIInv, PTL DEF Spec

(* A sample is advertised before the loop waits again.                     *)
THEOREM AdvertisedIsCurrent == Spec => []ShownIsCurrent
<1>1. IInv => ShownIsCurrent
  BY DEF IInv, Current, ShownIsCurrent
<1> QED
  BY <1>1, InitIInv, NextIInv, PTL DEF Spec

=============================================================================
