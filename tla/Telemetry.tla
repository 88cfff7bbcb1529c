----------------------------- MODULE Telemetry -----------------------------
(***************************************************************************)
(* src/telemetry.c and the part of src/main.c that owns msd, the           *)
(* advertised record of a temperature, a voltage and two flags.  A boot, a *)
(* command or a timer samples the sensors into it; the security flag       *)
(* follows the configuration; the reboot flag stays until a client has     *)
(* been told.  The controller advertises the copy that it was given last,  *)
(* and commands are taken only while it advertises nothing.                *)
(***************************************************************************)
EXTENDS Integers

CONSTANTS
    Temperatures,  \* readings of the sensor, in quarters of a degree
    Results        \* readings of the ADC

ASSUME TelemetryAssumption ==
    /\ Temperatures \subseteq Int
    /\ Results \subseteq 0 .. 1023       \* ADC_CONFIG_RES_10bit

VARIABLES
    pc,
    msd,        \* bytes 13 and 14, and the bits of byte 15
    enabled,    \* od_security_enabled, of the configuration in flash
    air,        \* the controller and the callbacks it has made
    changed,    \* generation differs from current
    begun,      \* current is not -1
    fastAdvertising, restart,  \* fast_advertising, restart_advertising
    shown,      \* the copy that is advertised, or Nothing
    reading,    \* history: what was sampled last, or Nothing
    told,       \* history: a client got the reboot flag
    refused     \* history: the controller refused the last update

loopVars == <<changed, begun, fastAdvertising, restart>>
radioVars == <<air, shown, refused>>
vars == <<pc, msd, enabled, loopVars, radioVars, reading, told>>

Nothing == [nothing |-> TRUE]
Byte == 0 .. 255
Msd == [temperature : Byte, voltage : Byte, ninth : {0, 1}, rebooted : BOOLEAN, secured : BOOLEAN]

TypeOK ==
    /\ pc \in {"boot", "advertise", "top", "timer", "fast", "slow", "telemetry", "update",
               "command", "answer", "told", "changed", "show", "stopped"}
    /\ msd \in Msd
    /\ air \in {"idle", "adv", "linking", "up", "lost"}
    /\ {enabled, changed, begun, fastAdvertising, restart, told, refused} \subseteq BOOLEAN
    /\ shown \in Msd \cup {Nothing}
    /\ reading \in [temperature : Temperatures, result : Results] \cup {Nothing}

(* The static initializer of msd.                                          *)
Blank == [temperature |-> 0, voltage |-> 0, ninth |-> 0, rebooted |-> TRUE, secured |-> FALSE]

Init ==
    /\ pc = "boot" /\ msd = Blank
    /\ enabled \in BOOLEAN
    /\ air = "idle" /\ shown = Nothing
    /\ changed = TRUE /\ begun = FALSE /\ fastAdvertising = TRUE /\ restart = FALSE
    /\ reading = Nothing /\ told = FALSE /\ refused = FALSE

(* A reboot for whatever reason.                                           *)
Reboot ==
    /\ pc' = "boot" /\ msd' = Blank
    /\ UNCHANGED enabled
    /\ air' = "idle" /\ shown' = Nothing
    /\ changed' = TRUE /\ begun' = FALSE /\ fastAdvertising' = TRUE /\ restart' = FALSE
    /\ reading' = Nothing /\ told' = FALSE /\ refused' = FALSE

-----------------------------------------------------------------------------
(* od_read_msd                                                             *)

(* Integer division as C has it.                                           *)
Quotient(a, b) == IF a >= 0 THEN a \div b ELSE -((-a) \div b)

Clamp(n) == IF n < 0 THEN 0 ELSE IF n > 255 THEN 255 ELSE n

(* The sensor reports whole degrees and millionths of the same sign.       *)
Halves(quarters) ==
    LET val1 == Quotient(quarters, 4)
        val2 == (quarters - 4 * val1) * 250000
    IN  val1 * 2 + Quotient(val2, 500000)

Voltage(result) == (result * 360 + 511) \div 1023

Encoded(t, r) ==
    [msd EXCEPT !.temperature = Clamp(Halves(t) + 80),
                !.voltage = Voltage(r) % 256,
                !.ninth = (Voltage(r) \div 256) % 2]

(* Both sensors have answered ...                                          *)
Sampled ==
    \E t \in Temperatures, r \in Results :
        msd' = Encoded(t, r) /\ reading' = [temperature |-> t, result |-> r]

(* Mutant: the temperature is stored before the ADC times out.             *)
HalfSampled ==
    /\ \E t \in Temperatures : msd' = [msd EXCEPT !.temperature = Clamp(Halves(t) + 80)]
    /\ UNCHANGED reading

(* ... or one has failed, or the ADC has taken too long.                   *)
NotSampled == UNCHANGED <<msd, reading>>

-----------------------------------------------------------------------------
(* The controller and its callbacks                                        *)

LinkUp == air \in {"up", "lost"}

Radio(from, to) == air = from /\ air' = to

Unmoved == UNCHANGED <<pc, msd, enabled, begun, fastAdvertising, restart, reading, told, refused>>

(* A connection ends the advertising, before its callback comes.           *)
Connect == Radio("adv", "linking") /\ shown' = Nothing /\ Unmoved /\ UNCHANGED changed
Connected == Radio("linking", "up") /\ changed' = TRUE /\ Unmoved /\ UNCHANGED shown
LinkLost == Radio("up", "lost") /\ Unmoved /\ UNCHANGED <<changed, shown>>
Disconnected == Radio("lost", "idle") /\ changed' = TRUE /\ Unmoved /\ UNCHANGED shown

(* Advertising starts with what is in msd, if the object is free.          *)
AdvertiseStarts == air = "idle" /\ air' = "adv" /\ shown' = msd /\ refused' = FALSE

-----------------------------------------------------------------------------
(* main                                                                    *)

(* The first sample may fail.                                              *)
Boot ==
    /\ pc = "boot" /\ pc' = "advertise"
    /\ \/ \E t \in Temperatures, r \in Results :
             /\ msd' = [Encoded(t, r) EXCEPT !.secured = enabled]
             /\ reading' = [temperature |-> t, result |-> r]
       \/ msd' = [msd EXCEPT !.secured = enabled] /\ UNCHANGED reading
    /\ UNCHANGED <<enabled, loopVars, radioVars, told>>

(* Without Bluetooth main returns, and the watchdog will end that.         *)
AdvertiseFirst ==
    /\ pc = "advertise"
    /\ \/ pc' = "top" /\ AdvertiseStarts
       \/ pc' = "stopped" /\ UNCHANGED radioVars
    /\ UNCHANGED <<msd, enabled, loopVars, reading, told>>

(* After a disconnect advertising is to start again, fast.                 *)
Generation ==
    LET ended == changed /\ begun /\ ~LinkUp
    IN  /\ pc = "top" /\ pc' = "timer"
        /\ fastAdvertising' = (fastAdvertising \/ ended)
        /\ restart' = (restart \/ ended)
        /\ changed' = FALSE /\ begun' = TRUE
        /\ UNCHANGED <<msd, enabled, radioVars, reading, told>>

(* It is time to start again, or to go on slowly; fast tells what is asked *)
(* for.  The turn to slow advertising takes a sample, unless one is new.   *)
StartAgain(fast) ==
    /\ pc = "timer" /\ ~LinkUp
    /\ restart \/ (fastAdvertising /\ ~fast)
    /\ pc' = IF fast THEN "fast" ELSE "slow"
    /\ NotSampled \/ (~fast /\ fastAdvertising /\ Sampled)
    /\ UNCHANGED <<enabled, loopVars, radioVars, told>>

NoStart ==
    /\ pc = "timer" /\ pc' = "telemetry"
    /\ UNCHANGED <<msd, enabled, loopVars, radioVars, reading, told>>

(* bt_le_adv_stop fails; it stops, and the rest fails or not; or a         *)
(* connection has come, whose callback is there already or not.            *)
Advertise ==
    /\ pc \in {"fast", "slow"} /\ pc' = "telemetry"
    /\ \/ restart' = TRUE /\ UNCHANGED <<fastAdvertising, radioVars>>
       \/ /\ air \in {"adv", "idle"} /\ air' = "adv" /\ shown' = msd /\ refused' = FALSE
          /\ restart' = FALSE /\ fastAdvertising' = (pc = "fast")
       \/ /\ air \in {"adv", "idle"} /\ air' = "idle" /\ shown' = Nothing
          /\ restart' = TRUE /\ UNCHANGED <<fastAdvertising, refused>>
       \/ LinkUp /\ restart' = FALSE /\ UNCHANGED <<fastAdvertising, radioVars>>
    /\ UNCHANGED <<msd, enabled, changed, begun, reading, told>>

AfterSample == "update"

(* Every five minutes without a connection.                                *)
Periodic ==
    /\ pc = "telemetry"
    /\ \/ ~LinkUp /\ Sampled /\ pc' = AfterSample
       \/ NotSampled /\ pc' = "command"
    /\ UNCHANGED <<enabled, loopVars, radioVars, told>>

(* bt_le_adv_update_data: an error is ignored, and without advertising it  *)
(* is always one.                                                          *)
Update ==
    /\ \/ pc = "update" /\ pc' = "command"
       \/ pc = "show" /\ pc' = "top"
    /\ \/ air = "adv" /\ shown' = msd /\ refused' = FALSE
       \/ air = "adv" /\ refused' = TRUE /\ UNCHANGED shown
       \/ air # "adv" /\ UNCHANGED <<shown, refused>>
    /\ UNCHANGED <<msd, enabled, loopVars, air, reading, told>>

Live == air = "up" /\ ~changed

(* No command, or one that is dead or does not matter here.                *)
OtherCommand ==
    /\ pc = "command" /\ pc' = "top"
    /\ UNCHANGED <<msd, enabled, loopVars, radioVars, reading, told>>

(* 0x44                                                                    *)
ReadMsd ==
    /\ pc = "command" /\ Live
    /\ \/ Sampled /\ pc' = "answer"
       \/ NotSampled /\ pc' = "top"
    /\ UNCHANGED <<enabled, loopVars, radioVars, told>>

(* Mutant: the result of the send is not asked for.                        *)
UnheardAsWell == "told"

Unheard == "top"

(* The answer is delivered, or is not, or the link is lost behind it.      *)
Answer ==
    /\ pc = "answer"
    /\ \/ Live /\ told' = (told \/ msd.rebooted) /\ pc' = "told"
       \/ told' \in {told, told \/ msd.rebooted} /\ pc' = Unheard
    /\ UNCHANGED <<msd, enabled, loopVars, radioVars, reading>>

Told ==
    /\ pc = "told" /\ pc' = "show"
    /\ msd' = [msd EXCEPT !.rebooted = FALSE]
    /\ UNCHANGED <<enabled, loopVars, radioVars, reading, told>>

(* A command that ends with another configuration.                         *)
ConfigChanged ==
    /\ pc = "command" /\ Live
    /\ enabled' \in BOOLEAN
    /\ pc' = "changed"
    /\ UNCHANGED <<msd, loopVars, radioVars, reading, told>>

(* Mutant: the flag is set and never cleared.                              *)
SecuredOnce == msd.secured \/ enabled

Secured == enabled

ConfigNoticed ==
    /\ pc = "changed" /\ pc' = "show"
    /\ msd' = [msd EXCEPT !.secured = Secured]
    /\ UNCHANGED <<enabled, loopVars, radioVars, reading, told>>

Next ==
    \/ Reboot
    \/ Connect \/ Connected \/ LinkLost \/ Disconnected
    \/ Boot \/ AdvertiseFirst \/ Generation
    \/ (\E fast \in BOOLEAN : StartAgain(fast)) \/ NoStart \/ Advertise
    \/ Periodic \/ Update
    \/ OtherCommand \/ ReadMsd \/ Answer \/ Told \/ ConfigChanged \/ ConfigNoticed

Spec == Init /\ [][Next]_vars

-----------------------------------------------------------------------------

(* msd has the last sample as a whole: a temperature less than half a      *)
(* degree off or the nearest end of the range, and the voltage to half of  *)
(* its unit over two fields.  Failed samples leave both alone.             *)
SampleIsWhole ==
    reading # Nothing =>
        LET quarters == reading.temperature
            error == 2 * (msd.temperature - 80) - quarters
            volts == msd.voltage + 256 * msd.ninth
        IN  /\ \/ error \in -1 .. 1
               \/ msd.temperature = 0 /\ error > 0
               \/ msd.temperature = 255 /\ error < 0
            /\ volts * 1023 - reading.result * 360 \in -511 .. 511

(* The flags that are advertised are those the tag has now, whatever the   *)
(* controller refuses: they change only while nothing is advertised, and   *)
(* a scanner sees whether security is on and whether the tag has rebooted. *)
ShownFlagsAreTrue ==
    shown # Nothing => shown.rebooted = msd.rebooted /\ shown.secured = enabled

(* The reboot flag is cleared only when a client has got it.               *)
RebootIsTold == ~msd.rebooted => told

(* When the loop waits, what is advertised is the last sample, unless the  *)
(* controller has refused it or the loop is going to start again.          *)
ShownIsCurrent ==
    pc = "top" /\ shown # Nothing => shown = msd \/ restart \/ refused

=============================================================================
