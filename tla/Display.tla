------------------------------ MODULE Display ------------------------------
(***************************************************************************)
(* What src/epd.c promises src/protocol.c: one step per call.  A panel     *)
(* that does not come ready while it is switched off is "stuck": nobody    *)
(* uses it, and its power is in doubt until the next call.                 *)
(***************************************************************************)
EXTENDS Integers

CONSTANTS
    FullBytes,      \* bytes of a frame: EPD_FRAME_BYTES
    RegionSizes     \* bytes a region may have: (w / 8) * h * 2

VARIABLE epd        \* power, and the bytes the window being filled takes

Sizes == RegionSizes \cup {FullBytes}
Panel == [power : {"off", "on", "stuck"}, window : {0} \cup Sizes]

(* epd_begin, epd_region: the panel comes on, or is switched off again.    *)
PanelOn(window) == [power |-> "on", window |-> window]
PanelFails == [power : {"off", "stuck"}, window : {0}]

(* epd_off, which does nothing to a panel that is off.                     *)
Off(e) ==
    IF e.power = "off" THEN {[power |-> "off", window |-> 0]}
    ELSE [power : {"off", "stuck"}, window : {0}]

DisplayInit == epd \in PanelFails

(* Calls: epd_begin or epd_region, and epd_finish or epd_off; a restart of *)
(* the tag leaves the panel as a call that fails does.                     *)
DisplayNext ==
    \/ /\ epd.power # "on"
       /\ \/ \E window \in Sizes : epd' = PanelOn(window)
          \/ epd' \in PanelFails
    \/ epd' \in Off(epd)

DisplaySpec == DisplayInit /\ [][DisplayNext]_epd

=============================================================================
