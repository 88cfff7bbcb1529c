------------------------------ MODULE Transfer ------------------------------
(***************************************************************************)
(* src/protocol.c: one action per command of od_handle.  A command runs to *)
(* completion in the main loop, which aborts the transfer when the command *)
(* ends in an error (src/main.c); a disconnect, a session that expires and *)
(* a new authentication abort it between two commands.                     *)
(*                                                                         *)
(* What a peer writes is arbitrary, so the contents of a command appear as *)
(* a choice over what the handler tells apart.  Bytes are counted; what    *)
(* the panel shows is named by the etag its image was given.               *)
(***************************************************************************)
EXTENDS Integers, Display

CONSTANTS
    MaxPayload,     \* bound: data bytes of a command
    Etags,          \* image names a peer uses; 0 is no name
    SeqModulus,     \* values of the 8-bit sequence number: 256
    Behind,         \* repeats recognised: 33
    MaskBits,       \* bits of the mask of an acknowledgement: 32
    MaxFrames       \* bound: data frames of one PIPE transfer

ASSUME TransferAssumption ==
    /\ FullBytes \in Nat \ {0}
    /\ RegionSizes \subseteq Nat \ {0}
    /\ MaxPayload \in Nat
    /\ Etags \subseteq Nat \ {0}
    /\ SeqModulus \in Nat \ {0}
    /\ MaskBits \in Nat
    /\ MaxFrames \in Nat

(* What is recognised as a repeat is what an acknowledgement can name, and *)
(* less than a round of the numbers.                                       *)
ASSUME SequenceAssumption == Behind = MaskBits + 1 /\ Behind < SeqModulus

VARIABLES            \* and epd, of Display
    p,         \* struct od_protocol
    staging    \* a configuration transaction is open: od_config_writing

VARIABLES
    screen,    \* history: the image on the screen, 0 when it has no name
    base,      \* history: the image the open region transfer was drawn on
    refreshes  \* history: flips at every refresh

history == <<screen, base, refreshes>>
vars == <<p, epd, staging, history>>

-----------------------------------------------------------------------------

Etag == Etags \cup {0}

Protocol ==
    [active : BOOLEAN, pipe : BOOLEAN, pipe_failed : BOOLEAN, partial : BOOLEAN,
     compressed : BOOLEAN, zdone : BOOLEAN,
     received : Nat, expected : Sizes, displayed_etag : Etag, new_etag : Etag,
     next_seq : 0 .. SeqModulus - 1, pipe_frames : 0 .. MaxFrames]

TypeOK ==
    /\ p \in Protocol
    /\ p.received <= p.expected
    /\ epd \in Panel
    /\ staging \in BOOLEAN
    /\ screen \in Etag
    /\ base \in Etag
    /\ refreshes \in BOOLEAN

Boot ==
    [active |-> FALSE, pipe |-> FALSE, pipe_failed |-> FALSE, partial |-> FALSE,
     compressed |-> FALSE, zdone |-> FALSE, received |-> 0, expected |-> FullBytes,
     displayed_etag |-> 0, new_etag |-> 0, next_seq |-> 0, pipe_frames |-> 0]

Init ==
    /\ p = Boot
    /\ epd = [power |-> "off", window |-> 0]
    /\ staging = FALSE
    /\ screen = 0
    /\ base = 0
    /\ refreshes = FALSE

(* Mutant: the length of a region outlives its transfer.                   *)
ResetKeepingLength(q) ==
    [Boot EXCEPT !.displayed_etag = q.displayed_etag, !.expected = q.expected]

(* od_reset: everything but the name of the displayed image.               *)
Reset(q) == [Boot EXCEPT !.displayed_etag = q.displayed_etag]

(* od_abort                                                                *)
Abort(q) == IF q.active THEN Reset([q EXCEPT !.displayed_etag = 0]) ELSE Reset(q)

(* The panel after the abort of q.                                         *)
AfterAbort(q, e) == IF q.active THEN Off(e) ELSE {e}

(* A response is sent, or sending it fails and the main loop aborts.       *)
Answer(q, e) ==
    \/ p' = q /\ epd' = e
    \/ p' = Abort(q) /\ epd' \in AfterAbort(q, e)

(* The transfer is aborted and the command answered.                       *)
Refuse(q, e) ==
    /\ epd' \in AfterAbort(q, e)
    /\ p' = Abort(q)

-----------------------------------------------------------------------------
(* stream: data for the panel, raw or through the inflater.  Inflated data *)
(* may be withheld, may end the zlib stream, and may turn out to be bad.   *)

Room(q) == q.expected - q.received

Stored(q, bytes) == [q EXCEPT !.received = @ + bytes]

Inflated(q, bytes, final) ==
    IF q.zdone THEN IF bytes = 0 THEN {q} ELSE {}
    ELSE IF bytes = 0 THEN IF final THEN {} ELSE {q}
    ELSE {[Stored(q, n) EXCEPT !.zdone = done] : n \in 0 .. Room(q), done \in BOOLEAN}

(* The successors of q when the data is taken.                             *)
Taken(q, bytes, final) ==
    IF q.compressed THEN Inflated(q, bytes, final)
    ELSE IF bytes <= Room(q) THEN {Stored(q, bytes)} ELSE {}

MayBeBad(q, bytes, final) ==
    \/ Taken(q, bytes, final) = {}
    \/ q.compressed /\ bytes > 0

-----------------------------------------------------------------------------
(* Configuration commands.                                                 *)

(* Mutant: a configuration is opened beside the transfer.                  *)
ConfigWriteBeside ==
    /\ Answer(p, epd)
    /\ staging' \in BOOLEAN
    /\ UNCHANGED history

(* 0x41: aborts the transfer and opens a transaction, which is complete,   *)
(* refused or left open for 0x42.                                          *)
ConfigWrite ==
    /\ Refuse(p, epd)
    /\ staging' \in BOOLEAN
    /\ UNCHANGED history

(* 0x42: goes on with it, unless there is none.                            *)
ConfigChunk ==
    /\ Answer(p, epd)
    /\ staging' \in {FALSE, staging}
    /\ UNCHANGED history

(* 0x45                                                                    *)
ConfigClear ==
    /\ Refuse(p, epd)
    /\ staging' = FALSE
    /\ UNCHANGED history

-----------------------------------------------------------------------------
(* Commands that start a transfer abort the previous one and cancel an     *)
(* open configuration transaction, whatever becomes of them.               *)

Started(q) == [Abort(q) EXCEPT !.active = TRUE]

(* 0x70, 0x76 and 0x80 with contents that are refused.                     *)
StartRefused ==
    /\ Refuse(p, epd)
    /\ staging' = FALSE
    /\ UNCHANGED history

(* 0x70 and 0x80: epd_begin fails.                                         *)
StartPanelFails ==
    /\ p' = Abort(p)
    /\ epd' \in PanelFails
    /\ staging' = FALSE
    /\ UNCHANGED history

(* 0x70                                                                    *)
DirectStart(compressed, bytes) ==
    LET q == [Started(p) EXCEPT !.compressed = compressed]
    IN  /\ ~compressed => bytes = 0
        /\ \/ \E fed \in Taken(q, bytes, FALSE) : Answer(fed, PanelOn(FullBytes))
           \/ MayBeBad(q, bytes, FALSE) /\ Refuse(q, PanelOn(FullBytes))
        /\ staging' = FALSE
        /\ UNCHANGED history

(* start_region refuses the window or the image it is to be drawn on.      *)
RegionRefused ==
    /\ p' = [Abort(p) EXCEPT !.displayed_etag = 0]
    /\ epd' \in AfterAbort(p, epd)
    /\ staging' = FALSE
    /\ UNCHANGED history

RegionPanelFails ==
    /\ p' = [Abort(p) EXCEPT !.displayed_etag = 0]
    /\ epd' \in PanelFails
    /\ staging' = FALSE
    /\ UNCHANGED history

(* Mutant: any image will do.                                              *)
OnAnyImage(old) == old # 0 /\ Abort(p).displayed_etag # 0

(* The abort forgets the displayed image, so a region never follows an     *)
(* unfinished transfer.                                                    *)
OnDisplayed(old) == old # 0 /\ old = Abort(p).displayed_etag

Region(size) ==
    [Started(p) EXCEPT !.partial = TRUE, !.expected = size]

(* 0x76                                                                    *)
RegionStart(old, next, size, compressed, bytes) ==
    LET q == [Region(size) EXCEPT !.new_etag = next, !.compressed = compressed]
    IN  /\ next # 0 /\ OnDisplayed(old)
        /\ \/ \E fed \in Taken(q, bytes, FALSE) : Answer(fed, PanelOn(size))
           \/ MayBeBad(q, bytes, FALSE) /\ Refuse(q, PanelOn(size))
        /\ base' = old
        /\ staging' = FALSE
        /\ UNCHANGED <<screen, refreshes>>

(* 0x80                                                                    *)
PipeStart(compressed) ==
    /\ Answer([Started(p) EXCEPT !.pipe = TRUE, !.compressed = compressed], PanelOn(FullBytes))
    /\ staging' = FALSE
    /\ UNCHANGED history

PipeRegionStart(old, size, compressed) ==
    /\ OnDisplayed(old)
    /\ Answer([Region(size) EXCEPT !.pipe = TRUE, !.compressed = compressed], PanelOn(size))
    /\ base' = old
    /\ staging' = FALSE
    /\ UNCHANGED <<screen, refreshes>>

-----------------------------------------------------------------------------

(* Mutant: the displayed image is named even if the refresh failed.        *)
NamedAnyway(err, etag) == etag

Named(err, etag) == IF err THEN 0 ELSE etag

(* finish_transfer: acknowledge, refresh, switch off, report.  An          *)
(* acknowledgement that cannot be sent means no refresh.  A refresh that   *)
(* fails may have drawn the image or not.                                  *)
FinishTransfer(q, etag) ==
    \/ /\ Refuse(q, epd)
       /\ UNCHANGED <<screen, refreshes>>
    \/ \E err \in BOOLEAN :
          /\ p' = Reset([q EXCEPT !.displayed_etag = Named(err, etag)])
          /\ epd' \in IF err THEN Off(epd) ELSE {[power |-> "off", window |-> 0]}
          /\ screen' \in IF err THEN {0, etag} ELSE {etag}
          /\ refreshes' = ~refreshes

(* 0x71                                                                    *)
DirectData(bytes) ==
    /\ IF ~p.active \/ p.pipe
       THEN Refuse(p, epd)
       ELSE \/ \E fed \in Taken(p, bytes, FALSE) : Answer(fed, epd)
            \/ MayBeBad(p, bytes, FALSE) /\ Refuse(p, epd)
    /\ UNCHANGED <<staging, history>>

(* Mutant: the length is checked only of a stream that says it has ended.  *)
CompleteWhenEnded(q) == q.compressed => q.zdone

Complete(q) == q.received = q.expected /\ (q.compressed => q.zdone)

(* 0x72 and 0x82; the name in the END command, if any, comes first.  An    *)
(* END with a wrong length or mode is one of an incomplete transfer.       *)
End(pipe, named, etag) ==
    /\ \/ /\ p.active /\ p.pipe = pipe
          /\ \E fed \in Taken(p, 0, TRUE) :
                Complete(fed) /\ FinishTransfer(fed, IF named THEN etag ELSE p.new_etag)
       \/ /\ Refuse(p, epd)
          /\ UNCHANGED <<screen, refreshes>>
    /\ UNCHANGED <<staging, base>>

(* Mutant: numbers are compared as if they did not wrap.                   *)
RepeatedBelow(seq) == seq < p.next_seq

(* The sequence number is one of those seen lately.                        *)
Repeated(seq) ==
    LET behind == (p.next_seq - seq) % SeqModulus
    IN  behind # 0 /\ behind <= Behind /\ behind <= p.pipe_frames

(* Mutant: the mask is one bit short.                                      *)
SackOfOthers(q) ==
    LET latest == (q.next_seq - 1) % SeqModulus
        previous == IF q.pipe_frames > 1 THEN q.pipe_frames - 2 ELSE 0
    IN  {(latest - i) % SeqModulus :
            i \in 0 .. IF previous >= MaskBits THEN MaskBits ELSE previous}

(* sack: the numbers named by the latest one and the mask before it.       *)
Sack(q) ==
    LET latest == (q.next_seq - 1) % SeqModulus
        previous == IF q.pipe_frames > 0 THEN q.pipe_frames - 1 ELSE 0
    IN  {(latest - i) % SeqModulus :
            i \in 0 .. IF previous >= MaskBits THEN MaskBits ELSE previous}

(* The fatal NACK of a PIPE; the abort of the main loop that follows an    *)
(* unsent one clears pipe_failed.                                          *)
PipeFatal ==
    /\ p' \in {[Abort(p) EXCEPT !.pipe_failed = TRUE], Abort(p)}
    /\ epd' \in AfterAbort(p, epd)
    /\ UNCHANGED <<screen, refreshes>>

(* Mutant: the number stays.                                               *)
NumberedStill(q) == [q EXCEPT !.pipe_frames = @ + 1]

Numbered(q) ==
    [q EXCEPT !.next_seq = (@ + 1) % SeqModulus, !.pipe_frames = @ + 1]

(* Mutant: data outside a PIPE is an error like any other.                 *)
DropsNever == FALSE

Drops == ~p.active \/ ~p.pipe \/ p.pipe_failed

(* 0x81: dropped, repeated, taken - and with that perhaps the last of a    *)
(* raw frame - or fatal.  A frame that is empty or longer than was agreed  *)
(* on does not fit.                                                        *)
PipeData(seq, bytes, fits) ==
    /\ \/ Drops /\ UNCHANGED <<p, epd, screen, refreshes>>
       \/ /\ ~Drops /\ fits /\ Repeated(seq)
          /\ Answer(p, epd)
          /\ UNCHANGED <<screen, refreshes>>
       \/ /\ ~Drops /\ fits /\ seq = p.next_seq /\ p.pipe_frames < MaxFrames
          /\ \E fed \in Taken(p, bytes, FALSE) :
                IF ~p.compressed /\ ~p.partial /\ fed.received = fed.expected
                THEN FinishTransfer(Numbered(fed), 0)
                ELSE Answer(Numbered(fed), epd) /\ UNCHANGED <<screen, refreshes>>
       \/ /\ ~Drops
          /\ fits => ~Repeated(seq) /\ (seq = p.next_seq => MayBeBad(p, bytes, FALSE))
          /\ PipeFatal
    /\ UNCHANGED <<staging, base>>

-----------------------------------------------------------------------------

(* Every other command only answers; so does a malformed one.              *)
Query ==
    /\ Answer(p, epd)
    /\ UNCHANGED <<staging, history>>

(* The main loop's cleanup after a disconnect or an idle timeout, and      *)
(* dispatch's on expiry of the session and on 0x50.                        *)
Cleanup ==
    /\ Refuse(p, epd)
    /\ staging' = FALSE
    /\ UNCHANGED history

(* 0x0f, the watchdog or a power failure, perhaps during a refresh;        *)
(* epd_init switches the panel off.                                        *)
Reboot ==
    /\ p' = Boot
    /\ epd' \in PanelFails
    /\ staging' = FALSE
    /\ screen' \in {0, screen}
    /\ UNCHANGED <<base, refreshes>>

Payloads == 1 .. MaxPayload
Seqs == 0 .. SeqModulus - 1

Next ==
    \/ ConfigWrite \/ ConfigChunk \/ ConfigClear
    \/ StartRefused \/ StartPanelFails
    \/ \E compressed \in BOOLEAN, bytes \in {0} \cup Payloads : DirectStart(compressed, bytes)
    \/ RegionRefused \/ RegionPanelFails
    \/ \E old, next \in Etags, size \in RegionSizes, compressed \in BOOLEAN,
          bytes \in {0} \cup Payloads : RegionStart(old, next, size, compressed, bytes)
    \/ \E compressed \in BOOLEAN : PipeStart(compressed)
    \/ \E old \in Etags, size \in RegionSizes, compressed \in BOOLEAN :
          PipeRegionStart(old, size, compressed)
    \/ \E bytes \in Payloads : DirectData(bytes)
    \/ \E pipe, named \in BOOLEAN, etag \in Etag : End(pipe, named, etag)
    \/ \E seq \in Seqs, bytes \in Payloads, fits \in BOOLEAN : PipeData(seq, bytes, fits)
    \/ Query \/ Cleanup \/ Reboot

Spec == Init /\ [][Next]_vars

-----------------------------------------------------------------------------

(* An image transfer and a configuration transaction are never open at the *)
(* same time: each command that opens one closes the other.                *)
OneTransaction == ~(p.active /\ staging)

(* The panel is on exactly while a transfer is open, and its window has    *)
(* the length that transfer is measured against.                           *)
PanelFollowsTransfer ==
    IF p.active THEN epd = PanelOn(p.expected) /\ (~p.partial => p.expected = FullBytes)
    ELSE epd.power # "on"

(* An image the device claims to display is the one on the screen, through *)
(* every failed refresh, abort and reboot.                                 *)
EtagNamesScreen == p.displayed_etag \in {0, screen}

(* The screen is refreshed only from a window that has been filled to the  *)
(* last byte and, if the data was compressed, from a zlib stream that has  *)
(* ended; with the last DATA of a raw PIPE counted.                        *)
RefreshesWhatIsComplete ==
    [][refreshes' # refreshes =>
        /\ epd.power = "on"
        /\ p.compressed => p.zdone
        /\ \/ p.received = epd.window
           \/ \E bytes \in Payloads : p.pipe /\ ~p.partial /\ p.received + bytes = epd.window]_vars

(* A region is drawn only on the image its transfer was announced for,     *)
(* which is still the one on the screen.                                   *)
RegionsMeetTheirBase ==
    [][refreshes' # refreshes /\ p.partial => base # 0 /\ base = screen]_vars

(* Every frame that is taken for a repeat is named by the acknowledgement  *)
(* it is answered with, and nothing else is, once anything is stored: the  *)
(* reach of the repeats and of the mask agree, also across the wrap.       *)
SacksNameTheRepeats ==
    ~Drops /\ p.pipe_frames > 0 => Sack(p) = {seq \in Seqs : Repeated(seq)}

=============================================================================
