--------------------------- MODULE TransferProofs ---------------------------
(***************************************************************************)
(* Safety of Transfer for frames, regions and payloads of any size: the    *)
(* invariants of the run, what may be refreshed, and the numbers of PIPE   *)
(* frames.  Then a PIPE upload (Pipe), with queues and images of any       *)
(* length: client, connection and receiver agree on what is stored.        *)
(***************************************************************************)
EXTENDS Pipe, SequenceTheorems, TLAPS

(* A transfer and a panel that fit together.                               *)
Sound(q, e) ==
    /\ q \in Protocol
    /\ q.received <= q.expected
    /\ e \in Panel
    /\ IF q.active THEN e = PanelOn(q.expected) /\ (~q.partial => q.expected = FullBytes)
       ELSE e.power # "on"

(* The image a region is drawn on is the displayed one, while the transfer *)
(* lasts.                                                                  *)
Based == p.active /\ p.partial => base # 0 /\ base = p.displayed_etag

IInv ==
    /\ Sound(p, epd)
    /\ OneTransaction
    /\ EtagNamesScreen
    /\ Based
    /\ staging \in BOOLEAN
    /\ screen \in Etag
    /\ base \in Etag
    /\ refreshes \in BOOLEAN

-----------------------------------------------------------------------------

(* The state at boot is one with the panel off. *)
LEMMA BootSound ==
  /\ Boot \in Protocol
  /\ ~Boot.active
  /\ Boot.received <= Boot.expected
  /\ Boot.displayed_etag = 0
BY TransferAssumption DEF Boot, Protocol, Etag, Sizes

(* Resetting ends the transfer and keeps the name of the image. *)
LEMMA ResetSound ==
  ASSUME NEW q \in Protocol
  PROVE  /\ Reset(q) \in Protocol
         /\ ~Reset(q).active
         /\ Reset(q).received <= Reset(q).expected
         /\ Reset(q).displayed_etag = q.displayed_etag
BY BootSound, TransferAssumption DEF Reset, Boot, Protocol, Etag, Sizes

(* Aborting ends the transfer and at most forgets the image. *)
LEMMA AbortSound ==
  ASSUME NEW q \in Protocol
  PROVE  /\ Abort(q) \in Protocol
         /\ ~Abort(q).active
         /\ Abort(q).received <= Abort(q).expected
         /\ Abort(q).displayed_etag = IF q.active THEN 0 ELSE q.displayed_etag
<1>1. [q EXCEPT !.displayed_etag = 0] \in Protocol
  BY DEF Protocol, Etag
<1>2. [q EXCEPT !.displayed_etag = 0].displayed_etag = 0
  BY DEF Protocol
<1> QED  BY <1>1, <1>2, ResetSound DEF Abort

(* Switching the panel off leaves it off or stuck. *)
LEMMA OffSound ==
  ASSUME NEW e, NEW f \in Off(e)
  PROVE  f \in Panel /\ f.power # "on"
BY DEF Off, Panel, Sizes

(* A refused command leaves nothing open. *)
LEMMA RefuseSound ==
  ASSUME NEW q, NEW e, Sound(q, e), Refuse(q, e)
  PROVE  /\ Sound(p', epd')
         /\ ~p'.active
         /\ p'.displayed_etag = IF q.active THEN 0 ELSE q.displayed_etag
<1>1. epd' \in Panel /\ epd'.power # "on"
  <2>1. CASE q.active
    BY <2>1, OffSound DEF Refuse, AfterAbort
  <2>2. CASE ~q.active
    BY <2>2 DEF Refuse, AfterAbort, Sound
  <2> QED  BY <2>1, <2>2
<1> QED  BY <1>1, AbortSound DEF Refuse, Sound

(* An answered command leaves what it made, or nothing. *)
LEMMA AnswerSound ==
  ASSUME NEW q, NEW e, Sound(q, e), Answer(q, e)
  PROVE  /\ Sound(p', epd')
         /\ p'.active => p' = q
         /\ p'.displayed_etag \in {0, q.displayed_etag}
<1>1. CASE p' = q /\ epd' = e
  BY <1>1
<1>2. CASE Refuse(q, e)
  BY <1>2, RefuseSound
<1> QED  BY <1>1, <1>2 DEF Answer, Refuse

(* Data never overruns the window and changes nothing but the count and    *)
(* the end of the stream. *)
LEMMA TakenSound ==
  ASSUME NEW q, NEW e, Sound(q, e), NEW bytes \in Nat, NEW final \in BOOLEAN,
         NEW fed \in Taken(q, bytes, final)
  PROVE  /\ Sound(fed, e)
         /\ fed.active = q.active
         /\ fed.partial = q.partial
         /\ fed.pipe = q.pipe
         /\ fed.compressed = q.compressed
         /\ fed.expected = q.expected
         /\ fed.displayed_etag = q.displayed_etag
         /\ fed.new_etag = q.new_etag
         /\ fed.pipe_frames = q.pipe_frames
         /\ fed.next_seq = q.next_seq
         /\ bytes = 0 => fed.received = q.received /\ fed.zdone = q.zdone
         /\ ~q.compressed => fed.received = q.received + bytes
<1>1. q \in Protocol /\ q.received \in Nat /\ q.expected \in Nat /\ q.received <= q.expected
  BY TransferAssumption DEF Sound, Protocol, Sizes
<1>2. CASE ~q.compressed
  <2>1. bytes <= Room(q) /\ fed = [q EXCEPT !.received = @ + bytes]
    BY <1>2 DEF Taken, Stored
  <2> QED  BY <1>1, <1>2, <2>1 DEF Sound, Protocol, Room
<1>3. CASE q.compressed /\ fed = q
  <2>1. fed = q
    BY <1>3
  <2>2. Sound(fed, e)
    BY <2>1
  <2> QED  BY <1>3, <2>1, <2>2
<1>4. CASE q.compressed /\ fed # q
  <2>1. bytes # 0
    BY <1>4 DEF Taken, Inflated
  <2>2. PICK n \in 0 .. Room(q), done \in BOOLEAN : fed = [Stored(q, n) EXCEPT !.zdone = done]
    BY <1>4, <2>1 DEF Taken, Inflated
  <2>3. fed = [q EXCEPT !.received = @ + n, !.zdone = done]
    BY <2>2 DEF Stored
  <2>4. n \in Nat /\ n <= q.expected - q.received
    BY <1>1 DEF Room
  <2>5. fed \in Protocol /\ fed.received = q.received + n
    <3>1. Stored(q, n) \in Protocol /\ Stored(q, n).received = q.received + n
      BY <1>1, <2>4 DEF Stored, Protocol
    <3> QED  BY <2>2, <3>1 DEF Protocol
  <2>6. /\ fed.active = q.active /\ fed.partial = q.partial
        /\ fed.pipe = q.pipe /\ fed.compressed = q.compressed
        /\ fed.expected = q.expected
        /\ fed.displayed_etag = q.displayed_etag /\ fed.new_etag = q.new_etag
        /\ fed.pipe_frames = q.pipe_frames /\ fed.next_seq = q.next_seq
    BY <1>1, <2>3 DEF Protocol
  <2>7. Sound(fed, e)
    BY <1>1, <2>4, <2>5, <2>6 DEF Sound
  <2> QED  BY <1>4, <2>1, <2>6, <2>7
<1> QED  BY <1>2, <1>3, <1>4

(* Data in the middle of a transfer. *)
LEMMA DataSound ==
  ASSUME NEW q, NEW e, Sound(q, e), NEW bytes \in Nat, NEW fed \in Taken(q, bytes, FALSE)
  PROVE  /\ Sound(fed, e)
         /\ fed.active = q.active
         /\ fed.partial = q.partial
         /\ fed.displayed_etag = q.displayed_etag
         /\ fed.pipe_frames = q.pipe_frames
         /\ fed.expected = q.expected
         /\ ~q.compressed => fed.received = q.received + bytes
<1> DEFINE final == FALSE
<1>1. final \in BOOLEAN /\ fed \in Taken(q, bytes, final)
  OBVIOUS
<1> HIDE DEF final
<1> QED  BY <1>1, TakenSound

(* The empty input of an END. *)
LEMMA FinalSound ==
  ASSUME NEW q, NEW e, Sound(q, e), NEW fed \in Taken(q, 0, TRUE)
  PROVE  /\ Sound(fed, e)
         /\ fed.displayed_etag = q.displayed_etag
         /\ fed.compressed = q.compressed
         /\ fed.expected = q.expected
         /\ fed.received = q.received
         /\ fed.zdone = q.zdone
<1> DEFINE final == TRUE
<1>1. final \in BOOLEAN /\ 0 \in Nat /\ fed \in Taken(q, 0, final)
  OBVIOUS
<1> HIDE DEF final
<1> QED  BY <1>1, TakenSound

-----------------------------------------------------------------------------

(* A step that only aborts what is open, and closes the configuration      *)
(* transaction or opens one. *)
LEMMA RefuseStep ==
  ASSUME IInv, Refuse(p, epd), staging' \in BOOLEAN, base' = base,
         refreshes' \in BOOLEAN, screen' = screen
  PROVE  IInv'
<1>1. Sound(p', epd') /\ ~p'.active /\ p'.displayed_etag \in {0, p.displayed_etag}
  BY RefuseSound DEF IInv
<1> QED  BY <1>1 DEF IInv, OneTransaction, EtagNamesScreen, Based

(* A step that answers and leaves what is open. *)
LEMMA AnswerStep ==
  ASSUME IInv, Answer(p, epd), staging' \in {FALSE, staging}, UNCHANGED history
  PROVE  IInv'
<1>1. Sound(p', epd') /\ (p'.active => p' = p) /\ p'.displayed_etag \in {0, p.displayed_etag}
  BY AnswerSound DEF IInv
<1>2. screen' = screen /\ base' = base /\ refreshes' = refreshes
  BY DEF history
<1>3. staging' \in BOOLEAN /\ OneTransaction'
  <2>1. CASE staging' = FALSE
    BY <2>1 DEF OneTransaction
  <2>2. CASE staging' = staging
    BY <1>1, <2>2 DEF IInv, OneTransaction
  <2> QED  BY <2>1, <2>2
<1>4. EtagNamesScreen' /\ Based'
  BY <1>1, <1>2 DEF IInv, EtagNamesScreen, Based
<1> QED  BY <1>1, <1>2, <1>3, <1>4 DEF IInv

(* A step that opens a transfer q, which it may abort again. *)
LEMMA StartStep ==
  ASSUME IInv, NEW q, NEW e, Sound(q, e), Answer(q, e) \/ Refuse(q, e),
         q.displayed_etag \in {0, p.displayed_etag},
         q.partial => base' # 0 /\ base' = q.displayed_etag,
         staging' = FALSE, base' \in Etag, UNCHANGED <<screen, refreshes>>
  PROVE  IInv'
<1>1. Sound(p', epd') /\ (p'.active => p' = q) /\ p'.displayed_etag \in {0, q.displayed_etag}
  BY AnswerSound, RefuseSound
<1> QED  BY <1>1 DEF IInv, OneTransaction, EtagNamesScreen, Based

(* A finished transfer is closed and its image named, or forgotten. *)
LEMMA FinishStep ==
  ASSUME IInv, NEW q, Sound(q, epd), q.displayed_etag = p.displayed_etag,
         NEW etag \in Etag, FinishTransfer(q, etag), UNCHANGED <<staging, base>>
  PROVE  IInv'
<1>1. CASE Refuse(q, epd) /\ UNCHANGED <<screen, refreshes>>
  <2>1. Sound(p', epd') /\ ~p'.active /\ p'.displayed_etag \in {0, q.displayed_etag}
    BY <1>1, RefuseSound
  <2> QED  BY <1>1, <2>1 DEF IInv, OneTransaction, EtagNamesScreen, Based
<1>2. ASSUME NEW err \in BOOLEAN,
             p' = Reset([q EXCEPT !.displayed_etag = Named(err, etag)]),
             epd' \in IF err THEN Off(epd) ELSE {[power |-> "off", window |-> 0]},
             screen' \in IF err THEN {0, etag} ELSE {etag},
             refreshes' = ~refreshes
      PROVE  IInv'
  <2>1. [q EXCEPT !.displayed_etag = Named(err, etag)] \in Protocol
    BY DEF Sound, Protocol, Named, Etag
  <2>2. [q EXCEPT !.displayed_etag = Named(err, etag)].displayed_etag = Named(err, etag)
    BY DEF Sound, Protocol
  <2>3. /\ p' \in Protocol /\ ~p'.active /\ p'.received <= p'.expected
        /\ p'.displayed_etag = Named(err, etag)
    BY <1>2, <2>1, <2>2, ResetSound
  <2>4. epd' \in Panel /\ epd'.power # "on"
    BY <1>2, OffSound DEF Panel
  <2>5. Sound(p', epd')
    BY <2>3, <2>4 DEF Sound
  <2>6. p'.displayed_etag \in {0, screen'} /\ screen' \in Etag
    BY <1>2, <2>3 DEF Named, Etag
  <2> QED  BY <1>2, <2>3, <2>5, <2>6 DEF IInv, OneTransaction, EtagNamesScreen, Based
<1> QED  BY <1>1, <1>2 DEF FinishTransfer

(* The states of a transfer that has just been opened. *)
LEMMA StartedSound ==
  ASSUME IInv, NEW size \in Sizes, NEW next \in Etag, NEW compressed \in BOOLEAN,
         NEW piped \in BOOLEAN
  PROVE  /\ Sound([Started(p) EXCEPT !.pipe = piped, !.compressed = compressed],
                  PanelOn(FullBytes))
         /\ Sound([Started(p) EXCEPT !.compressed = compressed], PanelOn(FullBytes))
         /\ Sound([Region(size) EXCEPT !.new_etag = next, !.compressed = compressed],
                  PanelOn(size))
         /\ Sound([Region(size) EXCEPT !.pipe = piped, !.compressed = compressed],
                  PanelOn(size))
<1>1. p \in Protocol /\ FullBytes \in Sizes /\ size \in Sizes /\ size \in Nat /\ FullBytes \in Nat
  BY TransferAssumption DEF IInv, Sound, Sizes
<1>2. /\ Abort(p) \in Protocol /\ Abort(p).received = 0
      /\ Abort(p).expected = FullBytes /\ Abort(p).partial = FALSE
  BY <1>1, AbortSound DEF Abort, Reset, Boot
<1>3. /\ Started(p) \in Protocol /\ Started(p).active = TRUE
      /\ Started(p).received = 0 /\ Started(p).expected = FullBytes
      /\ Started(p).partial = FALSE
  BY <1>2 DEF Started, Protocol
<1>4. /\ Region(size) \in Protocol /\ Region(size).active = TRUE
      /\ Region(size).received = 0 /\ Region(size).expected = size
      /\ Region(size).partial = TRUE
  <2>1. [Started(p) EXCEPT !.expected = size] \in Protocol
    BY <1>1, <1>3 DEF Protocol
  <2> QED  BY <1>1, <1>3, <2>1 DEF Region, Protocol
<1>5. PanelOn(FullBytes) \in Panel /\ PanelOn(size) \in Panel
  BY <1>1 DEF PanelOn, Panel
<1>6. ASSUME NEW q \in Protocol, NEW window \in Sizes, q.active = TRUE, q.received = 0,
             q.expected = window, ~q.partial => window = FullBytes, NEW f,
             \/ f = [q EXCEPT !.pipe = piped, !.compressed = compressed]
             \/ f = [q EXCEPT !.compressed = compressed]
             \/ f = [q EXCEPT !.new_etag = next, !.compressed = compressed]
      PROVE  Sound(f, PanelOn(window))
  <2>1. f \in Protocol
    <3>1. CASE f = [q EXCEPT !.pipe = piped, !.compressed = compressed]
      BY <1>6, <3>1 DEF Protocol
    <3>2. CASE f = [q EXCEPT !.compressed = compressed]
      BY <1>6, <3>2 DEF Protocol
    <3>3. CASE f = [q EXCEPT !.new_etag = next, !.compressed = compressed]
      BY <1>6, <3>3 DEF Protocol
    <3> QED  BY <1>6, <3>1, <3>2, <3>3
  <2>2. /\ f.active = TRUE /\ f.received = 0 /\ f.expected = window
        /\ f.partial = q.partial
    BY <1>6 DEF Protocol
  <2>3. PanelOn(window) \in Panel /\ 0 <= window
    BY TransferAssumption DEF PanelOn, Panel, Sizes
  <2> QED  BY <1>6, <2>1, <2>2, <2>3 DEF Sound
<1> QED  BY <1>1, <1>3, <1>4, <1>6

(* What it is called and whether it is drawn on another image. *)
LEMMA StartedFields ==
  ASSUME IInv, NEW size \in Sizes, NEW next \in Etag, NEW compressed \in BOOLEAN,
         NEW piped \in BOOLEAN
  PROVE  /\ Abort(p).displayed_etag \in {0, p.displayed_etag}
         /\ LET full == [Started(p) EXCEPT !.compressed = compressed]
            IN  ~full.partial /\ full.displayed_etag = Abort(p).displayed_etag
         /\ LET full == [Started(p) EXCEPT !.pipe = piped, !.compressed = compressed]
            IN  ~full.partial /\ full.displayed_etag = Abort(p).displayed_etag
         /\ LET part == [Region(size) EXCEPT !.new_etag = next, !.compressed = compressed]
            IN  part.displayed_etag = Abort(p).displayed_etag
         /\ LET part == [Region(size) EXCEPT !.pipe = piped, !.compressed = compressed]
            IN  part.displayed_etag = Abort(p).displayed_etag
<1>1. p \in Protocol
  BY DEF IInv, Sound
<1>2. Abort(p) \in Protocol /\ Abort(p).partial = FALSE
  BY <1>1, AbortSound DEF Abort, Reset, Boot
<1>3. Abort(p).displayed_etag \in {0, p.displayed_etag}
  BY <1>1, AbortSound
<1>4. /\ Started(p).partial = FALSE
      /\ Started(p).displayed_etag = Abort(p).displayed_etag
      /\ Started(p) = [Abort(p) EXCEPT !.active = TRUE]
  BY <1>2 DEF Started, Protocol
<1> QED  BY <1>2, <1>3, <1>4 DEF Region, Protocol

-----------------------------------------------------------------------------

(* The invariant holds at boot. *)
LEMMA InitInv == Init => IInv
<1> SUFFICES ASSUME Init PROVE IInv
  OBVIOUS
<1>1. p = Boot /\ epd \in Panel /\ epd.power # "on"
  BY DEF Init, Panel
<1>2. Sound(p, epd)
  BY <1>1, BootSound DEF Sound
<1> QED  BY <1>1, <1>2, BootSound DEF Init, IInv, OneTransaction, EtagNamesScreen, Based, Etag

(* Commands that open a transfer preserve it. *)
LEMMA StartsPreserve ==
  ASSUME IInv,
         \/ \E compressed \in BOOLEAN, bytes \in {0} \cup Payloads : DirectStart(compressed, bytes)
         \/ \E old, next \in Etags, size \in RegionSizes, compressed \in BOOLEAN,
               bytes \in {0} \cup Payloads : RegionStart(old, next, size, compressed, bytes)
         \/ \E compressed \in BOOLEAN : PipeStart(compressed)
         \/ \E old \in Etags, size \in RegionSizes, compressed \in BOOLEAN :
               PipeRegionStart(old, size, compressed)
  PROVE  IInv'
<1> USE DEF Payloads
<1>0. /\ {0} \cup Payloads \subseteq Nat /\ Etags \subseteq Etag /\ base \in Etag
      /\ FullBytes \in Sizes /\ RegionSizes \subseteq Sizes /\ 0 \in Etag
  BY TransferAssumption DEF Etag, IInv, Sizes
<1>1. ASSUME NEW compressed \in BOOLEAN, NEW bytes \in {0} \cup Payloads,
             DirectStart(compressed, bytes)
      PROVE  IInv'
  <2> DEFINE q == [Started(p) EXCEPT !.compressed = compressed]
  <2>1. /\ Sound(q, PanelOn(FullBytes)) /\ ~q.partial
        /\ q.displayed_etag \in {0, p.displayed_etag}
    <3>1. FullBytes \in Sizes /\ 0 \in Etag /\ TRUE \in BOOLEAN
      BY <1>0
    <3>2. Sound(q, PanelOn(FullBytes))
      BY <3>1, StartedSound
    <3>3. /\ ~q.partial /\ q.displayed_etag = Abort(p).displayed_etag
          /\ Abort(p).displayed_etag \in {0, p.displayed_etag}
      BY <3>1, StartedFields
    <3> QED  BY <3>2, <3>3
  <2>2. bytes \in Nat /\ base' \in Etag /\ staging' = FALSE /\ UNCHANGED <<screen, refreshes>>
    BY <1>0, <1>1 DEF DirectStart, history
  <2>3. \/ \E fed \in Taken(q, bytes, FALSE) : Answer(fed, PanelOn(FullBytes))
        \/ Refuse(q, PanelOn(FullBytes))
    BY <1>1 DEF DirectStart
  <2> HIDE DEF q
  <2>4. ASSUME NEW fed \in Taken(q, bytes, FALSE), Answer(fed, PanelOn(FullBytes))
        PROVE  IInv'
    <3>1. /\ Sound(fed, PanelOn(FullBytes)) /\ fed.partial = q.partial
          /\ fed.displayed_etag = q.displayed_etag
      BY <2>1, <2>2, DataSound
    <3>2. ~fed.partial
      BY <2>1, <3>1
    <3> QED  BY <2>1, <2>2, <2>4, <3>1, <3>2, StartStep
  <2>5. CASE Refuse(q, PanelOn(FullBytes))
    BY <2>1, <2>2, <2>5, StartStep
  <2> QED  BY <2>3, <2>4, <2>5
<1>2. ASSUME NEW old \in Etags, NEW next \in Etags, NEW size \in RegionSizes,
             NEW compressed \in BOOLEAN, NEW bytes \in {0} \cup Payloads,
             RegionStart(old, next, size, compressed, bytes)
      PROVE  IInv'
  <2> DEFINE q == [Region(size) EXCEPT !.new_etag = next, !.compressed = compressed]
  <2>1. /\ Sound(q, PanelOn(size)) /\ q.displayed_etag = Abort(p).displayed_etag
        /\ q.displayed_etag \in {0, p.displayed_etag}
    <3>1. size \in Sizes /\ next \in Etag /\ TRUE \in BOOLEAN
      BY <1>0
    <3>2. Sound(q, PanelOn(size))
      BY <3>1, StartedSound
    <3>3. /\ q.displayed_etag = Abort(p).displayed_etag
          /\ Abort(p).displayed_etag \in {0, p.displayed_etag}
      BY <3>1, StartedFields
    <3> QED  BY <3>2, <3>3
  <2>2. /\ bytes \in Nat /\ base' \in Etag /\ staging' = FALSE
        /\ UNCHANGED <<screen, refreshes>>
        /\ base' # 0 /\ base' = q.displayed_etag
    BY <1>0, <1>2, <2>1 DEF RegionStart, OnDisplayed
  <2>3. \/ \E fed \in Taken(q, bytes, FALSE) : Answer(fed, PanelOn(size))
        \/ Refuse(q, PanelOn(size))
    BY <1>2 DEF RegionStart
  <2> HIDE DEF q
  <2>4. ASSUME NEW fed \in Taken(q, bytes, FALSE), Answer(fed, PanelOn(size))
        PROVE  IInv'
    <3>1. Sound(fed, PanelOn(size)) /\ fed.displayed_etag = q.displayed_etag
      BY <2>1, <2>2, DataSound
    <3> QED  BY <2>1, <2>2, <2>4, <3>1, StartStep
  <2>5. CASE Refuse(q, PanelOn(size))
    BY <2>1, <2>2, <2>5, StartStep
  <2> QED  BY <2>3, <2>4, <2>5
<1>3. ASSUME NEW compressed \in BOOLEAN, PipeStart(compressed)
      PROVE  IInv'
  <2> DEFINE q == [Started(p) EXCEPT !.pipe = TRUE, !.compressed = compressed]
  <2>1. /\ Sound(q, PanelOn(FullBytes)) /\ ~q.partial
        /\ q.displayed_etag \in {0, p.displayed_etag}
    <3>1. FullBytes \in Sizes /\ 0 \in Etag /\ TRUE \in BOOLEAN
      BY <1>0
    <3>2. Sound(q, PanelOn(FullBytes))
      BY <3>1, StartedSound
    <3>3. /\ ~q.partial /\ q.displayed_etag = Abort(p).displayed_etag
          /\ Abort(p).displayed_etag \in {0, p.displayed_etag}
      BY <3>1, StartedFields
    <3> QED  BY <3>2, <3>3
  <2>2. /\ base' \in Etag /\ staging' = FALSE /\ UNCHANGED <<screen, refreshes>>
        /\ Answer(q, PanelOn(FullBytes))
    BY <1>0, <1>3 DEF PipeStart, history
  <2> HIDE DEF q
  <2> QED  BY <2>1, <2>2, StartStep
<1>4. ASSUME NEW old \in Etags, NEW size \in RegionSizes, NEW compressed \in BOOLEAN,
             PipeRegionStart(old, size, compressed)
      PROVE  IInv'
  <2> DEFINE q == [Region(size) EXCEPT !.pipe = TRUE, !.compressed = compressed]
  <2>1. /\ Sound(q, PanelOn(size)) /\ q.displayed_etag = Abort(p).displayed_etag
        /\ q.displayed_etag \in {0, p.displayed_etag}
    <3>1. size \in Sizes /\ 0 \in Etag /\ TRUE \in BOOLEAN
      BY <1>0
    <3>2. Sound(q, PanelOn(size))
      BY <3>1, StartedSound
    <3>3. /\ q.displayed_etag = Abort(p).displayed_etag
          /\ Abort(p).displayed_etag \in {0, p.displayed_etag}
      BY <3>1, StartedFields
    <3> QED  BY <3>2, <3>3
  <2>2. /\ base' \in Etag /\ staging' = FALSE /\ UNCHANGED <<screen, refreshes>>
        /\ base' # 0 /\ base' = q.displayed_etag
        /\ Answer(q, PanelOn(size))
    BY <1>0, <1>4, <2>1 DEF PipeRegionStart, OnDisplayed
  <2> HIDE DEF q
  <2> QED  BY <2>1, <2>2, StartStep
<1> QED  BY <1>1, <1>2, <1>3, <1>4

(* Commands that open no transfer, or fail to, preserve it. *)
LEMMA ClosesPreserve ==
  ASSUME IInv,
         \/ ConfigWrite \/ ConfigClear \/ StartRefused \/ Cleanup
         \/ StartPanelFails \/ RegionRefused \/ RegionPanelFails \/ Reboot
  PROVE  IInv'
<1>1. CASE ConfigWrite \/ ConfigClear \/ StartRefused \/ Cleanup
  <2>1. /\ Refuse(p, epd) /\ staging' \in BOOLEAN
        /\ base' = base /\ refreshes' = refreshes /\ screen' = screen
    BY <1>1 DEF ConfigWrite, ConfigClear, StartRefused, Cleanup, history
  <2>2. refreshes' \in BOOLEAN
    BY <2>1 DEF IInv
  <2> QED  BY <2>1, <2>2, RefuseStep
<1>2. CASE StartPanelFails \/ RegionRefused \/ RegionPanelFails \/ Reboot
  <2>1. p \in Protocol
    BY DEF IInv, Sound
  <2>2. ASSUME NEW q \in Protocol, ~q.active, q.received <= q.expected
        PROVE  LET f == [q EXCEPT !.displayed_etag = 0]
               IN  f \in Protocol /\ ~f.active /\ f.received <= f.expected /\ f.displayed_etag = 0
    BY <2>2 DEF Protocol, Etag
  <2>3. /\ p' \in Protocol /\ ~p'.active /\ p'.received <= p'.expected
        /\ p'.displayed_etag \in {0, p.displayed_etag}
        /\ screen' # screen => p'.displayed_etag = 0
    BY <1>2, <2>1, <2>2, AbortSound, BootSound
       DEF StartPanelFails, RegionRefused, RegionPanelFails, Reboot, history
  <2>4. epd' \in Panel /\ epd'.power # "on"
    <3>1. CASE epd' \in PanelFails
      BY <3>1 DEF PanelFails, Panel
    <3>2. CASE epd' \in AfterAbort(p, epd) /\ p.active
      BY <3>2, OffSound DEF AfterAbort
    <3>3. CASE epd' \in AfterAbort(p, epd) /\ ~p.active
      BY <3>3 DEF AfterAbort, IInv, Sound
    <3> QED  BY <1>2, <3>1, <3>2, <3>3
                DEF StartPanelFails, RegionRefused, RegionPanelFails, Reboot
  <2>5. /\ staging' = FALSE /\ base' = base /\ refreshes' = refreshes
        /\ screen' = screen \/ screen' = 0
    BY <1>2 DEF StartPanelFails, RegionRefused, RegionPanelFails, Reboot, history
  <2>6. Sound(p', epd')
    BY <2>3, <2>4 DEF Sound
  <2>7. EtagNamesScreen' /\ screen' \in Etag
    BY <2>3, <2>5 DEF EtagNamesScreen, IInv, Etag
  <2> QED  BY <2>3, <2>5, <2>6, <2>7 DEF IInv, OneTransaction, Based
<1> QED  BY <1>1, <1>2

(* Commands that only answer preserve it. *)
LEMMA AnswersPreserve ==
  ASSUME IInv, Query \/ ConfigChunk
  PROVE  IInv'
<1>1. Answer(p, epd) /\ staging' \in {FALSE, staging} /\ UNCHANGED history
  BY DEF Query, ConfigChunk
<1> QED  BY <1>1, AnswerStep

(* What is left of a transfer in the middle of its data. *)
LEMMA DataStep ==
  ASSUME IInv, NEW q, Sound(q, epd), Answer(q, epd), UNCHANGED <<staging, history>>,
         q.active = p.active, q.partial = p.partial, q.displayed_etag = p.displayed_etag
  PROVE  IInv'
<1>1. Sound(p', epd') /\ (p'.active => p' = q) /\ p'.displayed_etag \in {0, q.displayed_etag}
  BY AnswerSound
<1>2. screen' = screen /\ base' = base /\ refreshes' = refreshes /\ staging' = staging
  BY DEF history
<1>3. p'.active => p.active /\ p'.partial = p.partial
  BY <1>1
<1>4. p'.active => p'.displayed_etag = p.displayed_etag
  BY <1>1
<1>5. OneTransaction'
  BY <1>2, <1>3 DEF IInv, OneTransaction
<1>6. EtagNamesScreen'
  BY <1>1, <1>2 DEF IInv, EtagNamesScreen
<1>7. Based'
  BY <1>2, <1>3, <1>4 DEF IInv, Based
<1> QED  BY <1>1, <1>2, <1>5, <1>6, <1>7 DEF IInv

(* Data of a direct transfer preserves it. *)
LEMMA DirectDataPreserves ==
  ASSUME IInv, NEW bytes \in Payloads, DirectData(bytes)
  PROVE  IInv'
<1>1. bytes \in Nat /\ Sound(p, epd) /\ UNCHANGED <<staging, history>>
  BY TransferAssumption DEF DirectData, Payloads, IInv
<1>2. ASSUME NEW fed \in Taken(p, bytes, FALSE), Answer(fed, epd)
      PROVE  IInv'
  <2>1. /\ Sound(fed, epd) /\ fed.active = p.active /\ fed.partial = p.partial
        /\ fed.displayed_etag = p.displayed_etag
    BY <1>1, DataSound
  <2> QED  BY <1>1, <1>2, <2>1, DataStep
<1>3. CASE Refuse(p, epd)
  <2>1. /\ staging' \in BOOLEAN /\ base' = base /\ refreshes' \in BOOLEAN /\ screen' = screen
    BY <1>1 DEF IInv, history
  <2> QED  BY <1>3, <2>1, RefuseStep
<1> QED  BY <1>2, <1>3 DEF DirectData

(* The end of a transfer preserves it. *)
LEMMA EndPreserves ==
  ASSUME IInv, NEW pipe \in BOOLEAN, NEW named \in BOOLEAN, NEW etag \in Etag,
         End(pipe, named, etag)
  PROVE  IInv'
<1>1. Sound(p, epd) /\ p.new_etag \in Etag /\ UNCHANGED <<staging, base>>
  BY DEF End, IInv, Sound, Protocol
<1>2. ASSUME NEW fed \in Taken(p, 0, TRUE),
             FinishTransfer(fed, IF named THEN etag ELSE p.new_etag)
      PROVE  IInv'
  <2>1. Sound(fed, epd) /\ fed.displayed_etag = p.displayed_etag
    BY <1>1, <1>2, FinalSound
  <2>2. (IF named THEN etag ELSE p.new_etag) \in Etag
    BY <1>1
  <2> QED  BY <1>1, <1>2, <2>1, <2>2, FinishStep
<1>3. CASE Refuse(p, epd) /\ UNCHANGED <<screen, refreshes>>
  <2>1. /\ staging' \in BOOLEAN /\ base' = base /\ refreshes' \in BOOLEAN /\ screen' = screen
    BY <1>1, <1>3 DEF IInv
  <2> QED  BY <1>3, <2>1, RefuseStep
<1> QED  BY <1>2, <1>3 DEF End

(* A frame that has been counted is the same transfer. *)
LEMMA NumberedSound ==
  ASSUME NEW q, NEW e, Sound(q, e), q.pipe_frames < MaxFrames
  PROVE  /\ Sound(Numbered(q), e)
         /\ Numbered(q).active = q.active
         /\ Numbered(q).partial = q.partial
         /\ Numbered(q).compressed = q.compressed
         /\ Numbered(q).displayed_etag = q.displayed_etag
<1> DEFINE n == Numbered(q)
<1>1. q \in Protocol /\ q.pipe_frames \in Nat /\ q.next_seq \in Nat
  BY TransferAssumption DEF Sound, Protocol
<1>2. (q.next_seq + 1) % SeqModulus \in 0 .. SeqModulus - 1
  BY <1>1, TransferAssumption
<1>3. q.pipe_frames + 1 \in 0 .. MaxFrames
  BY <1>1, TransferAssumption
<1>4. /\ n \in Protocol
      /\ n.active = q.active /\ n.partial = q.partial /\ n.compressed = q.compressed
      /\ n.displayed_etag = q.displayed_etag
      /\ n.received = q.received /\ n.expected = q.expected
  BY <1>1, <1>2, <1>3 DEF Numbered, Protocol
<1> HIDE DEF n
<1>5. Sound(n, e)
  BY <1>4 DEF Sound
<1> QED  BY <1>4, <1>5 DEF n

(* PIPE data preserves it. *)
LEMMA PipeDataPreserves ==
  ASSUME IInv, NEW seq \in Seqs, NEW bytes \in Payloads, NEW fits \in BOOLEAN,
         PipeData(seq, bytes, fits)
  PROVE  IInv'
<1>1. bytes \in Nat /\ Sound(p, epd) /\ staging' = staging /\ base' = base
  BY TransferAssumption DEF PipeData, Payloads, IInv
<1>2. CASE UNCHANGED <<p, epd, screen, refreshes>>
  BY <1>1, <1>2 DEF IInv, OneTransaction, EtagNamesScreen, Based
<1>3. CASE Answer(p, epd) /\ UNCHANGED <<screen, refreshes>>
  BY <1>1, <1>3, AnswerStep DEF history
<1>4. ASSUME NEW fed \in Taken(p, bytes, FALSE), p.pipe_frames < MaxFrames,
             \/ FinishTransfer(Numbered(fed), 0)
             \/ Answer(Numbered(fed), epd) /\ UNCHANGED <<screen, refreshes>>
      PROVE  IInv'
  <2>1. /\ Sound(fed, epd) /\ fed.active = p.active /\ fed.partial = p.partial
        /\ fed.displayed_etag = p.displayed_etag /\ fed.pipe_frames < MaxFrames
    BY <1>1, <1>4, DataSound
  <2> DEFINE q == Numbered(fed)
  <2>2. /\ Sound(q, epd) /\ q.active = p.active /\ q.partial = p.partial
        /\ q.displayed_etag = p.displayed_etag
    BY <2>1, NumberedSound
  <2>3. \/ FinishTransfer(q, 0)
        \/ Answer(q, epd) /\ UNCHANGED <<screen, refreshes>>
    BY <1>4
  <2> HIDE DEF q
  <2>4. CASE FinishTransfer(q, 0)
    BY <1>1, <2>2, <2>4, FinishStep DEF Etag
  <2>5. CASE Answer(q, epd) /\ UNCHANGED <<screen, refreshes>>
    BY <1>1, <2>2, <2>5, DataStep DEF history
  <2> QED  BY <2>3, <2>4, <2>5
<1>5. CASE PipeFatal
  <2>1. /\ p \in Protocol /\ epd' \in AfterAbort(p, epd)
        /\ screen' = screen /\ refreshes' = refreshes
        /\ p' = [Abort(p) EXCEPT !.pipe_failed = TRUE] \/ p' = Abort(p)
    BY <1>1, <1>5 DEF PipeFatal, Sound
  <2>2. /\ p' \in Protocol /\ ~p'.active /\ p'.received <= p'.expected
        /\ p'.displayed_etag \in {0, p.displayed_etag}
    <3>1. CASE p' = Abort(p)
      BY <2>1, <3>1, AbortSound
    <3>2. CASE p' = [Abort(p) EXCEPT !.pipe_failed = TRUE]
      <4>1. ASSUME NEW q \in Protocol
            PROVE  LET f == [q EXCEPT !.pipe_failed = TRUE]
                   IN  /\ f \in Protocol /\ f.active = q.active /\ f.received = q.received
                       /\ f.expected = q.expected /\ f.displayed_etag = q.displayed_etag
        BY DEF Protocol
      <4> QED  BY <2>1, <3>2, <4>1, AbortSound
    <3> QED  BY <2>1, <3>1, <3>2
  <2>3. epd' \in Panel /\ epd'.power # "on"
    <3>1. CASE p.active
      BY <2>1, <3>1, OffSound DEF AfterAbort
    <3>2. CASE ~p.active
      BY <1>1, <2>1, <3>2 DEF AfterAbort, Sound
    <3> QED  BY <3>1, <3>2
  <2>4. Sound(p', epd')
    BY <2>2, <2>3 DEF Sound
  <2> QED  BY <1>1, <2>1, <2>2, <2>4 DEF IInv, OneTransaction, EtagNamesScreen, Based
<1> QED  BY <1>2, <1>3, <1>4, <1>5 DEF PipeData

-----------------------------------------------------------------------------

(* Every step preserves the invariant. *)
LEMMA StepPreserves == IInv /\ [Next]_vars => IInv'
<1> SUFFICES ASSUME IInv, [Next]_vars PROVE IInv'
  OBVIOUS
<1>1. CASE UNCHANGED vars
  BY <1>1 DEF vars, history, IInv, OneTransaction, EtagNamesScreen, Based
<1>2. CASE Next
  BY <1>2, StartsPreserve, ClosesPreserve, AnswersPreserve, DirectDataPreserves,
     EndPreserves, PipeDataPreserves DEF Next
<1> QED  BY <1>1, <1>2

(* In every state the transfer and the panel are sound, one transaction is *)
(* open at most, and the device claims no image but the one on the screen. *)
THEOREM Invariance == Spec => []IInv
<1> QED  BY InitInv, StepPreserves, PTL DEF Spec

(* od_handle keeps its variables within their types and the count of       *)
(* received bytes within the length of the transfer. *)
THEOREM TypeCorrect == Spec => []TypeOK
<1>1. IInv => TypeOK
  BY DEF IInv, Sound, TypeOK
<1> QED  BY <1>1, Invariance, PTL

(* An image transfer and a configuration transaction never overlap. *)
THEOREM OneTransactionAtATime == Spec => []OneTransaction
<1>1. IInv => OneTransaction
  BY DEF IInv
<1> QED  BY <1>1, Invariance, PTL

(* The panel is powered exactly while a transfer is open, with a window of *)
(* the length the transfer is measured against. *)
THEOREM PanelOnlyInTransfer == Spec => []PanelFollowsTransfer
<1>1. IInv => PanelFollowsTransfer
  BY DEF IInv, Sound, PanelFollowsTransfer
<1> QED  BY <1>1, Invariance, PTL

(* The image the device claims to display is the one on its screen. *)
THEOREM DisplayedIsOnScreen == Spec => []EtagNamesScreen
<1>1. IInv => EtagNamesScreen
  BY DEF IInv
<1> QED  BY <1>1, Invariance, PTL

-----------------------------------------------------------------------------

(* The screen is refreshed by an END that found the transfer complete and  *)
(* by the last DATA of a raw full-frame PIPE, by nothing else. *)
LEMMA RefreshingSteps ==
  ASSUME Next, refreshes' # refreshes
  PROVE  /\ p.active
         /\ \/ \E fed \in Taken(p, 0, TRUE) : Complete(fed)
            \/ /\ p.pipe /\ ~p.partial /\ ~p.compressed
               /\ \E bytes \in Payloads : \E fed \in Taken(p, bytes, FALSE) :
                     fed.received = fed.expected
<1>1. CASE \E pipe, named \in BOOLEAN, etag \in Etag : End(pipe, named, etag)
  BY <1>1 DEF End
<1>2. CASE \E seq \in Seqs, bytes \in Payloads, fits \in BOOLEAN : PipeData(seq, bytes, fits)
  <2>1. PICK seq \in Seqs, bytes \in Payloads, fits \in BOOLEAN : PipeData(seq, bytes, fits)
    BY <1>2
  <2>2. ~Drops
    BY <2>1 DEF PipeData
  <2>3. \E fed \in Taken(p, bytes, FALSE) :
           ~p.compressed /\ ~p.partial /\ fed.received = fed.expected
    BY <2>1 DEF PipeData, PipeFatal
  <2> QED  BY <2>2, <2>3 DEF Drops
<1>3. CASE /\ ~(\E pipe, named \in BOOLEAN, etag \in Etag : End(pipe, named, etag))
           /\ ~(\E seq \in Seqs, bytes \in Payloads, fits \in BOOLEAN :
                  PipeData(seq, bytes, fits))
  <2>1. refreshes' = refreshes
    BY <1>3 DEF Next, history, ConfigWrite, ConfigChunk, ConfigClear, StartRefused,
           StartPanelFails, DirectStart, RegionRefused, RegionPanelFails, RegionStart,
           PipeStart, PipeRegionStart, DirectData, Query, Cleanup, Reboot
  <2> QED  BY <2>1
<1> QED  BY <1>1, <1>2, <1>3

(* Only a window filled to its last byte is shown, from a stream that has  *)
(* ended if it was compressed. *)
THEOREM CompleteOnly == Spec => RefreshesWhatIsComplete
<1>1. ASSUME IInv, [Next]_vars, refreshes' # refreshes
      PROVE  /\ epd.power = "on"
             /\ p.compressed => p.zdone
             /\ \/ p.received = epd.window
                \/ \E bytes \in Payloads :
                      p.pipe /\ ~p.partial /\ p.received + bytes = epd.window
  <2>1. Next
    BY <1>1 DEF vars, history
  <2>2. Sound(p, epd) /\ p.active
    BY <1>1, <2>1, RefreshingSteps DEF IInv
  <2>3. epd.power = "on" /\ epd.window = p.expected
    BY <2>2 DEF Sound, PanelOn
  <2>4. CASE \E fed \in Taken(p, 0, TRUE) : Complete(fed)
    <3>1. PICK fed \in Taken(p, 0, TRUE) : Complete(fed)
      BY <2>4
    <3>2. /\ fed.received = p.received /\ fed.zdone = p.zdone
          /\ fed.compressed = p.compressed /\ fed.expected = p.expected
      BY <2>2, FinalSound
    <3> QED  BY <2>3, <3>1, <3>2 DEF Complete
  <2>5. CASE /\ p.pipe /\ ~p.partial /\ ~p.compressed
             /\ \E bytes \in Payloads : \E fed \in Taken(p, bytes, FALSE) :
                   fed.received = fed.expected
    <3>1. PICK bytes \in Payloads : \E fed \in Taken(p, bytes, FALSE) :
                fed.received = fed.expected
      BY <2>5
    <3>2. PICK fed \in Taken(p, bytes, FALSE) : fed.received = fed.expected
      BY <3>1
    <3>3. bytes \in Nat
      BY TransferAssumption DEF Payloads
    <3>4. fed.expected = p.expected /\ fed.received = p.received + bytes
      BY <2>2, <2>5, <3>3, DataSound
    <3> QED  BY <2>3, <2>5, <3>2, <3>4
  <2> QED  BY <1>1, <2>1, <2>4, <2>5, RefreshingSteps
<1> QED  BY <1>1, Invariance, PTL DEF RefreshesWhatIsComplete, Spec

(* A region is refreshed only on the image it was drawn for, which the     *)
(* screen still shows. *)
THEOREM OnItsBase == Spec => RegionsMeetTheirBase
<1>1. ASSUME IInv, [Next]_vars
      PROVE  refreshes' # refreshes /\ p.partial => base # 0 /\ base = screen
  <2> SUFFICES ASSUME refreshes' # refreshes, p.partial
               PROVE  base # 0 /\ base = screen
    OBVIOUS
  <2>1. Next
    BY <1>1 DEF vars, history
  <2>2. p.active
    BY <2>1, RefreshingSteps
  <2> QED  BY <1>1, <2>2 DEF IInv, Based, EtagNamesScreen
<1> QED  BY <1>1, Invariance, PTL DEF RegionsMeetTheirBase, Spec

-----------------------------------------------------------------------------
(* Sequence numbers.                                                       *)

(* The remainder is what is left of a multiple ...                         *)
LEMMA Division ==
  ASSUME NEW m \in Nat \ {0}, NEW y \in Int
  PROVE  /\ y \div m \in Int /\ y % m \in 0 .. m - 1 /\ y = (y \div m) * m + (y % m)
         /\ \A q \in Int, r \in 0 .. m - 1 : y = q * m + r => y % m = r
<1>1. y \div m \in Int /\ y % m \in 0 .. m - 1 /\ y = (y \div m) * m + (y % m)
  OBVIOUS
<1>2. ASSUME NEW q \in Int, NEW r \in 0 .. m - 1, y = q * m + r PROVE y % m = r
  BY <1>2
<1> QED  BY <1>1, <1>2

(* ... and is the same however many rounds are added.                      *)
LEMMA Rounds ==
  ASSUME NEW m \in Nat \ {0}, NEW x \in Int, NEW y \in Int
  PROVE  /\ ((y % m) - x) % m = (y - x) % m
         /\ ((y % m) + x) % m = (y + x) % m
         /\ (x - (y % m)) % m = (x - y) % m
<1>1. ASSUME NEW u \in Int, NEW v \in Int, NEW d \in Int, u = v + d * m PROVE u % m = v % m
  <2>1. /\ v \div m \in Int /\ v % m \in 0 .. m - 1 /\ v = (v \div m) * m + (v % m)
    BY Division
  <2>2. u = ((v \div m) + d) * m + (v % m) /\ (v \div m) + d \in Int
    BY <1>1, <2>1
  <2> QED  BY <2>1, <2>2, Division
<1>2. PICK z \in Int, d \in Int, e \in Int : z = y % m /\ z = y + d * m /\ e = -d
  <2>1. y \div m \in Int /\ y % m \in Int /\ y = (y \div m) * m + (y % m)
    BY Division
  <2>2. -(y \div m) \in Int /\ y % m = y + (-(y \div m)) * m /\ y \div m = -(-(y \div m))
    BY <2>1
  <2> QED  BY <2>1, <2>2
<1>3. (z - x) % m = (y - x) % m
  <2>1. z - x = (y - x) + d * m /\ y - x \in Int /\ z - x \in Int
    BY <1>2
  <2> QED  BY <1>1, <2>1
<1>4. (z + x) % m = (y + x) % m
  <2>1. z + x = (y + x) + d * m /\ y + x \in Int /\ z + x \in Int
    BY <1>2
  <2> QED  BY <1>1, <2>1
<1>5. (x - z) % m = (x - y) % m
  <2>1. x - z = (x - y) + e * m /\ x - z \in Int /\ x - y \in Int
    BY <1>2
  <2> QED  BY <1>1, <2>1
<1> QED  BY <1>2, <1>3, <1>4, <1>5

(* A number is its own remainder.                                          *)
LEMMA Small == ASSUME NEW m \in Nat \ {0}, NEW k \in 0 .. m - 1 PROVE k % m = k
<1>1. k = 0 * m + k /\ k \in Int
  OBVIOUS
<1> QED  BY <1>1, Division

LEMMA SeqFacts ==
  /\ SeqModulus \in Nat \ {0} /\ SeqModulus > 1 /\ Behind \in Nat /\ Behind > 0
  /\ MaskBits \in Nat /\ Behind = MaskBits + 1 /\ Behind < SeqModulus
BY TransferAssumption, SequenceAssumption

(* A frame is acknowledged by name exactly if it would be taken for a      *)
(* repeat.                                                                 *)
THEOREM RepeatsAreNamed == Spec => []SacksNameTheRepeats
<1>1. ASSUME p \in Protocol, p.pipe_frames > 0
      PROVE  Sack(p) = {seq \in Seqs : Repeated(seq)}
  <2> DEFINE m == SeqModulus
             s == p.next_seq
             f == p.pipe_frames
             previous == IF f - 1 >= MaskBits THEN MaskBits ELSE f - 1
             latest == (s - 1) % m
  <2>1. s \in Nat /\ s \in 0 .. m - 1 /\ f \in Nat /\ f > 0
    BY <1>1, TransferAssumption DEF Protocol
  <2>2. Sack(p) = {(latest - i) % m : i \in 0 .. previous}
    BY <1>1 DEF Sack
  <2>3. \A seq : Repeated(seq) <=> (s - seq) % m # 0 /\ (s - seq) % m <= Behind /\ (s - seq) % m <= f
    BY DEF Repeated
  <2>4. m \in Nat \ {0} /\ previous \in Nat /\ previous <= f - 1 /\ previous + 1 <= Behind /\ Behind < m
    BY <2>1, SeqFacts
  <2>5. Seqs = 0 .. m - 1
    BY DEF Seqs
  <2>6. \A b \in Nat : b < Behind /\ b < f => b \in 0 .. previous
    BY <2>1, SeqFacts
  <2> HIDE DEF m, s, f, previous
  <2>7. ASSUME NEW i \in 0 .. previous
        PROVE  (latest - i) % m \in Seqs /\ Repeated((latest - i) % m)
    <3>1. s - 1 \in Int /\ i \in Int /\ (s - 1) - i \in Int /\ s \in Int /\ s - ((s - 1) - i) = i + 1
      BY <2>1
    <3>2. (latest - i) % m = ((s - 1) - i) % m
      BY <2>4, <3>1, Rounds
    <3>3. (s - (((s - 1) - i) % m)) % m = (i + 1) % m
      <4>1. PICK v \in Int : v = (s - 1) - i
        BY <3>1
      <4>2. (s - (v % m)) % m = (s - v) % m
        BY <2>4, <3>1, Rounds
      <4> QED  BY <3>1, <4>1, <4>2
    <3>4. i + 1 \in 0 .. m - 1 /\ i + 1 # 0 /\ i + 1 <= Behind /\ i + 1 <= f
      BY <2>1, <2>4, SeqFacts
    <3>5. (i + 1) % m = i + 1
      BY <2>4, <3>4, Small
    <3>6. (latest - i) % m \in Seqs
      BY <2>4, <2>5, <3>1, <3>2, Division
    <3> QED  BY <2>3, <3>2, <3>3, <3>4, <3>5, <3>6
  <2>8. ASSUME NEW seq \in Seqs, Repeated(seq)
        PROVE  \E i \in 0 .. previous : seq = (latest - i) % m
    <3>1. seq \in Int /\ s - seq \in Int /\ s - 1 \in Int /\ s \in Int
      BY <2>1, <2>5
    <3>2. PICK b \in Nat : b = (s - seq) % m /\ b # 0 /\ b <= Behind /\ b <= f
      <4>1. (s - seq) % m \in 0 .. m - 1
        BY <2>4, <3>1, Division
      <4>2. (s - seq) % m \in Nat
        BY <2>4, <4>1
      <4> QED  BY <2>3, <2>8, <4>2
    <3>3. PICK i \in Int : i = b - 1
      BY <3>2
    <3>4. i \in 0 .. previous
      BY <2>1, <2>6, <3>2, <3>3, SeqFacts
    <3>5. (latest - i) % m = ((s - 1) - i) % m
      BY <2>4, <3>1, <3>3, Rounds
    <3>6. (s - 1) - i = s - b
      BY <3>1, <3>2, <3>3
    <3>7. (s - b) % m = (s - (s - seq)) % m
      BY <2>4, <3>1, <3>2, Rounds
    <3>8. s - (s - seq) = seq /\ seq \in 0 .. m - 1
      BY <2>5, <3>1
    <3>9. seq % m = seq
      BY <2>4, <3>8, Small
    <3> QED  BY <3>4, <3>5, <3>6, <3>7, <3>8, <3>9
  <2> QED  BY <2>2, <2>7, <2>8
<1>2. IInv => SacksNameTheRepeats
  BY <1>1 DEF IInv, Sound, SacksNameTheRepeats
<1> QED  BY <1>2, Invariance, PTL

-----------------------------------------------------------------------------
(* Pipe.  What is on its way, in either direction.                         *)

Frame == [image : Images, place : Nat]
Data == {[kind |-> "data", seq |-> f.place % SeqModulus, frame |-> f] : f \in Frame}
Commands == [kind : Starts \cup {"end", "finish"}] \cup Data \cup [kind : {"piece"}, frame : Frame]
Words == {"started", "error", "taken", "refused", "ended", "shown", "failed"}
Replies == [kind : Words] \cup [kind : {"sack"}, latest : Seqs]

PipeTypeOK ==
    /\ link \in {"up", "lost", "none"}
    /\ up \in Seq(Commands) /\ down \in Seq(Replies)
    /\ state \in {"idle", "starting", "done"} \cup Uploading
    /\ upload \in Starts /\ acked \in 0 .. Total /\ image \in Images /\ late \in Nat

Count == Len(stored)

(* One start is on its way, or its answer, and then nothing else follows.  *)
OneStart ==
    /\ \A j \in 1 .. Len(up) : up[j].kind \in Starts =>
          state = "starting" /\ j = Len(up) /\ up[j].kind = upload
    /\ \A j \in 1 .. Len(down) : down[j].kind \in {"started", "error"} =>
          state = "starting" /\ j = Len(down) /\ up = << >>
    /\ state = "starting" => acked = 0
    /\ state = "waiting" => upload = "direct"

(* The frames on their way are the latest one stored, and the next.        *)
Carries(u, i, n, size) ==
    /\ \A j \in 1 .. Len(u) : u[j].kind = "data" =>
          u[j].frame.image = i /\ u[j].frame.place \in {n - 1, n} /\ u[j].frame.place < size
    /\ \A j, k \in 1 .. Len(u) : j < k /\ u[j].kind = "data" /\ u[k].kind = "data" =>
          u[j].frame.place <= u[k].frame.place

(* A PIPE.                                                                 *)
Receives ==
    p.active /\ p.pipe =>
        /\ ~p.compressed
        /\ p.received = Count /\ p.pipe_frames = Count /\ p.next_seq = Count % SeqModulus
        /\ \E i \in Images : stored = Whole(i, Count) /\ Carries(up, i, Count, p.expected)

(* The device has begun the upload of the client.                          *)
Begun ==
    \/ state \in Uploading
    \/ \E j \in 1 .. Len(down) : down[j].kind \in {"started", "error"}

InStep ==
    Begun /\ p.active /\ p.pipe =>
        /\ upload # "direct" /\ p.expected = Total
        /\ acked <= Count /\ Count <= acked + 1
        /\ stored = Whole(image, Count) /\ Carries(up, image, Count, p.expected)
        /\ \A j \in 1 .. Len(up) : up[j].kind = "data" => up[j].frame.place <= acked

Acks(d, a, n) ==
    /\ \A j \in 1 .. Len(d) : d[j].kind = "sack" =>
          \/ d[j].latest = (a - 1) % SeqModulus
          \/ d[j].latest = a % SeqModulus /\ n = a + 1
    /\ \A j, k \in 1 .. Len(d) :
          /\ j < k /\ d[j].kind = "sack" /\ d[k].kind = "sack" /\ d[j].latest = a % SeqModulus
          => d[k].latest = a % SeqModulus

Acknowledged == state \in Uploading /\ p.active /\ p.pipe => Acks(down, acked, Count)

Told ==
    state \in Uploading =>
        \A j \in 1 .. Len(down) : down[j].kind = "shown" => ~p.active /\ drawn = Whole(image, Total)

(* The invariant but for what Transfer keeps by itself, and ...            *)
Linked == PipeTypeOK /\ OneStart /\ Receives /\ InStep /\ Acknowledged /\ Told /\ ~p.pipe_failed

(* ... what direct uploads add.  Its commands come one at a time, and each *)
(* finds the transfer it belongs to, however many late frames of a PIPE    *)
(* are among them.                                                         *)
Has(q, kinds) == \E j \in 1 .. Len(q) : q[j].kind \in kinds
Own == {"piece", "finish"}

Brings(u, i, n) ==
    /\ ~Has(u, {"end"})
    /\ \A j \in 1 .. Len(u) : u[j].kind = "piece" =>
          u[j].frame.image = i /\ u[j].frame.place = n /\ n < FullBytes
    /\ Has(u, {"finish"}) => n = FullBytes
    /\ \A j, k \in 1 .. Len(u) : u[j].kind \in Own /\ u[k].kind \in Own => j = k

NoLink == link # "up" => up = << >> /\ down = << >> /\ state \in {"idle", "done"}

OpenDirect == p.active /\ ~p.pipe

DirectReceives ==
    /\ Has(up, Own) => OpenDirect
    /\ OpenDirect =>
          /\ ~p.compressed /\ p.expected = FullBytes /\ p.received = Count
          /\ \E i \in Images : stored = Whole(i, Count) /\ Brings(up, i, Count)

DirectInStep ==
    Begun /\ OpenDirect =>
        /\ upload = "direct" /\ stored = Whole(image, Count) /\ Brings(up, image, Count)
        /\ state = "starting" => Count = 0

StaysOpen ==
    upload = "direct" /\ (state \in {"sending", "waiting"} \/ Has(down, {"started"})) => p.active

(* A piece, or the acknowledgement of it, is on its way.                   *)
InTurn ==
    \/ state = "sending" /\ Count = acked /\ ~Has(up, Own) /\ ~Has(down, {"taken"})
    \/ state = "waiting" /\ Count = acked /\ ~Has(up, {"finish"}) /\ ~Has(down, {"taken"})
    \/ /\ state = "waiting" /\ Count = acked + 1 /\ ~Has(up, Own)
       /\ \A j, k \in 1 .. Len(down) : down[j].kind = "taken" /\ down[k].kind = "taken" => j = k
    \/ state = "awaiting" /\ Count = acked /\ ~Has(up, {"piece"}) /\ ~Has(down, {"taken"})

Owed == state \in Uploading /\ OpenDirect => InTurn

Undisturbed ==
    upload = "direct" /\ state \in Uploading => ~Has(up, {"end"}) /\ ~Has(down, {"refused"})

Direct == NoLink /\ DirectReceives /\ DirectInStep /\ StaysOpen /\ Owed /\ Undisturbed

-----------------------------------------------------------------------------

LEMMA PipeConstants ==
  /\ RegionBytes \in RegionSizes /\ RegionBytes \in Nat \ {0} /\ FullBytes \in Nat \ {0}
  /\ Total \in Nat /\ Total > 0 /\ 1 \in Payloads /\ 1 \in Etags /\ 1 \in Etag
<1>1. RegionBytes \in RegionSizes
  BY PipeAssumption DEF RegionBytes
<1> QED  BY <1>1, TransferAssumption, PipeAssumption DEF Total, Payloads, Etag

(* Numbers of neighbours.                                                  *)
LEMMA Neighbours ==
  ASSUME NEW n \in Nat
  PROVE  /\ n % SeqModulus \in Seqs /\ (n - 1) % SeqModulus \in Seqs
         /\ ((n % SeqModulus) + 1) % SeqModulus = (n + 1) % SeqModulus
         /\ ((n % SeqModulus) - 1) % SeqModulus = (n - 1) % SeqModulus
         /\ ((n % SeqModulus) - (n % SeqModulus)) % SeqModulus = 0
         /\ ((n % SeqModulus) - ((n - 1) % SeqModulus)) % SeqModulus = 1
         /\ (n - 1) % SeqModulus # n % SeqModulus
         /\ 0 % SeqModulus = 0
<1> DEFINE m == SeqModulus
<1>1. m \in Nat \ {0} /\ 0 \in 0 .. m - 1 /\ 1 \in 0 .. m - 1 /\ Seqs = 0 .. m - 1
  BY SeqFacts DEF Seqs
<1> HIDE DEF m
<1>2. PICK k \in Int : k = n - 1 /\ n - k = 1 /\ n \in Int
  OBVIOUS
<1>3. PICK x \in 0 .. m - 1, y \in 0 .. m - 1 : x = n % m /\ y = k % m
  BY <1>1, <1>2, Division
<1>4. (x + 1) % m = (n + 1) % m /\ (x - 1) % m = (n - 1) % m
  <2>1. \A d \in Int : ((n % m) + d) % m = (n + d) % m /\ ((n % m) - d) % m = (n - d) % m
    BY <1>1, <1>2, Rounds
  <2> QED  BY <1>3, <2>1
<1>5. (x - y) % m = 1
  <2>1. y \in Int
    BY <1>1, <1>3
  <2>2. (x - y) % m = (n - y) % m
    BY <1>1, <1>2, <1>3, <2>1, Rounds
  <2>3. (n - y) % m = (n - k) % m
    BY <1>1, <1>2, <1>3, Rounds
  <2>4. 1 % m = 1
    BY <1>1, Small
  <2> QED  BY <1>2, <2>2, <2>3, <2>4
<1>6. x - x = 0 /\ 0 % m = 0
  BY <1>1, <1>3, Small
<1>7. x # y
  BY <1>5, <1>6
<1> QED  BY <1>1, <1>2, <1>3, <1>4, <1>5, <1>6, <1>7 DEF m

(* Queues.                                                                 *)
LEMMA Taking ==
  ASSUME NEW S, NEW q \in Seq(S), q # << >>
  PROVE  /\ Tail(q) \in Seq(S) /\ Len(q) \in Nat /\ Len(q) >= 1 /\ Len(Tail(q)) = Len(q) - 1
         /\ \A j \in 1 .. Len(Tail(q)) : j + 1 \in 1 .. Len(q) /\ Tail(q)[j] = q[j + 1]
         /\ Head(q) = q[1] /\ q[1] \in S /\ 1 \in 1 .. Len(q)
<1>1. Len(q) \in Nat /\ Len(q) >= 1
  BY EmptySeq
<1>2. Tail(q) \in Seq(S) /\ Len(Tail(q)) = Len(q) - 1 /\ \A j \in 1 .. Len(Tail(q)) : Tail(q)[j] = q[j + 1]
  BY HeadTailProperties
<1>3. 1 \in 1 .. Len(q) /\ q[1] \in S
  BY <1>1, ElementOfSeq
<1> QED  BY <1>1, <1>2, <1>3

LEMMA Commanded ==
  ASSUME NEW c \in Commands
  PROVE  /\ c.kind = "data" => /\ c.frame \in Frame /\ c.frame.place \in Nat /\ c.frame.image \in Images
                               /\ c.seq = c.frame.place % SeqModulus
         /\ c.kind = "piece" => c.frame \in Frame
BY DEF Commands, Data, Frame, Starts

LEMMA CarriesTail ==
  ASSUME NEW u \in Seq(Commands), u # << >>, NEW i, NEW n \in Nat, NEW size, Carries(u, i, n, size)
  PROVE  /\ Carries(Tail(u), i, n, size)
         /\ Head(u).kind = "data" /\ Head(u).frame.place = n => Carries(Tail(u), i, n + 1, size)
<1>1. /\ Len(u) \in Nat /\ Len(u) >= 1 /\ Len(Tail(u)) = Len(u) - 1
      /\ \A j \in 1 .. Len(Tail(u)) : j + 1 \in 1 .. Len(u) /\ Tail(u)[j] = u[j + 1]
      /\ Head(u) = u[1] /\ 1 \in 1 .. Len(u)
  BY Taking
<1>2. \A j, k \in 1 .. Len(Tail(u)) :
          j < k /\ Tail(u)[j].kind = "data" /\ Tail(u)[k].kind = "data" =>
              Tail(u)[j].frame.place <= Tail(u)[k].frame.place
  <2> SUFFICES ASSUME NEW j \in 1 .. Len(Tail(u)), NEW k \in 1 .. Len(Tail(u)),
                      j < k, Tail(u)[j].kind = "data", Tail(u)[k].kind = "data"
               PROVE  Tail(u)[j].frame.place <= Tail(u)[k].frame.place
    OBVIOUS
  <2>1. j + 1 \in 1 .. Len(u) /\ k + 1 \in 1 .. Len(u) /\ j + 1 < k + 1
    BY <1>1
  <2>2. u[j + 1].frame.place <= u[k + 1].frame.place
    BY <1>1, <2>1 DEF Carries
  <2> QED  BY <1>1, <2>2
<1>3. Carries(Tail(u), i, n, size)
  BY <1>1, <1>2 DEF Carries
<1>4. ASSUME Head(u).kind = "data", Head(u).frame.place = n PROVE Carries(Tail(u), i, n + 1, size)
  <2> SUFFICES ASSUME NEW j \in 1 .. Len(Tail(u)), Tail(u)[j].kind = "data"
               PROVE  /\ Tail(u)[j].frame.image = i /\ Tail(u)[j].frame.place < size
                      /\ Tail(u)[j].frame.place \in {(n + 1) - 1, n + 1}
    BY <1>2 DEF Carries
  <2>1. j + 1 \in 1 .. Len(u) /\ 1 < j + 1 /\ u[j + 1].kind = "data" /\ u[1].kind = "data"
    BY <1>1, <1>4
  <2>2. /\ u[j + 1].frame.image = i /\ u[j + 1].frame.place < size
        /\ u[j + 1].frame.place \in {n - 1, n} /\ n <= u[j + 1].frame.place
    BY <1>1, <1>4, <2>1 DEF Carries
  <2>3. u[j + 1].frame.place = n
    BY <2>2
  <2> QED  BY <1>1, <2>2, <2>3
<1> QED  BY <1>3, <1>4

LEMMA CarriesAppend ==
  ASSUME NEW u \in Seq(Commands), NEW c \in Commands, NEW i, NEW n \in Nat, NEW size, Carries(u, i, n, size),
         c.kind = "data" =>
             /\ c.frame.image = i /\ c.frame.place \in {n - 1, n} /\ c.frame.place < size
             /\ \A j \in 1 .. Len(u) : u[j].kind = "data" => u[j].frame.place <= c.frame.place
  PROVE  Carries(Append(u, c), i, n, size)
<1> DEFINE v == Append(u, c)
<1>1. /\ Len(u) \in Nat /\ Len(v) = Len(u) + 1 /\ v[Len(u) + 1] = c
      /\ \A j \in 1 .. Len(u) : v[j] = u[j]
  BY AppendProperties, LenProperties
<1> HIDE DEF v
<1>2. \A j \in 1 .. Len(v) : j \in 1 .. Len(u) \/ j = Len(u) + 1
  BY <1>1
<1>3. ASSUME NEW j \in 1 .. Len(v), v[j].kind = "data"
      PROVE  v[j].frame.image = i /\ v[j].frame.place \in {n - 1, n} /\ v[j].frame.place < size
  BY <1>1, <1>2, <1>3 DEF Carries
<1>4. ASSUME NEW j \in 1 .. Len(v), NEW k \in 1 .. Len(v), j < k, v[j].kind = "data", v[k].kind = "data"
      PROVE  v[j].frame.place <= v[k].frame.place
  <2>1. j \in 1 .. Len(u)
    BY <1>1, <1>2, <1>4
  <2> QED  BY <1>1, <1>2, <1>4, <2>1 DEF Carries
<1>5. Carries(v, i, n, size)
  BY <1>3, <1>4 DEF Carries
<1> QED  BY <1>5 DEF v

LEMMA AcksTail ==
  ASSUME NEW d \in Seq(Replies), d # << >>, NEW a \in Nat, NEW n \in Nat, Acks(d, a, n)
  PROVE  /\ Acks(Tail(d), a, n)
         /\ Head(d).kind = "sack" /\ Head(d).latest = a % SeqModulus =>
                n = a + 1 /\ Acks(Tail(d), a + 1, n)
<1> DEFINE m == SeqModulus
<1>1. /\ Len(d) \in Nat /\ Len(d) >= 1 /\ Len(Tail(d)) = Len(d) - 1
      /\ \A j \in 1 .. Len(Tail(d)) : j + 1 \in 1 .. Len(d) /\ Tail(d)[j] = d[j + 1]
      /\ Head(d) = d[1] /\ 1 \in 1 .. Len(d)
  BY Taking
<1>2. (a - 1) % m # a % m /\ a + 1 \in Nat /\ ((a + 1) - 1) % m # (a + 1) % m /\ (a + 1) - 1 = a
  <2>1. (a - 1) % m # a % m
    BY Neighbours
  <2>2. a + 1 \in Nat /\ (a + 1) - 1 = a
    OBVIOUS
  <2>3. \A b \in Nat : (b - 1) % m # b % m
    BY Neighbours
  <2> QED  BY <2>1, <2>2, <2>3
<1> HIDE DEF m
<1>3. Acks(Tail(d), a, n)
  <2>1. ASSUME NEW j \in 1 .. Len(Tail(d)), NEW k \in 1 .. Len(Tail(d)), j < k, Tail(d)[j].kind = "sack",
               Tail(d)[k].kind = "sack", Tail(d)[j].latest = a % m
        PROVE  Tail(d)[k].latest = a % m
    <3>1. j + 1 \in 1 .. Len(d) /\ k + 1 \in 1 .. Len(d) /\ j + 1 < k + 1
      BY <1>1, <2>1
    <3>2. d[j + 1].kind = "sack" /\ d[k + 1].kind = "sack" /\ d[j + 1].latest = a % m
      BY <1>1, <2>1
    <3> QED  BY <1>1, <3>1, <3>2 DEF Acks, m
  <2>2. ASSUME NEW j \in 1 .. Len(Tail(d)), Tail(d)[j].kind = "sack"
        PROVE  Tail(d)[j].latest = (a - 1) % m \/ (Tail(d)[j].latest = a % m /\ n = a + 1)
    BY <1>1, <2>2 DEF Acks, m
  <2> QED  BY <2>1, <2>2 DEF Acks, m
<1>4. ASSUME Head(d).kind = "sack", Head(d).latest = a % m
      PROVE  n = a + 1 /\ Acks(Tail(d), a + 1, n)
  <2>1. n = a + 1
    BY <1>1, <1>2, <1>4 DEF Acks, m
  <2>2. ASSUME NEW j \in 1 .. Len(Tail(d)), Tail(d)[j].kind = "sack" PROVE Tail(d)[j].latest = a % m
    <3>1. j + 1 \in 1 .. Len(d) /\ 1 < j + 1 /\ d[j + 1].kind = "sack" /\ d[1].kind = "sack" /\ d[1].latest = a % m
      BY <1>1, <1>4, <2>2
    <3>2. d[j + 1].latest = a % m
      BY <1>1, <3>1 DEF Acks, m
    <3> QED  BY <1>1, <3>2
  <2> QED  BY <1>2, <2>1, <2>2 DEF Acks, m
<1> QED  BY <1>3, <1>4 DEF m

(* An acknowledgement of what is stored comes after the others.            *)
LEMMA AcksConcat ==
  ASSUME NEW d \in Seq(Replies), NEW r \in Replies, NEW a \in Nat, NEW n \in Nat, NEW next \in Nat,
         Acks(d, a, n), \/ n = a /\ next \in {a, a + 1}
                        \/ n = a + 1 /\ next = n,
         r.kind = "sack", r.latest = (next - 1) % SeqModulus
  PROVE  Acks(d \o << r >>, a, next)
<1> DEFINE m == SeqModulus
           e == d \o << r >>
<1>1. /\ Len(d) \in Nat /\ Len(e) = Len(d) + 1 /\ e[Len(d) + 1] = r /\ \A j \in 1 .. Len(d) : e[j] = d[j]
  <2>1. << r >> \in Seq(Replies) /\ Len(<< r >>) = 1 /\ << r >>[1] = r
    OBVIOUS
  <2> QED  BY <2>1, ConcatProperties, LenProperties
<1>2. (a - 1) % m # a % m
  BY Neighbours
<1> HIDE DEF m, e
<1>3. \A j \in 1 .. Len(e) : j \in 1 .. Len(d) \/ j = Len(d) + 1
  BY <1>1
<1>4. r.latest = (a - 1) % m \/ (r.latest = a % m /\ next = a + 1)
  <2>1. (next = a) \/ (next = a + 1 /\ next - 1 = a)
    OBVIOUS
  <2> QED  BY <2>1 DEF m
<1>5. ASSUME NEW j \in 1 .. Len(e), e[j].kind = "sack"
      PROVE  e[j].latest = (a - 1) % m \/ (e[j].latest = a % m /\ next = a + 1)
  <2>1. CASE j \in 1 .. Len(d)
    <3>1. d[j].latest = (a - 1) % m \/ (d[j].latest = a % m /\ n = a + 1)
      BY <1>1, <1>5, <2>1 DEF Acks, m
    <3> QED  BY <1>1, <2>1, <3>1
  <2>2. CASE j = Len(d) + 1
    BY <1>1, <1>4, <2>2
  <2> QED  BY <1>3, <2>1, <2>2
<1>6. ASSUME NEW j \in 1 .. Len(e), NEW k \in 1 .. Len(e), j < k, e[j].kind = "sack", e[k].kind = "sack",
             e[j].latest = a % m
      PROVE  e[k].latest = a % m
  <2>1. j \in 1 .. Len(d)
    BY <1>1, <1>3, <1>6
  <2>2. CASE k \in 1 .. Len(d)
    BY <1>1, <1>6, <2>1, <2>2 DEF Acks, m
  <2>3. CASE k = Len(d) + 1
    <3>1. n = a + 1
      BY <1>1, <1>2, <1>6, <2>1 DEF Acks, m
    <3>2. next - 1 = a
      BY <3>1
    <3> QED  BY <1>1, <2>3, <3>2 DEF m
  <2> QED  BY <1>3, <2>2, <2>3
<1>7. Acks(e, a, next)
  BY <1>5, <1>6 DEF Acks, m
<1> QED  BY <1>7 DEF e

-----------------------------------------------------------------------------
(* Each step of Pipe is one of Transfer or leaves the device alone.        *)
LEMMA DeviceSteps == PipeTypeOK /\ [PipeNext]_pipeVars => [Next]_vars
<1> SUFFICES ASSUME PipeTypeOK, [PipeNext]_pipeVars PROVE [Next]_vars
  OBVIOUS
<1>1. CASE HandleData
  <2>1. up \in Seq(Commands) /\ up # << >> /\ Head(up).kind = "data" /\ PipeData(Head(up).seq, 1, TRUE)
    BY <1>1 DEF HandleData, Incoming, PipeTypeOK
  <2>2. Head(up) \in Commands
    BY <2>1, Taking
  <2>3. Head(up).seq \in Seqs
    BY <2>1, <2>2, Commanded, Neighbours
  <2> QED  BY <2>1, <2>3, PipeConstants DEF Next
<1>2. CASE HandleEnd("end", TRUE) \/ HandleEnd("finish", FALSE)
  <2>1. End(TRUE, TRUE, 1) \/ End(FALSE, TRUE, 1)
    BY <1>2 DEF HandleEnd
  <2> QED  BY <2>1, PipeConstants DEF Next
<1>3. CASE HandleStart \/ HandleDirect
  <2>1. PipeStart(FALSE) \/ DirectStart(FALSE, 0) \/ StartPanelFails
    BY <1>3 DEF HandleStart, HandleDirect
  <2> QED  BY <2>1 DEF Next
<1>4. CASE HandleRegion
  <2>1. PipeRegionStart(1, RegionBytes, FALSE) \/ RegionRefused \/ RegionPanelFails
    BY <1>4 DEF HandleRegion
  <2> QED  BY <2>1, PipeConstants DEF Next
<1>5. CASE HandlePiece
  <2>1. DirectData(1)
    BY <1>5 DEF HandlePiece
  <2> QED  BY <2>1, PipeConstants DEF Next
<1>6. CASE CleanUp
  BY <1>6 DEF CleanUp, Next
<1>7. CASE \/ \E as \in Starts : Start(as)
           \/ SendFrame \/ SendLate \/ SendPiece \/ SendEnd \/ Read \/ GiveUp
           \/ LinkLost \/ Reconnect \/ HandleCopy \/ UNCHANGED pipeVars
  <2>1. UNCHANGED vars
    BY <1>7 DEF Start, SendFrame, SendLate, SendPiece, SendEnd, Read, GiveUp, LinkLost, Reconnect,
                HandleCopy, device, pipeVars
  <2> QED  BY <2>1
<1> QED  BY <1>1, <1>2, <1>3, <1>4, <1>5, <1>6, <1>7 DEF PipeNext, Device

LEMMA HasNone == \A kinds : ~Has(<< >>, kinds)
BY DEF Has

LEMMA BringsNothing ==
  ASSUME NEW u, ~Has(u, Own), ~Has(u, {"end"})
  PROVE  \A i, n : Brings(u, i, n)
BY DEF Brings, Has, Own

LEMMA InitLinked == PipeInit => IInv /\ Linked /\ Direct
<1> SUFFICES ASSUME PipeInit PROVE IInv /\ Linked /\ Direct
  OBVIOUS
<1>1. PICK etag \in {0, 1} : p = [Boot EXCEPT !.displayed_etag = etag] /\ screen = etag
  BY DEF PipeInit
<1>2. /\ p \in Protocol /\ p.active = FALSE /\ p.pipe_failed = FALSE /\ p.displayed_etag = etag
      /\ p.received <= p.expected
  <2>1. Boot \in Protocol /\ Boot.active = FALSE /\ Boot.pipe_failed = FALSE /\ Boot.received <= Boot.expected
    BY BootSound DEF Boot
  <2>2. etag \in Etag
    BY PipeConstants DEF Etag
  <2> QED  BY <1>1, <2>1, <2>2 DEF Protocol
<1>3. IInv
  <2>1. epd \in Panel /\ epd.power # "on"
    BY DEF PipeInit, Panel
  <2>2. Sound(p, epd)
    BY <1>2, <2>1 DEF Sound
  <2>3. screen \in Etag /\ base \in Etag /\ refreshes \in BOOLEAN /\ staging \in BOOLEAN
    BY <1>1, PipeConstants DEF PipeInit, Etag
  <2> QED  BY <1>1, <1>2, <2>2, <2>3 DEF IInv, OneTransaction, EtagNamesScreen, Based
<1>4. PipeTypeOK
  <2>1. << >> \in Seq(Commands) /\ << >> \in Seq(Replies) /\ 0 \in 0 .. Total /\ 1 \in Images
    BY PipeConstants, EmptySeq DEF Images
  <2> QED  BY <2>1 DEF PipeInit, PipeTypeOK, Starts
<1>5. up = << >> /\ down = << >> /\ state = "idle" /\ Len(up) = 0 /\ Len(down) = 0 /\ link = "up"
  BY DEF PipeInit
<1>6. OneStart /\ Receives /\ InStep /\ Acknowledged /\ Told
  BY <1>2, <1>5 DEF OneStart, Receives, InStep, Acknowledged, Told, Uploading
<1>7. Direct
  BY <1>2, <1>5, HasNone
     DEF Direct, NoLink, DirectReceives, DirectInStep, StaysOpen, Owed, Undisturbed, OpenDirect, Uploading
<1> QED  BY <1>2, <1>3, <1>4, <1>6, <1>7 DEF Linked

(* The client sends c, and its answers stay.                               *)
Sent(c) ==
    /\ c \in Commands /\ link = "up" /\ up' = Append(up, c)
    /\ UNCHANGED <<vars, stored, drawn, link, down>>

LEMMA SentQueue ==
  ASSUME Linked, NEW c, Sent(c)
  PROVE  /\ up \in Seq(Commands) /\ up' \in Seq(Commands) /\ Len(up) \in Nat
         /\ Len(up') = Len(up) + 1 /\ up'[Len(up) + 1] = c
         /\ \A j \in 1 .. Len(up) : up'[j] = up[j]
         /\ \A j \in 1 .. Len(up') : j \in 1 .. Len(up) \/ j = Len(up) + 1
         /\ \A kinds : Has(up', kinds) <=> Has(up, kinds) \/ c.kind \in kinds
         /\ Count' = Count /\ (OpenDirect' <=> OpenDirect) /\ UNCHANGED <<p, down, link>>
<1>1. up \in Seq(Commands) /\ c \in Commands /\ up' = Append(up, c)
  BY DEF Linked, PipeTypeOK, Sent
<1>2. /\ up' \in Seq(Commands) /\ Len(up) \in Nat /\ Len(up') = Len(up) + 1 /\ up'[Len(up) + 1] = c
      /\ \A j \in 1 .. Len(up) : up'[j] = up[j]
  BY <1>1, AppendProperties, LenProperties
<1>3. \A j \in 1 .. Len(up') : j \in 1 .. Len(up) \/ j = Len(up) + 1
  BY <1>2
<1>4. ASSUME NEW kinds PROVE Has(up', kinds) <=> Has(up, kinds) \/ c.kind \in kinds
  <2>1. Len(up) + 1 \in 1 .. Len(up') /\ \A j \in 1 .. Len(up) : j \in 1 .. Len(up')
    BY <1>2
  <2> QED  BY <1>2, <1>3, <2>1 DEF Has
<1> QED  BY <1>1, <1>2, <1>3, <1>4 DEF Sent, Count, OpenDirect, vars

(* What a command adds to those on their way.                              *)
LEMMA BringsAppend ==
  ASSUME Linked, NEW c, Sent(c), NEW i, NEW n, Brings(up, i, n), c.kind # "end",
         c.kind \in Own => ~Has(up, Own),
         c.kind = "piece" => c.frame.image = i /\ c.frame.place = n /\ n < FullBytes,
         c.kind = "finish" => n = FullBytes
  PROVE  Brings(up', i, n)
<1>1. /\ Len(up) \in Nat /\ up'[Len(up) + 1] = c /\ \A j \in 1 .. Len(up) : up'[j] = up[j]
      /\ \A j \in 1 .. Len(up') : j \in 1 .. Len(up) \/ j = Len(up) + 1
      /\ \A kinds : Has(up', kinds) <=> Has(up, kinds) \/ c.kind \in kinds
  BY SentQueue
<1>2. ~Has(up', {"end"}) /\ (Has(up', {"finish"}) => n = FullBytes)
  BY <1>1 DEF Brings
<1>3. ASSUME NEW j \in 1 .. Len(up'), up'[j].kind = "piece"
      PROVE  up'[j].frame.image = i /\ up'[j].frame.place = n /\ n < FullBytes
  BY <1>1, <1>3 DEF Brings
<1>4. ASSUME NEW j \in 1 .. Len(up'), NEW k \in 1 .. Len(up'), up'[j].kind \in Own, up'[k].kind \in Own
      PROVE  j = k
  <2>1. CASE j \in 1 .. Len(up) /\ k \in 1 .. Len(up)
    BY <1>1, <1>4, <2>1 DEF Brings
  <2>2. CASE j = Len(up) + 1 /\ k = Len(up) + 1
    BY <2>2
  <2>3. CASE c.kind \in Own /\ Has(up, Own)
    BY <2>3
  <2> QED  BY <1>1, <1>4, <2>1, <2>2, <2>3 DEF Has
<1> QED  BY <1>2, <1>3, <1>4 DEF Brings

LEMMA StartKeeps ==
  ASSUME Linked, Direct, IInv, NEW as \in Starts, Start(as)
  PROVE  Linked' /\ Direct'
<1> DEFINE c == [kind |-> as]
<1>1. /\ c \in Commands /\ up' = Append(up, c) /\ c.kind = as /\ c.kind \notin {"data", "end"} \cup Own
      /\ Sent(c) /\ state' = "starting" /\ acked' = 0
      /\ upload' = as /\ image' = 3 - image /\ state \in {"idle", "done"} /\ stored' = stored
  BY DEF Start, Send, Commands, device, Sent, Starts, Own
<1> HIDE DEF c
<1>2. /\ up \in Seq(Commands) /\ up' \in Seq(Commands) /\ Len(up) \in Nat /\ Len(up') = Len(up) + 1
      /\ up'[Len(up) + 1] = c /\ \A j \in 1 .. Len(up) : up'[j] = up[j]
      /\ \A j \in 1 .. Len(up') : j \in 1 .. Len(up) \/ j = Len(up) + 1
      /\ \A kinds : Has(up', kinds) <=> Has(up, kinds) \/ c.kind \in kinds
      /\ Count' = Count /\ (OpenDirect' <=> OpenDirect) /\ UNCHANGED <<p, down, link>> /\ link = "up"
  BY <1>1, SentQueue DEF Sent
<1>3. PipeTypeOK'
  <2>1. Total' \in Nat
    BY <1>1, PipeConstants DEF Total, Starts
  <2>2. acked \in Nat /\ late' \in Nat
    <3>1. acked \in Nat
      BY PipeConstants DEF Linked, PipeTypeOK
    <3>2. late' = 0 \/ late' = acked \/ late' = acked + 1
      BY DEF Start
    <3> QED  BY <3>1, <3>2
  <2>3. image' \in Images
    BY <1>1 DEF Linked, PipeTypeOK, Images
  <2>4. link' \in {"up", "lost", "none"} /\ down' \in Seq(Replies)
    BY <1>2 DEF Linked, PipeTypeOK
  <2>5. acked' \in 0 .. Total'
    BY <1>1, <2>1
  <2> QED  BY <1>1, <1>2, <2>2, <2>3, <2>4, <2>5 DEF PipeTypeOK
<1>4. \A j \in 1 .. Len(down) : down[j].kind \notin {"started", "error"}
  BY <1>1 DEF Linked, OneStart
<1>5. OneStart'
  <2>1. \A j \in 1 .. Len(up) : up[j].kind \notin Starts
    BY <1>1 DEF Linked, OneStart
  <2> QED  BY <1>1, <1>2, <1>4, <2>1 DEF OneStart
<1>6. Receives'
  <2> SUFFICES ASSUME p.active, p.pipe PROVE Receives'
    BY <1>2 DEF Receives
  <2>1. PICK i \in Images : stored = Whole(i, Count) /\ Carries(up, i, Count, p.expected)
    BY DEF Linked, Receives
  <2>2. Count \in Nat
    BY DEF Linked, Receives, IInv, Sound, Protocol
  <2>3. Carries(up', i, Count, p.expected)
    BY <1>1, <1>2, <2>1, <2>2, CarriesAppend
  <2> QED  BY <1>1, <1>2, <2>1, <2>3 DEF Linked, Receives
<1>7. ~Begun' /\ state' \notin Uploading
  BY <1>1, <1>2, <1>4 DEF Begun, Uploading
<1>8. Linked'
  BY <1>2, <1>3, <1>5, <1>6, <1>7 DEF Linked, InStep, Acknowledged, Told
<1>9. DirectReceives'
  <2>1. OpenDirect => \E i \in Images : stored = Whole(i, Count) /\ Brings(up', i, Count)
    <3> SUFFICES ASSUME OpenDirect PROVE \E i \in Images : stored = Whole(i, Count) /\ Brings(up', i, Count)
      OBVIOUS
    <3>1. PICK i \in Images : stored = Whole(i, Count) /\ Brings(up, i, Count)
      BY DEF Direct, DirectReceives
    <3>2. Brings(up', i, Count)
      BY <1>1, <3>1, BringsAppend DEF Own
    <3> QED  BY <3>1, <3>2
  <2> QED  BY <1>1, <1>2, <2>1 DEF Direct, DirectReceives
<1>10. ~Has(down', {"started"})
  BY <1>2, <1>4 DEF Has
<1> QED  BY <1>1, <1>2, <1>7, <1>8, <1>9, <1>10
         DEF Direct, NoLink, DirectInStep, StaysOpen, Owed, Undisturbed

(* The receiver of the client's PIPE, when it sends what is none of its    *)
(* frames.                                                                 *)
LEMMA SentKeepsPipe ==
  ASSUME Linked, IInv, Begun, NEW c, Sent(c), c.kind # "data", UNCHANGED <<upload, acked, image>>
  PROVE  Receives' /\ InStep'
<1> SUFFICES ASSUME p.active, p.pipe PROVE Receives' /\ InStep'
  BY SentQueue DEF Receives, InStep
<1>1. /\ up \in Seq(Commands) /\ c \in Commands /\ up' = Append(up, c) /\ stored' = stored /\ Count' = Count /\ p' = p
      /\ up'[Len(up) + 1] = c /\ \A j \in 1 .. Len(up) : up'[j] = up[j]
      /\ \A j \in 1 .. Len(up') : j \in 1 .. Len(up) \/ j = Len(up) + 1
  BY SentQueue DEF Sent
<1>2. Count \in Nat /\ image \in Images /\ Total' = Total
  BY DEF Linked, PipeTypeOK, Receives, IInv, Sound, Protocol, Total
<1>3. /\ stored = Whole(image, Count) /\ Carries(up, image, Count, p.expected) /\ p.expected = Total
      /\ acked <= Count /\ Count <= acked + 1 /\ upload # "direct"
      /\ \A j \in 1 .. Len(up) : up[j].kind = "data" => up[j].frame.place <= acked
  BY DEF Linked, InStep
<1>4. Carries(up', image, Count, p.expected)
  BY <1>1, <1>2, <1>3, CarriesAppend
<1>5. \A j \in 1 .. Len(up') : up'[j].kind = "data" => up'[j].frame.place <= acked
  BY <1>1, <1>3
<1> QED  BY <1>1, <1>2, <1>3, <1>4, <1>5 DEF Linked, Receives, InStep

LEMMA SendFrameKeeps == ASSUME Linked, Direct, IInv, SendFrame PROVE Linked' /\ Direct'
<1> DEFINE f == [image |-> image, place |-> acked]
           c == DataFrame(image, acked)
<1>1. /\ up' = Append(up, c) /\ state = "sending" /\ link = "up" /\ upload # "direct"
      /\ UNCHANGED <<stored, drawn, state, upload, acked, image, late>>
      /\ acked \in Nat /\ acked < Total /\ image \in Images
  BY PipeConstants DEF SendFrame, Send, Linked, PipeTypeOK, device, client
<1>2. /\ c \in Commands /\ c.kind = "data" /\ c.frame.image = image /\ c.frame.place = acked
  <2>1. f \in Frame
    BY <1>1 DEF Frame
  <2>2. c \in Data
    BY <2>1 DEF Data, DataFrame
  <2> QED  BY <2>2 DEF Commands, DataFrame
<1>3. Sent(c)
  BY <1>1, <1>2 DEF Sent, SendFrame, device
<1> HIDE DEF c
<1>4. /\ up \in Seq(Commands) /\ up' \in Seq(Commands) /\ Len(up) \in Nat /\ Len(up') = Len(up) + 1
      /\ up'[Len(up) + 1] = c /\ \A j \in 1 .. Len(up) : up'[j] = up[j]
      /\ \A j \in 1 .. Len(up') : j \in 1 .. Len(up) \/ j = Len(up) + 1
      /\ \A kinds : Has(up', kinds) <=> Has(up, kinds) \/ c.kind \in kinds
      /\ Count' = Count /\ (OpenDirect' <=> OpenDirect) /\ UNCHANGED <<p, down, link>>
  BY <1>3, SentQueue
<1>5. PipeTypeOK'
  BY <1>1, <1>4 DEF Linked, PipeTypeOK, Total
<1>6. OneStart'
  BY <1>1, <1>2, <1>4 DEF Linked, OneStart, Starts
<1>7. Begun /\ Total' = Total /\ state \in Uploading
  BY <1>1 DEF Begun, Total, Uploading
<1>8. Receives' /\ InStep'
  <2> SUFFICES ASSUME p.active, p.pipe PROVE Receives' /\ InStep'
    BY <1>4 DEF Receives, InStep
  <2>2. Count \in Nat
    BY DEF Linked, Receives, IInv, Sound, Protocol
  <2>3. /\ stored = Whole(image, Count) /\ Carries(up, image, Count, p.expected) /\ p.expected = Total
        /\ acked <= Count /\ Count <= acked + 1
        /\ \A j \in 1 .. Len(up) : up[j].kind = "data" => up[j].frame.place <= acked
    BY <1>7 DEF Linked, InStep
  <2>4. Carries(up', image, Count, p.expected)
    <3>1. acked \in {Count - 1, Count}
      BY <1>1, <2>2, <2>3
    <3> QED  BY <1>1, <1>2, <1>4, <2>2, <2>3, <3>1, CarriesAppend
  <2>5. \A j \in 1 .. Len(up') : up'[j].kind = "data" => up'[j].frame.place <= acked
    BY <1>1, <1>2, <1>4, <2>3
  <2> QED  BY <1>1, <1>4, <1>7, <2>3, <2>4, <2>5 DEF Linked, Receives, InStep
<1>9. Acknowledged' /\ Told'
  BY <1>1, <1>4, <1>7 DEF Linked, Acknowledged, Told
<1>10. ~OpenDirect
  BY <1>1, <1>7 DEF Direct, DirectInStep
<1>11. Direct'
  BY <1>1, <1>2, <1>4, <1>10
     DEF Direct, NoLink, DirectReceives, DirectInStep, StaysOpen, Owed, Undisturbed, Own
<1> QED  BY <1>1, <1>4, <1>5, <1>6, <1>8, <1>9, <1>11 DEF Linked

(* No PIPE is open when one of its frames comes late.                      *)
LEMMA SendLateKeeps == ASSUME Linked, Direct, IInv, SendLate PROVE Linked' /\ Direct'
<1>1. PICK place \in 0 .. late - 1 : Send(DataFrame(3 - image, place))
  BY DEF SendLate
<1> DEFINE f == [image |-> 3 - image, place |-> place]
           c == DataFrame(3 - image, place)
<1>2. /\ up' = Append(up, c) /\ state \in Uploading /\ link = "up" /\ upload = "direct"
      /\ UNCHANGED <<stored, drawn, state, upload, acked, image, late>>
      /\ image \in Images /\ late \in Nat
  BY <1>1 DEF SendLate, Send, Linked, PipeTypeOK, device, client
<1>3. /\ c \in Commands /\ c.kind = "data"
  <2>1. f \in Frame
    BY <1>2 DEF Frame, Images
  <2>2. c \in Data
    BY <2>1 DEF Data, DataFrame
  <2> QED  BY <2>2 DEF Commands, DataFrame
<1>4. Sent(c)
  BY <1>2, <1>3 DEF Sent, SendLate, device
<1> HIDE DEF c
<1>5. /\ up \in Seq(Commands) /\ up' \in Seq(Commands) /\ Len(up) \in Nat /\ Len(up') = Len(up) + 1
      /\ up'[Len(up) + 1] = c /\ \A j \in 1 .. Len(up) : up'[j] = up[j]
      /\ \A j \in 1 .. Len(up') : j \in 1 .. Len(up) \/ j = Len(up) + 1
      /\ \A kinds : Has(up', kinds) <=> Has(up, kinds) \/ c.kind \in kinds
      /\ Count' = Count /\ (OpenDirect' <=> OpenDirect) /\ UNCHANGED <<p, down, link>>
  BY <1>4, SentQueue
<1>6. PipeTypeOK'
  BY <1>2, <1>5 DEF Linked, PipeTypeOK, Total
<1>7. state # "starting"
  BY <1>2 DEF Uploading
<1>8. OneStart'
  BY <1>2, <1>3, <1>5, <1>7 DEF Linked, OneStart, Starts
<1>9. Begun /\ Total' = Total
  BY <1>2 DEF Begun, Total
<1>10. ~(p.active /\ p.pipe)
  BY <1>2, <1>9 DEF Linked, InStep
<1>11. Linked'
  BY <1>2, <1>5, <1>6, <1>8, <1>9, <1>10 DEF Linked, Receives, InStep, Acknowledged, Told
<1>12. \A i, n : Brings(up, i, n) => Brings(up', i, n)
  BY <1>3, <1>4, BringsAppend DEF Own
<1>13. DirectReceives'
  BY <1>2, <1>3, <1>5, <1>12 DEF Direct, DirectReceives, Own
<1>14. DirectInStep'
  <2> SUFFICES ASSUME OpenDirect PROVE DirectInStep'
    BY <1>5 DEF DirectInStep
  <2>1. upload = "direct" /\ stored = Whole(image, Count) /\ Brings(up, image, Count)
    BY <1>9 DEF Direct, DirectInStep
  <2> QED  BY <1>2, <1>5, <1>7, <1>12, <2>1 DEF DirectInStep
<1>15. Owed' /\ Undisturbed' /\ StaysOpen' /\ NoLink'
  BY <1>2, <1>3, <1>5 DEF Direct, Owed, InTurn, Undisturbed, StaysOpen, NoLink, Own
<1> QED  BY <1>11, <1>13, <1>14, <1>15 DEF Direct

(* A direct upload under way finds its transfer open.                      *)
LEMMA DirectGoesOn ==
  ASSUME Linked, Direct, upload = "direct", state \in {"sending", "waiting"}
  PROVE  /\ Begun /\ OpenDirect /\ Total = FullBytes /\ InTurn /\ state \in Uploading
         /\ stored = Whole(image, Count) /\ Brings(up, image, Count)
<1>1. p.active /\ Begun /\ state \in Uploading
  BY DEF Direct, StaysOpen, Begun, Uploading
<1>2. OpenDirect
  BY <1>1 DEF Linked, InStep, OpenDirect
<1> QED  BY <1>1, <1>2 DEF Direct, DirectInStep, Owed, Total

LEMMA SendPieceKeeps == ASSUME Linked, Direct, IInv, SendPiece PROVE Linked' /\ Direct'
<1> DEFINE f == [image |-> image, place |-> acked]
           c == [kind |-> "piece", frame |-> f]
<1>1. /\ up' = Append(up, c) /\ state = "sending" /\ state' = "waiting" /\ link = "up" /\ upload = "direct"
      /\ UNCHANGED <<stored, drawn, upload, acked, image, late>>
      /\ acked \in Nat /\ acked < Total /\ image \in Images
  BY PipeConstants DEF SendPiece, Send, Linked, PipeTypeOK, device
<1>2. /\ c \in Commands /\ c.kind = "piece" /\ c.frame.image = image /\ c.frame.place = acked
  BY <1>1 DEF Frame, Commands
<1>3. Sent(c)
  BY <1>1, <1>2 DEF Sent, SendPiece, device
<1> HIDE DEF c
<1>4. /\ up \in Seq(Commands) /\ up' \in Seq(Commands) /\ Len(up) \in Nat /\ Len(up') = Len(up) + 1
      /\ up'[Len(up) + 1] = c /\ \A j \in 1 .. Len(up) : up'[j] = up[j]
      /\ \A j \in 1 .. Len(up') : j \in 1 .. Len(up) \/ j = Len(up) + 1
      /\ \A kinds : Has(up', kinds) <=> Has(up, kinds) \/ c.kind \in kinds
      /\ Count' = Count /\ (OpenDirect' <=> OpenDirect) /\ UNCHANGED <<p, down, link>>
  BY <1>3, SentQueue
<1>5. /\ Begun /\ OpenDirect /\ Total = FullBytes /\ InTurn /\ state \in Uploading
      /\ stored = Whole(image, Count) /\ Brings(up, image, Count)
  BY <1>1, DirectGoesOn
<1>6. Count = acked /\ ~Has(up, Own) /\ ~Has(down, {"taken"})
  BY <1>1, <1>5 DEF InTurn
<1>7. PipeTypeOK'
  BY <1>1, <1>4 DEF Linked, PipeTypeOK, Total, Uploading
<1>8. OneStart'
  BY <1>1, <1>2, <1>4 DEF Linked, OneStart, Starts
<1>9. Told' /\ Total' = Total
  BY <1>1, <1>4, <1>5 DEF Linked, Told, Total
<1>10. Linked'
  BY <1>1, <1>4, <1>5, <1>7, <1>8, <1>9 DEF Linked, OpenDirect, Receives, InStep, Acknowledged
<1>11. Brings(up', image, Count)
  BY <1>1, <1>2, <1>3, <1>5, <1>6, BringsAppend
<1>12. DirectReceives' /\ DirectInStep'
  BY <1>1, <1>4, <1>5, <1>11 DEF Direct, DirectReceives, DirectInStep
<1>13. Owed'
  <2>1. ~Has(up, {"finish"})
    BY <1>6 DEF Has, Own
  <2> QED  BY <1>1, <1>2, <1>4, <1>6, <2>1 DEF Owed, InTurn
<1>14. Undisturbed' /\ StaysOpen' /\ NoLink'
  BY <1>1, <1>2, <1>4, <1>5 DEF Direct, Undisturbed, StaysOpen, NoLink, OpenDirect
<1> QED  BY <1>10, <1>12, <1>13, <1>14 DEF Direct

LEMMA SendEndKeeps == ASSUME Linked, Direct, IInv, SendEnd PROVE Linked' /\ Direct'
<1> DEFINE c == [kind |-> IF upload = "direct" THEN "finish" ELSE "end"]
<1>1. /\ up' = Append(up, c) /\ state \in {"sending", "awaiting"} /\ state' = "awaiting"
      /\ upload = "direct" => state = "sending"
      /\ UNCHANGED <<stored, drawn, upload, acked, image, late>>
      /\ c \in Commands /\ c.kind = (IF upload = "direct" THEN "finish" ELSE "end") /\ link = "up" /\ acked = Total
  BY DEF SendEnd, Send, device, Commands
<1>2. Sent(c)
  BY <1>1 DEF Sent, SendEnd, device
<1> HIDE DEF c
<1>3. /\ up \in Seq(Commands) /\ up' \in Seq(Commands) /\ Len(up) \in Nat /\ Len(up') = Len(up) + 1
      /\ up'[Len(up) + 1] = c /\ \A j \in 1 .. Len(up) : up'[j] = up[j]
      /\ \A j \in 1 .. Len(up') : j \in 1 .. Len(up) \/ j = Len(up) + 1
      /\ \A kinds : Has(up', kinds) <=> Has(up, kinds) \/ c.kind \in kinds
      /\ Count' = Count /\ (OpenDirect' <=> OpenDirect) /\ UNCHANGED <<p, down, link>>
  BY <1>2, SentQueue
<1>4. PipeTypeOK'
  BY <1>1, <1>3 DEF Linked, PipeTypeOK, Total, Uploading
<1>5. OneStart'
  BY <1>1, <1>3 DEF Linked, OneStart, Starts
<1>6. Begun /\ state \in Uploading /\ Total' = Total
  BY <1>1 DEF Begun, Uploading, Total
<1>7. Receives' /\ InStep'
  BY <1>1, <1>2, <1>6, SentKeepsPipe
<1>8. Acknowledged' /\ Told'
  BY <1>1, <1>3, <1>6 DEF Linked, Acknowledged, Told
<1>9. Linked'
  BY <1>3, <1>4, <1>5, <1>7, <1>8 DEF Linked
<1>10. CASE upload # "direct"
  <2>1. ~OpenDirect
    BY <1>6, <1>10 DEF Direct, DirectInStep
  <2> QED  BY <1>1, <1>3, <1>9, <1>10, <2>1
           DEF Direct, NoLink, DirectReceives, DirectInStep, StaysOpen, Owed, Undisturbed, Own
<1>11. CASE upload = "direct"
  <2>1. /\ OpenDirect /\ Total = FullBytes /\ InTurn
        /\ stored = Whole(image, Count) /\ Brings(up, image, Count)
    BY <1>1, <1>11, DirectGoesOn
  <2>2. Count = acked /\ ~Has(up, Own) /\ ~Has(down, {"taken"})
    BY <1>1, <1>11, <2>1 DEF InTurn
  <2>3. Brings(up', image, Count)
    BY <1>1, <1>2, <1>11, <2>1, <2>2, BringsAppend
  <2>4. DirectReceives' /\ DirectInStep'
    <3>1. image \in Images
      BY DEF Linked, PipeTypeOK
    <3> QED  BY <1>1, <1>3, <1>11, <2>1, <2>3, <3>1 DEF Direct, DirectReceives, DirectInStep
  <2>5. Owed'
    <3>1. ~Has(up, {"piece"})
      BY <2>2 DEF Has, Own
    <3> QED  BY <1>1, <1>3, <1>11, <2>2, <3>1 DEF Owed, InTurn
  <2>6. Undisturbed' /\ StaysOpen' /\ NoLink'
    BY <1>1, <1>3, <1>6, <1>11, <2>1 DEF Direct, Undisturbed, StaysOpen, NoLink, OpenDirect
  <2> QED  BY <1>9, <2>4, <2>5, <2>6 DEF Direct
<1> QED  BY <1>10, <1>11

(* Nothing is under way for the client: it has given up, or is done.       *)
LEMMA GiveUpKeeps == ASSUME Linked, Direct, IInv, GiveUp PROVE Linked' /\ Direct'
<1>1. /\ state \in Uploading /\ state # "starting" /\ state' = "idle"
      /\ UNCHANGED <<p, stored, drawn, link, up, down, upload, acked, image, late>>
  BY DEF GiveUp, device, vars, Uploading
<1>2. \A j \in 1 .. Len(down) : down[j].kind \notin {"started", "error"}
  BY <1>1 DEF Linked, OneStart
<1>3. PipeTypeOK' /\ OneStart' /\ Receives' /\ ~Begun' /\ state' \notin Uploading
  BY <1>1, <1>2 DEF Linked, PipeTypeOK, OneStart, Receives, Begun, Count, Total, Uploading
<1>4. Linked'
  BY <1>1, <1>3 DEF Linked, InStep, Acknowledged, Told
<1>5. ~Has(down, {"started"})
  BY <1>2 DEF Has
<1>6. DirectReceives'
  BY <1>1 DEF Direct, DirectReceives, OpenDirect, Count
<1> QED  BY <1>1, <1>3, <1>4, <1>5, <1>6 DEF Direct, NoLink, DirectInStep, StaysOpen, Owed, Undisturbed

(* The connection is lost, with all that was on its way.                   *)
LEMMA LostKeeps ==
  ASSUME Linked, Direct, Lost, ~p'.pipe_failed, ~p'.active \/ UNCHANGED <<p, stored>>
  PROVE  Linked' /\ Direct'
<1>1. /\ up' = << >> /\ down' = << >> /\ Len(up') = 0 /\ Len(down') = 0 /\ state' \in {"idle", "done"}
      /\ link' = "lost" /\ UNCHANGED <<upload, acked, image, late>> /\ state' \notin Uploading
  BY DEF Lost, Uploading
<1>2. PipeTypeOK'
  <2>1. << >> \in Seq(Commands) /\ << >> \in Seq(Replies)
    BY EmptySeq
  <2> QED  BY <1>1, <2>1 DEF Linked, PipeTypeOK, Total
<1>3. OneStart' /\ ~Begun'
  BY <1>1 DEF OneStart, Begun
<1>4. Receives'
  <2> SUFFICES ASSUME p'.active, p'.pipe PROVE Receives'
    BY DEF Receives
  <2>1. p' = p /\ stored' = stored /\ p.active /\ p.pipe
    OBVIOUS
  <2>2. \A i, n, size : Carries(up', i, n, size)
    BY <1>1 DEF Carries
  <2> QED  BY <2>1, <2>2 DEF Linked, Receives, Count
<1>5. Linked'
  BY <1>1, <1>2, <1>3, <1>4 DEF Linked, InStep, Acknowledged, Told
<1>6. ~Has(up', Own) /\ ~Has(down', {"started"}) /\ \A i, n : Brings(up', i, n)
  <2>1. \A kinds : ~Has(up', kinds) /\ ~Has(down', kinds)
    BY <1>1, HasNone
  <2> QED  BY <1>1, <2>1 DEF Brings
<1>7. DirectReceives'
  <2> SUFFICES ASSUME OpenDirect' PROVE DirectReceives'
    BY <1>6 DEF DirectReceives
  <2>1. p' = p /\ stored' = stored /\ OpenDirect
    BY DEF OpenDirect
  <2> QED  BY <1>6, <2>1 DEF Direct, DirectReceives, Count
<1> QED  BY <1>1, <1>3, <1>5, <1>6, <1>7
         DEF Direct, NoLink, DirectInStep, StaysOpen, Owed, Undisturbed

LEMMA HasTail ==
  ASSUME NEW S, NEW q \in Seq(S), q # << >>
  PROVE  /\ \A kinds : Has(Tail(q), kinds) => Has(q, kinds)
         /\ \A kinds : Head(q).kind \in kinds => Has(q, kinds)
<1>1. /\ Head(q) = q[1] /\ 1 \in 1 .. Len(q)
      /\ \A j \in 1 .. Len(Tail(q)) : j + 1 \in 1 .. Len(q) /\ Tail(q)[j] = q[j + 1]
  BY Taking
<1> QED  BY <1>1 DEF Has

LEMMA BringsTail ==
  ASSUME NEW u \in Seq(Commands), u # << >>, NEW i, NEW n, Brings(u, i, n)
  PROVE  Brings(Tail(u), i, n) /\ (Head(u).kind \in Own => ~Has(Tail(u), Own))
<1>1. /\ Len(u) \in Nat /\ Head(u) = u[1] /\ 1 \in 1 .. Len(u)
      /\ \A j \in 1 .. Len(Tail(u)) : j + 1 \in 1 .. Len(u) /\ Tail(u)[j] = u[j + 1]
  BY Taking
<1>2. ~Has(Tail(u), {"end"}) /\ (Has(Tail(u), {"finish"}) => n = FullBytes)
  BY HasTail DEF Brings
<1>3. ASSUME NEW j \in 1 .. Len(Tail(u)), Tail(u)[j].kind = "piece"
      PROVE  Tail(u)[j].frame.image = i /\ Tail(u)[j].frame.place = n /\ n < FullBytes
  BY <1>1, <1>3 DEF Brings
<1>4. ASSUME NEW j \in 1 .. Len(Tail(u)), NEW k \in 1 .. Len(Tail(u)), Tail(u)[j].kind \in Own, Tail(u)[k].kind \in Own
      PROVE  j = k
  <2>1. j + 1 = k + 1
    BY <1>1, <1>4 DEF Brings
  <2> QED  BY <2>1
<1>5. ASSUME Head(u).kind \in Own, NEW j \in 1 .. Len(Tail(u)), Tail(u)[j].kind \in Own PROVE FALSE
  <2>1. j + 1 = 1
    BY <1>1, <1>5 DEF Brings
  <2> QED  BY <2>1
<1> QED  BY <1>2, <1>3, <1>4, <1>5 DEF Brings, Has

(* The client reads an answer: it counts a frame only if it is stored.     *)
LEMMA ReadCounts ==
  ASSUME Linked, Direct, IInv, Read, state = "waiting", Head(down).kind = "taken"
  PROVE  /\ OpenDirect /\ Count = acked + 1 /\ ~Has(up, Own) /\ ~Has(Tail(down), {"taken"})
         /\ acked + 1 <= Total
<1>1. down \in Seq(Replies) /\ down # << >> /\ upload = "direct"
  BY DEF Read, Linked, PipeTypeOK, OneStart
<1>2. /\ Head(down) = down[1] /\ 1 \in 1 .. Len(down) /\ Len(down) \in Nat
      /\ \A j \in 1 .. Len(Tail(down)) : j + 1 \in 1 .. Len(down) /\ Tail(down)[j] = down[j + 1]
      /\ Has(down, {"taken"})
  BY <1>1, Taking, HasTail
<1>3. OpenDirect /\ Total = FullBytes /\ InTurn
  BY <1>1, DirectGoesOn
<1>4. /\ Count = acked + 1 /\ ~Has(up, Own)
      /\ \A j, k \in 1 .. Len(down) : down[j].kind = "taken" /\ down[k].kind = "taken" => j = k
  BY <1>2, <1>3 DEF InTurn
<1>5. ASSUME NEW j \in 1 .. Len(Tail(down)), Tail(down)[j].kind = "taken" PROVE FALSE
  <2>1. j + 1 = 1
    BY <1>2, <1>4, <1>5
  <2> QED  BY <2>1
<1>6. Count <= FullBytes
  BY <1>3 DEF Direct, DirectReceives, IInv, Sound
<1> QED  BY <1>3, <1>4, <1>5, <1>6 DEF Has

LEMMA ReadKeeps == ASSUME Linked, Direct, IInv, Read PROVE Linked' /\ Direct'
<1> DEFINE reply == Head(down)
           counted == state = "sending" /\ upload # "direct" /\ acked < Total
                          /\ reply.kind = "sack" /\ reply.latest = acked % SeqModulus
           taken == state = "waiting" /\ reply.kind = "taken"
<1>1. /\ down \in Seq(Replies) /\ down # << >> /\ down' = Tail(down) /\ link = "up"
      /\ UNCHANGED <<p, stored, drawn, link, up, upload, image, late>>
      /\ acked' = IF taken \/ counted THEN acked + 1 ELSE acked
      /\ acked \in Nat /\ acked <= Total /\ Total \in Nat /\ Total' = Total
  BY PipeConstants DEF Read, Acknowledges, Linked, PipeTypeOK, device, vars, Total
<1>2. /\ down' \in Seq(Replies) /\ Len(down) \in Nat /\ Len(down) >= 1 /\ Len(down') = Len(down) - 1
      /\ \A j \in 1 .. Len(down') : j + 1 \in 1 .. Len(down) /\ down'[j] = down[j + 1]
      /\ reply = down[1] /\ 1 \in 1 .. Len(down)
  BY <1>1, Taking
<1>3. /\ state' \in {"idle", "starting", "done"} \cup Uploading
      /\ state' = "starting" => state = "starting" /\ reply.kind # "started" /\ reply.kind # "error"
      /\ state' \in Uploading =>
            \/ state' = state /\ ~taken
            \/ state' = "sending" /\ taken
            \/ state' = "sending" /\ state = "starting" /\ reply.kind = "started"
      /\ state' = "waiting" => state = "waiting"
  BY DEF Read, Linked, PipeTypeOK, Uploading
<1> HIDE DEF reply
<1>4. acked' \in Nat /\ acked' <= Total /\ acked' \in {acked, acked + 1}
  <2>1. taken => acked + 1 <= Total
    BY ReadCounts DEF reply
  <2> QED  BY <1>1, <2>1
<1>5. PipeTypeOK'
  BY <1>1, <1>2, <1>3, <1>4 DEF Linked, PipeTypeOK
<1>6. OneStart'
  <2>1. state # "starting" =>
            /\ \A j \in 1 .. Len(up) : up[j].kind \notin Starts
            /\ \A j \in 1 .. Len(down) : down[j].kind \notin {"started", "error"}
    BY DEF Linked, OneStart
  <2>2. state' = "waiting" => upload' = "direct"
    BY <1>1, <1>3 DEF Linked, OneStart
  <2>3. CASE state # "starting"
    <3>1. \A j \in 1 .. Len(down') : down'[j].kind \notin {"started", "error"}
      BY <1>2, <2>1, <2>3
    <3>2. \A j \in 1 .. Len(up') : up'[j].kind \notin Starts
      BY <1>1, <2>1, <2>3
    <3>3. state' # "starting"
      BY <1>3, <2>3
    <3> QED  BY <2>2, <3>1, <3>2, <3>3 DEF OneStart
  <2>4. CASE state = "starting" /\ (reply.kind = "started" \/ reply.kind = "error")
    <3>1. Len(down) = 1 /\ up = << >>
      BY <1>2, <2>4 DEF Linked, OneStart
    <3>2. Len(up') = 0 /\ Len(down') = 0
      BY <1>1, <1>2, <3>1
    <3> QED  BY <1>3, <2>2, <2>4, <3>2 DEF OneStart
  <2>5. CASE state = "starting" /\ reply.kind # "started" /\ reply.kind # "error"
    <3>1. state' = "starting" /\ acked' = 0
      BY <1>1, <2>5 DEF Read, reply, Linked, OneStart, Uploading
    <3>2. \A j \in 1 .. Len(down') : down'[j].kind \in {"started", "error"} => j = Len(down') /\ up = << >>
      <4> SUFFICES ASSUME NEW j \in 1 .. Len(down'), down'[j].kind \in {"started", "error"}
                   PROVE  j = Len(down') /\ up = << >>
        OBVIOUS
      <4>1. j + 1 \in 1 .. Len(down) /\ down[j + 1].kind \in {"started", "error"}
        BY <1>2
      <4>2. j + 1 = Len(down) /\ up = << >>
        BY <4>1 DEF Linked, OneStart
      <4> QED  BY <1>2, <4>2
    <3> QED  BY <1>1, <2>5, <3>1, <3>2 DEF Linked, OneStart
  <2> QED  BY <2>3, <2>4, <2>5
<1>7. Receives'
  BY <1>1 DEF Linked, Receives, Count
<1>8. Begun' => Begun
  <2> SUFFICES ASSUME Begun' PROVE Begun
    OBVIOUS
  <2>1. CASE state' \in Uploading
    BY <1>2, <1>3, <2>1 DEF Begun, Uploading
  <2>2. CASE \E j \in 1 .. Len(down') : down'[j].kind \in {"started", "error"}
    BY <1>2, <2>2 DEF Begun
  <2> QED  BY <2>1, <2>2 DEF Begun
<1>9. state = "starting" /\ state' \in Uploading => Len(down) = 1 /\ Len(down') = 0 /\ up = << >> /\ state' = "sending"
  <2> SUFFICES ASSUME state = "starting", state' \in Uploading
               PROVE  Len(down) = 1 /\ Len(down') = 0 /\ up = << >> /\ state' = "sending"
    OBVIOUS
  <2>1. reply.kind = "started" /\ state' = "sending"
    BY <1>3 DEF Uploading
  <2>2. 1 = Len(down) /\ up = << >>
    BY <1>2, <2>1 DEF Linked, OneStart
  <2>3. Len(down') = 0
    <3>1. PICK k \in Nat : k = Len(down) /\ Len(down') = k - 1
      BY <1>2
    <3> QED  BY <2>2, <3>1
  <2> QED  BY <2>1, <2>2, <2>3
<1>10. state' \in Uploading => state = "starting" \/ state \in Uploading
  BY <1>3 DEF Uploading
<1>11. Told'
  <2> SUFFICES ASSUME state' \in Uploading, NEW j \in 1 .. Len(down'), down'[j].kind = "shown"
               PROVE  ~p.active /\ drawn = Whole(image, Total)
    BY <1>1 DEF Told, Whole
  <2>1. CASE state = "starting"
    BY <1>9, <2>1
  <2>2. CASE state \in Uploading
    <3>1. j + 1 \in 1 .. Len(down) /\ down[j + 1].kind = "shown"
      BY <1>2
    <3> QED  BY <2>2, <3>1 DEF Linked, Told
  <2> QED  BY <1>10, <2>1, <2>2
<1>12. InStep' /\ Acknowledged'
  <2> SUFFICES ASSUME p.active, p.pipe, Begun' PROVE InStep' /\ Acknowledged'
    BY <1>1 DEF InStep, Acknowledged, Begun
  <2>1. /\ p.expected = Total /\ stored = Whole(image, Count) /\ Carries(up, image, Count, p.expected)
        /\ acked <= Count /\ Count <= acked + 1 /\ upload # "direct"
        /\ \A j \in 1 .. Len(up) : up[j].kind = "data" => up[j].frame.place <= acked
    BY <1>8 DEF Linked, InStep
  <2>2. Count \in Nat /\ \A j \in 1 .. Len(up) : up[j].kind = "data" => up[j].frame.place \in Nat
    <3>1. Count \in Nat
      BY DEF Linked, Receives, IInv, Sound, Protocol
    <3>2. up \in Seq(Commands)
      BY DEF Linked, PipeTypeOK
    <3> QED  BY <3>1, <3>2, ElementOfSeq, Commanded
  <2>3. state \in Uploading => Acks(down, acked, Count)
    BY DEF Linked, Acknowledged
  <2>4. state # "waiting" /\ ~taken
    BY <2>1 DEF Linked, OneStart
  <2>5. counted => /\ state \in Uploading /\ reply.kind = "sack" /\ reply.latest = acked % SeqModulus
                   /\ acked' = acked + 1
    BY <1>1 DEF Uploading
  <2> HIDE DEF taken, counted
  <2>6. acked' = IF counted THEN acked + 1 ELSE acked
    BY <1>1, <2>4
  <2>7. acked' <= Count /\ Count <= acked' + 1
    <3>1. CASE ~counted
      BY <2>1, <2>6, <3>1
    <3>2. CASE counted
      <4>1. Count = acked + 1
        BY <1>1, <2>2, <2>3, <2>5, <3>2, AcksTail DEF reply
      <4> QED  BY <1>1, <2>5, <3>2, <4>1
    <3> QED  BY <3>1, <3>2
  <2>8. \A j \in 1 .. Len(up) : up[j].kind = "data" => up[j].frame.place <= acked'
    <3> SUFFICES ASSUME NEW j \in 1 .. Len(up), up[j].kind = "data" PROVE up[j].frame.place <= acked'
      OBVIOUS
    <3>1. up[j].frame.place \in Nat /\ up[j].frame.place <= acked
      BY <2>1, <2>2
    <3>2. PICK b \in Nat : b = acked' /\ (b = acked \/ b = acked + 1)
      BY <1>4
    <3>3. up[j].frame.place <= b
      BY <1>1, <3>1, <3>2
    <3> QED  BY <3>2, <3>3
  <2>9. InStep'
    BY <1>1, <2>1, <2>7, <2>8 DEF InStep, Count
  <2>10. Acknowledged'
    <3> SUFFICES ASSUME state' \in Uploading PROVE Acks(down', acked', Count)
      BY <1>1 DEF Acknowledged, Count
    <3>1. CASE state = "starting"
      BY <1>9, <3>1 DEF Acks
    <3>2. CASE counted
      BY <1>1, <2>2, <2>3, <2>5, <3>2, AcksTail DEF reply
    <3>3. CASE state \in Uploading /\ ~counted
      BY <1>1, <2>2, <2>3, <2>6, <3>3, AcksTail
    <3> QED  BY <1>10, <3>1, <3>2, <3>3
  <2> QED  BY <2>9, <2>10
<1>13. Linked'
  BY <1>1, <1>5, <1>6, <1>7, <1>11, <1>12 DEF Linked
<1>14. /\ \A kinds : Has(down', kinds) => Has(down, kinds)
       /\ \A kinds : reply.kind \in kinds => Has(down, kinds)
       /\ \A kinds : Has(up', kinds) <=> Has(up, kinds)
       /\ (OpenDirect' <=> OpenDirect) /\ Count' = Count
  BY <1>1, HasTail DEF reply, OpenDirect, Count
<1>15. NoLink' /\ DirectReceives' /\ DirectInStep'
  BY <1>1, <1>3, <1>8, <1>14 DEF Direct, NoLink, DirectReceives, DirectInStep
<1>16. StaysOpen'
  BY <1>1, <1>3, <1>14 DEF Direct, StaysOpen, Uploading
<1>17. Owed'
  <2> SUFFICES ASSUME state' \in Uploading, OpenDirect PROVE InTurn'
    BY <1>14 DEF Owed
  <2>1. CASE taken
    <3>1. Count = acked + 1 /\ ~Has(up, Own) /\ ~Has(down', {"taken"})
      BY <1>1, <2>1, ReadCounts DEF reply
    <3>2. state' = "sending" /\ acked' = acked + 1
      BY <1>1, <1>3, <2>1 DEF Uploading
    <3> QED  BY <1>14, <3>1, <3>2 DEF InTurn
  <2>2. CASE state = "starting"
    <3>1. Len(up) = 0 /\ Len(down') = 0 /\ state' = "sending"
      BY <1>9, <2>2
    <3>2. ~Has(up, Own) /\ ~Has(down', {"taken"})
      BY <3>1 DEF Has
    <3>3. Begun
      BY <1>2, <1>3, <2>2 DEF Begun, Uploading
    <3>4. acked = 0 /\ Count = 0 /\ acked' = acked
      BY <1>1, <2>2, <3>3 DEF Linked, OneStart, Direct, DirectInStep
    <3> QED  BY <1>14, <3>1, <3>2, <3>4 DEF InTurn
  <2>3. CASE ~taken /\ state \in Uploading
    <3>1. state' = state
      BY <1>3, <2>3 DEF Uploading
    <3>2. upload = "direct"
      BY <2>3 DEF Begun, Direct, DirectInStep
    <3>3. acked' = acked /\ InTurn
      BY <1>1, <2>3, <3>2 DEF Direct, Owed
    <3>4. ASSUME \A j, k \in 1 .. Len(down) : down[j].kind = "taken" /\ down[k].kind = "taken" => j = k,
                 NEW j \in 1 .. Len(down'), NEW k \in 1 .. Len(down'), down'[j].kind = "taken", down'[k].kind = "taken"
          PROVE  j = k
      <4>1. j + 1 = k + 1
        BY <1>2, <3>4
      <4> QED  BY <4>1
    <3> HIDE DEF taken, counted
    <3> QED  BY <1>14, <3>1, <3>3, <3>4 DEF InTurn
  <2> QED  BY <1>10, <2>1, <2>2, <2>3
<1>18. Undisturbed'
  <2> SUFFICES ASSUME upload = "direct", state' \in Uploading PROVE ~Has(up, {"end"}) /\ ~Has(down', {"refused"})
    BY <1>1, <1>14 DEF Undisturbed
  <2>1. CASE state = "starting"
    <3>1. Len(up) = 0 /\ Len(down') = 0
      BY <1>9, <2>1
    <3> QED  BY <3>1 DEF Has
  <2>2. CASE state \in Uploading
    BY <1>14, <2>2 DEF Direct, Undisturbed
  <2> QED  BY <1>10, <2>1, <2>2
<1> QED  BY <1>13, <1>15, <1>16, <1>17, <1>18 DEF Direct

-----------------------------------------------------------------------------
(* A command is taken from the queue and answered; no start is among the   *)
(* answers.                                                                *)
Answered(replies) ==
    /\ link = "up" /\ up # << >> /\ up' = Tail(up) /\ down' = down \o replies
    /\ UNCHANGED <<link, client>>
    /\ replies \in Seq(Replies)
    /\ \A j \in 1 .. Len(replies) : replies[j].kind \notin {"started", "error"}

LEMMA AnsweredQueues ==
  ASSUME Linked, NEW replies, Answered(replies)
  PROVE  /\ up \in Seq(Commands) /\ up' \in Seq(Commands) /\ Len(up) \in Nat /\ Len(up') = Len(up) - 1
         /\ \A j \in 1 .. Len(up') : j + 1 \in 1 .. Len(up) /\ up'[j] = up[j + 1]
         /\ down' \in Seq(Replies) /\ Len(down) \in Nat /\ Len(replies) \in Nat
         /\ Len(down') = Len(down) + Len(replies)
         /\ \A j \in 1 .. Len(down') :
               \/ j \in 1 .. Len(down) /\ down'[j] = down[j]
               \/ j - Len(down) \in 1 .. Len(replies) /\ down'[j] = replies[j - Len(down)]
         /\ PipeTypeOK' /\ OneStart' /\ (Begun' => state \in Uploading)
         /\ state' = state /\ upload' = upload /\ acked' = acked /\ image' = image /\ Total' = Total
         /\ \A kinds : Has(up', kinds) => Has(up, kinds)
         /\ \A kinds : Has(down', kinds) => Has(down, kinds) \/ Has(replies, kinds)
         /\ ~Has(down', {"started"})
<1>1. /\ up \in Seq(Commands) /\ down \in Seq(Replies) /\ replies \in Seq(Replies) /\ up # << >>
      /\ up' = Tail(up) /\ down' = down \o replies
      /\ UNCHANGED <<link, state, upload, acked, image, late>> /\ Total' = Total
  BY DEF Linked, PipeTypeOK, Answered, client, Total
<1>2. /\ up' \in Seq(Commands) /\ Len(up) \in Nat /\ Len(up') = Len(up) - 1
      /\ \A j \in 1 .. Len(up') : j + 1 \in 1 .. Len(up) /\ up'[j] = up[j + 1]
  BY <1>1, Taking
<1>3. /\ down' \in Seq(Replies) /\ Len(down) \in Nat /\ Len(replies) \in Nat
      /\ Len(down') = Len(down) + Len(replies)
      /\ \A j \in 1 .. Len(down) + Len(replies) :
            down'[j] = IF j <= Len(down) THEN down[j] ELSE replies[j - Len(down)]
  BY <1>1, ConcatProperties, LenProperties
<1>4. \A j \in 1 .. Len(down') :
          \/ j \in 1 .. Len(down) /\ down'[j] = down[j]
          \/ j - Len(down) \in 1 .. Len(replies) /\ down'[j] = replies[j - Len(down)]
  BY <1>3
<1>5. \A j \in 1 .. Len(down') : down'[j].kind \notin {"started", "error"}
  BY <1>1, <1>4 DEF Answered, Linked, OneStart
<1>6. OneStart'
  <2>1. ASSUME NEW j \in 1 .. Len(up'), up'[j].kind \in Starts
        PROVE  state = "starting" /\ j = Len(up') /\ up'[j].kind = upload
    <3>1. j + 1 \in 1 .. Len(up) /\ up[j + 1].kind \in Starts /\ up'[j] = up[j + 1]
      BY <1>2, <2>1
    <3>2. state = "starting" /\ j + 1 = Len(up) /\ up[j + 1].kind = upload
      BY <3>1 DEF Linked, OneStart
    <3> QED  BY <1>2, <3>1, <3>2
  <2> QED  BY <1>1, <1>5, <2>1 DEF Linked, OneStart
<1>7. PipeTypeOK'
  BY <1>1, <1>2, <1>3 DEF Linked, PipeTypeOK
<1>8. Begun' => state \in Uploading
  BY <1>1, <1>5 DEF Begun
<1>9. /\ \A kinds : Has(up', kinds) => Has(up, kinds)
      /\ \A kinds : Has(down', kinds) => Has(down, kinds) \/ Has(replies, kinds)
      /\ ~Has(down', {"started"})
  <2>1. \A kinds : Has(up', kinds) => Has(up, kinds)
    BY <1>1, HasTail
  <2>2. \A kinds : Has(down', kinds) => Has(down, kinds) \/ Has(replies, kinds)
    BY <1>4 DEF Has
  <2>3. ~Has(down', {"started"})
    BY <1>5 DEF Has
  <2> QED  BY <2>1, <2>2, <2>3
<1> QED  BY <1>1, <1>2, <1>3, <1>4, <1>6, <1>7, <1>8, <1>9

(* A command of a direct upload, or a late frame that is dropped, is       *)
(* answered, and the transfer goes on.                                     *)
LEMMA DirectAnswered ==
  ASSUME Linked, OpenDirect, OpenDirect', ~p'.pipe_failed, drawn' = drawn, NEW replies, Answered(replies),
         \A j \in 1 .. Len(replies) : replies[j].kind # "shown"
  PROVE  Linked'
<1>1. Told'
  <2> SUFFICES ASSUME state' \in Uploading, NEW j \in 1 .. Len(down'), down'[j].kind = "shown" PROVE FALSE
    BY DEF Told
  <2>1. state \in Uploading
    BY AnsweredQueues
  <2>2. CASE j \in 1 .. Len(down) /\ down'[j] = down[j]
    BY <2>1, <2>2 DEF Linked, Told, OpenDirect
  <2>3. CASE j - Len(down) \in 1 .. Len(replies) /\ down'[j] = replies[j - Len(down)]
    BY <2>3
  <2> QED  BY <2>2, <2>3, AnsweredQueues
<1>2. PipeTypeOK' /\ OneStart'
  BY AnsweredQueues
<1> QED  BY <1>1, <1>2 DEF Linked, OpenDirect, Receives, InStep, Acknowledged

(* No direct upload is open after the command, and none goes on.           *)
LEMMA NoDirect ==
  ASSUME Linked, Direct, NEW replies, Answered(replies), ~OpenDirect', ~Has(up', Own),
         ~(upload = "direct" /\ state \in {"sending", "waiting"}),
         upload = "direct" /\ state \in Uploading => ~Has(replies, {"refused"})
  PROVE  Direct'
<1>1. link' = "up" /\ state' = state /\ upload' = upload /\ ~Has(down', {"started"})
  BY AnsweredQueues DEF Answered
<1>2. Undisturbed'
  <2> SUFFICES ASSUME upload = "direct", state \in Uploading PROVE ~Has(up', {"end"}) /\ ~Has(down', {"refused"})
    BY <1>1 DEF Undisturbed
  <2>1. ~Has(up, {"end"}) /\ ~Has(down, {"refused"})
    BY DEF Direct, Undisturbed
  <2> QED  BY <2>1, AnsweredQueues
<1> QED  BY <1>1, <1>2 DEF Direct, NoLink, DirectReceives, DirectInStep, StaysOpen, Owed

(* A command that finds a PIPE open.                                       *)
LEMMA NoDirectBesidePipe ==
  ASSUME Linked, Direct, NEW replies, Answered(replies), p.active, p.pipe, ~OpenDirect'
  PROVE  Direct'
<1>1. ~OpenDirect
  BY DEF OpenDirect
<1>2. ~Has(up, Own)
  BY <1>1 DEF Direct, DirectReceives
<1>3. ~Has(up', Own)
  BY <1>2, AnsweredQueues
<1>4. ~(upload = "direct" /\ state \in Uploading)
  BY DEF Linked, InStep, Begun
<1> QED  BY <1>3, <1>4, NoDirect DEF Uploading

(* Commands after which no transfer is open.  If one ended, no result of   *)
(* an earlier one is unread by a client that waits for this.               *)
LEMMA ClosedKeeps ==
  ASSUME Linked, NEW replies, Answered(replies), ~p'.active, ~p'.pipe_failed,
         \/ ~p.active /\ drawn' = drawn /\ \A j \in 1 .. Len(replies) : replies[j].kind # "shown"
         \/ p.active /\ (state \in Uploading =>
                            \A j \in 1 .. Len(replies) : replies[j].kind = "shown" => drawn' = Whole(image, Total))
  PROVE  Linked'
<1>1. Told'
  <2> SUFFICES ASSUME state' \in Uploading, NEW j \in 1 .. Len(down'), down'[j].kind = "shown"
               PROVE  drawn' = Whole(image', Total')
    BY DEF Told, Whole
  <2>1. image' = image /\ Total' = Total /\ state \in Uploading
    BY AnsweredQueues
  <2>2. CASE j \in 1 .. Len(down) /\ down'[j] = down[j]
    <3>1. ~p.active /\ drawn = Whole(image, Total)
      BY <2>1, <2>2 DEF Linked, Told
    <3> QED  BY <2>1, <3>1 DEF Whole
  <2>3. CASE j - Len(down) \in 1 .. Len(replies) /\ down'[j] = replies[j - Len(down)]
    BY <2>1, <2>3 DEF Whole
  <2> QED  BY <2>2, <2>3, AnsweredQueues
<1>2. PipeTypeOK' /\ OneStart'
  BY AnsweredQueues
<1> QED  BY <1>1, <1>2 DEF Linked, Receives, InStep, Acknowledged

(* A frame that was dropped, or is a repeat, or is stored: the transfer    *)
(* goes on.                                                                *)
LEMMA OpenKeeps ==
  ASSUME Linked, IInv, p.active, p.pipe, p'.active, ~p'.pipe_failed, NEW replies, Answered(replies),
         \A j \in 1 .. Len(replies) : replies[j].kind # "shown",
         NEW n \in Nat, NEW next \in Nat, n = Count, next \in {n, n + 1}, Count' = next,
         p'.pipe, ~p'.compressed, p'.received = next, p'.pipe_frames = next, p'.next_seq = next % SeqModulus,
         p'.expected = p.expected, drawn' = drawn,
         next # n => /\ Head(up).kind = "data" /\ Head(up).frame.place = n
                     /\ \A i : stored = Whole(i, n) /\ Head(up).frame.image = i => stored' = Whole(i, next),
         next = n => stored' = stored,
         \/ replies = << >> /\ next = n
         \/ \E r \in Replies : replies = << r >> /\ r.kind = "sack" /\ r.latest = (next - 1) % SeqModulus
  PROVE  Linked'
<1>1. /\ up \in Seq(Commands) /\ up # << >> /\ up' = Tail(up) /\ down \in Seq(Replies) /\ down' = down \o replies
      /\ PipeTypeOK' /\ OneStart' /\ (Begun' => state \in Uploading)
      /\ state' = state /\ upload' = upload /\ acked' = acked /\ image' = image /\ Total' = Total
      /\ acked \in Nat /\ image \in Images
      /\ 1 \in 1 .. Len(up) /\ Head(up) = up[1]
      /\ \A j \in 1 .. Len(up') : j + 1 \in 1 .. Len(up) /\ up'[j] = up[j + 1]
  <2>1. /\ up \in Seq(Commands) /\ up # << >> /\ up' = Tail(up) /\ down \in Seq(Replies) /\ down' = down \o replies
        /\ acked \in Nat /\ image \in Images
    BY DEF Answered, Linked, PipeTypeOK
  <2>2. 1 \in 1 .. Len(up) /\ Head(up) = up[1]
    BY <2>1, Taking
  <2> QED  BY <2>1, <2>2, AnsweredQueues
<1>2. ASSUME NEW i, stored = Whole(i, n), Carries(up, i, n, p.expected)
      PROVE  stored' = Whole(i, next) /\ Carries(up', i, next, p.expected)
  <2>1. Carries(up', i, n, p.expected)
    BY <1>1, <1>2, CarriesTail
  <2>2. CASE next = n
    BY <1>2, <2>1, <2>2
  <2>3. CASE next = n + 1
    <3>1. Head(up).kind = "data" /\ Head(up).frame.place = n
      BY <2>3
    <3>2. Head(up).frame.image = i
      BY <1>1, <1>2, <3>1 DEF Carries
    <3>3. Carries(up', i, n + 1, p.expected)
      BY <1>1, <1>2, <3>1, CarriesTail
    <3> QED  BY <1>2, <2>3, <3>2, <3>3
  <2> QED  BY <2>2, <2>3
<1>3. Receives'
  <2>1. PICK i \in Images : stored = Whole(i, Count) /\ Carries(up, i, Count, p.expected)
    BY DEF Linked, Receives
  <2>2. stored' = Whole(i, next) /\ Carries(up', i, next, p.expected)
    BY <1>2, <2>1
  <2> QED  BY <2>1, <2>2 DEF Receives, Whole
<1>4. CASE Begun'
  <2>1. state \in Uploading /\ Begun
    BY <1>1, <1>4 DEF Begun
  <2>2. /\ p.expected = Total /\ acked <= n /\ n <= acked + 1 /\ upload # "direct"
        /\ stored = Whole(image, n) /\ Carries(up, image, n, p.expected)
        /\ \A j \in 1 .. Len(up) : up[j].kind = "data" => up[j].frame.place <= acked
    BY <2>1 DEF Linked, InStep
  <2>3. stored' = Whole(image, next) /\ Carries(up', image, next, p.expected)
    BY <1>2, <2>2
  <2>4. next # n => n = acked
    BY <1>1, <2>2
  <2>5. acked <= next /\ next <= acked + 1
    BY <1>1, <2>2, <2>4
  <2>6. \A j \in 1 .. Len(up') : up'[j].kind = "data" => up'[j].frame.place <= acked
    BY <1>1, <2>2
  <2>7. InStep'
    BY <1>1, <2>2, <2>3, <2>5, <2>6 DEF InStep, Whole
  <2>8. Acknowledged'
    <3>1. Acks(down, acked, n)
      BY <2>1 DEF Linked, Acknowledged
    <3>2. CASE replies = << >> /\ next = n
      <4>1. down' = down
        BY <1>1, <3>2, ConcatEmptySeq
      <4> QED  BY <1>1, <3>1, <3>2, <4>1 DEF Acknowledged
    <3>3. CASE \E r \in Replies : replies = << r >> /\ r.kind = "sack" /\ r.latest = (next - 1) % SeqModulus
      <4>1. PICK r \in Replies : replies = << r >> /\ r.kind = "sack" /\ r.latest = (next - 1) % SeqModulus
        BY <3>3
      <4>2. \/ n = acked /\ next \in {acked, acked + 1}
            \/ n = acked + 1 /\ next = n
        BY <1>1, <2>2, <2>4
      <4>3. Acks(down \o << r >>, acked, next)
        BY <1>1, <3>1, <4>1, <4>2, AcksConcat
      <4> QED  BY <1>1, <4>1, <4>3 DEF Acknowledged
    <3> QED  BY <3>2, <3>3
  <2>9. Told'
    <3> SUFFICES ASSUME NEW j \in 1 .. Len(down'), down'[j].kind = "shown" PROVE FALSE
      BY DEF Told
    <3>1. \A k \in 1 .. Len(down) : down[k].kind # "shown"
      BY <2>1 DEF Linked, Told
    <3>2. \/ j \in 1 .. Len(down) /\ down'[j] = down[j]
          \/ j - Len(down) \in 1 .. Len(replies) /\ down'[j] = replies[j - Len(down)]
      BY AnsweredQueues
    <3> QED  BY <3>1, <3>2
  <2> QED  BY <1>1, <1>3, <2>7, <2>8, <2>9 DEF Linked
<1>5. CASE ~Begun'
  <2>1. state' \notin Uploading
    BY <1>5 DEF Begun
  <2> QED  BY <1>1, <1>3, <1>5, <2>1 DEF Linked, InStep, Acknowledged, Told
<1> QED  BY <1>4, <1>5

(* The device.                                                             *)
LEMMA ActiveFacts ==
  ASSUME Linked, IInv
  PROVE  /\ p \in Protocol /\ p.pipe_failed = FALSE /\ refreshes \in BOOLEAN /\ p.pipe \in BOOLEAN
         /\ p.active /\ p.pipe =>
               /\ p.pipe = TRUE /\ p.compressed = FALSE /\ ~Drops /\ Count \in Nat
               /\ p.received = Count /\ p.pipe_frames = Count
               /\ p.next_seq = Count % SeqModulus /\ p.expected \in Nat /\ Count <= p.expected
         /\ ~(p.active /\ p.pipe) => Drops
         /\ ~Abort(p).active /\ ~Abort(p).pipe_failed
<1>1. p \in Protocol /\ p.received <= p.expected /\ refreshes \in BOOLEAN
  BY DEF IInv, Sound
<1>2. p.pipe_failed = FALSE /\ p.received \in Nat /\ p.expected \in Nat /\ p.pipe \in BOOLEAN /\ p.compressed \in BOOLEAN
  BY <1>1, TransferAssumption DEF Linked, Protocol, Sizes
<1>3. ~Abort(p).active /\ ~Abort(p).pipe_failed
  <2>1. \A q : ~Reset(q).active /\ ~Reset(q).pipe_failed
    BY DEF Reset, Boot
  <2> QED  BY <2>1 DEF Abort
<1> QED  BY <1>1, <1>2, <1>3 DEF Linked, Receives, Drops

LEMMA SingleReply ==
  ASSUME NEW r \in Replies
  PROVE  << r >> \in Seq(Replies) /\ Len(<< r >>) = 1 /\ << r >>[1] = r /\ \A j \in 1 .. Len(<< r >>) : << r >>[j] = r
OBVIOUS

(* A start, which came last, is answered, and nothing is on its way.       *)
LEMMA BegunKeeps ==
  ASSUME Linked, Direct, up # << >>, Head(up).kind \in Starts, link = "up",
         up' = Tail(up), UNCHANGED <<link, client>>, ~p'.pipe_failed,
         NEW r \in Replies, down' = down \o << r >>, r.kind = (IF p'.active THEN "started" ELSE "error"),
         p'.active =>
            /\ p'.pipe = (Head(up).kind # "direct") /\ ~p'.compressed /\ stored' = << >>
            /\ p'.received = 0 /\ p'.pipe_frames = 0 /\ p'.next_seq = 0
            /\ p'.expected = IF Head(up).kind = "region" THEN RegionBytes ELSE FullBytes
  PROVE  Linked' /\ Direct'
<1>1. /\ up \in Seq(Commands) /\ down \in Seq(Replies)
      /\ UNCHANGED <<link, state, upload, acked, image, late>> /\ Total' = Total
  BY DEF Linked, PipeTypeOK, client, Total
<1>2. /\ up' \in Seq(Commands) /\ Len(up) \in Nat /\ Len(up') = Len(up) - 1 /\ Head(up) = up[1] /\ 1 \in 1 .. Len(up)
  BY <1>1, Taking
<1>3. state = "starting" /\ Len(up) = 1 /\ Head(up).kind = upload /\ acked = 0 /\ state' \notin Uploading
  <2>1. \A j \in 1 .. Len(up) : up[j].kind \in Starts =>
            state = "starting" /\ j = Len(up) /\ up[j].kind = upload
    BY DEF Linked, OneStart
  <2>2. up[1].kind \in Starts /\ 1 \in 1 .. Len(up)
    BY <1>2
  <2>3. state = "starting" /\ 1 = Len(up) /\ up[1].kind = upload
    BY <2>1, <2>2
  <2>4. acked = 0
    BY <2>3 DEF Linked, OneStart
  <2>5. state' \notin Uploading
    BY <1>1, <2>3 DEF Uploading
  <2> QED  BY <1>2, <2>3, <2>4, <2>5
<1>4. up' = << >> /\ Len(up') = 0
  BY <1>2, <1>3, EmptySeq
<1>5. << r >> \in Seq(Replies) /\ Len(<< r >>) = 1 /\ << r >>[1] = r
  BY SingleReply
<1>6. /\ down' \in Seq(Replies) /\ Len(down) \in Nat /\ Len(down') = Len(down) + 1
      /\ \A j \in 1 .. Len(down') : down'[j] = IF j <= Len(down) THEN down[j] ELSE r
  <2>1. /\ down' \in Seq(Replies) /\ Len(down) \in Nat /\ Len(down') = Len(down) + 1
        /\ \A j \in 1 .. Len(down) + 1 :
              down'[j] = IF j <= Len(down) THEN down[j] ELSE << r >>[j - Len(down)]
    BY <1>1, <1>5, ConcatProperties, LenProperties
  <2>2. \A j \in 1 .. Len(down) + 1 : ~(j <= Len(down)) => j - Len(down) = 1
    BY <2>1
  <2> QED  BY <1>5, <2>1, <2>2
<1>7. PipeTypeOK'
  BY <1>1, <1>2, <1>6 DEF Linked, PipeTypeOK
<1>8. \A j \in 1 .. Len(down') : down'[j].kind \in {"started", "error"} => j = Len(down') /\ down'[j] = r
  <2>1. \A j \in 1 .. Len(down) : down[j].kind \notin {"started", "error"}
    BY DEF Linked, OneStart
  <2>2. ASSUME NEW j \in 1 .. Len(down'), down'[j].kind \in {"started", "error"} PROVE j = Len(down') /\ down'[j] = r
    <3>1. CASE j \in 1 .. Len(down)
      BY <1>6, <2>1, <2>2, <3>1
    <3>2. CASE j \notin 1 .. Len(down)
      BY <1>6, <3>2
    <3> QED  BY <3>1, <3>2
  <2> QED  BY <2>2
<1>9. OneStart' /\ Told' /\ Acknowledged'
  <2>1. OneStart'
    <3>1. 1 .. Len(up') = {} /\ state' = "starting" /\ acked' = 0
      BY <1>1, <1>3, <1>4
    <3> QED  BY <1>4, <1>8, <3>1 DEF OneStart
  <2>2. Told' /\ Acknowledged'
    BY <1>3 DEF Told, Acknowledged
  <2> QED  BY <2>1, <2>2
<1>10. Receives' /\ InStep'
  <2> SUFFICES ASSUME p'.active, p'.pipe PROVE Receives' /\ InStep'
    BY DEF Receives, InStep
  <2>1. /\ ~p'.compressed /\ stored' = << >> /\ upload # "direct"
        /\ p'.received = 0 /\ p'.pipe_frames = 0 /\ p'.next_seq = 0 /\ p'.expected = Total
    BY <1>3 DEF Total
  <2>2. Count' = 0 /\ 0 % SeqModulus = 0
    BY <2>1, Neighbours DEF Count
  <2>3. image \in Images /\ image' = image /\ acked' = 0 /\ acked' <= 0 /\ 0 <= acked' + 1
    BY <1>1, <1>3 DEF Linked, PipeTypeOK
  <2>4. \A i, n, size : Carries(up', i, n, size)
    <3>1. 1 .. Len(up') = {}
      BY <1>4
    <3> QED  BY <3>1 DEF Carries
  <2>5. stored' = Whole(image', Count')
    BY <2>1, <2>2 DEF Whole
  <2>6. Receives'
    BY <1>1, <2>1, <2>2, <2>3, <2>4, <2>5 DEF Receives, Whole
  <2>7. InStep'
    <3>1. 1 .. Len(up') = {}
      BY <1>4
    <3>2. p'.expected = Total' /\ acked' <= Count' /\ Count' <= acked' + 1 /\ upload' # "direct"
      BY <1>1, <2>1, <2>2, <2>3
    <3> QED  BY <2>4, <2>5, <3>1, <3>2 DEF InStep
  <2> QED  BY <2>6, <2>7
<1>11. Linked'
  BY <1>7, <1>9, <1>10 DEF Linked
<1>12. ~Has(up', Own) /\ \A i, n : Brings(up', i, n)
  <2>1. \A kinds : ~Has(up', kinds)
    BY <1>4, HasNone
  <2> QED  BY <2>1, BringsNothing
<1>13. OpenDirect' =>
           /\ ~p'.compressed /\ p'.expected = FullBytes /\ p'.received = Count' /\ Count' = 0
           /\ upload' = "direct" /\ \A i : stored' = Whole(i, Count')
  <2> SUFFICES ASSUME p'.active, ~p'.pipe
               PROVE  /\ ~p'.compressed /\ p'.expected = FullBytes /\ p'.received = Count' /\ Count' = 0
                      /\ upload' = "direct" /\ \A i : stored' = Whole(i, Count')
    BY DEF OpenDirect
  <2>1. Head(up).kind = "direct" /\ stored' = << >> /\ Count' = 0
    BY DEF Count
  <2> QED  BY <1>1, <1>3, <2>1 DEF Whole
<1>14. image \in Images
  BY DEF Linked, PipeTypeOK
<1>15. DirectReceives' /\ DirectInStep'
  BY <1>12, <1>13, <1>14 DEF DirectReceives, DirectInStep, Whole
<1>16. StaysOpen'
  <2>1. Has(down', {"started"}) => p'.active
    BY <1>8 DEF Has
  <2> QED  BY <1>1, <1>3, <2>1 DEF StaysOpen
<1> QED  BY <1>1, <1>3, <1>11, <1>15, <1>16 DEF Direct, NoLink, Owed, Undisturbed

LEMMA HandleStartKeeps == ASSUME Linked, Direct, IInv, HandleStart PROVE Linked' /\ Direct'
<1>1. /\ link = "up" /\ up # << >> /\ Head(up).kind = "start" /\ stored' = << >> /\ drawn' = drawn
      /\ ~Abort(p).active /\ ~Abort(p).pipe_failed /\ "start" \in Starts
  BY ActiveFacts DEF HandleStart, Incoming, Starts
<1> DEFINE q == [Started(p) EXCEPT !.pipe = TRUE, !.compressed = FALSE]
<1>2. /\ q.active /\ q.pipe = TRUE /\ ~q.compressed /\ ~q.pipe_failed /\ q.received = 0 /\ q.pipe_frames = 0
      /\ q.next_seq = 0 /\ q.expected = FullBytes
      /\ ~Abort(q).active /\ ~Abort(q).pipe_failed
  <2>1. Abort(p) \in Protocol
    BY ActiveFacts, AbortSound
  <2>2. \A x : /\ Reset(x).received = 0 /\ Reset(x).pipe_frames = 0 /\ Reset(x).next_seq = 0
               /\ Reset(x).expected = FullBytes /\ ~Reset(x).pipe_failed /\ ~Reset(x).active
    BY DEF Reset, Boot
  <2>3. /\ Abort(p).received = 0 /\ Abort(p).pipe_frames = 0 /\ Abort(p).next_seq = 0
        /\ Abort(p).expected = FullBytes /\ ~Abort(p).pipe_failed
        /\ ~Abort(q).active /\ ~Abort(q).pipe_failed
    BY <2>2 DEF Abort
  <2> QED  BY <2>1, <2>3 DEF Started, Protocol
<1> HIDE DEF q
<1>3. CASE PipeStart(FALSE) /\ IF p'.active THEN Reply(Named1("started")) ELSE Lost
  <2>1. p' = q \/ p' = Abort(q)
    BY <1>3 DEF PipeStart, Answer, q
  <2>2. CASE p' = q
    <3>1. /\ [kind |-> "started"] \in Replies /\ down' = down \o << [kind |-> "started"] >>
          /\ up' = Tail(up) /\ UNCHANGED <<link, client>>
      BY <1>2, <1>3, <2>2 DEF Reply, Named1, Replies, Words
    <3> QED  BY <1>1, <1>2, <2>2, <3>1, BegunKeeps
  <2>3. CASE p' = Abort(q)
    BY <1>2, <1>3, <2>3, LostKeeps
  <2> QED  BY <2>1, <2>2, <2>3
<1>4. CASE StartPanelFails /\ Report(Named1("error"))
  <2>1. /\ [kind |-> "error"] \in Replies /\ down' = down \o << [kind |-> "error"] >>
        /\ up' = Tail(up) /\ UNCHANGED <<link, client>> /\ p' = Abort(p)
    BY <1>4 DEF Report, Named1, Replies, Words, StartPanelFails
  <2> QED  BY <1>1, <2>1, BegunKeeps
<1> QED  BY <1>3, <1>4 DEF HandleStart

LEMMA HandleDirectKeeps == ASSUME Linked, Direct, IInv, HandleDirect PROVE Linked' /\ Direct'
<1>1. /\ link = "up" /\ up # << >> /\ Head(up).kind = "direct" /\ stored' = << >> /\ drawn' = drawn
      /\ ~Abort(p).active /\ ~Abort(p).pipe_failed /\ "direct" \in Starts
  BY ActiveFacts DEF HandleDirect, Incoming, Starts
<1> DEFINE q == [Started(p) EXCEPT !.compressed = FALSE]
           fed == Stored(q, 0)
<1>2. /\ fed.active /\ fed.pipe = FALSE /\ ~fed.compressed /\ ~fed.pipe_failed /\ fed.received = 0
      /\ fed.pipe_frames = 0 /\ fed.next_seq = 0 /\ fed.expected = FullBytes
      /\ ~Abort(fed).active /\ ~Abort(fed).pipe_failed
      /\ Taken(q, 0, FALSE) = {fed} /\ ~MayBeBad(q, 0, FALSE)
  <2>1. Abort(p) \in Protocol
    BY ActiveFacts, AbortSound
  <2>2. \A x : /\ Reset(x).received = 0 /\ Reset(x).pipe_frames = 0 /\ Reset(x).next_seq = 0
               /\ Reset(x).expected = FullBytes /\ ~Reset(x).pipe_failed /\ ~Reset(x).active
               /\ Reset(x).pipe = FALSE
    BY DEF Reset, Boot
  <2>3. /\ Abort(p).received = 0 /\ Abort(p).pipe_frames = 0 /\ Abort(p).next_seq = 0
        /\ Abort(p).expected = FullBytes /\ ~Abort(p).pipe_failed /\ Abort(p).pipe = FALSE
        /\ ~Abort(fed).active /\ ~Abort(fed).pipe_failed
    BY <2>2 DEF Abort
  <2>4. /\ q.active /\ q.pipe = FALSE /\ q.compressed = FALSE /\ ~q.pipe_failed /\ q.received = 0
        /\ q.pipe_frames = 0 /\ q.next_seq = 0 /\ q.expected = FullBytes /\ DOMAIN q = DOMAIN Abort(p)
    BY <2>1, <2>3 DEF Started, Protocol
  <2> HIDE DEF q
  <2>5. 0 <= Room(q)
    BY <2>4, TransferAssumption DEF Room
  <2>6. Taken(q, 0, FALSE) = {fed}
    BY <2>4, <2>5 DEF Taken
  <2>7. ~MayBeBad(q, 0, FALSE)
    BY <2>4, <2>6 DEF MayBeBad
  <2>8. "received" \in DOMAIN q
    BY <2>1, <2>4 DEF Protocol
  <2>9. /\ fed.active /\ fed.pipe = FALSE /\ ~fed.compressed /\ ~fed.pipe_failed /\ fed.received = 0
        /\ fed.pipe_frames = 0 /\ fed.next_seq = 0 /\ fed.expected = FullBytes
    BY <2>4, <2>8 DEF Stored
  <2> QED  BY <2>3, <2>6, <2>7, <2>9
<1> HIDE DEF q, fed
<1>3. CASE DirectStart(FALSE, 0) /\ IF p'.active THEN Reply(Named1("started")) ELSE Lost
  <2>1. p' = fed \/ p' = Abort(fed)
    <3>1. (\E x \in Taken(q, 0, FALSE) : Answer(x, PanelOn(FullBytes))) \/ MayBeBad(q, 0, FALSE)
      BY <1>3 DEF DirectStart, q
    <3> QED  BY <1>2, <3>1 DEF Answer
  <2>2. CASE p' = fed
    <3>1. /\ [kind |-> "started"] \in Replies /\ down' = down \o << [kind |-> "started"] >>
          /\ up' = Tail(up) /\ UNCHANGED <<link, client>>
      BY <1>2, <1>3, <2>2 DEF Reply, Named1, Replies, Words
    <3> QED  BY <1>1, <1>2, <2>2, <3>1, BegunKeeps
  <2>3. CASE p' = Abort(fed)
    BY <1>2, <1>3, <2>3, LostKeeps
  <2> QED  BY <2>1, <2>2, <2>3
<1>4. CASE StartPanelFails /\ Report(Named1("error"))
  <2>1. /\ [kind |-> "error"] \in Replies /\ down' = down \o << [kind |-> "error"] >>
        /\ up' = Tail(up) /\ UNCHANGED <<link, client>> /\ p' = Abort(p)
    BY <1>4 DEF Report, Named1, Replies, Words, StartPanelFails
  <2> QED  BY <1>1, <2>1, BegunKeeps
<1> QED  BY <1>3, <1>4 DEF HandleDirect

LEMMA HandleRegionKeeps == ASSUME Linked, Direct, IInv, HandleRegion PROVE Linked' /\ Direct'
<1>1. /\ link = "up" /\ up # << >> /\ Head(up).kind = "region" /\ stored' = << >> /\ drawn' = drawn
      /\ Abort(p) \in Protocol /\ ~Abort(p).active /\ ~Abort(p).pipe_failed /\ "region" \in Starts
  BY ActiveFacts, AbortSound DEF HandleRegion, Incoming, Starts
<1> DEFINE q == [Region(RegionBytes) EXCEPT !.pipe = TRUE, !.compressed = FALSE]
<1>2. /\ q.active /\ q.pipe = TRUE /\ ~q.compressed /\ ~q.pipe_failed /\ q.received = 0 /\ q.pipe_frames = 0
      /\ q.next_seq = 0 /\ q.expected = RegionBytes
      /\ ~Abort(q).active /\ ~Abort(q).pipe_failed
  <2>1. \A x : /\ Reset(x).received = 0 /\ Reset(x).pipe_frames = 0 /\ Reset(x).next_seq = 0
               /\ ~Reset(x).pipe_failed /\ ~Reset(x).active
    BY DEF Reset, Boot
  <2>2. /\ Abort(p).received = 0 /\ Abort(p).pipe_frames = 0 /\ Abort(p).next_seq = 0
        /\ ~Abort(p).pipe_failed
        /\ ~Abort(q).active /\ ~Abort(q).pipe_failed
    BY <2>1 DEF Abort
  <2> QED  BY <1>1, <2>2 DEF Started, Region, Protocol
<1> HIDE DEF q
<1>3. CASE PipeRegionStart(1, RegionBytes, FALSE) /\ IF p'.active THEN Reply(Named1("started")) ELSE Lost
  <2>1. p' = q \/ p' = Abort(q)
    BY <1>3 DEF PipeRegionStart, Answer, q
  <2>2. CASE p' = q
    <3>1. /\ [kind |-> "started"] \in Replies /\ down' = down \o << [kind |-> "started"] >>
          /\ up' = Tail(up) /\ UNCHANGED <<link, client>>
      BY <1>2, <1>3, <2>2 DEF Reply, Named1, Replies, Words
    <3> QED  BY <1>1, <1>2, <2>2, <3>1, BegunKeeps
  <2>3. CASE p' = Abort(q)
    BY <1>2, <1>3, <2>3, LostKeeps
  <2> QED  BY <2>1, <2>2, <2>3
<1>4. CASE (RegionRefused /\ Reply(Named1("error"))) \/ (RegionPanelFails /\ Report(Named1("error")))
  <2>1. /\ [kind |-> "error"] \in Replies /\ down' = down \o << [kind |-> "error"] >>
        /\ up' = Tail(up) /\ UNCHANGED <<link, client>> /\ p' = [Abort(p) EXCEPT !.displayed_etag = 0]
    BY <1>4 DEF Reply, Report, Named1, Replies, Words, RegionRefused, RegionPanelFails
  <2>2. ~p'.active /\ ~p'.pipe_failed
    BY <1>1, <2>1 DEF Protocol
  <2> QED  BY <1>1, <2>1, <2>2, BegunKeeps
<1> QED  BY <1>3, <1>4 DEF HandleRegion

(* Commands are answered, with nothing or with a few replies.              *)
LEMMA EmptyReply == /\ << >> \in Seq(Replies) /\ Len(<< >>) = 0
BY EmptySeq

LEMMA SackFacts ==
  ASSUME NEW q, NEW n \in Nat, q.next_seq = n % SeqModulus
  PROVE  LET r == [kind |-> "sack", latest |-> (q.next_seq - 1) % SeqModulus]
         IN  /\ r \in Replies /\ Sacked(q) = << r >> /\ r.kind = "sack"
             /\ r.latest = (n - 1) % SeqModulus
<1>1. (q.next_seq - 1) % SeqModulus = (n - 1) % SeqModulus /\ (n - 1) % SeqModulus \in Seqs
  BY Neighbours
<1> QED  BY <1>1 DEF Replies, Sacked

LEMMA HandleCopyKeeps == ASSUME Linked, Direct, IInv, HandleCopy PROVE Linked' /\ Direct'
<1>1. p.active /\ p.pipe /\ UNCHANGED <<p, stored, drawn>> /\ Answered(<< >>)
  BY ActiveFacts, EmptyReply DEF HandleCopy, Incoming, Reply, Answered, device, vars
<1> DEFINE n == Count
<1>2. n \in Nat /\ ~p.pipe_failed /\ ~p.compressed /\ p.received = n /\ p.pipe_frames = n /\ p.next_seq = n % SeqModulus
  BY <1>1, ActiveFacts
<1>3. Count' = n /\ ~OpenDirect'
  BY <1>1 DEF Count, OpenDirect
<1>4. Linked'
  BY <1>1, <1>2, <1>3, EmptyReply, OpenKeeps
<1>5. Direct'
  BY <1>1, <1>3, NoDirectBesidePipe
<1> QED  BY <1>4, <1>5

(* Replies of some kinds.                                                  *)
Of(kinds) == {r \in Replies : r.kind \in kinds}

LEMMA OfFacts ==
  ASSUME NEW kinds, NEW s \in Seq(Of(kinds))
  PROVE  s \in Seq(Replies) /\ \A j \in 1 .. Len(s) : s[j].kind \in kinds
<1>1. Len(s) \in Nat /\ DOMAIN s = 1 .. Len(s) /\ s \in [1 .. Len(s) -> Of(kinds)]
  BY LenProperties
<1>2. \A j \in 1 .. Len(s) : s[j] \in Replies /\ s[j].kind \in kinds
  BY <1>1, ElementOfSeq DEF Of
<1> QED  BY <1>1, <1>2

LEMMA Several ==
  ASSUME NEW kinds, NEW a \in Seq(Of(kinds)), NEW b \in Seq(Of(kinds)) PROVE a \o b \in Seq(Of(kinds))
BY ConcatProperties

LEMMA OneOf ==
  ASSUME NEW kinds, NEW kind \in Words, kind \in kinds
  PROVE  Named1(kind) \in Seq(Of(kinds))
<1>1. [kind |-> kind] \in Of(kinds)
  BY DEF Of, Replies
<1> QED  BY <1>1 DEF Named1

LEMMA SackOf ==
  ASSUME NEW kinds, "sack" \in kinds, NEW q, NEW n \in Nat, q.next_seq = n % SeqModulus
  PROVE  Sacked(q) \in Seq(Of(kinds))
<1> DEFINE r == [kind |-> "sack", latest |-> (q.next_seq - 1) % SeqModulus]
<1>1. r \in Replies /\ Sacked(q) = << r >> /\ r.kind = "sack"
  BY SackFacts
<1>2. r \in Of(kinds)
  BY <1>1 DEF Of
<1> HIDE DEF r
<1> QED  BY <1>1, <1>2

(* A transfer that has been refreshed is closed and its result told, or    *)
(* the connection is lost.                                                 *)
LEMMA FinishedKeeps ==
  ASSUME Linked, Direct, link = "up", up # << >>, p.active, ~p'.active, ~p'.pipe_failed,
         NEW acks, \A kinds : "sack" \in kinds => acks \in Seq(Of(kinds)), NEW window, Finished(acks, window),
         state \in Uploading => window = Whole(image, Total),
         ~Has(Tail(up), Own), ~(upload = "direct" /\ state \in {"sending", "waiting"})
  PROVE  Linked' /\ Direct'
<1>1. CASE Lost
  BY <1>1, LostKeeps
<1>2. CASE drawn' = window /\ Reply(acks \o Named1("ended") \o Named1("shown"))
  <2> DEFINE replies == acks \o Named1("ended") \o Named1("shown")
             kinds == {"sack", "ended", "shown"}
  <2>1. replies \in Seq(Of(kinds))
    <3>1. Named1("ended") \in Seq(Of(kinds)) /\ Named1("shown") \in Seq(Of(kinds))
      BY OneOf DEF Words
    <3>2. acks \in Seq(Of(kinds))
      OBVIOUS
    <3>3. acks \o Named1("ended") \in Seq(Of(kinds))
      BY <3>1, <3>2, Several
    <3> QED  BY <3>1, <3>3, Several
  <2>2. /\ up' = Tail(up) /\ down' = down \o replies /\ UNCHANGED <<link, client>> /\ drawn' = window
    BY <1>2 DEF Reply
  <2> HIDE DEF replies
  <2>3. replies \in Seq(Replies) /\ \A j \in 1 .. Len(replies) : replies[j].kind \in kinds
    BY <2>1, OfFacts
  <2>4. Answered(replies) /\ ~Has(replies, {"refused"}) /\ ~Has(up', Own) /\ ~OpenDirect'
    BY <2>2, <2>3 DEF Answered, Has, OpenDirect
  <2>5. Linked'
    BY <2>2, <2>4, ClosedKeeps
  <2>6. Direct'
    BY <2>4, NoDirect
  <2> QED  BY <2>5, <2>6
<1>3. CASE drawn' = << >> /\ Report(acks \o Named1("ended") \o Named1("failed"))
  <2> DEFINE replies == acks \o Named1("ended") \o Named1("failed")
             kinds == {"sack", "ended", "failed"}
  <2>1. replies \in Seq(Of(kinds))
    <3>1. Named1("ended") \in Seq(Of(kinds)) /\ Named1("failed") \in Seq(Of(kinds))
      BY OneOf DEF Words
    <3>2. acks \in Seq(Of(kinds))
      OBVIOUS
    <3>3. acks \o Named1("ended") \in Seq(Of(kinds))
      BY <3>1, <3>2, Several
    <3> QED  BY <3>1, <3>3, Several
  <2>2. /\ up' = Tail(up) /\ down' = down \o replies /\ UNCHANGED <<link, client>>
    BY <1>3 DEF Report
  <2> HIDE DEF replies
  <2>3. replies \in Seq(Replies) /\ \A j \in 1 .. Len(replies) : replies[j].kind \in kinds
    BY <2>1, OfFacts
  <2>4. /\ Answered(replies) /\ \A j \in 1 .. Len(replies) : replies[j].kind # "shown"
        /\ ~Has(replies, {"refused"}) /\ ~Has(up', Own) /\ ~OpenDirect'
    BY <2>2, <2>3 DEF Answered, Has, OpenDirect
  <2>5. Linked'
    BY <2>4, ClosedKeeps
  <2>6. Direct'
    BY <2>4, NoDirect
  <2> QED  BY <2>5, <2>6
<1> QED  BY <1>1, <1>2, <1>3 DEF Finished

(* An END finds the transfer it belongs to, or none; the one of a direct   *)
(* upload finds all of its image.  Whatever becomes of it, no transfer is  *)
(* open after it.                                                          *)
LEMMA EndFinds ==
  ASSUME Linked, Direct, IInv, up # << >>, NEW pipe \in BOOLEAN,
         Head(up).kind = (IF pipe THEN "end" ELSE "finish")
  PROVE  /\ p.active => p.pipe = pipe
         /\ ~Has(Tail(up), Own) /\ ~(upload = "direct" /\ state \in {"sending", "waiting"})
         /\ pipe => ~(upload = "direct" /\ state \in Uploading)
         /\ ~pipe => p.active /\ Complete(p)
<1>1. up \in Seq(Commands) /\ p.pipe \in BOOLEAN
  BY ActiveFacts DEF Linked, PipeTypeOK
<1>2. CASE pipe
  <2>1. Has(up, {"end"})
    BY <1>1, <1>2, HasTail
  <2>2. ~OpenDirect /\ ~(upload = "direct" /\ state \in Uploading)
    BY <2>1 DEF Direct, DirectReceives, Brings, Undisturbed
  <2>3. ~Has(Tail(up), Own)
    <3>1. ~Has(up, Own)
      BY <2>2 DEF Direct, DirectReceives
    <3> QED  BY <1>1, <3>1, HasTail
  <2> QED  BY <1>1, <1>2, <2>2, <2>3 DEF OpenDirect, Uploading
<1>3. CASE ~pipe
  <2>1. Has(up, {"finish"}) /\ Has(up, Own) /\ Head(up).kind \in Own
    <3>1. Head(up).kind \in {"finish"} /\ Head(up).kind \in Own
      BY <1>3 DEF Own
    <3> QED  BY <1>1, <3>1, HasTail
  <2>2. OpenDirect
    BY <2>1 DEF Direct, DirectReceives
  <2>3. PICK i \in Images : stored = Whole(i, Count) /\ Brings(up, i, Count)
    BY <2>2 DEF Direct, DirectReceives
  <2>4. ~Has(Tail(up), Own) /\ Count = FullBytes
    BY <1>1, <2>1, <2>3, BringsTail DEF Brings
  <2>5. ~p.compressed /\ p.received = p.expected
    BY <2>2, <2>4 DEF Direct, DirectReceives
  <2>6. ASSUME upload = "direct", state \in {"sending", "waiting"} PROVE FALSE
    <3>1. InTurn
      BY <2>6, DirectGoesOn
    <3> QED  BY <2>1, <2>6, <3>1 DEF InTurn
  <2> QED  BY <1>1, <1>3, <2>2, <2>4, <2>5, <2>6 DEF OpenDirect, Complete
<1> QED  BY <1>2, <1>3

LEMMA HandleEndKeeps ==
  ASSUME Linked, Direct, IInv, NEW pipe \in BOOLEAN, NEW command, command = (IF pipe THEN "end" ELSE "finish"),
         HandleEnd(command, pipe)
  PROVE  Linked' /\ Direct'
<1> DEFINE open == p.active /\ p.pipe = pipe
           acks == IF pipe /\ open THEN Sacked(p) ELSE << >>
<1>1. link = "up" /\ up # << >> /\ Head(up).kind = command /\ End(pipe, TRUE, 1)
  BY DEF HandleEnd, Incoming
<1>2. \A x : /\ ~Reset(x).active /\ ~Reset(x).pipe_failed
             /\ ~Abort(x).active /\ ~Abort(x).pipe_failed
  <2>1. \A x : ~Reset(x).active /\ ~Reset(x).pipe_failed
    BY DEF Reset, Boot
  <2> QED  BY <2>1 DEF Abort
<1>3. ~p'.active /\ ~p'.pipe_failed
  BY <1>1, <1>2 DEF End, FinishTransfer, Refuse
<1>4. /\ p.active => p.pipe = pipe
      /\ ~Has(Tail(up), Own) /\ ~(upload = "direct" /\ state \in {"sending", "waiting"})
      /\ pipe => ~(upload = "direct" /\ state \in Uploading)
      /\ ~pipe => p.active /\ Complete(p)
  BY <1>1, EndFinds
<1>5. ASSUME NEW kinds, "sack" \in kinds PROVE acks \in Seq(Of(kinds))
  <2>1. CASE pipe /\ open
    BY <1>5, <2>1, ActiveFacts, SackOf
  <2>2. CASE ~(pipe /\ open)
    BY <2>2, EmptySeq
  <2> QED  BY <2>1, <2>2
<1>6. /\ refreshes' # refreshes => Finished(acks, stored)
      /\ refreshes' = refreshes =>
            /\ drawn' = drawn
            /\ IF open /\ Complete(p) THEN Lost ELSE Reply(acks \o Named1("refused"))
  BY DEF HandleEnd
<1> HIDE DEF acks
<1>7. CASE refreshes' # refreshes
  <2>1. p.active /\ \E fed \in Taken(p, 0, TRUE) : Complete(fed)
    BY <1>1, <1>7 DEF End
  <2>2. Sound(p, epd)
    BY DEF IInv
  <2>3. p.received = p.expected
    <3>1. PICK fed \in Taken(p, 0, TRUE) : Complete(fed)
      BY <2>1
    <3>2. fed.expected = p.expected /\ fed.received = p.received
      BY <2>1, <2>2, FinalSound
    <3> QED  BY <3>1, <3>2 DEF Complete
  <2>4. state \in Uploading => stored = Whole(image, Total)
    <3> SUFFICES ASSUME state \in Uploading PROVE stored = Whole(image, Total)
      OBVIOUS
    <3>1. CASE p.pipe
      <4>1. p.received = Count /\ p.expected = Total /\ stored = Whole(image, Count)
        BY <2>1, <3>1 DEF Linked, Receives, InStep, Begun
      <4> QED  BY <2>3, <4>1
    <3>2. CASE ~p.pipe
      <4>1. p.received = Count /\ p.expected = FullBytes /\ upload = "direct" /\ stored = Whole(image, Count)
        BY <2>1, <3>2 DEF Direct, DirectReceives, DirectInStep, OpenDirect, Begun
      <4> QED  BY <2>3, <4>1 DEF Total
    <3> QED  BY <3>1, <3>2
  <2> QED  BY <1>1, <1>3, <1>4, <1>5, <1>6, <1>7, <2>1, <2>4, FinishedKeeps
<1>8. CASE refreshes' = refreshes
  <2>1. CASE Lost
    BY <1>3, <2>1, LostKeeps
  <2>2. CASE pipe /\ Reply(acks \o Named1("refused")) /\ drawn' = drawn
    <3> DEFINE replies == acks \o Named1("refused")
               kinds == {"sack", "refused"}
    <3>1. replies \in Seq(Of(kinds))
      <4>1. Named1("refused") \in Seq(Of(kinds))
        BY OneOf DEF Words
      <4>2. acks \in Seq(Of(kinds))
        BY <1>5
      <4> QED  BY <4>1, <4>2, Several
    <3>2. up' = Tail(up) /\ down' = down \o replies /\ UNCHANGED <<link, client>>
      BY <2>2 DEF Reply
    <3> HIDE DEF replies
    <3>3. replies \in Seq(Replies) /\ \A j \in 1 .. Len(replies) : replies[j].kind \in kinds
      BY <3>1, OfFacts
    <3>4. /\ Answered(replies) /\ \A j \in 1 .. Len(replies) : replies[j].kind # "shown"
          /\ ~Has(up', Own) /\ ~OpenDirect'
      BY <1>1, <1>3, <1>4, <3>2, <3>3 DEF Answered, OpenDirect
    <3>5. Linked'
      BY <1>3, <2>2, <3>4, ClosedKeeps
    <3>6. Direct'
      BY <1>4, <2>2, <3>4, NoDirect
    <3> QED  BY <3>5, <3>6
  <2> QED  BY <1>4, <1>6, <1>8, <2>1, <2>2
<1> QED  BY <1>7, <1>8

LEMMA WholeAppend ==
  ASSUME NEW i \in Images, NEW n \in Nat, NEW f \in Frame, f.image = i, f.place = n
  PROVE  Len(Whole(i, n)) = n /\ Append(Whole(i, n), f) = Whole(i, n + 1) /\ Len(Whole(i, n + 1)) = n + 1
<1>1. \A k \in Nat : Whole(i, k) \in Seq(Frame) /\ Len(Whole(i, k)) = k
  <2> SUFFICES ASSUME NEW k \in Nat PROVE Whole(i, k) \in Seq(Frame) /\ Len(Whole(i, k)) = k
    OBVIOUS
  <2>1. \A j \in 1 .. k : [image |-> i, place |-> j - 1] \in Frame
    BY DEF Frame
  <2> QED  BY <2>1 DEF Whole
<1>2. f = [image |-> i, place |-> n]
  BY DEF Frame
<1> DEFINE a == Append(Whole(i, n), f)
           b == Whole(i, n + 1)
<1>3. a \in Seq(Frame) /\ b \in Seq(Frame) /\ Len(a) = n + 1 /\ Len(b) = n + 1
  BY <1>1, AppendProperties
<1>4. \A j \in 1 .. n : Append(Whole(i, n), f)[j] = Whole(i, n)[j]
  BY <1>1, AppendProperties
<1>5. Append(Whole(i, n), f)[n + 1] = f
  BY <1>1, AppendProperties
<1>6. \A j \in 1 .. n : Whole(i, n)[j] = [image |-> i, place |-> j - 1]
  BY DEF Whole
<1>7. \A j \in 1 .. n + 1 : b[j] = [image |-> i, place |-> j - 1]
  BY DEF Whole
<1>8. \A j \in 1 .. n + 1 : j \in 1 .. n \/ (j = n + 1 /\ j - 1 = n)
  OBVIOUS
<1> HIDE DEF b
<1>9. \A j \in 1 .. n + 1 : a[j] = b[j]
  BY <1>2, <1>4, <1>5, <1>6, <1>7, <1>8
<1> HIDE DEF a
<1>10. a = b
  BY <1>3, <1>9, SeqEqual
<1> QED  BY <1>1, <1>3, <1>10 DEF a, b

(* The frame that has come is the next one, or a repeat of the last.       *)
LEMMA ComingFrame ==
  ASSUME Linked, IInv, p.active, p.pipe, up # << >>, Head(up).kind = "data"
  PROVE  /\ Head(up).frame \in Frame /\ Head(up).seq \in Seqs
         /\ Head(up).frame.place = Count => Count < p.expected
         /\ \/ /\ Head(up).frame.place = Count /\ Head(up).seq = p.next_seq /\ ~Repeated(Head(up).seq)
               /\ Taken(p, 1, FALSE) = {Stored(p, 1)} /\ ~MayBeBad(p, 1, FALSE)
            \/ /\ Head(up).seq # p.next_seq
               /\ Repeated(Head(up).seq)
<1> DEFINE n == Count
           c == Head(up)
           k == c.frame.place
<1>1. /\ n \in Nat /\ p.next_seq = n % SeqModulus /\ p.pipe_frames = n /\ p.received = n
      /\ p.compressed = FALSE /\ p.expected \in Nat
  BY ActiveFacts
<1>2. up \in Seq(Commands) /\ 1 \in 1 .. Len(up) /\ c = up[1] /\ c \in Commands
  BY Taking DEF Linked, PipeTypeOK
<1>3. c.frame \in Frame /\ k \in Nat /\ c.seq = k % SeqModulus /\ c.seq \in Seqs
  <2>1. c.frame \in Frame /\ k \in Nat /\ c.seq = k % SeqModulus
    BY <1>2, Commanded
  <2> QED  BY <2>1, Neighbours
<1>4. k \in {n - 1, n} /\ k < p.expected
  BY <1>2 DEF Linked, Receives, Carries
<1> HIDE DEF n, c
<1>5. CASE k = n
  <2>1. ~Repeated(c.seq)
    BY <1>1, <1>3, <1>5, Neighbours DEF Repeated
  <2>2. Taken(p, 1, FALSE) = {Stored(p, 1)}
    <3>1. 1 <= Room(p)
      BY <1>1, <1>4, <1>5 DEF Room
    <3> QED  BY <1>1, <3>1 DEF Taken
  <2>3. ~MayBeBad(p, 1, FALSE)
    BY <1>1, <2>2 DEF MayBeBad
  <2> QED  BY <1>1, <1>3, <1>4, <1>5, <2>1, <2>2, <2>3 DEF c, n
<1>6. CASE k = n - 1 /\ k # n
  <2>1. n >= 1 /\ c.seq = (n - 1) % SeqModulus
    BY <1>1, <1>3, <1>6
  <2>2. c.seq # p.next_seq /\ (p.next_seq - c.seq) % SeqModulus = 1
    BY <1>1, <2>1, Neighbours
  <2>3. Repeated(c.seq)
    BY <1>1, <2>1, <2>2, SeqFacts DEF Repeated
  <2> QED  BY <1>3, <1>6, <2>2, <2>3 DEF c, n
<1> QED  BY <1>4, <1>5, <1>6

(* What the receiver is after it has stored the next frame.                *)
LEMMA NextFrame ==
  ASSUME Linked, IInv, p.active, p.pipe, Count < p.expected
  PROVE  LET q == Numbered(Stored(p, 1)) IN
         /\ q.active /\ q.pipe /\ ~q.compressed /\ ~q.pipe_failed /\ q.partial = p.partial /\ q.expected = p.expected
         /\ q.received = Count + 1 /\ q.pipe_frames = Count + 1 /\ q.next_seq = (Count + 1) % SeqModulus
         /\ Stored(p, 1).received = Count + 1 /\ Stored(p, 1).expected = p.expected
         /\ Numbered(p).next_seq = (Count + 1) % SeqModulus
<1>1. /\ p \in Protocol /\ p.pipe_failed = FALSE /\ p.pipe = TRUE /\ p.compressed = FALSE /\ Count \in Nat
      /\ p.received = Count /\ p.pipe_frames = Count /\ p.next_seq = Count % SeqModulus
  BY ActiveFacts
<1>2. ((Count % SeqModulus) + 1) % SeqModulus = (Count + 1) % SeqModulus
  BY <1>1, Neighbours
<1>3. /\ Stored(p, 1).received = Count + 1 /\ Stored(p, 1).pipe_frames = Count
      /\ Stored(p, 1).next_seq = Count % SeqModulus /\ Stored(p, 1).pipe_failed = FALSE
      /\ Stored(p, 1).active = p.active /\ Stored(p, 1).pipe = TRUE /\ Stored(p, 1).compressed = FALSE
      /\ Stored(p, 1).partial = p.partial /\ Stored(p, 1).expected = p.expected
  BY <1>1 DEF Stored, Protocol
<1>4. DOMAIN Stored(p, 1) = DOMAIN p /\ {"received", "pipe_frames", "next_seq", "pipe_failed"} \subseteq DOMAIN p
  BY <1>1 DEF Stored, Protocol
<1> QED  BY <1>1, <1>2, <1>3, <1>4 DEF Numbered, Protocol

(* A frame of the PIPE before that comes late leaves a direct upload as it *)
(* is.                                                                     *)
LEMMA LateDropped ==
  ASSUME Linked, Direct, OpenDirect, Head(up).kind = "data", Answered(<< >>),
         UNCHANGED <<p, stored, drawn>>, ~p.pipe_failed
  PROVE  Linked' /\ Direct'
<1>1. OpenDirect' /\ Count' = Count /\ p'.active
  BY DEF OpenDirect, Count
<1>2. Linked'
  BY <1>1, EmptyReply, DirectAnswered
<1>3. /\ up \in Seq(Commands) /\ up # << >> /\ up' = Tail(up) /\ down' = down
      /\ link' = "up" /\ UNCHANGED <<state, upload, acked, image>> /\ (Begun' => state \in Uploading)
      /\ \A kinds : Has(up', kinds) => Has(up, kinds)
  <2>1. down' = down
    BY ConcatEmptySeq DEF Answered, Linked, PipeTypeOK
  <2> QED  BY <2>1, AnsweredQueues DEF Answered, client
<1>4. \A i, n : Brings(up, i, n) => Brings(up', i, n)
  BY <1>3, BringsTail
<1>5. DirectReceives'
  BY <1>1, <1>3, <1>4 DEF Direct, DirectReceives
<1>6. DirectInStep'
  <2> SUFFICES ASSUME Begun' PROVE DirectInStep'
    BY DEF DirectInStep
  <2>1. Begun /\ state # "starting"
    BY <1>3 DEF Begun, Uploading
  <2> QED  BY <1>1, <1>3, <1>4, <2>1 DEF Direct, DirectInStep
<1>7. Owed' /\ StaysOpen' /\ Undisturbed' /\ NoLink'
  BY <1>1, <1>3 DEF Direct, Owed, InTurn, StaysOpen, Undisturbed, NoLink
<1> QED  BY <1>2, <1>5, <1>6, <1>7 DEF Direct

LEMMA HandleDataKeeps == ASSUME Linked, Direct, IInv, HandleData PROVE Linked' /\ Direct'
<1> DEFINE c == Head(up)
           n == Count
           next == Numbered(Stored(p, 1))
<1>1. link = "up" /\ up # << >> /\ c.kind = "data" /\ PipeData(c.seq, 1, TRUE)
  BY DEF HandleData, Incoming
<1>2. \A x : /\ ~Reset(x).active /\ ~Reset(x).pipe_failed
             /\ ~Abort(x).active /\ ~Abort(x).pipe_failed
  <2>1. \A x : ~Reset(x).active /\ ~Reset(x).pipe_failed
    BY DEF Reset, Boot
  <2> QED  BY <2>1 DEF Abort
<1>3. CASE ~(p.active /\ p.pipe)
  <2>1. UNCHANGED <<p, stored, drawn>> /\ Reply(<< >>) /\ ~p.pipe_failed
    BY <1>1, <1>3, ActiveFacts DEF HandleData, PipeData
  <2>2. Answered(<< >>)
    BY <1>1, <2>1, EmptyReply DEF Answered, Reply
  <2>3. CASE p.active
    BY <1>1, <1>3, <2>1, <2>2, <2>3, LateDropped DEF OpenDirect
  <2>4. CASE ~p.active
    <3>1. Linked'
      BY <2>1, <2>2, <2>4, EmptyReply, ClosedKeeps
    <3>2. ~OpenDirect /\ ~OpenDirect' /\ ~Has(<< >>, {"refused"})
      BY <2>1, <2>4, HasNone DEF OpenDirect
    <3>3. ~Has(up', Own)
      BY <2>2, <3>2, AnsweredQueues DEF Direct, DirectReceives
    <3>4. ~(upload = "direct" /\ state \in {"sending", "waiting"})
      BY <2>4 DEF Direct, StaysOpen
    <3>5. Direct'
      BY <2>2, <3>2, <3>3, <3>4, NoDirect
    <3> QED  BY <3>1, <3>5
  <2> QED  BY <2>3, <2>4
<1>4. CASE p.active /\ p.pipe
  <2>1. /\ ~Drops /\ n \in Nat /\ p.received = n /\ p.pipe_frames = n /\ p.next_seq = n % SeqModulus
        /\ ~p.pipe_failed /\ p.pipe = TRUE /\ ~p.compressed /\ refreshes \in BOOLEAN
    BY <1>4, ActiveFacts
  <2>6. ~Has(Tail(up), Own) /\ ~(upload = "direct" /\ state \in Uploading)
    <3>1. up \in Seq(Commands) /\ ~Has(up, Own)
      BY <1>4 DEF Linked, PipeTypeOK, Direct, DirectReceives, OpenDirect
    <3>2. ~Has(Tail(up), Own)
      BY <1>1, <3>1, HasTail
    <3> QED  BY <1>4, <3>2 DEF Linked, InStep, Begun
  (* The connection does not carry the acknowledgement.                    *)
  <2>2. ASSUME NEW x, p' = Abort(x), refreshes' = refreshes PROVE Linked' /\ Direct'
    <3>1. ~p'.active /\ ~p'.pipe_failed
      BY <1>2, <2>2
    <3>2. Lost
      BY <2>1, <2>2, <3>1 DEF HandleData
    <3> QED  BY <3>1, <3>2, LostKeeps
  <2>3. ASSUME p' = p, refreshes' = refreshes PROVE Linked' /\ Direct'
    <3>1. Reply(Sacked(p)) /\ stored' = stored /\ drawn' = drawn
      BY <1>4, <2>1, <2>3 DEF HandleData
    <3> DEFINE r == [kind |-> "sack", latest |-> (p.next_seq - 1) % SeqModulus]
    <3>2. r \in Replies /\ Sacked(p) = << r >> /\ r.kind = "sack" /\ r.latest = (n - 1) % SeqModulus
      BY <2>1, SackFacts
    <3> HIDE DEF r
    <3>3. Answered(<< r >>) /\ \A j \in 1 .. Len(<< r >>) : << r >>[j].kind # "shown"
      BY <1>1, <3>1, <3>2, SingleReply DEF Answered, Reply
    <3>4. Count' = n /\ ~OpenDirect'
      BY <2>1, <2>3, <3>1 DEF Count, OpenDirect
    <3>5. Linked'
      BY <1>4, <2>1, <2>3, <3>1, <3>2, <3>3, <3>4, OpenKeeps
    <3>6. Direct'
      BY <1>4, <3>3, <3>4, NoDirectBesidePipe
    <3> QED  BY <3>5, <3>6
  <2>4. CASE Head(up).seq # p.next_seq /\ Repeated(Head(up).seq)
    <3>1. Answer(p, epd) /\ refreshes' = refreshes
      BY <1>1, <2>1, <2>4 DEF PipeData
    <3> QED  BY <2>2, <2>3, <3>1 DEF Answer
  <2>5. CASE /\ c.frame.place = n /\ c.seq = p.next_seq /\ ~Repeated(c.seq)
             /\ Taken(p, 1, FALSE) = {Stored(p, 1)} /\ ~MayBeBad(p, 1, FALSE)
    <3>1. c.frame \in Frame /\ n < p.expected
      BY <1>1, <1>4, <2>5, ComingFrame
    <3>2. /\ next.active /\ next.pipe = TRUE /\ ~next.compressed /\ ~next.pipe_failed /\ next.expected = p.expected
          /\ next.received = n + 1 /\ next.pipe_frames = n + 1 /\ next.next_seq = (n + 1) % SeqModulus
          /\ Stored(p, 1).received = n + 1 /\ Stored(p, 1).expected = p.expected
          /\ Numbered(p).next_seq = (n + 1) % SeqModulus
      BY <1>4, <3>1, NextFrame
    <3>3. \A i \in Images : stored = Whole(i, n) /\ c.frame.image = i => Append(stored, c.frame) = Whole(i, n + 1)
      BY <2>1, <2>5, <3>1, WholeAppend
    <3>4. \/ FinishTransfer(next, 0) /\ n + 1 = p.expected
          \/ Answer(next, epd) /\ refreshes' = refreshes
      BY <1>1, <2>1, <2>5, <3>2 DEF PipeData
    <3> HIDE DEF next
    <3>5. CASE refreshes' # refreshes
      <4>1. FinishTransfer(next, 0) /\ n + 1 = p.expected
        BY <3>4, <3>5
      <4>2. ~p'.active /\ ~p'.pipe_failed
        BY <1>2, <4>1 DEF FinishTransfer, Refuse
      <4>3. Finished(Sacked(Numbered(p)), Append(stored, c.frame))
        BY <2>1, <3>5 DEF HandleData
      <4>4. state \in Uploading => Append(stored, c.frame) = Whole(image, Total)
        <5> SUFFICES ASSUME state \in Uploading PROVE Append(stored, c.frame) = Whole(image, Total)
          OBVIOUS
        <5>1. stored = Whole(image, n) /\ p.expected = Total /\ Carries(up, image, n, p.expected)
          BY <1>4 DEF Linked, InStep, Begun
        <5>2. c.frame.image = image /\ image \in Images
          <6>1. up \in Seq(Commands) /\ image \in Images
            BY DEF Linked, PipeTypeOK
          <6>2. 1 \in 1 .. Len(up) /\ c = up[1]
            BY <1>1, <6>1, Taking
          <6> QED  BY <1>1, <5>1, <6>1, <6>2 DEF Carries
        <5> QED  BY <3>3, <4>1, <5>1, <5>2
      <4>5. n + 1 \in Nat
        BY <2>1
      <4>6. ASSUME NEW kinds, "sack" \in kinds PROVE Sacked(Numbered(p)) \in Seq(Of(kinds))
        BY <3>2, <4>5, <4>6, SackOf
      <4>7. ~(upload = "direct" /\ state \in {"sending", "waiting"})
        BY <2>6 DEF Uploading
      <4> HIDE DEF c
      <4> QED  BY <1>1, <1>4, <2>6, <4>2, <4>3, <4>4, <4>6, <4>7, FinishedKeeps
    <3>6. CASE refreshes' = refreshes
      <4>1. p' = next \/ \E x : p' = Abort(x)
        BY <2>1, <3>4, <3>6 DEF FinishTransfer, Refuse, Answer
      <4>2. CASE p' = next
        <5>1. Reply(Sacked(p')) /\ stored' = Append(stored, c.frame) /\ drawn' = drawn
          BY <2>1, <3>2, <3>6, <4>2 DEF HandleData
        <5> DEFINE r == [kind |-> "sack", latest |-> (p'.next_seq - 1) % SeqModulus]
        <5>2. n + 1 \in Nat /\ n + 1 # n /\ p'.next_seq = (n + 1) % SeqModulus
          BY <2>1, <3>2, <4>2
        <5>3. r \in Replies /\ Sacked(p') = << r >> /\ r.kind = "sack" /\ r.latest = ((n + 1) - 1) % SeqModulus
          BY <5>2, SackFacts
        <5> HIDE DEF r
        <5>4. Answered(<< r >>) /\ \A j \in 1 .. Len(<< r >>) : << r >>[j].kind # "shown"
          BY <1>1, <5>1, <5>3, SingleReply DEF Answered, Reply
        <5>5. Count' = n + 1 /\ \A i : stored = Whole(i, n) /\ Head(up).frame.image = i => stored' = Whole(i, n + 1)
          <6>1. PICK j \in Images : stored = Whole(j, n) /\ Carries(up, j, n, p.expected)
            BY <1>4 DEF Linked, Receives
          <6>2. up \in Seq(Commands) /\ 1 \in 1 .. Len(up) /\ c = up[1]
            <7>1. up \in Seq(Commands)
              BY DEF Linked, PipeTypeOK
            <7> QED  BY <1>1, <7>1, Taking
          <6>3. c.frame.image = j
            BY <1>1, <6>1, <6>2 DEF Carries
          <6>4. stored' = Whole(j, n + 1) /\ Len(stored') = n + 1
            BY <2>1, <2>5, <3>1, <5>1, <6>1, <6>3, WholeAppend
          <6> QED  BY <6>3, <6>4 DEF Count
        <5>6. Linked'
          BY <1>1, <1>4, <2>1, <2>5, <3>2, <4>2, <5>1, <5>2, <5>3, <5>4, <5>5, OpenKeeps
        <5>7. Direct'
          <6>1. ~OpenDirect'
            BY <3>2, <4>2 DEF OpenDirect
          <6> QED  BY <1>4, <5>4, <6>1, NoDirectBesidePipe
        <5> QED  BY <5>6, <5>7
      <4> QED  BY <2>2, <3>6, <4>1, <4>2
    <3> QED  BY <3>5, <3>6
  <2> QED  BY <1>1, <1>4, <2>4, <2>5, ComingFrame
<1> QED  BY <1>3, <1>4

(* A piece comes in its turn and there is room for it.                     *)
LEMMA ComingPiece ==
  ASSUME Linked, Direct, IInv, up # << >>, Head(up).kind = "piece"
  PROVE  /\ OpenDirect /\ Head(up).frame \in Frame /\ Count \in Nat /\ Room(p) > 0
         /\ Taken(p, 1, FALSE) = {Stored(p, 1)} /\ ~MayBeBad(p, 1, FALSE)
         /\ ~Has(Tail(up), Own) /\ ~Has(Tail(up), {"end"})
         /\ \E i \in Images :
               /\ Head(up).frame.image = i /\ Head(up).frame.place = Count /\ stored = Whole(i, Count)
               /\ state \in Uploading => image = i
         /\ state \in Uploading =>
               upload = "direct" /\ state = "waiting" /\ Count = acked /\ ~Has(down, {"taken"})
<1>1. up \in Seq(Commands) /\ 1 \in 1 .. Len(up) /\ Head(up) = up[1] /\ Head(up) \in Commands
  BY Taking DEF Linked, PipeTypeOK
<1>2. Has(up, Own) /\ Has(up, {"piece"}) /\ Head(up).kind \in Own
  BY <1>1 DEF Has, Own
<1>3. OpenDirect
  BY <1>2 DEF Direct, DirectReceives
<1>4. PICK i \in Images : stored = Whole(i, Count) /\ Brings(up, i, Count)
  BY <1>3 DEF Direct, DirectReceives
<1>5. Head(up).frame.image = i /\ Head(up).frame.place = Count /\ Count < FullBytes
  BY <1>1, <1>4 DEF Brings
<1>6. ~Has(Tail(up), Own) /\ ~Has(Tail(up), {"end"})
  BY <1>1, <1>2, <1>4, BringsTail DEF Brings
<1>7. p \in Protocol /\ p.compressed = FALSE /\ p.expected = FullBytes /\ p.received = Count /\ Count \in Nat
  <2>1. p \in Protocol
    BY ActiveFacts
  <2> QED  BY <1>3, <2>1 DEF Direct, DirectReceives, Protocol
<1>8. Room(p) > 0 /\ 1 <= Room(p)
  BY <1>5, <1>7, PipeConstants DEF Room
<1>9. Taken(p, 1, FALSE) = {Stored(p, 1)}
  BY <1>7, <1>8 DEF Taken
<1>10. ~MayBeBad(p, 1, FALSE)
  BY <1>7, <1>9 DEF MayBeBad
<1>11. ASSUME state \in Uploading
       PROVE  image = i /\ upload = "direct" /\ state = "waiting" /\ Count = acked /\ ~Has(down, {"taken"})
  <2>1. upload = "direct" /\ Brings(up, image, Count) /\ InTurn
    BY <1>3, <1>11 DEF Direct, DirectInStep, Begun, Owed
  <2>2. image = i
    BY <1>1, <1>5, <2>1 DEF Brings
  <2> QED  BY <1>2, <2>1, <2>2 DEF InTurn
<1>12. Head(up).frame \in Frame
  BY <1>1, Commanded
<1> QED  BY <1>3, <1>4, <1>5, <1>6, <1>7, <1>8, <1>9, <1>10, <1>11, <1>12

LEMMA HandlePieceKeeps == ASSUME Linked, Direct, IInv, HandlePiece PROVE Linked' /\ Direct'
<1> DEFINE f == Head(up).frame
           n == Count
           fed == Stored(p, 1)
           r == [kind |-> "taken"]
<1>1. link = "up" /\ up # << >> /\ Head(up).kind = "piece" /\ drawn' = drawn
  BY DEF HandlePiece, Incoming
<1>2. /\ OpenDirect /\ f \in Frame /\ n \in Nat /\ Room(p) > 0
      /\ Taken(p, 1, FALSE) = {fed} /\ ~MayBeBad(p, 1, FALSE)
      /\ ~Has(Tail(up), Own) /\ ~Has(Tail(up), {"end"})
      /\ state \in Uploading =>
            upload = "direct" /\ state = "waiting" /\ n = acked /\ ~Has(down, {"taken"})
  BY <1>1, ComingPiece
<1>3. PICK i \in Images : /\ f.image = i /\ f.place = n /\ stored = Whole(i, n)
                          /\ state \in Uploading => image = i
  BY <1>1, ComingPiece
<1>4. /\ fed.active /\ fed.pipe = FALSE /\ ~fed.compressed /\ ~fed.pipe_failed
      /\ fed.received = n + 1 /\ fed.expected = FullBytes
  <2>1. /\ p \in Protocol /\ p.pipe_failed = FALSE /\ p.pipe \in BOOLEAN /\ p.active /\ ~p.pipe
        /\ ~p.compressed /\ p.expected = FullBytes /\ p.received = n
    BY <1>2, ActiveFacts DEF OpenDirect, Direct, DirectReceives
  <2> QED  BY <2>1 DEF Stored, Protocol
<1>5. \A x : ~Abort(x).active /\ ~Abort(x).pipe_failed
  <2>1. \A x : ~Reset(x).active /\ ~Reset(x).pipe_failed
    BY DEF Reset, Boot
  <2> QED  BY <2>1 DEF Abort
<1>6. p' = fed \/ p' = Abort(fed)
  <2>1. \E x \in Taken(p, 1, FALSE) : Answer(x, epd)
    BY <1>2 DEF HandlePiece, DirectData, OpenDirect
  <2> QED  BY <1>2, <2>1 DEF Answer
<1> HIDE DEF fed
<1>7. CASE p' = Abort(fed)
  <2>1. Lost
    BY <1>2, <1>5, <1>7 DEF HandlePiece, OpenDirect
  <2> QED  BY <1>5, <1>7, <2>1, LostKeeps
<1>8. CASE p' = fed
  <2>1. Reply(<< r >>) /\ stored' = Append(stored, f)
    BY <1>4, <1>8 DEF HandlePiece, Named1
  <2>2. r \in Replies /\ r.kind = "taken"
    BY DEF Replies, Words
  <2> HIDE DEF r
  <2>3. /\ << r >> \in Seq(Replies) /\ Len(<< r >>) = 1 /\ \A j \in 1 .. Len(<< r >>) : << r >>[j] = r
    BY <2>2, SingleReply
  <2>4. Answered(<< r >>) /\ OpenDirect' /\ ~p'.pipe_failed
    BY <1>1, <1>4, <1>8, <2>1, <2>2, <2>3 DEF Answered, Reply, OpenDirect
  <2>5. Linked'
    BY <1>1, <1>2, <2>2, <2>3, <2>4, DirectAnswered
  <2>6. stored' = Whole(i, n + 1) /\ Count' = n + 1
    BY <1>2, <1>3, <2>1, WholeAppend DEF Count
  <2>7. /\ link' = "up" /\ up' = Tail(up) /\ UNCHANGED <<state, upload, acked, image>>
        /\ (Begun' => state \in Uploading)
        /\ \A kinds : Has(down', kinds) => Has(down, kinds) \/ Has(<< r >>, kinds)
        /\ Len(down) \in Nat
        /\ \A j \in 1 .. Len(down') :
              \/ j \in 1 .. Len(down) /\ down'[j] = down[j]
              \/ j - Len(down) \in 1 .. 1
    BY <2>3, <2>4, AnsweredQueues DEF Answered, client
  <2>8. ~Has(up', Own) /\ ~Has(up', {"end"}) /\ \A b, m : Brings(up', b, m)
    BY <1>2, <2>7, BringsNothing
  <2>9. DirectReceives'
    BY <1>4, <1>8, <2>6, <2>8 DEF DirectReceives, Whole
  <2>10. DirectInStep'
    <3> SUFFICES ASSUME Begun' PROVE upload = "direct" /\ stored' = Whole(image, Count') /\ state # "starting"
      BY <2>7, <2>8 DEF DirectInStep, Whole
    <3>1. state \in Uploading
      BY <2>7
    <3> QED  BY <1>2, <1>3, <2>6, <3>1 DEF Uploading
  <2>11. Owed'
    <3> SUFFICES ASSUME state \in Uploading PROVE InTurn'
      BY <2>7 DEF Owed
    <3>1. state' = "waiting" /\ n = acked /\ acked' = acked /\ ~Has(down, {"taken"})
      BY <1>2, <2>7
    <3>2. ASSUME NEW j \in 1 .. Len(down'), NEW k \in 1 .. Len(down'), down'[j].kind = "taken", down'[k].kind = "taken"
          PROVE  j = k
      <4>1. j \notin 1 .. Len(down) /\ k \notin 1 .. Len(down)
        <5>1. \A l \in 1 .. Len(down) : down[l].kind # "taken"
          BY <3>1 DEF Has
        <5> QED  BY <2>7, <3>2, <5>1
      <4>2. j - Len(down) = 1 /\ k - Len(down) = 1
        BY <2>7, <4>1
      <4> QED  BY <2>7, <4>2
    <3>3. Count' = acked' + 1
      BY <2>6, <3>1
    <3> QED  BY <2>8, <3>1, <3>2, <3>3 DEF InTurn
  <2>12. Undisturbed'
    <3>1. ~Has(<< r >>, {"refused"})
      BY <2>2, <2>3 DEF Has
    <3> QED  BY <2>7, <2>8, <3>1 DEF Direct, Undisturbed
  <2>13. StaysOpen' /\ NoLink'
    BY <2>4, <2>7 DEF StaysOpen, NoLink, OpenDirect
  <2> QED  BY <2>5, <2>9, <2>10, <2>11, <2>12, <2>13 DEF Direct
<1> QED  BY <1>6, <1>7, <1>8

(* The device cleans up after a connection: what was open is closed.       *)
LEMMA CleanUpKeeps == ASSUME Linked, Direct, IInv, CleanUp PROVE Linked' /\ Direct'
<1>1. /\ p' = Abort(p) /\ link = "lost" /\ link' = "none"
      /\ UNCHANGED <<drawn, up, down, state, upload, acked, image, late>>
  BY DEF CleanUp, Cleanup, Refuse, client
<1>2. ~p'.active /\ ~p'.pipe_failed
  BY <1>1, ActiveFacts
<1>3. PipeTypeOK' /\ OneStart'
  BY <1>1 DEF Linked, PipeTypeOK, OneStart, Total
<1>4. Told'
  BY <1>1, <1>2 DEF Linked, Told, Total, Whole
<1>5. Linked'
  BY <1>2, <1>3, <1>4 DEF Linked, Receives, InStep, Acknowledged
<1>6. up' = << >> /\ down' = << >> /\ state' \in {"idle", "done"} /\ ~OpenDirect'
  BY <1>1, <1>2 DEF Direct, NoLink, OpenDirect
<1>7. ~Has(up', Own) /\ ~Has(down', {"started"})
  BY <1>6, HasNone
<1> QED  BY <1>5, <1>6, <1>7
         DEF Direct, NoLink, DirectReceives, DirectInStep, StaysOpen, Owed, Undisturbed, Uploading

LEMMA ReconnectKeeps ==
  ASSUME Linked, Direct, IInv, Reconnect \/ UNCHANGED pipeVars PROVE Linked' /\ Direct'
<1>1. /\ link' \in {link, "up"}
      /\ UNCHANGED <<p, stored, drawn, up, down, state, upload, acked, image, late>>
  BY DEF Reconnect, pipeVars, device, vars, client
<1>2. PipeTypeOK' /\ OneStart' /\ Receives'
  BY <1>1 DEF Linked, PipeTypeOK, OneStart, Receives, Count, Total
<1>3. InStep'
  BY <1>1 DEF Linked, InStep, Begun, Count, Total
<1>4. Acknowledged' /\ Told'
  BY <1>1 DEF Linked, Acknowledged, Told, Count, Total
<1>5. NoLink' /\ DirectReceives' /\ DirectInStep'
  BY <1>1 DEF Direct, NoLink, DirectReceives, DirectInStep, OpenDirect, Begun, Count
<1>6. StaysOpen' /\ Owed' /\ Undisturbed'
  BY <1>1 DEF Direct, StaysOpen, Owed, InTurn, Undisturbed, OpenDirect, Count
<1> QED  BY <1>1, <1>2, <1>3, <1>4, <1>5, <1>6 DEF Linked, Direct

LEMMA PipeStep == IInv /\ Linked /\ Direct /\ [PipeNext]_pipeVars => IInv' /\ Linked' /\ Direct'
<1> SUFFICES ASSUME IInv, Linked, Direct, [PipeNext]_pipeVars PROVE IInv' /\ Linked' /\ Direct'
  OBVIOUS
<1>1. [Next]_vars
  BY DeviceSteps DEF Linked
<1>2. IInv'
  BY <1>1, StepPreserves
<1>3. ASSUME NEW as \in Starts, Start(as) PROVE Linked' /\ Direct'
  BY <1>3, StartKeeps
<1>4. ASSUME SendFrame \/ SendLate \/ SendPiece \/ SendEnd PROVE Linked' /\ Direct'
  <2>1. CASE SendFrame
    BY <2>1, SendFrameKeeps
  <2>2. CASE SendLate
    BY <2>2, SendLateKeeps
  <2>3. CASE SendPiece
    BY <2>3, SendPieceKeeps
  <2>4. CASE SendEnd
    BY <2>4, SendEndKeeps
  <2> QED  BY <1>4, <2>1, <2>2, <2>3, <2>4
<1>5. ASSUME Read \/ GiveUp PROVE Linked' /\ Direct'
  <2>1. CASE Read
    BY <2>1, ReadKeeps
  <2>2. CASE GiveUp
    BY <2>2, GiveUpKeeps
  <2> QED  BY <1>5, <2>1, <2>2
<1>6. ASSUME LinkLost PROVE Linked' /\ Direct'
  <2>1. Lost /\ UNCHANGED <<p, stored>> /\ ~p'.pipe_failed
    BY <1>6 DEF LinkLost, device, vars, Linked
  <2> QED  BY <2>1, LostKeeps
<1>7. ASSUME CleanUp \/ Reconnect \/ UNCHANGED pipeVars PROVE Linked' /\ Direct'
  <2>1. CASE CleanUp
    BY <2>1, CleanUpKeeps
  <2>2. CASE Reconnect \/ UNCHANGED pipeVars
    BY <2>2, ReconnectKeeps
  <2> QED  BY <1>7, <2>1, <2>2
<1>8. ASSUME Device PROVE Linked' /\ Direct'
  <2>1. CASE HandleStart
    BY <2>1, HandleStartKeeps
  <2>2. CASE HandleRegion
    BY <2>2, HandleRegionKeeps
  <2>3. CASE HandleCopy
    BY <2>3, HandleCopyKeeps
  <2>4. CASE HandleData
    BY <2>4, HandleDataKeeps
  <2>5. CASE HandleDirect
    BY <2>5, HandleDirectKeeps
  <2>6. CASE HandlePiece
    BY <2>6, HandlePieceKeeps
  <2>7. CASE HandleEnd("end", TRUE) \/ HandleEnd("finish", FALSE)
    <3>1. CASE HandleEnd("end", TRUE)
      BY <3>1, HandleEndKeeps
    <3>2. CASE HandleEnd("finish", FALSE)
      BY <3>2, HandleEndKeeps
    <3> QED  BY <2>7, <3>1, <3>2, Zenon
  <2> QED  BY <1>8, <2>1, <2>2, <2>3, <2>4, <2>5, <2>6, <2>7, Zenon DEF Device
<1> QED  BY <1>2, <1>3, <1>4, <1>5, <1>6, <1>7, <1>8 DEF PipeNext

(* Transfer's invariant and the agreement of client, connection and        *)
(* receiver hold throughout an upload, in a PIPE and in a direct one.      *)
THEOREM UploadInvariant == PipeSpec => [](IInv /\ Linked /\ Direct)
<1>1. PipeInit => IInv /\ Linked /\ Direct
  BY InitLinked
<1>2. (IInv /\ Linked /\ Direct) /\ [PipeNext]_pipeVars => (IInv /\ Linked /\ Direct)'
  BY PipeStep
<1> QED  BY <1>1, <1>2, PTL DEF PipeSpec

(* Whatever a client and its connection do, the device takes only steps of *)
(* Transfer.                                                               *)
THEOREM UploadIsATransfer == PipeSpec => [][Next]_vars
<1>1. IInv /\ Linked /\ Direct /\ [PipeNext]_pipeVars => [Next]_vars
  BY DeviceSteps DEF Linked
<1> QED  BY <1>1, UploadInvariant, PTL DEF PipeSpec

(* The frames in the panel's window are those of one image, in order and   *)
(* without a gap or repeat - the client's own while it sends, whatever of  *)
(* an earlier upload comes between them - and the client takes none for    *)
(* acknowledged that is not there.                                         *)
THEOREM FramesAreInOrder == PipeSpec => []StoresInOrder
<1>1. IInv /\ Linked /\ Direct => StoresInOrder
  <2> SUFFICES ASSUME IInv, Linked, Direct PROVE StoresInOrder
    OBVIOUS
  <2>1. p.active => p.received = Count /\ \E i \in Images : stored = Whole(i, Count)
    BY DEF Linked, Receives, Direct, DirectReceives, OpenDirect
  <2>2. ASSUME p.active, state \in {"sending", "waiting"} PROVE acked <= Count /\ stored = Whole(image, Count)
    <3>1. Begun /\ state \in Uploading
      BY <2>2 DEF Begun, Uploading
    <3>2. CASE p.pipe
      BY <2>2, <3>1, <3>2 DEF Linked, InStep
    <3>3. CASE ~p.pipe
      <4>1. stored = Whole(image, Count) /\ InTurn
        BY <2>2, <3>1, <3>3 DEF Direct, DirectInStep, Owed, OpenDirect
      <4>2. Count = acked \/ Count = acked + 1
        BY <4>1 DEF InTurn
      <4>3. acked \in Nat
        BY PipeConstants DEF Linked, PipeTypeOK
      <4>4. acked <= Count
        BY <4>2, <4>3
      <4> QED  BY <4>1, <4>4
    <3> QED  BY <3>2, <3>3
  <2> QED  BY <2>1, <2>2 DEF StoresInOrder, Count
<1> QED  BY <1>1, UploadInvariant, PTL

(* No frame of a client that keeps to the protocol is out of place, and no *)
(* late one makes a piece or the end of its direct upload so.              *)
THEOREM ClientIsServed == PipeSpec => []HonestClientIsServed
<1>1. IInv /\ Linked /\ Direct => HonestClientIsServed
  BY DEF Linked, Direct, Undisturbed, Has, HonestClientIsServed
<1> QED  BY <1>1, UploadInvariant, PTL

(* The client believes an image shown only if the latest refresh drew all  *)
(* of it.                                                                  *)
THEOREM ShownIsDrawn == PipeSpec => DoneMeansDrawn
<1>1. /\ IInv /\ Linked /\ Direct
      /\ [PipeNext]_pipeVars
      => [state # "done" /\ state' = "done" => drawn = Whole(image, Total)]_pipeVars
  <2> SUFFICES ASSUME IInv, Linked, PipeNext, state # "done", state' = "done"
               PROVE  drawn = Whole(image, Total)
    OBVIOUS
  <2>1. ~\E as \in Starts : Start(as)
    BY DEF Start
  <2>2. ~SendFrame /\ ~SendLate /\ ~SendPiece /\ ~SendEnd /\ ~GiveUp /\ ~CleanUp /\ ~Reconnect /\ ~Lost
    BY DEF SendFrame, SendLate, SendPiece, SendEnd, GiveUp, CleanUp, Reconnect, Lost, client
  <2>3. ~(\E replies : Reply(replies)) /\ ~(\E replies : Report(replies))
    BY DEF Reply, Report, client
  <2>4. ~Device
    <3>1. \A acks, window : ~Finished(acks, window)
      BY <2>2, <2>3 DEF Finished
    <3>2. \A command, pipe : ~HandleEnd(command, pipe)
      BY <2>2, <2>3, <3>1 DEF HandleEnd
    <3> QED  BY <2>2, <2>3, <3>1, <3>2
             DEF Device, HandleStart, HandleRegion, HandleDirect, HandleCopy, HandleData, HandlePiece
  <2>5. Read
    BY <2>1, <2>2, <2>4 DEF PipeNext, LinkLost
  <2>6. down # << >> /\ Head(down).kind = "shown" /\ state \in Uploading
    BY <2>5 DEF Read, Linked, PipeTypeOK
  <2>7. 1 \in 1 .. Len(down) /\ Head(down) = down[1]
    <3>1. down \in Seq(Replies)
      BY DEF Linked, PipeTypeOK
    <3> QED  BY <2>6, <3>1, Taking
  <2> QED  BY <2>6, <2>7 DEF Linked, Told
<1> QED  BY <1>1, UploadInvariant, PTL DEF PipeSpec, DoneMeansDrawn


-----------------------------------------------------------------------------
(* A client that waits for the answer to its START cannot send it again:   *)
(* the command or its answer is on its way.                                *)
Asking(u) == \E j \in 1 .. Len(u) : u[j].kind \in Starts
Answering(d) == \E j \in 1 .. Len(d) : d[j].kind \in {"started", "error"}
AnswerIsOwed == state = "starting" => link = "up" /\ (Asking(up) \/ Answering(down))

(* The device takes a command and replies, or the connection is lost.      *)
LEMMA TakenOrLost ==
  ASSUME Device
  PROVE  /\ link = "up" /\ up # << >>
         /\ \/ Lost
            \/ /\ up' = Tail(up) /\ UNCHANGED <<link, client>>
               /\ Head(up).kind \in Starts =>
                     \E kind \in {"started", "error"} : down' = down \o Named1(kind)
<1>1. \A replies : Reply(replies) \/ Report(replies) =>
          up' = Tail(up) /\ down' = down \o replies /\ UNCHANGED <<link, client>>
  BY DEF Reply, Report
<1>2. CASE HandleStart \/ HandleRegion \/ HandleDirect
  <2>1. link = "up" /\ up # << >>
    BY <1>2 DEF HandleStart, HandleRegion, HandleDirect, Incoming
  <2>2. Lost \/ \E kind \in {"started", "error"} : Reply(Named1(kind)) \/ Report(Named1(kind))
    BY <1>2 DEF HandleStart, HandleRegion, HandleDirect
  <2> QED  BY <1>1, <2>1, <2>2
<1>3. CASE HandleCopy \/ HandleData \/ HandlePiece
  <2>1. link = "up" /\ up # << >> /\ Head(up).kind \in {"data", "piece"}
    BY <1>3 DEF HandleCopy, HandleData, HandlePiece, Incoming
  <2>2. Lost \/ \E replies : Reply(replies) \/ Report(replies)
    BY <1>3 DEF HandleCopy, HandleData, HandlePiece, Finished
  <2> QED  BY <1>1, <2>1, <2>2 DEF Starts
<1>4. CASE HandleEnd("end", TRUE) \/ HandleEnd("finish", FALSE)
  <2>1. PICK command \in {"end", "finish"}, pipe \in BOOLEAN : HandleEnd(command, pipe)
    BY <1>4
  <2>2. link = "up" /\ up # << >> /\ Head(up).kind = command
    BY <2>1 DEF HandleEnd, Incoming
  <2>3. Lost \/ \E replies : Reply(replies) \/ Report(replies)
    BY <2>1 DEF HandleEnd, Finished
  <2> QED  BY <1>1, <2>2, <2>3 DEF Starts
<1> QED  BY <1>2, <1>3, <1>4 DEF Device

LEMMA AnswerStaysOwed ==
  ASSUME IInv, Linked, Direct, AnswerIsOwed, [PipeNext]_pipeVars
  PROVE  AnswerIsOwed'
<1>1. up \in Seq(Commands) /\ down \in Seq(Replies)
  BY DEF Linked, PipeTypeOK
<1>2. CASE \E as \in Starts : Start(as)
  <2>1. PICK as \in Starts : Start(as)
    BY <1>2
  <2> DEFINE c == [kind |-> as]
  <2>2. c \in Commands /\ c.kind \in Starts /\ up' = Append(up, c) /\ link' = "up"
    BY <2>1 DEF Start, Send, Commands
  <2> HIDE DEF c
  <2>3. Len(up) + 1 \in 1 .. Len(up') /\ up'[Len(up) + 1] = c
    BY <1>1, <2>2, AppendProperties, LenProperties
  <2> QED  BY <2>2, <2>3 DEF AnswerIsOwed, Asking
<1>3. CASE SendFrame \/ SendLate \/ SendPiece \/ SendEnd \/ GiveUp \/ Lost
  <2>1. state' # "starting"
    BY <1>3 DEF SendFrame, SendLate, SendPiece, SendEnd, GiveUp, Lost, client, Uploading
  <2> QED  BY <2>1 DEF AnswerIsOwed
<1>4. CASE Read
  <2> SUFFICES ASSUME state' = "starting" PROVE link' = "up" /\ (Asking(up)' \/ Answering(down)')
    BY DEF AnswerIsOwed
  <2>1. /\ link' = link /\ up' = up /\ down # << >> /\ down' = Tail(down)
        /\ state = "starting" /\ Head(down).kind \notin {"started", "error"}
    BY <1>4 DEF Read, Uploading
  <2>2. CASE Asking(up)
    BY <2>1, <2>2 DEF AnswerIsOwed, Asking
  <2>3. CASE Answering(down)
    <3>1. PICK j \in 1 .. Len(down) : down[j].kind \in {"started", "error"}
      BY <2>3 DEF Answering
    <3>2. /\ Head(down) = down[1] /\ Len(down) \in Nat /\ Len(down') = Len(down) - 1
          /\ \A k \in 1 .. Len(down') : down'[k] = down[k + 1]
      BY <1>1, <2>1, Taking
    <3>3. j - 1 \in 1 .. Len(down') /\ (j - 1) + 1 = j
      BY <2>1, <3>1, <3>2
    <3>4. down'[j - 1] = down[j]
      BY <3>2, <3>3
    <3> QED  BY <2>1, <3>1, <3>3, <3>4 DEF AnswerIsOwed, Answering
  <2> QED  BY <2>1, <2>2, <2>3 DEF AnswerIsOwed
<1>5. CASE CleanUp \/ Reconnect \/ UNCHANGED pipeVars
  BY <1>5 DEF CleanUp, Reconnect, pipeVars, client, AnswerIsOwed, Asking, Answering
<1>6. CASE Device /\ ~Lost
  <2> SUFFICES ASSUME state' = "starting" PROVE link' = "up" /\ (Asking(up)' \/ Answering(down)')
    BY DEF AnswerIsOwed
  <2>1. /\ link = "up" /\ link' = "up" /\ state = "starting" /\ up # << >> /\ up' = Tail(up)
        /\ Head(up).kind \in Starts => \E kind \in {"started", "error"} : down' = down \o Named1(kind)
    BY <1>6, TakenOrLost DEF client
  <2>2. PICK j \in 1 .. Len(up) : up[j].kind \in Starts
    BY <2>1 DEF AnswerIsOwed, Asking, Answering, Linked, OneStart
  <2>3. /\ Head(up) = up[1] /\ Len(up) \in Nat /\ Len(up') = Len(up) - 1
        /\ \A k \in 1 .. Len(up') : up'[k] = up[k + 1]
    BY <1>1, <2>1, Taking
  <2>4. CASE j = 1
    <3>1. PICK kind \in {"started", "error"} : down' = down \o Named1(kind)
      BY <2>1, <2>2, <2>3, <2>4
    <3> DEFINE r == [kind |-> kind]
    <3>2. r \in Replies /\ r.kind \in {"started", "error"} /\ down' = down \o << r >>
      BY <3>1 DEF Named1, Replies, Words
    <3> HIDE DEF r
    <3>3. << r >> \in Seq(Replies) /\ Len(<< r >>) = 1 /\ << r >>[1] = r
      BY <3>2, SingleReply
    <3>4. Len(down') = Len(down) + 1 /\ Len(down) \in Nat /\ down'[Len(down) + 1] = r
      <4>1. /\ Len(down') = Len(down) + Len(<< r >>) /\ Len(down) \in Nat
            /\ \A k \in 1 .. Len(down) + Len(<< r >>) :
                  down'[k] = IF k <= Len(down) THEN down[k] ELSE << r >>[k - Len(down)]
        BY <1>1, <3>2, <3>3, ConcatProperties, LenProperties
      <4>2. Len(down) + 1 \in 1 .. Len(down) + 1 /\ ~(Len(down) + 1 <= Len(down)) /\ (Len(down) + 1) - Len(down) = 1
        BY <4>1
      <4> QED  BY <3>3, <4>1, <4>2
    <3>5. Len(down) + 1 \in 1 .. Len(down')
      BY <3>4
    <3> QED  BY <2>1, <3>2, <3>4, <3>5 DEF Answering
  <2>5. CASE j # 1
    <3>1. j - 1 \in 1 .. Len(up') /\ (j - 1) + 1 = j
      BY <2>2, <2>3, <2>5
    <3>2. up'[j - 1] = up[j]
      BY <2>3, <3>1
    <3> QED  BY <2>1, <2>2, <3>1, <3>2 DEF Asking
  <2> QED  BY <2>4, <2>5
<1> QED  BY <1>2, <1>3, <1>4, <1>5, <1>6 DEF PipeNext, LinkLost

(* A client is never left waiting for an answer that nobody owes: while it *)
(* waits for the one to its START, the command or the answer is on its     *)
(* way, on a connection that is up.                                        *)
THEOREM StartsAreAnswered == PipeSpec => []AnswerIsOwed
<1>1. PipeInit => AnswerIsOwed
  BY DEF PipeInit, AnswerIsOwed
<1>2. IInv /\ Linked /\ Direct /\ AnswerIsOwed /\ [PipeNext]_pipeVars => AnswerIsOwed'
  BY AnswerStaysOwed
<1> QED  BY <1>1, <1>2, UploadInvariant, PTL DEF PipeSpec

=============================================================================
