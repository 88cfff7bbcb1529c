-------------------------------- MODULE Pipe --------------------------------
(***************************************************************************)
(* Uploads: a client, the connection that carries its commands and the     *)
(* notifications back, and the receiver of Transfer.  Each step of the     *)
(* device is one of Transfer's actions and the responses od_handle sends   *)
(* with it.                                                                *)
(*                                                                         *)
(* The connection keeps the order and loses nothing but all at once, when  *)
(* it ends: a notification or a write that fails ends it too.  The client  *)
(* is not part of the repository; it follows docs/protocol.md: it waits    *)
(* for the answer to a START and then for each frame to be acknowledged,   *)
(* and starts over after an error or with a new connection.  In a PIPE, of *)
(* a window of one frame, it repeats a frame or an END whenever it loses   *)
(* patience; a direct upload, which numbers nothing, sends each piece of   *)
(* data once.  The timer of a PIPE may still repeat a frame while the      *)
(* direct upload that followed it is under way.                            *)
(***************************************************************************)
EXTENDS Transfer, Sequences

CONSTANTS
    MaxQueued,   \* bound: commands on their way
    MaxUnread,   \* bound: notifications unread when a command is handled
    MaxFaults    \* bound: connections lost, panels that fail, uploads given up

ASSUME PipeAssumption ==
    /\ MaxQueued \in Nat \ {0} /\ MaxUnread \in Nat /\ MaxFaults \in Nat
    /\ 1 \in Etags /\ RegionSizes # {} /\ MaxPayload > 0

VARIABLES
    link,     \* the connection: up, lost until the device has cleaned up, or none
    up, down, \* commands and notifications on their way
    state, upload, acked,   \* the client: what it waits for, how, and frames acknowledged
    image,    \* the image it uploads: each one is another
    late,     \* the frames of the PIPE before, of which one may still be repeated
    faults

VARIABLES
    stored,   \* history: the frames in the panel's window
    drawn     \* history: the frames of the latest refresh, or << >> if unknown

client == <<state, upload, acked, image, late>>
pipeVars == <<vars, link, up, down, client, faults, stored, drawn>>

-----------------------------------------------------------------------------

RegionBytes == CHOOSE size \in RegionSizes : TRUE

(* A frame has one byte, and is known by its image and place.              *)
Total == IF upload = "region" THEN RegionBytes ELSE FullBytes
Whole(i, total) == [k \in 1 .. total |-> [image |-> i, place |-> k - 1]]

Images == {1, 2}

(* The command a client starts an upload with: 0x80, 0x80 with a region,   *)
(* or 0x70.                                                                *)
Starts == {"start", "region", "direct"}

Uploading == {"sending", "waiting", "awaiting"}

(* An image the client may draw a region on may be displayed already.      *)
PipeInit ==
    /\ \E etag \in {0, 1} :
          p = [Boot EXCEPT !.displayed_etag = etag] /\ screen = etag
    /\ epd = [power |-> "off", window |-> 0]
    /\ staging = FALSE /\ base = 0 /\ refreshes = FALSE
    /\ link = "up" /\ up = << >> /\ down = << >>
    /\ state = "idle" /\ upload = "start" /\ acked = 0 /\ image = 1 /\ late = 0
    /\ faults = 0 /\ stored = << >> /\ drawn = << >>

-----------------------------------------------------------------------------
(* The client.                                                             *)

Send(command) ==
    /\ link = "up" /\ Len(up) < MaxQueued
    /\ up' = Append(up, command)

device == <<vars, stored, drawn>>

(* A region is refused if its base is not displayed; then the client sends *)
(* a frame.  Only a direct upload can be told from the PIPE before it.     *)
Start(as) ==
    /\ state \in {"idle", "done"}
    /\ Send([kind |-> as])
    /\ state' = "starting" /\ upload' = as /\ acked' = 0
    /\ image' = 3 - image
    /\ late' = IF as # "direct" \/ upload = "direct" THEN 0
               ELSE IF acked < Total THEN acked + 1 ELSE acked
    /\ UNCHANGED <<device, link, down, faults>>

DataFrame(i, place) ==
    [kind |-> "data", seq |-> place % SeqModulus, frame |-> [image |-> i, place |-> place]]

(* The next frame, or the same once more.                                  *)
SendFrame ==
    /\ upload # "direct" /\ state = "sending" /\ acked < Total
    /\ Send(DataFrame(image, acked))
    /\ UNCHANGED <<device, link, down, client, faults>>

(* A frame of the upload before, once more: one at a time.                 *)
SendLate ==
    /\ upload = "direct" /\ state \in Uploading
    /\ \A j \in 1 .. Len(up) : up[j].kind # "data"
    /\ \E place \in 0 .. late - 1 : Send(DataFrame(3 - image, place))
    /\ UNCHANGED <<device, link, down, client, faults>>

SendPiece ==
    /\ upload = "direct" /\ state = "sending" /\ acked < Total
    /\ Send([kind |-> "piece", frame |-> [image |-> image, place |-> acked]])
    /\ state' = "waiting"
    /\ UNCHANGED <<device, link, down, upload, acked, image, late, faults>>

SendEnd ==
    /\ state \in (IF upload = "direct" THEN {"sending"} ELSE {"sending", "awaiting"})
    /\ acked = Total
    /\ Send([kind |-> IF upload = "direct" THEN "finish" ELSE "end"])
    /\ state' = "awaiting"
    /\ UNCHANGED <<device, link, down, upload, acked, image, late, faults>>

Acknowledges(reply) ==
    \/ state = "waiting" /\ reply.kind = "taken"
    \/ /\ state = "sending" /\ upload # "direct" /\ acked < Total
       /\ reply.kind = "sack" /\ reply.latest = acked % SeqModulus

(* What it does not wait for it ignores: answers to what it repeated, and  *)
(* to an upload it has given up.                                           *)
Read ==
    /\ link = "up" /\ down # << >>
    /\ LET reply == Head(down)
       IN  /\ state' = CASE state = "starting" /\ reply.kind = "started" -> "sending"
                         [] state \in {"starting", "sending"} /\ reply.kind = "error" -> "idle"
                         [] state = "waiting" /\ reply.kind = "taken" -> "sending"
                         [] state \in Uploading /\ reply.kind = "failed" -> "idle"
                         [] state \in Uploading /\ reply.kind = "shown" -> "done"
                         [] upload = "direct" /\ state \in Uploading
                                /\ reply.kind = "refused" -> "idle"
                         [] OTHER -> state
           /\ acked' = IF Acknowledges(reply) THEN acked + 1 ELSE acked
    /\ down' = Tail(down)
    /\ UNCHANGED <<device, link, up, upload, image, late, faults>>

GiveUp ==
    /\ state \in Uploading /\ faults < MaxFaults
    /\ faults' = faults + 1
    /\ state' = "idle"
    /\ UNCHANGED <<device, link, up, down, upload, acked, image, late>>

-----------------------------------------------------------------------------
(* The connection.                                                         *)

(* It ends, and what is on its way is gone; the client will start over.    *)
Lost ==
    /\ faults < MaxFaults /\ faults' = faults + 1
    /\ link' = "lost" /\ up' = << >> /\ down' = << >>
    /\ state' = IF state = "done" THEN "done" ELSE "idle"
    /\ UNCHANGED <<upload, acked, image, late>>

LinkLost == link = "up" /\ Lost /\ UNCHANGED device

(* The main loop cleans up before it takes a command of the next.          *)
CleanUp ==
    /\ link = "lost" /\ Cleanup
    /\ link' = "none"
    /\ stored' = << >>
    /\ UNCHANGED <<drawn, up, down, client, faults>>

Reconnect ==
    /\ link = "none" /\ link' = "up"
    /\ UNCHANGED <<device, up, down, client, faults>>

-----------------------------------------------------------------------------
(* The device handles a command.                                           *)

Incoming(kind) ==
    /\ link = "up" /\ up # << >> /\ Len(down) <= MaxUnread
    /\ Head(up).kind = kind

Reply(replies) ==
    /\ up' = Tail(up) /\ down' = down \o replies
    /\ UNCHANGED <<link, client, faults>>

Fault == faults < MaxFaults /\ faults' = faults + 1

(* A reply that reports a failure of the panel.                            *)
Report(replies) ==
    /\ Fault
    /\ up' = Tail(up) /\ down' = down \o replies
    /\ UNCHANGED <<link, client>>

Named1(kind) == <<[kind |-> kind]>>

HandleStart ==
    /\ Incoming("start")
    /\ \/ PipeStart(FALSE) /\ IF p'.active THEN Reply(Named1("started")) ELSE Lost
       \/ StartPanelFails /\ Report(Named1("error"))
    /\ stored' = << >>
    /\ UNCHANGED drawn

HandleRegion ==
    /\ Incoming("region")
    /\ \/ PipeRegionStart(1, RegionBytes, FALSE)
          /\ IF p'.active THEN Reply(Named1("started")) ELSE Lost
       \/ ~OnDisplayed(1) /\ RegionRefused /\ Reply(Named1("error"))
       \/ OnDisplayed(1) /\ RegionPanelFails /\ Report(Named1("error"))
    /\ stored' = << >>
    /\ UNCHANGED drawn

HandleDirect ==
    /\ Incoming("direct")
    /\ \/ DirectStart(FALSE, 0) /\ IF p'.active THEN Reply(Named1("started")) ELSE Lost
       \/ StartPanelFails /\ Report(Named1("error"))
    /\ stored' = << >>
    /\ UNCHANGED drawn

(* Mutant: the number before zero is none.                                 *)
SackedUnwrapped(q) == <<[kind |-> "sack", latest |-> q.next_seq - 1]>>

Sacked(q) == <<[kind |-> "sack", latest |-> (q.next_seq - 1) % SeqModulus]>>

(* finish_transfer: acknowledgements, and the result of the refresh; or    *)
(* the refresh, but no connection to report it.                            *)
Finished(acks, window) ==
    \/ /\ epd'.power = "off" /\ drawn' = window
       /\ \/ Reply(acks \o Named1("ended") \o Named1("shown"))
          \/ Lost
    \/ /\ drawn' = << >>
       /\ Report(acks \o Named1("ended") \o Named1("failed"))

(* A copy of an encrypted frame that has been received is dropped before   *)
(* it gets there; the others reach od_handle.                              *)
HandleCopy ==
    /\ Incoming("data") /\ ~Drops /\ Repeated(Head(up).seq)
    /\ Reply(<< >>)
    /\ UNCHANGED device

HandleData ==
    LET frame == Head(up).frame
    IN  /\ Incoming("data")
        /\ PipeData(Head(up).seq, 1, TRUE)
        /\ IF Drops THEN Reply(<< >>) /\ UNCHANGED <<stored, drawn>>
           ELSE IF refreshes' # refreshes
                THEN Finished(Sacked(Numbered(p)), Append(stored, frame)) /\ stored' = << >>
           ELSE IF p'.active
                THEN /\ Reply(Sacked(p'))
                     /\ stored' = IF p'.received = p.received THEN stored
                                  ELSE Append(stored, frame)
                     /\ UNCHANGED drawn
           ELSE /\ stored' = << >> /\ UNCHANGED drawn
                /\ IF p'.pipe_failed THEN Reply(Named1("error")) ELSE Lost

(* A piece there is room for is taken, or its acknowledgement is lost.     *)
HandlePiece ==
    /\ Incoming("piece")
    /\ DirectData(1)
    /\ IF p'.active
       THEN Reply(Named1("taken")) /\ stored' = Append(stored, Head(up).frame)
       ELSE /\ stored' = << >>
            /\ IF p.active /\ ~p.pipe /\ Room(p) > 0 THEN Lost ELSE Reply(Named1("refused"))
    /\ UNCHANGED drawn

(* 0x82 and 0x72.  A complete transfer that does not finish has lost its   *)
(* acknowledgement.                                                        *)
HandleEnd(command, pipe) ==
    LET open == p.active /\ p.pipe = pipe
        acks == IF pipe /\ open THEN Sacked(p) ELSE << >>
    IN  /\ Incoming(command)
        /\ End(pipe, TRUE, 1)
        /\ IF refreshes' # refreshes
           THEN /\ Finished(acks, stored)
                /\ p'.displayed_etag = IF drawn' = << >> THEN 0 ELSE 1
           ELSE /\ UNCHANGED drawn
                /\ IF open /\ Complete(p) THEN Lost
                   ELSE Reply(acks \o Named1("refused"))
        /\ stored' = << >>

Device ==
    \/ HandleStart \/ HandleRegion \/ HandleCopy \/ HandleData \/ HandleEnd("end", TRUE)
    \/ HandleDirect \/ HandlePiece \/ HandleEnd("finish", FALSE)

PipeNext ==
    \/ \E as \in Starts :
          (as = "region" => upload # "region" \/ state = "done") /\ Start(as)
    \/ SendFrame \/ SendLate \/ SendPiece \/ SendEnd \/ Read \/ GiveUp
    \/ LinkLost \/ CleanUp \/ Reconnect
    \/ Device

(* Nobody is in a hurry, but nobody stops: the client goes on, the host    *)
(* delivers, and the main loop takes what is queued.                       *)
Fairness ==
    /\ WF_pipeVars(Start("start"))
    /\ WF_pipeVars(SendFrame) /\ WF_pipeVars(SendPiece) /\ WF_pipeVars(SendEnd)
    /\ WF_pipeVars(Read)
    /\ WF_pipeVars(CleanUp) /\ WF_pipeVars(Reconnect)
    /\ WF_pipeVars(Device)

PipeSpec == PipeInit /\ [][PipeNext]_pipeVars /\ Fairness

-----------------------------------------------------------------------------

(* The panel's window holds frames of one image, from the first, without   *)
(* gap or repeat, however often they were sent, and none of another upload *)
(* that came late; and the client takes none for acknowledged that is not  *)
(* among them.                                                             *)
StoresInOrder ==
    /\ p.active => \E i \in Images : stored = Whole(i, Len(stored))
    /\ p.active => Len(stored) = p.received
    /\ p.active /\ link = "up" /\ state \in {"sending", "waiting"} =>
          acked <= Len(stored) /\ stored = Whole(image, Len(stored))

(* A client that keeps to the protocol is never told that it has not: by   *)
(* the fatal answer of a PIPE, or by the refusal of a piece or of the end  *)
(* of a direct upload, whatever comes late between them.                   *)
HonestClientIsServed ==
    /\ ~p.pipe_failed
    /\ upload = "direct" /\ state \in Uploading =>
          \A j \in 1 .. Len(down) : down[j].kind # "refused"

(* What a client is told is shown has been drawn: its image, all of it.    *)
DoneMeansDrawn ==
    [][state # "done" /\ state' = "done" => drawn = Whole(image, Total)]_pipeVars

(* Every upload ends on the screen, if the faults do: the client is not    *)
(* left waiting for an answer that does not come.                          *)
Delivered == state # "done" ~> state = "done"

=============================================================================
