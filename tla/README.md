# Verification of the LT213A OpenDisplay firmware

TLA+ models, TLC configurations and TLAPS proofs for the firmware in this
repository: a Bluetooth price tag that takes images and a configuration from an
OpenDisplay client. All source paths are relative to the repository root. The
definitions are translated from the code; `PROJECT.json` maps each one to the
lines it stands for.

## The system

One main loop does all the work. The Bluetooth host calls back from its own
threads and hands over work through a queue of depth one, a generation counter
and a semaphore. Everything else is called from the loop.

| Component | State | Operations | What makes it correct |
| --- | --- | --- | --- |
| Callbacks (`src/main.c`: `connected`, `disconnected`, `written`) | `link_up`, `generation`, `events`, the queue `commands`, references on the connection object | a connection comes or goes; a write is queued, or dropped together with the link | no event is slept through, no reference leaks, nothing runs after a lost write |
| Main loop (`src/main.c`: `main`) | `current`, advertising flags and timers, idle and transfer timers | wait, take a command, clean up after a connection change, restart advertising, dispatch, hang up | a command meets only the state of its own connection; the tag always comes back on the air |
| Notifications (`src/main.c`: `send_wire`, `notification_sent`) | `notify_ticket`, `notify_generation`, `notify_done` | send one notification and wait for its completion, at most two seconds | success is reported only for this notification; a timeout neither shares nor loses the slot |
| Command handler (`src/protocol.c`) | `struct od_protocol` | one per command: configuration, direct, region and PIPE transfers, END, queries, reboot | only complete images are shown, regions only on the image they were made for |
| Configuration store (`src/config_store.c`, `src/storage.c`) | two flash slots; `active_slot`, `generation`, `staging`, `expected`, `received` | start, append, clear, cancel, read, scan at boot | an update is atomic under power failures and flash errors |
| Security (`src/security.c`) | handshake, session, replay window, attempt limiter | authenticate, decrypt, encrypt, expire, reset | no replay, single-use challenges, no counter reuse, bounded attempts |
| Configuration lookup (`src/config_store.c`: `config_packet`) | the packets of a valid container | look a packet up | it checks nothing, so it must agree with what was validated |
| Panel (`src/epd.c`) | `awake`, `partial`, plane counters | begin, region, write, finish, off | off when nobody uses it, even if BUSY is stuck; no failure goes unreported |
| Watchdog and idle times (`src/main.c`) | the hardware watchdog, `last_packet`, `last_activity`, `last_telemetry` | feed, wait, time out | does not fire in any legal round; nobody outstays a limit |
| Telemetry (`src/telemetry.c`, `msd` in `src/main.c`) | `msd`, the advertised copy of it | sample, advertise, update, tell | a record is of one sample; its flags are true wherever they are seen |
| Inflater (`third_party/uzlib`), cryptography (`src/crypto*.c`) | their own | pure, or push and poll | see *Not modelled* |

What is hard to test here: the callbacks preempt the loop between any two of
its reads; a completion callback may arrive seconds late, in another
connection; the only connection object is kept by references that are dropped
elsewhere; power may fail inside a flash operation; BUSY may stay active
through any wait of the panel; the waits of one command add up against the
watchdog; and the peer may send any sequence of commands, or the same one
twice. The list, with lines, is `hazards` in `PROJECT.json`.

## Modules

| Module | Models | Composed with |
| --- | --- | --- |
| `Link` | callbacks and main loop | abstracts a handler to what it opens and closes |
| `LinkProofs` | the theorems about `Link` | extends `Link` |
| `Notify` | `send_wire` and its callback | relies on `NoForeignCommand` of `Link` |
| `NotifyProofs` | the theorems about `Notify` | extends `Notify` |
| `Display` | what the panel driver promises `od_handle` | - |
| `Transfer` | `od_handle` | extends `Display`; abstracts the configuration store to *open or not* |
| `Pipe` | PIPE and direct uploads: a client, the connection, the receiver | extends `Transfer`, of which each step of the device is an action |
| `TransferProofs` | the theorems about `Transfer` and `Pipe` | extends `Pipe` |
| `Panel` | the driver, one action per wait | implements `Display` |
| `PanelProofs` | the theorems about `Panel` | extends `Panel` |
| `Watchdog` | the time of a round of the main loop | adds up the waits of `Transfer`'s commands, `Panel` and `Notify` |
| `WatchdogProofs` | the theorems about `Watchdog` | extends `Watchdog` |
| `ConfigRegister` | what the configuration store promises | - |
| `ConfigStore` | the store, one action per flash operation | implements `ConfigRegister` |
| `FreshCounters` | what the receiver of encrypted frames promises | - |
| `ReplayMask` | the counter and mask of a session's replay window, as operators | - |
| `ReplayWindow` | one session's window and the frames it gets | uses `ReplayMask`, implements `FreshCounters` |
| `Session` | handshake, limiter, session and its end | uses `ReplayMask` |
| `SessionProofs` | the theorems about `Session` and `ReplayWindow` | extends both |
| `Container` | the validator of a configuration and the lookup of a packet | is what `ConfigStore` calls an intact container |
| `ConfigStoreProofs` | the theorems about `ConfigStore` and `Container` | extends both |
| `Telemetry` | `msd`, its samples and the advertised copy | abstracts the loop of `Link` to what moves that copy |
| `TelemetryProofs` | the theorems about `Telemetry` | extends `Telemetry` |

Every `MC...` module extends one of these, and its `.cfg` gives the constants.
Definitions commented *Mutant* are wrong on purpose and used by no behaviour:
each is the form a plausible bug would give the definition that follows it, and
each property of a run is violated when its mutant (see `mutants` in
`PROJECT.json`) takes the place of the original. This guards the properties
against holding for no reason.

### Link

A callback is one action, because the host's threads are cooperative and the
main thread is preemptible on a single core: the loop never sees half of one.
This matters. `connected` sets `link_up` before it increments `generation`, and
a loop running between the two could hang up on the new peer from its idle
check. The exception is `written` after an overflow, which blocks in
`bt_conn_disconnect`: `WrittenOverflow` and `WrittenHangUp`.

The loop is one action per read of shared state, `pc` naming the position:
`Top` (deadline and test of the generation), `TakeEvent`/`DeadlineReached`/
`OtherTimeout` (end of the wait), `TakeCommand`, `ReadGeneration` and
`ArmRestart` (cleanup), `CheckAdvertising` ... `StartAdvertising` (advertiser),
`CheckLive`, `Dispatch`, `DispatchFailed`, `Unref`, `CheckIdle` ...
`IdleHangUp`. The state a handler works on is reduced to owners: `transfer`,
`staging` and `session` hold the generation of the command that opened them.
Times are flags: `slowDue` and `retryDue` say that the clock has passed
`slow_adv_at` and `retry_adv_at`. `air` is the only connection object
(`CONFIG_BT_MAX_CONN=1`) and the advertiser, which needs that object.

`air = "connected"` as long as the host would report `CONNECTED`; it becomes
`down` when the link is lost and `idle` when `disconnected` has been called.
A command may therefore be queued, and dispatched, for a link that is going
down, as in the code.

One thing the model shows is not called a defect: if a peer connects and
disconnects before the loop's first read of `generation`, `current` is still -1
and the restart is not armed. The fast window, which always ends, brings the
tag back (`ReadvertisingArmed`, `TagComesBack`).

### Notify

One action per step of `send_wire`, with the host free to complete, to complete
late (even after the connection has ended) or to drop a notification. `fresh`
and `delivered` are history: whether the host really sent what *this* call
queued. Tickets are counted modulo `TicketModulus` in place of 2^32. A ticket
is not reissued while the host still holds a notification that carries it; in
the code that takes 2^31 sends.

### Transfer

One action per command, or per outcome of one where it opens something. A
command runs to completion, so its sends, panel calls and the abort that the
main loop adds when it returns an error (`Answer`) are one step. `p` is
`struct od_protocol`, field by field; `epd`, from `Display`, is the panel's
power and the number of bytes its window takes; `staging` is `od_config_writing()`. `screen`, `base`
and `refreshes` are history: the image on the screen, the image an open region
transfer was announced for, and a flag that flips at every refresh.

The inflater is what the handler sees of it: input may yield any amount of
output that fits, may end the stream, or may be refused; empty final input
cannot end it. Payloads are counted, not stored; a payload the handler refuses
appears as the refusal. An END of wrong length or mode and one of an incomplete
transfer take the same path in the code and in `End`. `Sack` is the mask a
response carries; `SacksNameTheRepeats` says that it names just the frames that
`Repeated` would recognise, so that client and receiver agree on what is stored.

### Pipe

`Transfer`'s receiver and both directions of the connection, with a client that
waits for each frame to be acknowledged before the next. The client is external.
It follows `docs/protocol.md`: it waits for the answer to its START, sends its
data, sends END, and starts over when it is refused. It uploads a frame or a
region by PIPE (0x80, 0x81, 0x82) or a frame directly (0x70, 0x71, 0x72). In a
PIPE it may repeat a frame or an END at any time; pieces of a direct upload have
no number and are sent once. It may give an upload up and start another one
while frames of the first are on their way; it does not send a second START
before the first is answered. And when the second is a direct one, the timer of
the PIPE before may still repeat any of its frames between any two commands of
the second (`SendLate`), as long as no other is on its way (a bound). `od_handle`
has to drop these (`Drops`, `protocol.c:252`) and go on with the direct
transfer. The connection keeps the order and loses all or
nothing (`Lost`), as Bluetooth does. A frame sent again unchanged may also
be recognised by the session's replay window and dropped before it gets to
`od_handle` (`HandleCopy`); both ways are possible for every repeat, which
covers encrypted sessions and plain ones.

A payload is one byte with the image it is of and its place there; `stored` and
`drawn` are history. Raw frames end by themselves with the last byte, regions
by END; compressed streams are in `Transfer` only. `StoresInOrder` is about
both ends: what the panel's window holds is one image from its first byte on; it
is the client's own while that sends its data, with no frame of the upload
before in it; and the client has taken nothing for acknowledged that is not
among it. `HonestClientIsServed` says that neither repeats nor late frames make
the device refuse what follows: no fatal answer of a PIPE, and no refusal of a
piece or an END of a direct upload.

### Display, Panel

`Display` is four operators and a next-state relation: on with a window, off, or
a failure that leaves it off. `Panel` cuts every function of `src/epd.c` at its
waits. A wait ends with the panel ready or with a timeout, and the whole device
may restart at any position (`Restart`). `chip` is the panel's controller:
deep sleep, power, which waveform it uses and how many bytes each plane has.
Its commands act when they are sent, except that power goes off when the panel
reports ready. A reset wakes it but is not relied on to cut its power, and a
restart of the tag may leave the panel as it was. Registers no
property depends on and the polarity of pixels are left out.

The caller is what `src/protocol.c` is: it begins only what it has ended or
aborted, writes no more than the window takes, finishes what is complete and
may abort between any two calls. `epd_off`'s early return for a sleeping panel
is therefore taken by no behaviour.

### Watchdog

Time is counted in the waits alone. `fed` is the time since the last reload;
`packet`, `activity` and `telemetry` are the ages of the code's time stamps,
capped where the code stops telling them apart. Every wait may take any time up
to its timeout. `Handlers` is what a command of each kind may take and what it
leaves open: an abort of what is open, a begin with a failed switch-off behind
it, the three notifications and two panel waits of an END, and the longest of
all, a configuration read of 49 notifications.

The assumption is two sums: `PanelWait + ReadWait <= Interval` and
`3 * PanelWait + 3 * SendWait <= Interval`. With 30.03 s for the panel, 2.02 s
for a notification and so 99 s for a read, both hold for 180 s with room to
spare. They are about one interval, from the reload after the wait to the one
at the top of the loop. The first adds a read to the abort before or after it;
the second a START whose panel fails, on a transfer it has to abort. The idle
wait has an interval of its own (`IdleWait <= Interval`); since its deadline is
60 s, feeding once a round would do as well under these bounds, and the second
reload is margin. Not covered: flash operations (milliseconds), blocking
inside the Bluetooth host, and the unbounded wait of the temperature sensor,
for which the watchdog is the remedy the code names itself
(`src/telemetry.c:9-11`).

`AbandonedIsEnded` and `QuietIsHungUp` are the two idle limits as a peer sees
them: a wait never goes on past them, whichever of the deadlines comes first.

### ConfigStore and ConfigRegister

One action per flash operation. Each may succeed, fail with any part of its
effect, or be cut short by a power failure (`Interrupted`), after which
`od_config_init` scans what is left. Programming only clears bits, so a byte
that already has a value is lost if another is written over it (`Program`). A
byte is named by the container it comes from, and a container is intact when
all bytes come from the same one: this stands for `od_config_validate` and for
the slot's own CRC. `sent` is history: the bytes the open transaction was given.

Assumed of the flash: an operation cut short leaves old, new or disturbed
contents, and a disturbed header is never a valid one. The generation is not
covered by the checksum, so a half-erased header that keeps its commit word and
length but changes its generation is outside the model.

`ConfigRegister` is the promise: one value, changed only by a completed offer,
with one doubtful case. If the commit word was written but reported as failed,
the old value stays visible and either may survive the next reboot
(`CommitInDoubt`). That is what the code does, and all the caller can be told.
The refinement maps `visible` to `od_config_get`, `durable` to what a scan of
the flash would give, and `offered` to the container whose bytes have all
arrived. `ChangesAreNoticed` is for the main loop, which compares the pointers
of `od_config_get` before and after a command (`src/main.c:390-392`): equal
pointers mean equal contents, whatever happened in between.

### Container

`Container` has both walks over a configuration: `od_config_validate`, which
checks everything, and `config_packet`, which checks nothing and has a table of
sizes of its own. The bytes are chosen as the validator meets them. A byte that
it has looked at as the type of a packet has that value ever after; any other
byte may be anything, so a lookup that left the packets would read any type.
The checks of single fields are one choice between `Packet` and `BadPacket`;
checksum and version are part of `Heading`. The configuration built into the
firmware is validated by the build and assumed valid.

### Telemetry

The loop of `main` reduced to what moves `msd` or its advertised copy, with the
callbacks apart from the controller: a connection ends advertising before
`connected` is called. Readings are quarters of a degree and raw results of the
ADC; they are encoded as in the code, with C's division. `shown` is the
copy the controller advertises, taken when advertising starts or is updated;
either may be refused, and an update while nothing is advertised shows nothing.
`bt_le_adv_stop` and the start after it are one action, since `Link` has their
interleaving. `reading`, `told` and `refused` are history.

### ReplayMask, ReplayWindow, FreshCounters and Session

`ReplayMask` has the operators on a window: the latest counter and a mask, here
the set of its bits. `ReplayWindow` gives one window the frames of a session.
`FreshCounters` keeps the whole set of accepted counters instead, and allows a
frame to be refused as a repeat only if it is one or is too old for the window.

`Session` has one action per outcome of `dispatch` that changes
`struct od_security`, and the resets of the main loop. Challenges are numbered,
a session has the number of its challenge, and a frame or proof passes if it
was made with the right key: the peer may repeat any of them, of any session,
and send the device's own frames back. `age`, `guesses`, `nonces` and `reused`
are history. `guesses` counts the proofs examined since the limiter last
restarted; two such windows may meet, so twice as many are possible in some
60 s, and a reboot starts a new one.

The clock wraps. Nothing in `od_security_expire` prevents a session from
outliving a whole turn of it; that the link is closed when it is idle does
(`Tick`), because handshakes and refused commands do not count as activity. The
model takes the hang-up for granted; in `Link` its request may fail, and is then
repeated every two minutes.

## What TLC checks

| Run | Bounds | States | Shows |
| --- | --- | --- | --- |
| `link` | 2 connections, 1 failing HCI request of any kind | 382 000 | ownership, hang-ups and the three liveness properties |
| `link_loss` | 1 connection, 1 failing request, disconnections may fail | - | violation, see *Finding* |
| `notify` | 8 tickets, 3 connections | 57 000 | notification slot and completion |
| `config_store` | 2 containers of 5 bytes, words of 2, generation modulo 8 | 28 000 | invariants and the refinement |
| `replay_window` | a window of 4, counters below 12 | 12 000 | the refinement of `FreshCounters` |
| `session` | 3 challenges that live 2 ticks, 2 attempts in 2 ticks, clock of 5 ticks, 2 counters in each direction | 483 000 | nonces, guesses, keys and expiry |
| `transfer` | frame of 4 bytes, regions of 2 and 6, 2 image names, sequence modulo 4 | 3 500 | transfers, screen and acknowledgements |
| `pipe` | frame of 5 bytes, region of 2, sequence modulo 4, 3 commands and up to 4 notifications on their way, 3 faults | 422 000 | order, completeness and liveness of PIPE and direct uploads, late frames among them |
| `panel` | frame of 4 bytes, planes of 1 and 3 | 640 | the driver, that no timeout is hidden from its caller, and that it implements `Display` |
| `watchdog` | the code's times in units of 10 s, rounded up | 746 000 | watchdog and idle limits |
| `container` | every length that fits a set of packets, and one byte less or more | 125 000 | both walks agree |
| `telemetry` | 5 temperatures, 3 voltages | 66 000 | samples and what is advertised |

Why these bounds reach the interesting cases. *link*: a hazard needs state of
one connection and a command of the next, hence two; the one error may hit a
restart, a stop or a hang-up, at any place and while any other thing happens;
more of either repeats the same states with larger generations, which the
theorems cover. *notify*: four sends wrap the ticket, and a callback may be three calls late.
*config_store*: five bytes in words of two have chunks that start and end in
the middle of a word and words written up to twice; eight generations wrap, and
no state distinguishes more. *transfer*: regions shorter and longer than a
frame, payloads that fit exactly, fall short and overrun, and more frames than
the window of recognised repeats. *replay_window*: jumps within the window, to
its edge and beyond, more than once. *session*: three challenges are the least
for one left over from a rate window and as many as the next one allows, and
with two ticks of life it may be answered in that next window; the clock wraps
while the limiter, a challenge or a session has a time stored.
*pipe*: a frame has one more byte than there are sequence numbers, so numbers
wrap inside a transfer and across two; the queue holds two commands that were
sent before the first was answered; with three faults an upload is given up, its successor's
panel fails and the link is lost, in any order; a direct upload meets late
frames of each place of the PIPE before, with numbers that are wrapped or not,
before and after each of its own commands. *panel*: planes that are full
with the first byte and in the middle, with a frame larger than one and smaller
than the other window. *watchdog*: rounding up only makes waits longer, and the
two sums still hold. *container*: the sizes and the limit of 768 bytes are
those of the code, the six types in all orders; lengths off by one byte meet
every check of a boundary. *telemetry*: readings below and above the range, on
both sides of zero where division truncates, and results that set the ninth bit
and every bit.

Fairness (`Link!Fairness`, `Notify!FairSpec`): the main thread takes steps
whenever it can, as the scheduler guarantees while callbacks are short; time
passes; the host delivers `disconnected` for a link that is down and returns
from a blocked `bt_conn_disconnect`. Nothing is assumed of peers. The loop's
periodic wakeups (`OtherTimeout`) have no fairness, so the liveness properties
show that the explicit wakeups are enough. The host owes no completion of a
notification. `StartAdvertising` and the like are fair only as part of the
loop; HCI requests fail a bounded number of times, without which nothing can
come back on the air.

`Pipe!Fairness`: the client goes on sending and reading, the host delivers what
is queued, and the main loop cleans up and takes the next command. Nothing
makes the client repeat, send a late frame, give up, or start with a region or
directly. `Delivered` is about
what happens when the faults, which are bounded, have ended.

Deadlock is checked in every run but `container`, where a container that is
refused ends the behaviour.

## What is proved

`LinkProofs` proves the safety of `Link` for any number of connections and any
number of HCI errors (`MaxLinks`, `MaxHciErrors`), from `LinkAssumption` alone.
None of its properties is inductive. The inductive invariant is

    IInv == TypeOK /\ Counting /\ References /\ Commands /\ Progress
            /\ Owners /\ Wakeups /\ Advertising

- `Counting`: a generation is odd exactly while its connection exists, so a
  generation names a connection.
- `References`: one reference per queued command, one per command in hand, one
  around the idle callback.
- `Commands`: a command with a reference keeps the object, so `generation` is at
  most one ahead of it. This needs `References` and the advertiser's need for a
  free object.
- `Progress` and `Owners`: from `ReadGeneration` on, every owner is `next` or
  nobody; a command whose generation still equals `generation` was taken
  before that read, so it equals `next` too.
- `Wakeups`: if the loop waits and the semaphore is empty, nothing has happened
  since it last looked.
- `Advertising`: with no link and nothing on the air, a timer is armed or the
  loop is awake and about to arm one.

`Invariance` proves `Spec => []IInv` with one step per action; each property
follows from it. `LossEndsTheLink` adds `Losses` and the assumption
`~DisconnectMayFail`, and shows that the finding below has no other cause.

`TransferProofs` proves the safety of `Transfer` for frames, regions and
payloads of any size and any set of image names, from `TransferAssumption`. The
inductive invariant is

    IInv == Sound(p, epd) /\ OneTransaction /\ EtagNamesScreen /\ Based /\ ...

`Sound` joins the types, the bound of `received` and the state of the panel: a
command passes through states of `struct od_protocol` that are not those of
`p`, so the lemmas are about any `q` and `e` with `Sound(q, e)` and say what
`Abort`, `Answer`, `Refuse`, `Taken` and `FinishTransfer` make of them. `Based`
(an open region transfer was announced for the displayed image) is what
`RegionsMeetTheirBase` needs besides: the etag can only be forgotten together
with the transfer. `RefreshingSteps` shows which commands refresh the screen;
`CompleteOnly` and `OnItsBase` are then about those two.

The numbers of PIPE frames need `SequenceAssumption` as well: the mask of an
acknowledgement and the reach of the repeats fit together (`Behind = MaskBits +
1`, 33 and 32 in the code) and are less than the number space. `RepeatsAreNamed`
then is arithmetic of remainders: `Division`, `Rounds` and `Small` say what `%`
does to sums and differences, and the window behind `next_seq` does not meet
itself.

`TransferProofs` goes on with `Pipe`, for images of any size, queues of any
length and any number of faults. `UploadIsATransfer` shows that the device takes
only steps of `Transfer`, so `IInv` holds here too; what it needs besides is an
agreement between client, connection and receiver that none of them can see.
It has two halves, one for each kind of upload:

    Linked == PipeTypeOK /\ OneStart /\ Receives /\ InStep /\ Acknowledged
              /\ Told /\ ~p.pipe_failed
    Direct == NoLink /\ DirectReceives /\ DirectInStep /\ StaysOpen /\ Owed
              /\ Undisturbed

- `OneStart`: a START or its answer is the last thing on its way, and the client
  waits for it.
- `Receives`: of an open PIPE, `received`, `pipe_frames` and `next_seq` all
  say how many frames are stored; they are of one image from its first frame
  on, and those on their way are of the same image, in order, and each of them
  the latest one stored or the next (`Carries`). This is why a frame is stored
  or recognised, and never an error, although the client may have given the
  image up.
- `InStep`: once the client has begun, the image is its own, and it has counted
  all that is stored or all but one.
- `Acknowledged`: the acknowledgements on their way are of the frame before or
  of the one it waits for, in this order; the second kind is there only when
  that frame is stored. Without this a late acknowledgement, whose number is
  taken modulo `SeqModulus`, could be counted for another frame.
- `Told`: a result that is unread while the client waits for one is of this
  upload, and what was drawn is the whole image.
- `DirectReceives`, `DirectInStep`: the same of an open direct transfer, whose
  pieces have no number to be known by. There is at most one piece or END of it
  on its way, it finds its transfer open, and a piece is the very next one
  (`Brings`); no END of a PIPE is on its way.
- `Owed` (`InTurn`): either the piece the client waits for is on its way or
  unread by the device, or it is stored and the acknowledgement is owed, never
  both; so nothing is stored twice or counted twice.
- `StaysOpen`, `Undisturbed`: the transfer lives as long as the client sends its
  data, and no refusal is on its way. Late frames keep this because no PIPE is
  open and they are dropped (`SendLateKeeps`, `LateDropped`); were they refused
  or stored, `Owed` or `DirectReceives` would fail.

The invariant was model-checked at the bounds of `pipe` before it was proved.
The lemmas with names in `Keeps` show that each step preserves it; those of
`HandleData` and `HandleEnd` go by what becomes of the transfer: it stays open
(`OpenKeeps`), it is closed (`ClosedKeeps`, `FinishedKeeps`) or the link is lost
(`LostKeeps`). `StartsAreAnswered` adds what `Delivered` rests on where nobody
repeats anything: a client that waits for the answer to its START is owed one.

`NotifyProofs` proves the safety of `Notify` for tickets of any width and any
number of connections, from `NotifyAssumption`. The inductive invariant is

    IInv == TypeOK /\ Generations /\ Tickets /\ SlotIsTaken /\ SlotIsHeld
            /\ SuccessMeansDelivered

- `Generations`: a generation is odd while a connection lasts, and a call stays
  on the connection it was made for as long as there is one.
- `Tickets`: no two notifications of the host have the same ticket, and what a
  waiting call's ticket names was queued by that call.
- `SlotIsTaken` and `SlotIsHeld`: a notification of this connection that the host
  holds has the slot; and a slot that is taken is of a notification the host
  holds, so that it will be freed or the connection ends. From a reservation to
  the queueing the slot is taken with no notification behind it; that nobody is
  misled by this needs `Tickets`.

`SessionProofs` proves the properties of `Session` for any set of keys, any
limit, lifetime, width of the mask, of the counters and of the clock, from
`SessionAssumption` and `WindowAssumption`. The parts of its invariant:

- `Numbers` and `Nonces`: the window remembers exactly (`Exact`) which counters
  of the client are used under the number of this session, the device's are
  used up to `tx`, and a challenge that is pending has a number under which
  nothing is used.
- `Guesses`: proofs examined, and one more if a challenge is pending, are at most
  one more than the attempts counted: the one left over from the window before.
  It costs nothing to keep that one, since a challenge replaces what is pending
  and a proof is examined only below `Limit` attempts; so the bound is `Limit`,
  not `Limit + 1`.
- `Ages`: `now - started` is the true age although the clock wraps, of what is
  pending and of a session that may expire; the hang-up of an idle link keeps
  the age below one turn. This is the only use of the assumptions on
  `ClockModulus`.

For `ReplayWindow`, `WindowInv` says the same `Exact` of the set of accepted
counters. `ShiftedSound` says what a shift does to the bits, and `KeepsPromise`
concludes that the window implements `FreshCounters`.

`ConfigStoreProofs` proves `ConfigStore` for containers, flash words and
generations of any size, from `ConfigAssumption`. Power may fail within every
operation, so the invariant is about what a scan of the flash would find:

    IInv == TypeOK /\ InUse /\ Transaction /\ Stored /\ Complete

- `InUse` (`Consistent`): the active slot is valid and has the generation in
  RAM. If the other one is valid, it has the generation before, or the one after
  and was committed without anybody knowing.
- `Transaction`: only the slot that is not in use is written, and it is not
  committed while it is.
- `Stored` and `Complete`: the bytes sent so far are in flash, wherever chunks
  are cut, and a slot is committed only with a header that is its own and a
  body that is complete.

`Kept` is the argument about power: an operation cut short leaves of the other
slot at most what it was, so a scan finds the active slot again unless the
other has been committed. `StoreIsRegister` is the refinement: its lemmas take
the operations one by one and map each to the step of `ConfigRegister` that it
is, or to a stutter; a commit whose success was not reported is `CommitInDoubt`,
and a restart takes `durable`. `EveryChangeIsNoticed` is the comparison of
pointers in the main loop.

The same module proves `Container` for containers of any length: the second
walk stays on the packets of the first. The inductive invariant says that the
packets seen so far tile the bytes from 3 to `pos` while validating, or to `End`
afterwards: each starts where another ends, and none of them overlap.

`PanelProofs` proves all properties of `Panel`, for frames and planes of any
size, with deep sleep or without, from `PanelAssumption`. The inductive
invariant relates the driver to the chip: what is awake, powered and connected
at each wait (a panel with power is `awake`, a wait is never on an undriven
BUSY), how many waits of the call have failed, and where the next byte goes.
Its conjunct `RegionFilling` counts: the first half of a region's bytes fills
the old plane and the second half the new one, wherever a piece of data is cut.
`PanelImplementsDisplay` maps each return of a call to a step of `Display` and
all else to a stutter.

`WatchdogProofs` proves the three time bounds from `WatchdogAssumption`, the two
sums. The inductive invariant bounds `fed` by position: nothing at `top`, a wait
at `woken`, at most one abort before a command, a command behind it and one
more abort after a failure. `HandlerFits` says that each handler keeps to the
sums together with the aborts on either side of it: only what is open is
aborted, and a handler that has aborted leaves nothing to abort. The limits for
peers need that `packet` and `activity` are never younger than what is measured.

`TelemetryProofs` proves the three properties of the run, and `ShownIsCurrent`
(when the loop waits, the last sample is what is advertised), for any set of
readings. The invariant says which flags `shown` has and when `msd` may differ
from it; the rounding is linear arithmetic and has lemmas of its own
(`HalvesAreNear`, `NineBits`).

Some theorems are about named parts of what a run checks or about invariants
that the induction needs anyway, and TLC does not spend a run on them again:
`NoLostWakeup`, `ReadvertisingArmed`, `NoForeignCommand` and `RefsBalanced` of
`Link`; `TalksToAwakePanel`, `NoForgottenPower` (together `AwakeIsTrue`),
`AtMostTwoTimeouts` of `Panel`; `WalksOnPackets` and
`PacketsAreApart` of `Container`; `WindowIsExact` of `ReplayWindow`; and
the type invariants that no run has.

Every safety property and every refinement of the passing runs has a theorem.
Only model-checked is liveness, since fairness and `ENABLED` are beyond the
prover: `LeftoversAreCleaned`, `TagComesBack` and `CommandIsTaken` of `Link`,
`EveryCallReturns` of `Notify` and `Delivered` of `Pipe`. Invariants they rest
on are proved: `Wakeups` and `Advertising` of `Link`, `AnswerIsOwed` of `Pipe`.

Assumed about constants is what the code fixes: see the `ASSUME` of each module.
The two on `ClockModulus` say that a link cannot be idle, nor a session last,
for a whole turn of the 32-bit clock of milliseconds; `SequenceAssumption`
and the sums of `WatchdogAssumption` are above; the others say that sizes and limits are natural numbers, mostly not
zero, and that atoms differ.

A note on the prover. The SMT translation of tlapm 1.4.5 describes `Len` of any
function, and its description is contradictory for one whose domain is not
`1 .. n`. The proofs apply `Len` to sequences only, and all of them have also
been checked with that axiom restricted to sequences.

## Finding

`written` ignores the result of `bt_conn_disconnect` (`src/main.c:55`) after it
dropped a write, although the comment above it promises to *drop the link
rather than silently losing bytes*, and other code expects this request to fail
at times (`src/main.c:156`, `src/main.c:417`). Run `link_loss`: after such a
failure the link stays up and later commands of the same connection are
executed. A flag checked by the loop would close the gap.

## Not modelled

- Cryptography: `od_ccm` and `od_cmac` are pure functions of their blocks, and
  `tests/test_security.py` compares them with an independent implementation; the
  AES peripheral (`src/crypto_zephyr.c`) is hardware. `Session` takes frames and
  proofs as atoms.
- The readers of single fields of a configuration (`od_config_name`,
  `od_config_partial_frames`): one loop over a string each, without state.
- The inflater: vendored. Its independence of chunk boundaries would need the
  DEFLATE state machine and bit streams.
- The flash driver below `src/storage.c`, GPIO and the bits on the panel's wire.
- The device address, which is set once at boot.
- Host tools, tests, the build and the board description: no state of the tag.
- How a configuration read is cut into notifications: one loop over a length.
  `Watchdog` uses its bound, 49 for the largest container.
- Blocking inside Zephyr and the temperature sensor's wait, which have no bound
  in this repository.

## Plan

Left:

1. The steps of the other liveness arguments that are safety: a measure for
   each wait of `send_wire` and for the cleanup of the loop that no step
   increases.
2. The readers of single fields of a configuration, and the cutting of a
   configuration read into notifications, as recursive functions.
3. The readings of `Watchdog` derived from `Panel` and `Notify` in place of
   being stated: how many waits a call can take is proved there already.
