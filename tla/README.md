# A formal model of sixdof

`sixdof` is a Rust crate that reads 6-degree-of-freedom input devices: through
the daemon spacenavd and its UNIX socket, through the Magellan protocol of a
display server, or as raw USB HID reports. This directory models it in TLA+,
checks the models with TLC and proves theorems about them with TLAPS. Paths
below are relative to the repository; the models are of its code, `src/*.rs`.

## 1. The system

| Part | Code | State | Operations |
|---|---|---|---|
| Packet stream of the daemon client | `client.rs`, `codec.rs` | socket, `proto`, `mode`, `buf`/`filled`, `queued` | `negotiate_protocol`, `fill_packet`, `set_mode`, `read_blocking`, `read_timeout`, `poll`, `await_reply` |
| Requests and device cache | `client.rs`, `request.rs` | `device`, the `StringReader` of a call, what is on the wire | `request`, `request_string`, `send_string`, `refresh_device` |
| Daemon settings | `config.rs` | none here: the daemon's | a getter and a setter per setting, each one request |
| Socket path | `client.rs` | none | `socket_path`, `configured_socket` |
| HID decoder | `hid.rs` | `raw`, `buttons`, `told`, `last_motion`, ranges, maps | `feed`, `motion`, `axis_ranges` |
| HID connection | `hid_device.rs` | `pending`, the decoder | `read_for` and the three reads |
| Magellan connection | `magellan.rs` | `driver_window`, `atoms`, `queued` | `connect_on`, `command`, `absorb`, the three reads |
| Choice of a route | `source.rs` | the variant of `Source` | `connect`; the rest forwards |
| Public types | `lib.rs` | none | `Error`, `Event`, `EventMask`, `DeviceInfo` |

**How they interact.** One thread of the application owns a `Client` (every
operation takes `&mut self`), so calls never overlap. What runs concurrently is
the daemon: it writes events whenever the device moves or is plugged in, answers
requests in order when it gets to them, and may close the connection at any
moment. Both share one byte stream in each direction. `Client` keeps three
things from one call to the next that later calls depend on: the packet under
construction (`buf`, `filled`), the events requests came across (`queued`), and
its idea of the socket's options (`mode`). `refresh_device` makes six requests
in a row and keeps what it learns in `device`; a hotplug event tells the
application that this is out of date. `Config` borrows the client and adds
requests. `Source` asks the three routes in turn, holds the kind of client that
answered first and forwards. A Magellan client shares the display server with
the driver: it learns of the driver through atoms and a property of the root
window, sends it commands, and takes its events out of everything the server
sends. The driver may end at any moment, and the server with it.

**What is hard.** A packet split over several calls that end by timeout, each in
a socket mode of its own. Events between a request and its answer. Answers that
come after their request has timed out. Two system calls to change mode, of
which the second may fail. A handshake that cannot tell an answer from an
event. Devices that come and go while they are asked about. Writes to a socket
that an earlier read left non-blocking. What a dead driver leaves on the display.
Settings and descriptors that another program, or a device, wrote. `PROJECT.json`
lists these hazards, each at its line.

**What makes each part correct.**
- Stream: every packet is taken whole, once and in order; every well-formed
  event reaches the application once and in order; a call with a time limit
  neither gives up early nor hangs while nothing comes; the cached mode is the
  socket's.
- Requests: a reply is taken only by what asked for it; a failure leaves the
  stream in step; a string is one answer; the cached device is the one plugged
  in, or an event says that it is not.
- HID: press and release alternate; no report's events overtake another's; what
  was last told is where the puck is.
- Magellan: of all that the server sends the events are handed out once and in
  order; a timed read lasts as long as it was given; press and release are as
  the device has them.
- The choice of a route: the first that answers is taken, never one that does not.
- Conversions: a setting or a string survives the wire, and an axis is read with
  the range its device declares.

## 2. The modules

| Module | What it is |
|---|---|
| `EventChannel` | Abstract specification: packets are taken once and in order, events handed out once and in order |
| `SpnavStream` | The byte stream under `Client`: bytes, socket modes, time, signals |
| `MCSpnavStream` | Three statements of the docs about it that the code does not keep |
| `SpnavSession` | Requests, replies, strings, `refresh_device` and hotplug, over whole packets |
| `MCSpnavSession` | Its small devices for TLC, and a statement of the docs the code does not keep |
| `HidDecoder` | What `hid.rs` computes from a report, as operators |
| `HidRoute` | A device read over USB HID: reports, the decoder, the queue, the reads |
| `MCHidRoute` | A small device for `HidRoute`, and a statement of the docs the code does not keep |
| `StringTransfer` | How `request.rs` cuts strings into packets and puts them together, as operators |
| `SendPath` | What the client writes: requests and strings through a socket with little room, and the daemon that reads them |
| `MCSendPath` | Its strings for TLC |
| `Magellan` | The Magellan connection, a driver that comes and goes, and the display server |
| `Source` | The choice of a route over `Magellan` and the other two, and an application that connects again |
| `MCSource` | The builds there are |
| `Settings` | What `config.rs` makes of a setting and of a word, as pairs of functions |
| `ReportDescriptor` | `axis_ranges` of `hid.rs`, as a recursive function of the number of items read |
| `MCConversions` | `HidDecoder`, `ReportDescriptor`, `Settings` and `StringTransfer` over bounded inputs |
| `SpnavStreamProofs`, `SpnavSessionProofs`, `SendPathProofs`, `MagellanProofs`, `SourceProofs`, `HidRouteProofs`, `ConversionsProofs` | Theorems about the module each is named for |
| `HidDecoderProofs` | Lemmas about the operators of `HidDecoder`, for the last two of these |

`EventChannel` is refined twice: by `SpnavStream` and, without requests, by
`Magellan`. `SendPath` uses `StringTransfer` for both ends of a string;
`Source` extends `Magellan`, every step of whose client and display it keeps.

### SpnavStream

| Variable | In the code |
|---|---|
| `op` | the call in progress, the frame on the stack |
| `proto`, `mode`, `filled`, `queued` | the fields of `Client` |
| `sock` | the options of the socket in the kernel |
| `packets`, `written`, `hello`, `closed`, `owed` | the daemon's end of the connection |
| `rd` | how far the client has read |
| `waited`, `elapsed`, `signals` | time in the read and in the call in progress; signals so far |
| `base`, `log`, `told`, `result`, `halfway` | history: what the handshake took, the packets decoded, the events handed out, the last result, whether the last `set_mode` failed on its way out of the non-blocking mode |

A byte is its position in the stream, which is all that matters of it: a packet
the client completes is one the daemon wrote exactly when the client began it
where the daemon did. If it did not, its words are a splice and `KindsOf` lets
it pass for anything. Each read of the socket is one action: `HandshakeRead`,
`ReadPart` and `ReadPacket` (some bytes are there), `ReadQuiet` (would block or
timed out), `ReadEof`, `Interrupted`. `ReadPacket` includes what the calling
loop does with the packet, `AwaitReply` or `TakeEvent`. `BeginRead` is the head
of the three reads, where the queue is looked at and `set_mode` makes its system
calls; `SetModeFails` is the failure of the second of them, whose first has
taken effect. `Request` writes the request and sets the deadline;
`RequestFails` and `RequestCutOff` are its two ways of not getting that far.

The daemon writes packets in pieces of any size. A daemon of protocol 1 answers
the offer before it writes anything else, as the repository's own fake daemons
do (`tests/fake_daemon.rs`, `examples/fake_daemon.rs`), though the answer may
come later than the client waits. A daemon of protocol 0 does not answer.

### SpnavSession

| Variable | In the code |
|---|---|
| `op`, `stage`, `asked`, `reader`, `info` | the frames of `refresh_device`, `request`, `request_string` and their locals |
| `device`, `queued` | the fields of `Client` (of `queued`, how many device events) |
| `up`, `sending`, `down`, `closed`, `plugged` | requests, answers and events on their way, and the daemon |
| `accepted`, `heard`, `sound`, `misses`, `result` | history: the last answer taken, what the application was told, whether a refresh went well, timeouts so far |

Requests carry a serial number that is not in the packet, so that an answer can
be told from another's; only properties look at it. `ReplyToAnother`,
`ReplyRefused`, `ReplyValue` and `ReplyChunk` are the branches of `check_reply`,
`reply_status` and `StringReader::push`; `Succeed` and `Fail` are what their
outcome means to the call in progress, which for `refresh_device` is the next
query (`Settle`), the end, or an error if it was the name. Packets are whole:
that the stream below delivers them so is `FramesWhole` of `SpnavStream`. What
joins the two models is `EventChannel`: packets taken once and in order, as
`down` has them.

### HidDecoder and HidRoute

| Variable | In the code |
|---|---|
| `raw`, `buttons`, `told`, `sensitivity` | the fields of `Decoder` |
| `pending` | the field of `hid_device::Client` |
| `op`, `late` | the read in progress, and whether its deadline has passed |
| `line`, `gone` | the reports the system keeps, and whether the device is still there |
| `held`, `repeated`, `place`, `applied` | history: what the application makes of the events it was given |

`ReadReport` is one turn of `read_for` that finds a report: it takes it off the
line, feeds it to the decoder (`Feed`), and hands out the first event it makes
(`Deliver`), or goes round the loop or gives up if it makes none (`NoEvent`).
`ReadNothing` is the turn whose wait ran out, `ReadFails` the one that finds
the device gone, `PopPending` the one that does not get as far as the device.
A report is of one of three kinds, as `feed` has them: it gives axes (the push,
the twist or both), buttons, or nothing. Axes go through `HidDecoder` with the
code's own arithmetic, at its width: what is subtracted, narrowed or turned is
what 32 bits keep of it (`Wrapped`, `Difference`, with `MAX_I32` the greatest
number), as in a release build. A sensitivity is counted in halves, so that its
rounding away from zero happens. Buttons are sequences of bits of any length. A
device need not keep to the range it declares.

The device repeats its reports for ever, and what the application does not read
in time is lost, the oldest first.

### SendPath and StringTransfer

| Variable | In the code |
|---|---|
| `nonblocking` | the option of the socket, as the last read or request left it |
| `op`, `packets`, `written` | the frames of `send_string`, `request` and `write_all`: the packets still to be written, and how much of the first is |
| `socket` | the bytes in the kernel, `Room` at most |
| `part`, `readers`, `closed`, `held` | the daemon: its half read packet, a `StringReader` for each setting, the strings it holds |
| `begun`, `got`, `last`, `cut`, `result` | history: packets begun by the client and taken by the daemon, the last string of each setting, whether a packet was given up half written, the last result |

`WriteSome` is a turn of `write_all`, which takes what there is room for;
`NextPacket` the loop of `send_string`; `Sent` the return, or the wait for the
answer, which sets the mode; `SendFails` the error of a write, with the rest of
the packets given up. A byte is a packet and a place in it, so that the daemon
can tell a whole packet from pieces of two (`Spliced`). The daemon is the one of
`tests/fake_daemon.rs`, whose reader (`Gathered`) is not the library's: it takes a
continuation for the next piece of what it has, and does not look at what the
packet says is left of the string. More than is to come would make its count
overflow and its thread panic (`TakePiece` ends the connection there); no piece
does, since a continuation comes right after the piece before it, and if there was
a cut both are read spliced or neither.


`string_packets` and `push`, which is the library's reader, keep the arithmetic of the code, with the sizes of
the chunk and of the longest string as constants: the word of a packet is what
remains, and one bit above it.

### Magellan

| Variable | In the code |
|---|---|
| `stage`, `atoms`, `window` | the steps of `connect_on` done; `Client::atoms`, those that are not 0; `Client::driver_window` |
| `queued` | the field of `Client` |
| `op`, `limit`, `lasted`, `asleep` | the call in progress, its timeout, how long it has lasted, how long it sleeps yet |
| `interned`, `advertised`, `commands`, `gone` | the display: its atoms, the root property, commands on the way, the server has ended |
| `driver`, `starts`, `hears`, `button` | the driver, and whether the client's window reached it; the device's button |
| `sent`, `taken`, `told`, `failed`, `waited` | history: what the server sent, how many of it the client took, which were handed out, the last outcome, how long an event has waited |

Each request of `connect_on` to the server is one step (`InternOne`,
`FindWindow`, `ReadName`), between which a driver may start, name its window,
advertise it, or end. A driver that is killed leaves the property behind, and the
name of the window it points at decides (`IsDrivers`). `Absorb` is one turn of
the loops of `poll` and `read_blocking`, `HandOut` the one that finds the queue
filled, `NothingFound` the return or the sleep of `read_timeout`. Commands arrive
later than they are sent, and those to a window that is gone come back as an
error among the events.

### Source

| Variable | In the code |
|---|---|
| `routes` | the features and the platform of the build (`build.rs`) |
| `trying` | where `connect` is |
| `route`, `link` | the `Source` the application has, and whether its other side is still there |
| `daemon`, `device`, `turns` | the world |
| `steady`, `seen` | history: the routes that answered ever since `connect` began, and at some time |

`TryDaemon`, `TryMagellan` and `TryDevice` ask one route each; Magellan's answer
takes all the steps of its `connect_on`, during which everything else moves. The
daemon's and the device's are one step: what goes on inside is the matter of
`SpnavStream` and `HidRoute`. The application is the one that `lib.rs:22-23`
asks for: it takes no device as an ordinary state and retries.

### Settings, ReportDescriptor and MCConversions

A setting is a function from what the application gives to a word and one from
words to what it reads; the width of a word is a constant, and an interval is
counted in halves of a millisecond. `axis_ranges` goes
over whole items; what it holds after the *n*-th is `AsRead(items)[n]`, a recursive
function. How an item is laid out in bytes is left out, its size is not, since the
sign of a number and the page of a usage depend on it. Each property
of `MCConversions` has a definition of its own of what is right: for a
descriptor, the last input that is for an axis, found by looking back from it;
for a difference, the number itself, which 32 bits must be able to hold; for
strings, the packets `string_packets` would make.

## 3. The runs

| Run | Bounds | What it shows |
|---|---|---|
| `stream` | 3 packets of 3 bytes, an answer of 2, timeouts 0 and 1, request 2, handshake 1, one request owed, one signal; fairness | `TypeOK`, `FramesWhole`, `EventsInOrder`, `ModeAgrees`, `NeverGivesUpEarly`, refinement of `EventChannel` (`DeliversInOrder`), `TimedCallsReturn`, `BlockedReadWakes` |
| `stream_handshake` | as `stream`, smaller | refutes `EventsStillDecode` |
| `stream_poll` | as `stream`, smaller | refutes `PollNeverBlocks` |
| `stream_deadline` | as `stream`, smaller | refutes `RequestGivesUpInTime` |
| `session` | one axis, 2 plugs, 2 calls, any of their requests may time out, a device with strings of one packet and one with two; fairness | `TypeOK`, `InStep`, `StringWhole`, `CacheConverges`, `CallsReturn` |
| `session_reply` | two axes, 3 calls, one timeout | refutes `OwnReply` |
| `hid` | 3 places, one of them beyond the declared range, numbers up to 2047, button reports of 0 to 3 bits of which 2 stand for a button, sensitivities ½ and 1, one report kept; fairness | `TypeOK`, `ButtonsTold`, `ButtonsAlternate`, `PlaceTold`, `ReadingsInRange`, `ReadsReturn` |
| `conversions` | every range within -12 .. 12, -350 .. 350 and `RANGE`; reports of 176 bits; descriptors of up to 7 items in bytes of 16 values, numbers of four such bytes; words of 256 values, intervals up to twice what one holds; up to 4 string packets with any word, chunks of 2, strings of up to 7 | `ScalingSound`, `NeverComesBack`, `ButtonsCounted`, `RangesAsDeclared`, `DifferencesExact`, `SettingsSurvive`, `TextAsAnnounced` |
| `send` | 2 settings, strings of 0 and 4 bytes of which 3 are kept, chunks of 2, packets of 2 pieces, room for 2, 4 packets; fairness | `TypeOK`, `PacketsWhole`, `StringsWhole`, `LastStringHeld`, `SendsReturn` |
| `magellan` | one start of a driver, 3 X events, one command at once besides, timeouts 0 and 3, steps of 2; fairness | `TypeOK`, `ButtonTold`, `TakenSoon`, `TimelyReads`, refinement of `EventChannel` (`EventsInOrder`), `ReadsReturn` |
| `source` | three builds, 2 starts of a driver, 2 turns of daemon and device, one X event; fairness | `SourceTypeOK`, `BestRouteTaken`, `Reconnects` |
| `hid_poll` | the same, two reports kept | refutes `PollTakesWaiting` |

**Why the bounds are enough.** A packet of three bytes can be cut after its
first or its second byte or not at all, and an answer of two is shorter than a
packet, as four is than 32. Three packets are an event with two around it: a
reply between two events, an event between two requests, a part left by one
call and completed by a third. Timeouts of 0 and 1 tell the refused duration
and an accepted one; the request's 2 is longer than the application's, so a
stale timeout shows. In the session, the connection itself is the first call
(its `refresh_device` is six requests) and a second comes after it; two plugs
let one device replace the absent one in mid-refresh and go again. A hotplug
that replaces a device passes through no device, as unplugging does.
`MaxElapsed` only saturates a counter above every time limit. `MaxMisses` in
`session` is out of reach: two calls make at most twelve requests, so any of them
may time out, and the time limit of the last one always runs out as well.
Nothing bounds the reports of a HID device or the calls of its reader. One
report kept is enough for reports to be lost, and two for one to wait behind
another. The places have the ends of an uneven range in them and, the
third, numbers above it and at its least, so that a division rounds and readings
leave `RANGE`; the range takes nought to somewhere else than nought, which is the
harder case. The greatest number, `MAX_I32`, is 2047 there: more than the width of
`RANGE`, and than any reading of these places. The button reports are of every
length up to three, with buttons that go down and up together, one for the
other, and by being left out; the numbers run against the order of the bits,
and the middle bit stands for nothing. `conversions` is a sweep: an axis goes
through every number of its range, and the bits of a report are pressed one
after the other up to the last that stands for a key (175, a space bar).
Descriptors are all sequences of four items out of fifteen, from nothing and from
a beginning that leaves an axis one item short of its range: two pages, usages
of both sizes, both ends of a span and one with its page, minima on either side of
nought, a maximum that is negative if it has a sign, ends of four bytes, an input
and another main item. A byte has 16 values there, so that every axis has a usage of
two bytes, and `MAX_I32` is 32767: four such bytes, as an i32 is four of 256.
A word has 256 values, of which half are negative; for each of them a program reads
it and writes back what it read, and sets the number with the same bits and the two
intervals of that many milliseconds, with and without a half: those from 128 on are
too long for a word.

In `send`, a packet of two pieces can be cut in one place, room for one packet
blocks every other write, and strings take one packet (empty) or two (cut
short), so that a string may fail between its packets, be followed by one of
another setting, and be sent again. In `magellan`, three events are a press and
a release with noise before, between or after; a timeout of 3 in steps of 2
leaves a last step that is shorter, and one of 0 never sleeps. One driver may
start, in any order of its names, and end at any step; that another takes its
place is left to `source`, where two starts make a property stale and a second
driver's window the right one again. There one event is enough to have something
in the queue when the connection is dropped. Two turns let the daemon answer late and go again, or the device take its place.

**Fairness.** `stream` assumes weak fairness of `ClientStep`: a thread
inside a call runs, and the clock goes on while it waits. `session` assumes it
of `AwaitAnswer` and of `ReadStep`, `hid` of `ReadStep` and of `DeadlinePasses`,
`magellan` of `ClientRuns`, for the same reason; that time runs out is part of
all of them. In these four no fairness is assumed of the daemon, the driver, the
device or the application: the daemon may stop in the middle of a packet for
ever, and no call need be made. `BlockedReadWakes`, and `ReadsReturn` of a
Magellan read that blocks, are therefore conditional on an event having come.

Nor do the code's calls return whatever comes: each packet and each signal gives a
request, and each piece of a packet a read, its whole time limit again (the run
`stream_deadline`), and a Magellan `poll` goes on while the server has anything
more. `TimedCallsReturn`, `CallsReturn` and the Magellan `ReadsReturn` say just
this: a call returns, or packets and signals, device events, or what the server
sends, come for ever. The bounds on these (`MaxPackets` and `MaxSignals`,
`MaxPlugs`, `MaxEvents`) keep the second from happening in the runs, so what is checked
there is that nothing finite holds up a call. `SpnavSession` has besides a daemon
that answers each request once, with the packets of its string in order: one that
began a string again and again would hold `request_string` in the same way.

`send` assumes it of `Client` and of `DaemonReads`. A write to a full socket
that blocks has no time limit in the code: it returns only if the daemon reads
or goes. The daemons at hand read requests on a thread (`examples/fake_daemon.rs:75-76`)
or in a loop (`tests/fake_daemon.rs:234-265`) that waits for nothing else.

`source` assumes it of the steps of `connect` and of the client, of connecting
and of letting a failed connection go, and of making calls: the application
retries, as `lib.rs:22-23` asks. `Reconnects` counts a Magellan connection
whose driver has ended as a connection, for nothing in the protocol tells the
client; the application stays on it as long as the server does.

**What the refuted statements mean.**
- `stream_handshake`: the first four bytes are taken as the version whatever
  they are; against an old daemon that is sending events, the client is four
  bytes out of step for the rest of the connection (`README.md:34-35` says
  events still decode).
- `stream_poll`: after `poll`, `read_timeout(Duration::ZERO)` fails half way
  through `set_mode`, and the next `poll` blocks (`client.rs:231`).
- `stream_deadline`: the time limit of a request is one of each read, not of
  the wait (`client.rs:31`).
- `session_reply`: a late answer is taken for the next request of the same kind
  (`request.rs:5-6`).
- `hid_poll`: `poll` looks at one report, and says there is no event when that
  one makes none, whatever waits behind it (`hid_device.rs:119`).

`FramesWhole`, `EventsInOrder` and `InStep` are stated up to these: `Clean`
excludes a connection whose handshake took something else than the answer, and
`InStep` holds until a request times out. In the same way `PacketsWhole` and the
strings of `SendPath` hold until a write fails in the middle of a packet, as it
may on a socket left non-blocking by `poll`: the client reports `Io` and keeps
the connection, and the daemon takes the beginning of the next packet for the
rest of this one. No text says what a connection is worth after an `Io` error, so
this is listed as a hazard and not refuted. `ButtonTold` of `Magellan` supposes
that the driver asked still runs and had all its names when it was asked.

## 4. The proofs

Every safety invariant and action property of the passing runs is a theorem, and
so are both refinements of `EventChannel`.
Each holds for all values of the constants that satisfy the assumptions of its
module. Those say that sizes, durations and bounds are numbers, and:

- `SizesAssumption`: an answer is shorter than a packet and not empty;
  `DurationsAssumption`: no duration is above the saturation of the counter.
- `DevicesAssumption`: a string takes at least one packet.
- `SendAssumption`: a packet and the socket's room are not empty, a text is a
  sequence of bytes, no setting has the name of the request.
- `SourceAssumption`: a build has the routes that `build.rs` can give it, in
  their order.
- `WidthAssumption`: an i32 holds the width of `RANGE`.
- `PlacesAssumption`: a place is a triple of numbers, and the ends of the declared
  range are i32s, the first below the second, as `axis_ranges` leaves them
  (`RangesAsDeclared`). That the device keeps to it is not assumed.
  `SensitivitiesAssumption`: 1.0 is a sensitivity. `ButtonMapAssumption`: no two
  bits have one number, which `ButtonsAlwaysCounted` proves of the code's tables.
- `SettingsAssumption`: a word has room for the code's enumerations, and "no
  interval" and a refusal are not numbers.
  `DescriptorAssumption`: a usage of two bytes has room for every axis.
  `ConversionsAssumption`: reports have all the bits of the keyboard of the
  largest model, an i32 is four bytes, a byte holds the numbers of the items given,
  and the ranges swept are not too wide for an i32.

| Module | Theorem | Property |
|---|---|---|
| `SpnavStreamProofs` | `TypeCorrect` | `TypeOK` |
| | `ModeAlwaysAgrees` | `ModeAgrees` |
| | `FramesAlwaysWhole` | `FramesWhole` |
| | `EventsStayInOrder` | `EventsInOrder` |
| | `GivesUpNoEarlier` | `NeverGivesUpEarly` (action) |
| | `ImplementsChannel` | `DeliversInOrder` (refinement) |
| `SpnavSessionProofs` | `TypeCorrect` | `TypeOK` |
| | `StringsAlwaysWhole` | `StringWhole` |
| | `AlwaysInStep` | `InStep` |
| | `CacheAlwaysConverges` | `CacheConverges` |
| `SendPathProofs` | `TypeCorrect` | `TypeOK` |
| | `PacketsAlwaysWhole` | `PacketsWhole` |
| | `StringsAlwaysWhole` | `StringsWhole` |
| | `LastStringAlwaysHeld` | `LastStringHeld` |
| `MagellanProofs` | `TypeCorrect` | `TypeOK` |
| | `AlwaysTakenSoon` | `TakenSoon` |
| | `ReadsAreTimely` | `TimelyReads` (action) |
| | `ImplementsChannel` | `EventsInOrder` (refinement) |
| | `ButtonAlwaysTold` | `ButtonTold` |
| `SourceProofs` | `SourceTypeCorrect` | `SourceTypeOK` |
| | `TakesTheBestRoute` | `BestRouteTaken` (action) |
| `HidRouteProofs` | `TypeCorrect` | `TypeOK` |
| | `ButtonsAlwaysTold` | `ButtonsTold` |
| | `ButtonsAlwaysAlternate` | `ButtonsAlternate` |
| | `PlaceAlwaysTold` | `PlaceTold` |
| | `ReadingsStayInRange` | `ReadingsInRange` |
| `ConversionsProofs` | `ScalingAlwaysSound` | `ScalingSound` |
| | `NothingComesBack` | `NeverComesBack` (action) |
| | `ButtonsAlwaysCounted` | `ButtonsCounted` |
| | `RangesAlwaysAsDeclared` | `RangesAsDeclared` |
| | `DifferencesAlwaysExact` | `DifferencesExact` |
| | `SettingsAlwaysSurvive` | `SettingsSurvive` |
| | `TextAlwaysAsAnnounced` | `TextAsAnnounced` |

None of the properties that matter is inductive by itself. What each rests on:

**The stream.** A chain of inductive invariants, each on top of the one before:

1. `TypeInv` = `TypeOK`, `Layout` and `Opening`. `TypeOK` needs to know that a
   packet takes up a definite stretch of the stream, so that `Total` is a number
   (`Layout`: packet *k* begins where *k* - 1 packets after the answer end), and
   that during the handshake nothing has been read past the answer and the
   socket has the handshake's timeout (`Opening`).
2. `ModeInv` adds `ModeWait`: only deadlines have a duration. Without it
   `SocketFor` would not tell the modes apart. `ModeAgrees` gives the socket's
   options in every state: those of the cached mode, but after a `set_mode` that
   failed half way out of the non-blocking mode (`halfway`) those of the blocking
   one. That is where `stream_poll` finds its blocking `poll`.
3. `FrameInv` adds `Aligned`: on a clean connection the client stands `filled`
   bytes into the packet after the last it decoded. `Aligned` is what makes
   `PacketAt` find that packet and no other (`NextPacket`).
4. `OrderInv` says that what the application has, followed by the queue, is the
   increasing sequence of the events among the packets decoded, and that no
   read is under way while the queue is not empty (`QueueFirst`): without that,
   an event just read would overtake the queue. From it every step is one of
   `EventChannel`, or nothing to it.
5. `WaitInv` says that a call has lasted as long as its last read, and that the
   mode of a call with a limit holds that limit. Together with `ModeInv` the
   timeout of the socket is the call's own, so a read that comes back with
   nothing has waited it out (`QuietWaited`), and nothing else makes such a
   call give up (`QuietReturns`).

**The session.** `SessionInv` has, besides `TypeOK` and `StringWhole`:
`Stream` and `ReaderIs`, what follows a packet of a string on the way, or in the
reader, is the rest of that string; `Steps`, while nothing has timed out the
request is on its way and nothing else is (`Unanswered`), or its answer is from
the packet on that the reader is at (`Answering`), and between the calls nothing
is (`Quiet`); `Fresh`, a refresh during which no device event was announced is
about one device from its first query on. `Answering` is stated for any sound
refresh too, whatever was before it, since one that comes after a timeout and
succeeds is what `CacheConverges` is about.

**The writing side.** `WireInv`: from the packets the daemon has taken, through
its part of one and the bytes in the socket, to where the client writes, each byte
follows the one before it (`Chained`). So when the daemon has a packet's worth of
bytes they are of one packet, the next. `StringInv` gives each packet begun an
origin, a setting, a text and a piece of it, such that the bytes on the way, the
packets left to the call in progress and the readers of the daemon are of these
(`Good`). The origins are quantified: they are in no variable.

**Magellan.** `TypeInv` has what connects time and the sleep (`Times`: what has
passed and the sleep that is left are within the limit, and what has been waited
and the sleep that is left within a step), which is `TakenSoon`. `LineInv`: what is
handed out or queued is what was carried of what was taken, in its order.
`ButtonInv`: a button is down just if the last the server sent of it was a press,
and a driver is asked once, before it has sent anything.

**The choice of a route.** `SourceInv` adds to the invariant of Magellan, whose
steps it goes over again, what the display knows of a driver (`DisplayKnows`: the
one that runs is the last one started, and its names are interned before its window
has a name), and that as long as a driver has answered since `connect` began, the
client that asks has found the names it asked for and, past the root property,
the right window (`OnItsWay`).

**HID.** `RouteInv`: the events that wait take the application from the buttons
it has down to those of the last report read, one event for a button at most and
each of them news (`Waiting`); what was last told is what the places of both groups
read at the sensitivity last applied (`Placed`). From the last of these
`ReadingsInRange` is arithmetic: within a range whose width 32 bits hold nothing
wraps, the quotient is between nought and the width of `RANGE`, and turning and
scaling keep to both sides of nought alike.

**Conversions.** `InputIs` says what an input is: of keys, those told are the
ones whose bits are set, each once (`KeysTold`); of packets, the reader has what
the words from some first packet on have brought (`Pushed`). The numbers of the
tables are read off stretch by stretch (`SpreadIs`); scaling and rounding are
monotonic by lemmas about the quotient that rounds towards zero
(`HidDecoderProofs`).

**Descriptors.** `AxesAsDeclared` is about every sequence of items whose numbers fit
their sizes (`AnyItem`), of which the inputs of `MCConversions` are some. It takes
`AsRead` apart by what the *n*-th item leaves in force: the page, the ends of the
range, the usages and the span (`ReadAt`) are each told from the items up to it, and
the range of an axis from the last input for it (`LastInput`), one lemma per field and
kind of item. `DifferencesExact` follows from it: ends of less than four bytes are
within a word's width of nought (`EndsNarrow`), so that no difference of them and a
number of two bytes leaves the numbers of four.

Induction over data is needed in two places, the events of a button report
(`ButtonEvents`) and the items of a descriptor (`AsRead`), both recursive functions:
it is there the absence of a least counterexample, a set of numbers that is not empty
having a least element (`LeastOf`), since the provers cannot apply the library's
theorems of induction, which take an operator. Each step lemma has a case for each action.
The invariants were checked by TLC first, on the instances above, but for `StringInv`,
which quantifies over all sequences of origins. The theorems are
about `Spec` of each module, of which the runs' specifications with fairness are a
part.

**Only model-checked:** liveness (`TimedCallsReturn`, `BlockedReadWakes`,
`CallsReturn`, `ReadsReturn`, `SendsReturn`, `Reconnects`), which is out of the
provers' reach.

## 5. What is not modelled

Events carry no data beyond their type and whether `decode_event` accepts them.
Word order, floats and the text of strings and errors are left out; a string is
bytes. In `SpnavStream` every request is answered by one packet, and strings are
the matter of `SpnavSession` and `SendPath`; there the failures of `set_mode` are
left out, which on a connection that is gone end in `Disconnected` like the read
after them. `SendPath` has the reads' modes and none of their bytes. Of
`config.rs`, `axis_map` passes a word on, and `save`, `restore` and `reset` are
requests without an argument; the rest is modelled as conversions or strings.

`socket_path` and `configured_socket` read the environment and a file once and
keep no state. `as_raw_fd` is a number; whether the descriptor is readable says
nothing of a queue that a request, or the display library's own buffer, has
filled, but no loop that waits on it is in this code.

In the HID route, the tables of `is_puck` and `swaps_yz` are left out: whether y
and z are swapped is a constant, and so is the range, `axis_ranges` being checked
by itself. Long items of a descriptor are passed over by the code and are not
in the model, nor is a descriptor that is cut off within an item. In `HidRoute`
all axes have one range. The period of a motion is left out. Where a number does
not fit 32 bits the model wraps, as a release build does; that a debug build panics
there is not a step of it. It does not come to that for ends of less than four bytes
(`DifferencesExact`); with ends of four a least of -2^31 is enough. The ranges an
application may make up for `with_ranges` are not modelled. A report with an axis missing, which the code passes over, is one that gives
nothing. Until the first report of a group its axes are at the device's nought
(`raw` begins at zero), and the model takes that for the place of the puck; a
device whose range does not take nought to nought would show a deflection there.

In `Magellan` an event is its kind, the data of a motion and the format of a
message are left out, and the device has one button. What follows a lost server
is an error in the next call. In `Source` the error that a failed `connect`
returns, and the methods that forward a call or answer for a route that has no
such thing, are left out.

## 6. The plan

1. Done: `EventChannel`, `SpnavStream`, `SpnavSession`, `HidDecoder`, `HidRoute`.
2. Done: `StringTransfer` and `SendPath`; `Magellan` and `Source`; `Settings`,
   `ReportDescriptor` and `MCConversions`.
3. Done: the proofs of section 4.
4. Done: the proof of `RangesAsDeclared`, with `axis_ranges` as a recursive function of
   the number of items read.
5. Done: the arithmetic of `motion` at its width, with `DifferencesExact` and
   `ReadingsInRange` checked and proved.
6. Left: a range of its own for each axis in `HidRoute`, and what the fake daemon's
   reader makes of spliced packets after a cut.
