# Verification of compression-detection

TLA+ models, TLC runs and TLAPS proofs for the compression detector in `src/`.
A client sends two trains of UDP datagrams, one of zero bytes and one of random
bytes; a link that compresses passes the first train faster than the second.
The *cooperative* application (`compdetect_client`, `compdetect_server`) times
the trains at the server. The *standalone* application (`compdetect`) has no
server: it brackets each train with two TCP SYNs to closed ports and times the
RSTs that come back. All three programs read their parameters from a JSON file
(`myconfigs.json`); the server gets its text from the client over TCP.

`README.md` with a line number is the program's, `src/README.md`.

## 1. Inventory

| component | state | operations | talks to |
|---|---|---|---|
| `compdetect_client.c` | program counter, loop counter, the sleep it is in | read and parse the configuration; connect, send it, close (`pre_probing`); `sleep(1)`; send the low train, `sleep(inter_measurement_time)`, send the high train (`probing`); `sleep(udp_timeout + 1)`; connect, receive and print the verdict (`post_probing`) | server over TCP twice and over UDP |
| `compdetect_server.c` | program counter, parsed configuration, two pairs of timestamps, loop counters, the verdict | listen, accept, one `recv`, close both sockets, parse (`pre_probing`); bind UDP with a receive timeout, receive up to `udp_train_size` datagrams or time out, twice, compare (`probing`); listen, accept, send, close (`post_probing`) | client |
| `sockets.c` | kernel sockets: listening queue, connections, UDP receive buffer | thin wrappers around the socket calls; `receive_stream` is one `recv` of at most 1024 bytes, `receive_packet` returns NULL on EAGAIN | all programs |
| `compdetect.c` (standalone) | main thread: program counter; receive thread: `tail`, `high_e_train`, four timestamps, `beg`, `curr` | `send_low_entropy_train`, `send_high_entropy_train`, `receive_routine` | a host that answers SYNs with RSTs; the two threads share `thread_data` and are joined |
| `headers.c` | none | build a SYN with IP and TCP checksums | standalone |
| `util.c` | none | `read_file`, `set_packet_id`, the payloads, `time_diff_milli`, `time_diff_sec` | all programs |
| `cJSON.c`, parsing | parse buffer and offset, the C stack of a recursive descent, a tree of items and strings on the heap | `cJSON_Parse` with `parse_value`, `parse_array`, `parse_object`, `parse_string`; `cJSON_Delete` when it fails; `cJSON_GetObjectItem` | the three `parse_config` |
| `cJSON.c`, the rest | | printing, creating and editing trees: called by none of the programs | |
| configuration | the text, the three `configs` structs | `read_file`, the three `parse_config`, `send_stream` and `receive_stream` of the text, the first use of the addresses | parser, client, server, standalone |
| `logger.h`, `Makefile` | none | debug output, build | |

What is hard here. The two programs share no protocol state: nothing but time
tells the server which train a datagram is from, and nothing but time makes the
client find the server listening. The same TCP port serves the configuration
and, later, the verdict. Datagrams are lost, late, duplicated and reordered,
and all count alike. Only the UDP socket has a timeout; every `accept` and
`recv` on TCP waits for ever. A process may be killed, or return on any failed
call, between any two steps. In the standalone program two threads run, and
RSTs are told apart by their order alone. The text of the configuration has no
end: `read_file` appends no NUL to what it allocates, and the server takes what
one `recv` returns for all of it. Any allocation of the parser may fail, at any
depth, and what it has built by then is held by a chain of C frames. The two
passes of `parse_string` disagree on where an escape sequence begins, and the
second writes without looking at the end of its buffer.

What makes each component correct:

* client and server together: a verdict shown was computed from this run's
  configuration and datagrams; each window holds datagrams of its own train;
  jitter below the threshold is not reported; the measurement ends and is shown;
* server: a loop ends whatever the network does, and no step uses a
  configuration or a verdict that is not there;
* client: it never waits for ever on a server that is gone;
* standalone: each timestamp belongs to the RST it is taken for; a verdict rests
  on four initialised timestamps; the program ends, and says "insufficient
  information" when RSTs are missing and only then;
* packets: a receiver accepts both checksums of every SYN, checksum() ends, and
  an id comes back as it was sent;
* parser: it never reads behind its buffer or writes behind the one it
  allocates; every block is freed once or returned, wherever it fails; it returns
  what it has read, and refuses no JSON but for its depth, for want of memory, for
  a number of more than 63 characters or for half a surrogate pair;
* configuration: the server works with the client's values or not at all;
* time differences: cutting to milliseconds or seconds never makes a verdict or
  a timeout wrong by more than the threshold allows for.

## 2. Plan

| step | modules | what | state |
|---|---|---|---|
| 1 | `Network`, `Client`, `Server`, `Cooperative` | the cooperative application, safety and liveness | done |
| 2 | `Detection` | what a detector promises, implemented by `Cooperative` and `Standalone` | done |
| 3 | `CooperativeProofs`, `Separation`, `MeasurementProofs` | type correctness; the README's timeout rule separates the trains | done |
| 4 | `Refinement`, `RefinementProofs` | `Cooperative` implements `Detection`, for all constants | done |
| 5 | `Standalone`, `StandaloneProofs` | both threads of `compdetect.c`, the RSTs, the timeout; it implements `Detection` | done |
| 6 | `Packets`, `PacketsProofs` | SYN, checksum and datagram ids | done |
| 7 | `StringLiteral`, `StringLiteralProofs` | `parse_string` byte by byte | done |
| 8 | `Parser`, `ParserProofs` | the rest of the parser: a pushdown machine over a heap of items, with failing allocations and deletion | done |
| 9 | `Configuration` | the three `parse_config` on what `Parser` leaves of a text without an end, or of one that `recv` cut; it composes the parser with file, network and lookups; its theorems are at the end of `ParserProofs` | done |
| 10 | the same proof modules | theorems on restarts (`CrossWaitNeedsRestart`, `OwnMeasurement`) and on the standalone timing (`NoFalseDetection`, `NoFalseFailure`) | done |
| 11 | `Measurement`, `MeasurementProofs` | what both receiving loops measure, as theorems: `NoLowInHigh`, `WholeTrainStarvesSecond`, `NoFalseDetection`, `ServerOpenInTime`, `WholeMeasurement`, `SecondTrainAwaited` under explicit assumptions on times and failures | done |
| 12 | `PacketsProofs`, `StringLiteralProofs` | what the loops compute: both checksums of a SYN are accepted, escape sequences become UTF-8 | done |
| 13 | `TreeProofs` | `Faithful`: the tree says what was read of the text; `ServerAgrees`: the client and the server read one tree | done |
| 14 | `ParserProofs` | `Complete`: which JSON is refused, and why | done |
| 15 | `StringLiteral`, `StringLiteralProofs` | `TakesJson`: the same for literals, byte by byte | done |

## 3. Modules and how they correspond to the code

**`Network`** is the kernel and the path as `sockets.c` uses them. A TCP
connection is named by the client run and the phase that opens it. Its record
holds both ends' states and the bytes nobody has read: `Dial` is `connect`
(which succeeds as soon as the kernel queues the connection), `OpenListener` is
`bind_and_listen`, `Accept` is `accept`, `ClientHangUp` and `ServerHangUp` are
`close` or the death of the process, with a reset for queued connections and
for unread data. A datagram carries the run and train that sent it, its id and
its age; the server never looks at them, the properties do. `Arrive` puts it in
the bounded receive buffer, or drops it when the buffer is full or the port
unbound; `Lose` and `ArriveTwice` are loss and duplication. Reordering needs no
action: any datagram in flight may arrive next.

Time is counted in ticks. `ctimer` is what is left of the client's sleep or of
a `sendto` that blocks, `stimer` what is left of the server's `SO_RCVTIMEO`.

**`Client`** and **`Server`** have one action per call that blocks, sends,
receives or sleeps; `cpc` and `spc` name that call. `ServerExit`/`ClientExit`
end the process and let the kernel close its sockets. `ClientAbort` and
`ServerAbort` are every `return -1`/`return NULL` path that ends in
`EXIT_FAILURE`, and a kill. The server's `win` holds, for each receiving loop,
the two `struct timeval`, the loop counter and, for the properties only, the
sources of the datagrams counted. `"none"` stands for a `result` that was not
computed yet. `Outcomes` is the calculation at the end of `probing`: a loop that
received nothing leaves its timestamps uninitialised, so the comparison may go
either way. `ReceiveConfig` is one `recv`: it may return nothing (the client
closed) and, when `Faults`, a prefix; neither parses, `cJSON_GetObjectItem`
returns NULL and `parse_config` dereferences it, so the process dies.

**`Cooperative`** composes them, adds the passage of time (`Tick`), the path
(`Deliver`, `Duplicate`), the user and the operator (`RunClient`, `RunServer`)
and states the properties. The client is only run against a running server, as
README.md asks.

**`Detection`** is the abstract detector: idle, low, high, measured, decided,
shown. `Cooperative!Detector` is the refinement mapping.

**`Separation`** is the inductive invariant of `NoHighInLow`, **`Refinement`**
that of `ImplementsDetector`, **`Measurement`** those of the six properties of
what the two receiving loops measure.

**`Standalone`** has the state of both threads of `compdetect.c`. `mpc` names
main's next call and `mtimer` the time until its sends or its `sleep` are over;
`rpc` names the next step of `receive_routine`, with its flags `tail` and
`high_e_train`, its four timestamps (`stamp`, which also remembers whose RST was
timed) and its timeout clock (`beg`, `curr`). `Test` is the `while` condition,
`ReceiveRst` and `ReceiveOther` the loop body for one segment, `Conclude` what
follows the loop, `Join` the `pthread_join` and the `printf`. A SYN, the closed
port and its RST are one round trip in `flight`, which may be lost, take up to
`MaxDelay` ticks and, if `Reorders`, be overtaken; `Chat` is any other TCP
segment the raw socket sees, a RST among them if `Strangers`. The datagrams of a
train are the time their sending takes (`MaxTrain`): this program does not
receive them. `pthread_create` can fail unnoticed (its errors are positive,
the code tests for negative ones), and then `result` is never set. Its `Stage`
maps it to `Detection`; `Insufficient` is the one member of `Failures`, which
is empty for the cooperative application.

**`Packets`** is `headers.c` and the ids of `util.c`. Memory is a sequence of
`uint16_t` as a little-endian host reads them, so `Htons` swaps the bytes as the
function does. `FillHeaders` is `create_syn_packet` up to its first call of
`checksum`; `Accumulate` and `Fold` are one turn each of the two loops, `Store`
the complement and the assignment, TCP first as in the code. `IdBytes` is
`set_packet_id`; `ReadId` is the server's `payload[0] << 8 | payload[1]`, where
`CharSigned` says whether `char` is signed.

**`StringLiteral`** is `parse_string`. `MeasurePlain` and `MeasureEscape` are
the turns of its first loop, which looks for the closing quote and counts what
escape sequences will save; `Allocate` takes what remains; `CopyPlain`,
`CopyEscape`, `CopyCode` and `CopyPair` are the turns of the second, with
`parse_hex4` and `utf16_literal_to_utf8` in full. `skipped` remembers the count
at each position, for the proof. `JsonLiteral`, `Escapes` and `Paired` belong to
the property `TakesJson`: the literals of RFC 8259, told from the bytes alone
and not by going through them as the code does (a backslash begins an escape
sequence if the number of those in front of it is even).

**`Parser`** is the rest of `cJSON_Parse`. Its text is a sequence of tokens: a
token is what one read takes, a character, a literal or a number. What JSON has
and this parser does not are tokens too: `Lone` is a literal of JSON with half a
surrogate pair, whose end `parse_string` finds, for which it may allocate, and
which it then refuses; `More` is the rest of a number whose first 63 characters
`parse_number` has taken. `Derived` is the grammar of JSON over all of these,
so that `Complete` has to name each reason for which JSON is refused. That
`parse_string` takes the other literals is `TakesJson`; that `strtod` takes a
number of at most 63 characters is assumed. `stack` has a
frame for each `parse_array` and `parse_object` that is running, with the two
local variables that hold its list, so its length is `input_buffer->depth`.
Whitespace is skipped as `buffer_skip_whitespace` does it, with its step back at
the end of the buffer, and not at all where the code does not call it. The heap
is two functions from addresses to blocks; an address is never used again, so
that a pointer to a freed block stays visible as one. `Starve` is an allocation
that returns NULL, `Refuse` every other `goto fail`, `Unwind` the `fail:` labels
of the frames, one at a time, `DeleteChild`, `DeleteItem` and `DeleteReturns`
the loop and the recursion of `cJSON_Delete`. `starved` and the slots of
`OneOwner` belong to the properties. What is after the value is not looked at,
as in the code. `global_error` is left out: nothing reads it. `Significant`,
`Rendered`, `Derived` and `Nesting` belong to the properties too: the tokens
that are not blank, the tokens a tree spells, the phrases of a grammar of JSON
and how deep they are nested. All four are recursive functions, not recursive
operators, since the proofs are about them.

**`Configuration`** composes the parser with the programs. `ReadFile` parses
  what is in the buffer up to the first NUL, and as nothing puts one behind the
  file, the text goes on with whatever the memory holds (`Garbage`), which may
  also lengthen its last token (`Continued`). `LookUpPointer` and `LookUpNumber`
  are the lines of the three `parse_config`, in their order, with `atoi` and the
  conversion to `uint16_t`; a NULL that is dereferenced or passed to `atoi` is a
  crash. `Found` is `get_object_item`'s walk along the list. `SendStream` sends
  `strlen` bytes of the unterminated buffer again, and `ReceiveStream` is the
  server's one `recv` into a cleared buffer: any prefix, cut inside a token
  (`CutShort`) or not, and with no end if it fills the buffer.
  `Server!ReceiveConfig` leaves open whether that is a configuration or nothing
  usable; `ServerAgrees` shows that there is no third outcome, but for a text
  that is longer than the buffer and fills it: the memory behind may then
  complete it with other values, which `Server` leaves out.

Operators whose comment begins with "Defect:" are not part of the model. Each is
a plausible bug in the definition that follows it; substituting it breaks a
property, which shows that the property depends on that code.

### Assumptions that are constants

`Prompt` says that a process or thread that can run does so before the clock
moves: the programs are fast compared with a tick. Where it is FALSE they may be
arbitrarily slow. `Lossy`, `Duplicates` and `Faults` switch the environment's
freedom, `MaxDelay` bounds a datagram's delay and `MaxGap` how long one `sendto`
blocks. `Second` is the length of `sleep(1)`, and the least time the user needs
to run the client again; in `Standalone` it is also what `time_diff_sec` cuts
to. `Milli` is the length of the millisecond `time_diff_milli` cuts to. The two
are independent constants: in the runs a millisecond is one or two ticks and a
second two, since a thousand ticks per second are out of TLC's reach and
neither cut depends on the other.

## 4. What the runs show

| run | configuration | question and answer |
|---|---|---|
| `readme_rule` | timeout 6, pause 10, 3 datagrams, loss, jitter | Does the README's rule for `udp_timeout` do its work? The windows never mix the trains, jitter up to the threshold is never reported (the bound is exact: `>=` instead of `>` breaks it), and the server listens when the client dials. But a first train that arrives whole starves the second window. `Separated` is the inductive invariant of the first. |
| `readme_live` | the same, 2 datagrams, duplicates, fairness | Whatever is lost or duplicated, a measurement once begun is completed and shown; the application implements `Detection`, with its liveness. `Understood` is the inductive invariant of the safety part. |
| `readme_advice` | the same, no loss | **Violation.** `README.md:19` asks for a timeout shorter than the pause "but not too short that the socket times out before the second train can be sent", 3/5 of it. Without loss the second loop starts as soon as the first train is in, times out, and the verdict is computed from uninitialised timestamps before the second train is sent. |
| `long_timeout` | timeout 14 > pause 10, no loss | With a timeout longer than the pause both trains are measured whole, so the second loop has waited for its train. The README forbids it because of the lossy case (`NoHighInLow`): no choice is right for both. |
| `restarts` | 2 client runs, 2 servers, duplicates, any call may fail, fairness | No verdict shown belongs to another run; the programs wait for each other on one connection only after a restart of the server; the server always leaves its receiving loops; until a second server is started every client run ends. |
| `rst_order` | RSTs in order, losses, other segments, failing calls | A verdict rests on the four RSTs it should; a timeout that outlasts the pause and a train never cuts a complete measurement; jitter up to the threshold is never reported. |
| `rst_busy` | RSTs overtake each other, foreign RSTs, fairness | On a host that other segments keep reaching the program always answers, and it implements `Detection` whatever RSTs come. |
| `rst_quiet` | no other segments, losses, fairness | **Violation.** `README.md:59` says the thread "continuously checks to see if its timer has passed", and `notes.txt` that it stops. The check comes after a blocking `recvfrom`: with one RST lost and nothing else arriving, the program never answers. |
| `packets` | 1944 SYNs, 19 ids around 0, 128, 256, 32768 and 65536 | A receiver accepts both headers; the sum is kept modulo 65535 and the loops end; the id is on the wire. |
| `packet_ids` | the same | **Violation.** `README.md:55` says the server "is able to parse the UDP packet ids". With a signed `char` an id whose low byte is above 127 is misread. |
| `literals` | every literal of up to 4 of 6 bytes, every 3 of 20 escape sequences, closed or not | `parse_string` never writes behind its buffer, makes UTF-8 of ASCII, and refuses a literal of JSON for want of memory or for half a surrogate pair, and only then. |
| `configs` | 5,600 files, read by the client and by the standalone program, each with and without garbage behind it, any allocation failing, any cut by `recv` | The parser stays in its buffer, gives back every block once, returns what it read and refuses no JSON but for the four reasons of `Complete`; the server takes up its work only with the client's values. |

`OwnMeasurement` needs `Prompt`: with arbitrarily slow processes a client can be
killed after it sent its configuration, and the next run's connection can queue
behind it before the server closes its listener; the server then times the
second run's datagrams under the first run's configuration.

`OwnRsts` needs RSTs in order and no foreign ones: the code never looks at ports,
and `README.md:57` says that it assumes the order. `rst_busy` shows what is left
without it. A RST that comes after `rst_timeout` on a quiet host is still
accepted, because the timeout is looked at only after `recvfrom` returned and
the RST itself restarts it; `rst_quiet` shows the end of the same delay.

Bounds. Trains of 2 or 3 datagrams distinguish the first, a middle and the last
datagram; with one datagram (runs about crashes) the two loops still start, end
and time out separately. Two runs of each program are enough for every pair of
phases to meet: connections are FIFO and a third run (tried, 1.2 million states)
adds nothing. The ratios of pause, timeout, delay and second follow
`myconfigs.json` (15 s, 8 s, 1 s): timeout + delay < pause, and the train's
spread is below the timeout. In `readme_rule` and `readme_live` the receive
buffer holds a single datagram, so that it does overflow while the server has
not yet taken one out; where nothing may be lost it holds a train. In
`Standalone` other segments come one at a time (`Chat`): each is taken out and
forgotten, so a second one in the buffer only repeats the turn of the loop. Time
stops when nobody waits for it (`Awaited`), which keeps the state space finite.
In `Packets` the sequence numbers are chosen so that the sum lies just below, at
and above the values whose fold carries a second time.

In `literals` three sequences in a row are enough because the second pass is out
of step with the first for at most one of them, and a literal of one sequence,
or of a pair, is the longest it reads at a time. In `configs` (2.1 million
states) the short files are every text of up to three tokens behind a bracket
and every three tokens between two pairs of brackets, over twelve tokens that
include an unclosed literal, a literal with half a surrogate pair and the rest
of a number that is too long; the nesting limit of 2 is reached and exceeded by
them. The long ones are the configurations the programs ask for and variants
that miss a key, repeat one in capitals, have a value that is no string, a bad
address, text behind the object, or more text than the server's buffer of 44
tokens, which is above the length of a complete configuration as 1024 bytes are
above that of `myconfigs.json`. `ServerAgrees` leaves one case out, `cutOff`: a
text longer than the buffer that fills it ends nowhere, and the garbage behind
can complete it. That is the one case in which the server can work with other
values than the client's. What the files do with a buffer that has no end is not
left out: if the client itself read beyond the file, there are no client's
values to agree with (`clientRead`).

`CHECK_DEADLOCK FALSE` is said once, where the program really may stop: in
`rst_quiet` the thread waits in `recvfrom`.

Fairness (`Fairness`): processes and threads are scheduled, the path delivers or
drops what it carries, time passes. Nobody has to start a program, and failures
are never forced. Weak fairness is enough because none of these steps is
disabled again by another party once it is enabled for good. `Standalone` adds
that other segments keep coming on a host that has any, which a host with one
TCP connection in use grants. `rst_busy` has `Prompt = FALSE`: with it TRUE,
endless segments within one tick could keep the clock from moving, which is an
artefact of the tick.

## 5. What is proved

All for every value of the constants that the modules' named assumptions allow.

* `CooperativeProofs!TypeCorrect`: `Spec => []TypeOK`. `TypeOK` is inductive; it
  includes that a loop in progress has counted fewer than `udp_train_size`
  datagrams, that the server is never past `parse` without a configuration, and
  that it never sends an uncomputed verdict.
* `MeasurementProofs!TrainsSeparated`: with one run of the client, `Prompt` and
  the README's rule (`TimeoutRule`, with the slack for the delay made explicit),
  `Spec => []NoHighInLow`. `NoHighInLow` is not inductive. `Handshake` says that
  the configuration travels from the client to the server's `bind` in no time,
  on the first connection, so the loop is never entered late; `Timing` says that
  during the client's pause every datagram in flight is as old as the pause is
  long, so the timeout was restarted at most `MaxDelay` after the pause began;
  at the end of the pause the timeout must have expired (`SleptLongEnough`);
  `HighIsLate` carries that to every later state. The run `readme_rule` checks
  `Separated` without restarts, failures or duplicates; that it survives them
  rests on the theorem. `SeparationInvariant` is `Spec => []Separated` itself.
* `MeasurementProofs!LowTrainIsLeftBehind` and `SecondLoopStarves`: with the same
  assumptions, no duplicates, and a timeout longer than the sleep before the
  first train, the sending of it and one delay (`Distinct`),
  `Spec => []NoLowInHigh` and `Spec => []WholeTrainStarvesSecond`. The invariant
  `Told` counts: while the first loop runs, what it has counted, what is in the
  buffer and what is in flight are together no more than what was sent
  (`LowLoop`), so when it has counted a whole train nothing of that train is
  left; and if it times out instead, its last restart is older than any low
  datagram can be. `HighLoop` carries that to the second loop. `Starved` says that
  after a whole first train the second loop waits while the client sleeps, with
  less of its timeout left than of the sleep.
* `MeasurementProofs!JitterIsNotReported`: under `Distinct`,
  `Spec => []NoFalseDetection`. `Spread` bounds, for every high datagram on its
  way, how long ago the loop noted its first one, by when the datagram was sent
  and how old it is; cutting both instants to milliseconds cannot add one.
* `MeasurementProofs!VerdictIsReady`: with one run, the README's rule, no failing
  call, and delays below the second that `main` adds to `udp_timeout` (`OneRun`,
  `Calm`), `Spec => []ServerOpenInTime`, with losses and duplicates. `Handed`
  follows the first connection until the server has the configuration; `InTime`
  says that during the client's last sleep every datagram in flight is as old as
  the sleep, so that the second loop's timeout ends before the sleep does.
* `MeasurementProofs!TrainsAreMeasuredWhole` and `SecondLoopWaits`: with one
  run, a path that neither loses nor duplicates, a buffer that holds a train, no
  failing call (`Reliable`), and a timeout that outlasts each of the client's
  pauses by a delay (`Patient`), `Spec => []WholeMeasurement` and `Spec =>
  []SecondTrainAwaited`. `Whole` says that what a loop counted, the buffer and
  the path hold together exactly what was sent (`Counting`), that all of it is
  from its own train (`OwnTrain`), and that the timeout cannot end while
  something is still to come (`Pauses`). The constants of `readme_rule` satisfy
  `Distinct` and `OneRun /\ Calm`, those of `long_timeout` satisfy `Single /\
  Reliable /\ Patient`: the hypotheses are those of the runs, made explicit.
  Under the README's rule `Patient` fails, under a patient timeout `TimeoutRule`
  does: the two groups of theorems together are the dilemma that `readme_advice`
  shows on one instance.
* `CooperativeProofs!NoCrossWait`: `Spec => []CrossWaitNeedsRestart`, with no
  assumption at all. `FirstServer` says that the first server accepts only a
  first connection before it has its configuration, whoever is killed when.
* `CooperativeProofs!VerdictIsOwn`: with `Prompt` and `MaxDelay < Second`
  (`Sharp`), `Spec => []OwnMeasurement` for any number of runs, crashes and
  restarts. Some server may still hold another run's configuration (`Stale`);
  the invariant `StaleServer` says that it then hears nothing of the present run
  but its first connection, gives its verdict to that, where the client does not
  read it, and is gone before the next tick unless the client has failed. It
  rests on `Rested`: in the second the user needs to run the client again, the
  last run's datagrams, connections and configuration have all come to their
  end. `CurrentRun`, `OwnDatagrams` and `OwnAnswers` follow a configuration, a
  datagram and a verdict from there.
* `RefinementProofs!CooperativeImplementsDetector`: with one run of each program
  and no failing call (`OneMeasurement`), `Spec => ImplementsDetector`, with no
  assumption on speed or timing. What has to be shown is that `Show` shows what
  was decided: the first `accept` takes the connection that carries the
  configuration (`QuestionFirst`), the second connection is never closed in an
  orderly way without the verdict (`AnswerIsVerdict`), and so the client never
  prints an empty answer (`PrintedIsVerdict`). Together: `Understood`,
  and `ProgramsUnderstand` is `Spec => []Understood` itself.
* `StandaloneProofs!StandaloneTypeCorrect`: `Spec => []TypeOK`, which says which
  of the four timestamps the two flags promise to be initialised.
* `StandaloneProofs!RstsAreOwn`: if RSTs keep their order and none is foreign,
  `Spec => []OwnRsts`. `InOrder` is the inductive invariant: what was timed
  precedes what is buffered, that what is in flight, that what will be sent, so
  four RSTs received in a row can only be the four.
  `RstsKeepOrder` is `Spec => []InOrder` itself.
* `StandaloneProofs!NothingDetectedFalsely` and `NothingCalledInsufficient`: if
  moreover threads that can run do so within the tick (`Timely`),
  `Spec => []NoFalseDetection` and `Spec => []NoFalseFailure`, whatever is lost or
  fails. Both follow a RST that is still to come from main's pause over the path
  into the buffer and bound, stage by stage, how long ago the last one was noted
  (`Due`): `HighPaced` does so for the last two timestamps, `Patient` for the RST
  the timeout is running for, which is somewhere if nothing was lost.
* `StandaloneProofs!StandaloneImplementsDetector`: `Spec => ImplementsDetector`,
  for every path, other traffic and failing call. It rests on `LoopExit`: the
  loop is left with four timestamps or timed out, never both (`LoopIsLeft`).
* `PacketsProofs!PacketsTypeCorrect` and `IdsOnWire`: words stay 16 bits wide,
  stored ids are the low 16 bits of the id, high byte first, for every id.
* `PacketsProofs!FoldShrinks`: a turn of the folding loop makes the sum smaller,
  keeps it positive, and keeps it modulo 65535.
* `PacketsProofs!SumIsKept` and `SynIsAccepted`: `Spec => []SumKept` and
  `Spec => []ReceiverAccepts`, for all addresses, ports and sequence numbers. The
  inductive invariant is `Checksums`: the field that will hold a checksum is 0
  while its header is summed, and storing the complement there adds exactly what
  makes the sum a multiple of 65535 (`SumOfStored`, `Complemented`), also when all
  words are 0. What the recursive function `PartialSums` computes is proved by
  induction, which is a lemma about sets here (`Induction`: a set of numbers that
  holds 0 and the successor of each of its members is `Nat`), from the library's
  theorem that `<` is well founded.
* `StringLiteralProofs!LiteralTypeCorrect` and `LiteralNeverOverflows`: for every
  text, both passes stay inside it and what is written fits the allocation. The
  passes need not agree on where escape sequences begin; what saves the code is
  that the first counts at most every second byte as saved (`Saving`), so that
  whatever the second reads at a time, however aligned, holds as many uncounted
  bytes as it writes (`Room`).
* `StringLiteralProofs!LiteralYieldsUtf8`: `Spec => []YieldsUtf8`. At every step
  the output is UTF-8 (`WholeCharacters`), because each turn of the second pass
  writes one whole character: `Utf8Encodes` shows it of the tail of
  `utf16_literal_to_utf8` for every code point but the surrogates, which
  `CopyCode` excludes and `CopyPair` combines, and `Utf8Joined` that characters
  behind characters are characters.
* `StringLiteralProofs!LiteralsOfJsonAreTaken`: `Spec => TakesJson`, for every
  text. `Aligned` says that within a literal of JSON neither pass is ever at the
  second byte of an escape sequence, that the first ends at the literal's end,
  and that the halves of surrogate pairs in front of the second are pairs. It
  rests on `EscapesStep` (a backslash begins an escape sequence if and only if
  the byte before it does not), and on `UnitInLiteral`, which relates the number
  that `parse_hex4` returns to the digits that make a surrogate.
* `ParserProofs!NamesInBounds`, `BlocksHaveOneOwner`, `FailureLeaksNothing` and
  `ParserTypeCorrect`: for every text, nesting limit and failing allocation, the
  parser never reads a name behind its buffer, each live block is pointed to by
  exactly one of the pointers somebody will free it through, and nothing is left
  when it returns NULL. The invariant (`ParserInv`) is that of an ownership
  discipline: `Owned` says that the slots (local variables of running functions
  and fields of items, but not a `child` that is being deleted) point to the
  live blocks one to one. Each step then is one of four lemmas: a new block gets
  an owner, a block changes hands, an item goes and leaves its `next` to the
  pointer that owned it, or nothing changes (`NewOwner`, `MoveOwner`,
  `RemoveItem`, `SameOwners`). `ChainInv` says that the items being built, one
  per frame, are linked to nothing yet and younger from frame to frame, so that
  closing an array overwrites no pointer. One to one is not enough for
  `FailureLeaksNothing`, since a lost cycle would own itself; `Growing` says that
  links lead to younger items, so the oldest item left would have no owner.
* `ParserProofs!ValidTextIsParsed`: `ParserSpec => []Complete`. The invariant
  (`CompleteInv`) says that the parser is inside every derivation of every value
  the text begins with: for each such value, which ends at token `e`, there are
  places `E[i]` where the brackets of the running frames close (`Route`), and
  what the next step must find is a phrase of the grammar behind the tokens read
  (`Expected`), while the nesting of those tokens is the number of frames
  (`Place`). Then `Refuse` meets a token the grammar does not allow
  there, which cannot be, or `Lone` or `More`, which are excepted, or a bracket at
  the limit, which is nested too deeply. The grammar's
  phrases obey its rules because derivations of any depth do (`Phrases`,
  `PhraseFrom`); what a text with two derivations means is not asked here.
* `TreeProofs!TreeSaysText`: `ParserSpec => []Faithful`. While the tree is
  built, `TreeInv` marks each item with the frame whose list holds it, or as
  complete (`Marked`), and spells it with those behind it as far as they are
  finished (`W`, `Spelt`); what the text says up to the value that each frame is
  reading is made of these spellings, from the root inwards (`B`, `Beginnings`),
  and ends with the token read last (`ReadSoFar`). A finished tree has one
  spelling, and `Rendered` is it, since links lead to younger items (`ToldOnce`,
  `RenderedIs`).
* `TreeProofs!ServerTakesClientsValues`: `Spec => []ServerAgrees`, for every
  file, memory behind it, buffer size, nesting limit and cut. It has three
  parts. The items keep what their types promise (`KindInv`), so that the tree
  is one of a language in which no tree's tokens are the beginning of another's
  (`Language`, `OneTree`): a text begins with one tree at most. Two trees of the
  same tokens answer every lookup alike, wherever they lie in memory (`Twins`,
  `SaysOnce`). And what a text holds up to a closing bracket survives `strlen`,
  the cut by `recv` and what lies behind a buffer (`Holds`, `Echoes`), so both
  programs parse the same tokens or the server parses no object at all.
  `AgreeInv` follows the text from the file to the server: `FileText`,
  `ClientReads`, `SentSays`, `ServerHears`, and what both have taken from it:
  `ClientKnows`, `ServerKnows`. The exceptions of `ServerAgrees`, a full buffer
  and a client that read beyond its file, are those named above.
* `Config...` in `ParserProofs` and `TreeProofs`: the parser's theorems in the
  composition, for every file, garbage, buffer size and cut, because every text
  that is parsed consists of tokens (`Texts`).

What `Significant`, `Rendered`, `Derived` and `Nesting` compute for every text is
proved by induction as in `PacketsProofs`: a recursive function is a `CHOOSE`, so
first a function that satisfies the recursion is shown to exist
(`BoundedRecursion`, `NatRecursion`).

Every invariant and every action property that a run checks is stated by a
theorem. Only model-checked is liveness under fairness, which the prover cannot
express (`MeasurementCompletes`, `ImplementsLiveDetector`, `ProbingEnds`,
`ClientEnds`, `Answers`, `ChecksumEnds`). No run has a
cooperative application with `Prompt = FALSE`: that its programs may be
arbitrarily slow is covered by the theorems alone.

## 6. Not modelled, and why

The printing, creating and editing functions of cJSON, about two thirds of the
file: no program calls them, so there is no behaviour of this repository to
model. The digits of a number: `strtod` takes them at once, and no program looks
at a number, `parse_config` reads strings only; that `parse_number` takes 63
characters of it at most is modelled. Logging, the build and
`print_packet` have no state a property could be about. TTL and DF options
change nothing either program sees. Memory that is never freed on success is not
modelled: the README says so itself. IP address conversion is a set of accepted
strings, and the contents of the payload are data the control never looks at.
`checksum` of an odd size is never asked for.
