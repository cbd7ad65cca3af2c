# TLA+ models of proscenic-790t-local

Specifications, model-checking runs and machine-checked proofs for the local
server of the Proscenic 790T vacuum robot (`src/robotbona`) and its Home
Assistant integration (`custom_components/proscenic_790t_local`).

Paths below are relative to the repository root. `PROJECT.json` maps every
definition to the lines it stands for, and lists the runs, the hazards and the
theorems.

## 1. The system

```
robot (ESP8266) --HTTP--> http_server.py       token bootstrap, stateless
robot (ESP8266) --TCP---> tcp_server.py        one handler thread per connection
                              |  update_from_message          | attach/detach
                              v                               v
                          state.py  <---reads---  RobotConnection (lock, socket)
                              ^                               ^
      persistence.py <--save--|          send_control (commands.py, protocol.py)
      (loop, shutdown)        |                               |
                          service.py  <---  api_server.py: one thread per request
                                                              ^
                                    Home Assistant coordinator (poll, commands)
```

| Component | State it keeps | Operations | Hard behaviour | What makes it correct |
|---|---|---|---|---|
| Robot TCP session (`tcp_server.py`) | current socket, peer, lock | accept, receive, acknowledge, attach, detach, close | several live connections of one robot, time-outs of old ones, unlocked writes | the last login keeps the channel, no use after close, acknowledgement before command |
| Command path (`api_server.py`, `service.py`, `commands.py`) | sequence counter | a POST becomes a frame and a status | check-then-use of the session, failing sends, wrap of the counter | order, honest answers, whole frames |
| Robot state (`state.py`) | session, connected, values, raw value, map, track | `update_from_message`, snapshots | written by handlers, read by API threads and the persistence loop, no lock at all | a snapshot describes one moment; the session belongs to one robot |
| Persistence (`persistence.py`) | three files and their temporaries | `save`, `load_into` | two writers, faults, crashes | a restart finds whole files, never older ones, unless it cannot read them |
| Runtime (`runtime.py`) | stop event, threads, configuration | start, loop, signal, shutdown | the final save races the loop | nothing is lost at an orderly stop |
| Local API reads (`api_server.py`, `service.py`) | none | status, health, map, map.png | several reads of a state that moves | revision, map and flags fit together |
| Framing (`protocol.py`, `recv_exact`) | the packet in hand | build, parse, reassemble, acknowledge | partial receives, length limits | a receiver stays in step, each packet gets the acknowledgement it is due |
| Map decoder (`map_decoder.py`) | none | decode, track, render | run-length edge cases, line drawing | decoding inverts the encoding, the track is drawn where it runs |
| Capabilities (`capabilities.py`) | constant tables | lookups | client and server judge evidence separately | what is offered is accepted |
| Robot HTTP bootstrap (`http_server.py`) | configuration | one request, one answer | request in pieces, wrong or missing length | read before answered, nobody waits for ever |
| Home Assistant integration | last status, image revision, assumed voice state | poll, command + refresh, image | asynchronous answers out of order, stale data | the shown state catches up with the robot |
| Home Assistant set-up | config entry | first status, first refresh | server not there yet | entities exist only with data |
| Packaging, reference script | | | | not part of the models |

## 2. Modules

| Module | Models | Role |
|---|---|---|
| `ControlChannel` | what callers are promised | abstract specification |
| `RobotConnection` | `tcp_server.py`, `commands.py`, session part of `state.py`, POST path of `api_server.py` and `service.py` | detailed specification, properties, inductive invariant |
| `MC_RobotConnection` | | instances for TLC |
| `RobotConnection_proofs` | | TLAPS proofs about `RobotConnection` |
| `Persistence` | `persistence.py`, saving side of `runtime.py`, snapshot iteration of `state.py` | detailed specification and properties |
| `Persistence_proofs` | | TLAPS proofs about `Persistence` |
| `Status` | storing side and snapshots of `state.py`, GET path of `service.py` and `api_server.py` | detailed specification, properties, inductive invariant |
| `MC_Status` | | instance for TLC |
| `Status_proofs` | | TLAPS proofs about `Status` |
| `Framing` | `protocol.py`, `recv_exact` and the receive loop of `tcp_server.py` | specification of one TCP connection, properties |
| `Bootstrap` | `http_server.py` | actions of one HTTP request, property |
| `RobotFacing` | `serve_tcp`, the robot that uses both services | composition of `Framing` and `Bootstrap`, fairness, liveness |
| `MC_RobotFacing` | | instance for TLC |
| `RobotFacing_proofs` | | TLAPS proofs about `RobotFacing` and its parts |
| `MapDecoder` | `map_decoder.py` | algorithms as state machines, properties |
| `MC_MapDecoder` | | maps and tracks for TLC |
| `FlattenSeqTheorems` | | the least-number principle and lemmas about `FlattenSeq` |
| `MapRuns_proofs` | | TLAPS proofs about the decoding of the map |
| `MapDecoder_proofs` | | TLAPS proofs about the drawing of the track; extends `MapRuns_proofs` |
| `HomeAssistant` | `custom_components/`, evidence checks of `capabilities.py` and `service.py` | detailed specification, properties |
| `MC_HomeAssistant` | | scenarios for TLC |
| `HomeAssistant_proofs` | | TLAPS proofs about `HomeAssistant` |

Three modules look at the robot's TCP connection from different distances.
`RobotConnection` takes a received message as one step and follows the threads
and the lock; `Framing` takes one connection and follows its bytes;
`RobotFacing` puts a token request before it and lets connections fail and
start again. In the same way `Status` follows a GET read by read, and
`HomeAssistant` takes it as one and follows what the client makes of it.

Definitions introduced by a comment "Mutant: ..." are plausible mistakes in the
code. They are not part of any specification: each belongs to a property and
shows that the property notices that mistake. Some one-line operators (`Due`,
`KeepsTexts`, `AfterFailure`) stand for a single decision of the code so that
such a mistake can take their place.

### RobotConnection

One process per accepted connection (`Conns`, `handle_tcp_client`) and one per
API thread (`Callers`, `send_control`). `handler[c]` and `caller[t]` say where a
thread is. A step ends wherever the code touches something another thread can
see: each assignment of `update_from_message` to the session, each assignment
of `attach` and `detach`, each read of the session in `control_ready` and
`ControlContext`, each part of a `sendall`.

| Variable | Code |
|---|---|
| `lock`, `socket` | `RobotConnection._lock`, `_socket` |
| `connected`, `session` | `RobotState.connected`, `.session` |
| `nextSeq` | `CommandSequencer._next` (its own lock makes `next` one step) |
| `ctx[t]` | local variables of `send_control` |
| `answer[t]` | HTTP status, `"dropped"` when the handler thread of the API dies |
| `unfinished[c]` | threads with a frame half written to the socket, `None` for one that gave up |
| `sent`, `torn`, `acked`, `latest`, `overlapped`, `issued` | history, for properties only |

A credential is represented by the connection that taught it: that is all the
properties need to tell whether a command carries credentials of the robot it
goes to. `None` is a missing auth code or IP, and the default port. A `sendall`
puts its bytes on the wire at once or in two parts; it can fail before, between
and after them. Messages that are not answered and not a login do nothing that
this module keeps. Everything that ends the receive loop (end of stream, reset,
90 s silence, a header that `parse_header` rejects) is `RecvFails`.

The counter is kept modulo `SeqModulus` (2^32 in the code) and starts at
`FirstSeq` (0x2701). The proofs hold for all values; TLC uses modulus 3
starting at 2, so that the counter wraps with the second command.

`ControlChannel` forgets threads, locks and bytes: there is at most one current
connection, `Deliver` hands the next command to the connection that is current
at that instant, closed connections do not come back. The refinement maps
`current` to `socket`, `closed` to the handlers that are done and `delivered`
to the connections and numbers in `sent`. It is checked by TLC and proved.

### Persistence

Two writers run `save`: the persistence loop and the main thread in `shutdown`.
Nothing excludes one from the other, and `_atomic_write` uses one fixed
temporary name per file. A file's content is the set of stores it comes from:
`{v}` is a whole text, `{}` a truncated one, a larger set one text written over
a longer one. Handlers store a message key by key, so version `v` of the state
is what the values were after the `v`th store (`StoreValue`, `StoreText`),
possibly in the middle of a message; `dict(values)` copies them in one step. An
open file follows its inode: a handle points to the temporary name, to the final
name after a rename by the other writer, or to a file without a name.

The actions are the steps of `save`: copy of the values, iteration of
`raw_value` (which raises when a handler added a key), open and truncate, write
and close, rename. `Fault` is an `OSError` at any of these points; an unencodable
text and the interrupted iteration are the exceptions nobody catches. `Exit` is
a kill at any moment or the end of `main`; `Restart` is a new process with
`load_into`, in which the read of each file may fail: the error is swallowed and
the process goes on without what the file holds.

| Variable | Code |
|---|---|
| `memory`, `foreign` | `RobotState.values`, `map_data`, `track_data`; which texts ASCII cannot encode |
| `up`, `stopping` | the process; `stop_event` |
| `pc[w]`, `at[w]`, `local[w]`, `handle[w]` | where a writer is in `save`, for which file, with which content and open file |
| `grown` | writers whose iteration of `raw_value` a handler disturbed |
| `tmp`, `final` | the files `*.tmp` and the files a restart reads |
| `overlapped`, `clashed`, `saw`, `saved`, `unread` | history, for properties only |

Bytes reach the disk when the file is closed and `rename` is atomic and
durable. A power loss that reorders them is outside the model: the code calls
no `fsync`, and what then happens depends on the file system.

### Status

`RobotState` has no lock. A handler thread stores a message one key, map or
track at a time (`todo[h]` is what is left of it); an API thread puts an answer
together from single reads, in the order of `public_snapshot`, `map_revision`,
`map_snapshot` and `map_png`. `got[r]` is what it has read so far, `pc[r]` the
next read.

| Variable | Code |
|---|---|
| `values`, `text` | `RobotState.values`; `map_data` and `track_data` |
| `msg[h]`, `todo[h]` | the loop of `update_from_message` in a handler |
| `pc[r]`, `got[r]` | position and local variables of a GET request |
| `answer[r]` | HTTP status |
| `known[r]` | the last `map_revision` a client was told |
| `grown` | iterations of `public_raw` that a new key of `raw_value` interrupted |
| `raced`, `quiet` | history, for properties only |

A value is the number of the message it comes from, whether the message had it
or not; a text is numbered by its own writes and has one of three kinds: good,
not decodable (`render_map_png` raises a `ValueError`), not ASCII
(`map_revision` raises one too). A revision is the pair of texts it was
computed from instead of their SHA-256. `map_data is not None` followed by a use
of `map_data` is one read, which loses nothing because a text is never removed
once it is there; `DropsTexts` shows what depends on that.

### Framing, Bootstrap, RobotFacing

A robot's stream is the sequence of packets it means to send, each with its
first byte, its size and what its header says of its length; bytes are counted.
`Recv` returns any part of what has arrived and was asked for, which covers
receives of one byte and packets that arrive glued together.

| Field | Code |
|---|---|
| `tcp.stage`, `want`, `have` | position of `handle_tcp_client`; `count` and `len(data)` of `recv_exact` |
| `tcp.start`, `pos` | offset of the header in hand; bytes received |
| `tcp.acks` | the decision about each packet, in order: which acknowledgement, of which length, under which number |
| `http.stage`, `read` | position of the HTTP handler, `len(data)` |
| `http.reply` | the body of the answer: token or plain |
| `phase`, `listening` | what the robot is doing; whether `serve_tcp` lives |

A packet whose length `parse_header` rejects may be of any size on the wire:
what follows it is lost with the connection. A request has one head of a known
size; what matters of its text is the last Content-Length (0 if it is no number,
possibly negative) and whether it asks for a token. The head ends the read loop
as soon as it is complete, even if bytes of the body came with it.

The robot itself is external. That it fetches a token, connects, logs in and
starts over when a connection ends is observed behaviour (`docs/protocol.md`);
`Trouble` bounds how often the network, the server's sends or `accept` fail.

### MapDecoder

`decode_map`, `decode_track` and `_line_points` are loops, and each round is one
step: `Literal` and `Run` of the decoder, `LineStep` and `NextLine` of the
renderer. `index`, `cells`, `error` are the variables of the code, `at` its
`x0, y0`, `points` the part of the track that is not drawn yet, `painted` the
cells the track covers. The number of cells in a byte is a parameter: 4 in the
code, with marks from 192 and counts of six bits; 2 in the instance, with bytes
of four bits, so that long counts and byte-sized coordinates occur on a map of
4 x 2 cells. Base64 is valid or not.

The map argument keeps the tokens its encoder used (a literal byte, a run, a run
with a long count), which the decoder does not see: it is given their bytes, of
which the last token's may be cut off. The property compares the result with
what the tokens stand for. No payload is left out that way: every sequence of
bytes is that of some tokens, the last one possibly cut (`EveryPayload`, proved).

Left out: the palette, the scale (each cell becomes a square of pixels, 4 in
every call the code makes) and the PNG container.

### HomeAssistant

| Variable | Code |
|---|---|
| `server`, `robot` | what the API would answer now, whether the credentials of commands are known (`ready`), of which kind each map is; which commands the robot was sent |
| `late` | POST requests whose client has given up but which the server may still serve |
| `entry` | config entry: none, created, loaded (entities exist) |
| `data`, `ok` | `coordinator.data`, `coordinator.last_update_success` |
| `refresh` | the `_async_update_data` under way and who awaits it |
| `call[u]` | a service call: position in `async_run_command`, answer |
| `voice` | `_is_on` of the voice switch |
| `image` | `_last_revision`; `_attr_image_last_updated` as a counter |
| `viewer` | a browser and the map it shows |
| `seen`, `muddled` | history, for properties only |

Home Assistant's own part is external and modelled from how the integration uses
it: a coordinator runs one refresh at a time; `async_request_refresh` starts one
and waits for it, or returns at once while another one runs or during its
cooldown, which is why `Finish` may follow the answer directly. A status is one
read of the server: how its parts can be torn is the subject of `Status`.
A map is good, undecodable (422 for its image) or foreign, that is not all ASCII:
`map_revision` cannot encode it and every status is a 400 while it is the
current map (`StatusKnown`). A command is answered 409 without a connection or
without credentials, and 400 for a value the service does not take or when a
login without an auth code comes between `control_ready` and the use of the
fields. A restart brings back an older report or none and an older map or none,
and no credentials. Maps are numbered; two maps with the same content, which would have the same
revision, are not distinguished from different ones. Unloading and reloading an
entry, device registry and translations belong to the framework.

## 3. What is checked

| Run | Bounds | Shows |
|---|---|---|
| `session` | 2 connections, 1 caller, 3 messages, 2 requests; logins with and without an auth code | the connection survives every interleaving of login, reconnect, time-out and command |
| `lock` | 2 connections, 2 callers, 2 messages, 3 requests; complete logins | mutual exclusion, commands in the order of their numbers, sockets in use stay open, refinement of `ControlChannel`, inductive invariant |
| `live` | as `session`, 2 messages, complete logins, fair threads | every command request ends; a silent robot is detached |
| `persist` | state and map file, 2 stores, 1 fault of a write or of the reads of a start, 2 restarts, fair threads | what restarts find; the loop catches up |
| `status` | 2 handlers, 1 client, 2 messages, 2 requests; 2 status keys, 1 cleaning key | answers are torn in the harmless direction only |
| `robot_facing` | headers of 2 bytes, packets up to 4, 4 streams of 3 packets, 4 requests, 2 failures | the server stays in step however bytes are cut; the robot gets in |
| `map_decoder` | 2 cells a byte, a map of 4 x 2; all bodies of up to 3 of 8 tokens, whole and cut; all legs between 64 points and some tracks of two legs | decoding inverts encoding; the track is where it belongs; every loop ends |
| `home_assistant` | 2 calls, 2 reports, 1 unconfirmed mode; three scenarios: 2 calls; 1 call, 1 report or login, 1 fault; 2 maps of any kind, 1 restart | what entities show converges to the server |

Why the bounds are enough. Two connections are an old and a new one of the same
robot, the situation `detach` was written for; three messages are two logins
and one more message or login while both are alive. Two callers are needed to
compete for the lock: one could take a number before the other and send after
it, which `SentInOrder` excludes; three requests take every number of the
counter, which wraps on the way. With one text file besides the state file every branch of
`save` is taken; the track file is handled by the same code as the map file, and
the proofs are for both. Two stores are an old and a new version. One fault
suffices since a fault leaves nothing in memory; two restarts are one that
cannot read a file and another that reads what was saved after it. In `status`
two messages can be stored by two handlers at the same time or fall on both
sides of a read, and two requests are a status and the image or map that
follows it; clients do not influence each other, so one is enough. Two status
keys, `workState` and another, are what a mixture of two messages needs.

In `robot_facing` a header of two bytes can be cut in the middle, a payload of
two bytes too, and the streams hold a packet of each kind (login, text, empty,
control response, one announcing too little and one too much) before, between
and after others; the safety properties are proved for all sizes. In
`map_decoder` three tokens put each kind first, in the middle and last, with
counts of zero, of one byte and of two, and more cells than fit; the points of
the tracks lie inside the map and outside it on each side, so that legs have
all directions. In `home_assistant` a call and a poll, two calls, or a call and
a changing robot are what a refresh can confuse, and two maps and a restart give
the image every kind of change, including back to an older one; coming and
going of the server is not bounded.

Symmetry is used in the safety runs of `RobotConnection` (no `CHOOSE`, no
ordering of connections or callers) and never for liveness.

Properties of `RobotConnection`:

- `LastLoginWins`: the robot reconnects, the old handler times out up to 90 s
  later; its `detach` must not take the new connection down.
- `ConnectedMatchesSocket`: health and status read `connected` without the lock.
- `SocketInUseIsOpen`: `detach` before `close` and the lock around `sendall`
  keep a caller from writing to a closed (and possibly reused) descriptor.
- `LoginAckBeforeCommands`, `SentInOrder`, `CommandsDoNotInterleave`: order and
  integrity of what the robot sees.
- `AnswersAreHonest`: 200 means this command went out under the number in the
  answer; 400 and 409 mean that nothing did.
- `ForeignCredentialsNeedOverlap`: mixed credentials need two logins at once.
- `RequestsAnswered`, `SilentRobotDetached`: liveness.

Properties of `Persistence`:

- `WholeUnlessClash`: a restart finds whole texts. A text is that of one store;
  a state may still be of a moment between two keys of one robot message.
- `FilesMoveForward`: no file goes back to older content, with one exception
  (`GivenUp`). `load_into` swallows the error of reading `latest_state.json` and
  goes on with no values, and the next save replaces the file, which may have
  been all right, by them. A text that cannot be read is safe: what is not in
  memory is not saved. `unread` records the exception; it ends with the next
  completed save.
- `CompletedSavesLast`: what was in memory when a save began that then reported
  no error is in the files ever after, the state with the same exception. A save
  replaces its three files one after
  the other, and a kill in between makes a restart combine texts of different
  messages; the property bounds that mixture by the one save that was cut off.
  It includes the final save of a shutdown. `saw` and `saved` record what it is
  about, until two saves overlap.
- `LoopCatchesUp`: liveness.

The type invariants of `RobotConnection` and `Status` are parts of their `IInv`.

Properties of `Status`. Answers can mix messages, there is no lock. What holds:

- `AvailableHasRevision`: `map_available` is read before the revision, so a
  status never announces a map without one. The converse (a revision together
  with `map_available` false) does happen.
- `RevisionNotOlder`, `ImageNotOlderThanRevision`: revision and map, or status
  and image, of different moments are always torn towards the future. A client
  that compares revisions may reload once too often but never stays on an old
  map.
- `LabelNotOlder`: the friendly label is read after the values it stands next
  to. It needs messages that do not overlap: two connections storing at once
  can let an older message overwrite a key.
- `SettledStateIsWhole`: once stored, the status keys are those of one message.
- `QuietAnswersAgree`: without a store in between, the parts of an answer fit.

Properties of `Framing`, `Bootstrap` and `RobotFacing`:

- `InStep`, `TcpTypeOK`: `recv_exact` counts down what is missing, so headers are
  read where packets begin, whatever the receives return.
- `AcksAreDue`: token, magic and length decide in the documented order, and the
  number is echoed.
- `ReadBeforeAnswer`: no unread byte is left when the connection is closed.
- `RobotGetsIn`: as long as the listener lives, failures cost a try each.

Properties of `MapDecoder`: `DecodesRuns`, `TrackIsDrawn` and `RenderAdvances`.

Properties of `HomeAssistant`:

- `VoiceAgrees`: the only record of the voice state is right whenever the calls
  that changed it did not overlap and none was abandoned. Otherwise it can be
  wrong, and stays so: no robot reports the voice state.
- `RefreshSeesCommand`: a refresh that a call awaits is newer than its command.
- `RefusedOnlyByLogin`: client and server agree on what may be selected, so that
  a command is answered 400 only when a login without credentials comes while it
  is served. `OfferedEverything` shows what a difference would do.
- `EntitiesSettle`, `ImageSettles`: at rest, entities show the server; they are
  unavailable only while the server cannot be reached or its current map is
  foreign. The image need not follow while no status can be had.
- `CallsEnd`: no call waits for ever.

### Fairness

Every thread that can take a step does (WF): the operating system schedules
it, `sendall` ends or times out, and `recv` returns within 90 s (`settimeout`).
Waiting for the lock is strongly fair: `threading.Lock` is not a queue, but a
waiter is not overtaken for ever by finitely many or ever-pausing others.
Nothing is assumed about robots, clients, signals and faults. `FairSpec` of
`Persistence` assumes that the two writer threads go on.

`FairSpec` of `RobotFacing` assumes that the server's threads run (`Serves`,
`Connect`), that bytes on their way arrive, that receives end with their
time-out (5 s and 90 s), and that the robot starts over. `RobotGetsIn` assumes
besides, as premises, that the listener lives and that the robot goes on asking
with requests that send what they announce.

`FairSpec` of `HomeAssistant` assumes the timers of the event loop: polls every
5 s, requests that end within 10 s (`ClientTimeout`), continuations that run;
and a browser that fetches an image whose time stamp changed. Nothing is assumed
about the server's availability, the robot and the users. Requests to a server
that can be reached fail without a lasting cause (network, a disturbed read) only
as often as the budget says; those of an unreachable server or of one with a
foreign map always fail. `EntitiesSettle` and
`ImageSettles` are about behaviours in which they come to rest.

### Disagreements between the code and what is said about it

Four runs are expected to be violated, each with a trace of the code's own
behaviour:

- `foreign_credentials`: the session is overwritten by any login before, and
  without regard to, `attach`; a command to the current connection then carries
  credentials of the other one.
- `torn_frames`: acknowledgements are written without the lock that commands
  hold, so on a full send buffer one frame can land inside the other.
- `loop_dies`: any exception but an `OSError` ends the persistence loop.
- `shutdown_clash`: the final save can overlap a save of the loop and leave an
  empty or mixed file.

Other observations. `load_into` does not distinguish a state file that is not
there from one that cannot be read, and the next save overwrites it. While a map
with a non-ASCII character is the current one, every status is a 400, saves fail
and Home Assistant shows nothing. A valid command is answered 400 when a login
without an auth code comes between `control_ready` and the reading of the fields
(`AnswersAreHonest`, `RefusedOnlyByLogin`), while docs/api.md:24 keeps 400 for
invalid or unsupported values. An `OSError` of
`sendall` is caught nowhere in `dispatch_api`, so that a command on a connection
that was just lost ends without an HTTP answer (`answer = "dropped"` in
`RobotConnection`); and an `OSError` of `accept` ends `serve_tcp` for good while
health goes on answering (`AcceptFails` in `RobotFacing`), while
docs/deployment.md:29 relies on "the TCP listener remains available"; that the
listener lives is a premise of `RobotGetsIn`, not a result.

What the hazards of `PROJECT.json` without a property have in common is that the
code does not prevent them: overlapping voice calls leave the switch wrong,
overlapping messages leave a mixture of keys, the listener's death is final, and
a disturbed iteration is a 409. The models contain all four, and each property
near them says under which condition they cannot occur.

## 4. What is proved

`RobotConnection_proofs` proves, for any sets of connections and callers, any
modulus and any bounds:

| Theorem | Property |
|---|---|
| `Invariant` | `IInv` |
| `TypeCorrect` | `TypeOK`, part of `IInv` |
| `LastLogin` | `LastLoginWins` |
| `ConnectedMatches` | `ConnectedMatchesSocket` |
| `SocketOpen` | `SocketInUseIsOpen` |
| `AckFirst` | `LoginAckBeforeCommands` |
| `WholeCommands` | `CommandsDoNotInterleave` |
| `InOrder` | `SentInOrder` |
| `HonestAnswers` | `AnswersAreHonest` |
| `OwnCredentials` | `ForeignCredentialsNeedOverlap` |
| `Refinement` | `ImplementsControlChannel` |

Assumptions: connections, callers and `None` differ; callers are finitely many
(their number bounds the numbers in flight); `FirstSeq` is below `SeqModulus`.
TLC evaluates them in every run.

Argument for `RobotConnection`. No safety property is inductive by itself. `IInv` adds what the code
relies on silently: the lock is held exactly by the thread inside a `with`
block (`LockHeld`), what a caller copied under the lock stays the current
socket (`CtxOK`), where a handler stands tells what `socket` is (`HandlerOK`),
only acknowledged connections attach (`AckedOK`), the frame about to be sent
has the highest number and its sequence number is `(FirstSeq + nth) % SeqModulus`
(`OrderOK`), every number belongs to a request (`CountOK`), and an unfinished
command belongs to the caller that sends its rest (`UnfinishedOK`). Each part
is preserved by handlers and by callers in a lemma of its own; `InvNext`
combines them. `InOrder` needs arithmetic of remainders for a variable modulus
(`DivMod` to `ModDiffer`). Two properties rest on invariants of their own, which
use `IInv`: `HonestOK` says that a command that was begun is on the wire and
that the number of a refused one is nobody else's; `OwnOK` says which fields of
the session are the own ones of a connection that no other login has disturbed
(`Stored`) and that callers copy only from there. The refinement follows from the invariant:
`HandleRefines` and `CallRefines` map each action to a step or a stutter.

`Persistence_proofs` proves, for any choice of text files and any number of
stores, faults of writes and reads, and restarts:

| Theorem | Property |
|---|---|
| `Invariant` | `IInv` of that module, which is not a run's property |
| `TypeCorrect` | `TypeOK` |
| `FilesAreWhole` | `WholeUnlessClash` |
| `SavesLast` | `CompletedSavesLast` |
| `NeverBack` | `FilesMoveForward` |

Assumptions: the bounds are natural numbers, text files are among `map`
and `track`, and `None` is neither a content nor a name.

Argument for `Persistence`. What a writer carries, a local copy or its
temporary file, lies between the memory and the file it is for: nothing in
memory is older, nothing in the file newer (`ForwardOK`, by `Covers`). A file
that a start could not read is exempt: a text because the memory has none and
`save` skips it, the state by `GivenUp`, until the save that ends the exemption
has brought the file back between the two (`SaveOK`). Memory only moves forward, so a rename does too, as long as one save is under way;
`OrderOK` says that this is so until `overlapped` is set, because main saves
only when it is to stop and the loop does not begin then. `WholeOK` keeps every
version whole until two writers are between open and rename of one file
(`Apart`), which `clashed` records; `PlaceOK` ties a handle to the step of its
writer. `SaveOK` follows each save: the files it has passed hold at least what
was in memory when it began, the one it is at will. That the order of the files
is a chain (`AfterFile`) is what carries it from one file to the next, and to
`SavedOK` at its end; from then on no rename takes a file back, and `Restart`
puts what the files hold into memory, where the next save begins.

`Status_proofs` proves, for any sets of handlers and clients, any key tables
and any bounds:

| Theorem | Property |
|---|---|
| `Invariant` | `IInv` |
| `TypeCorrect` | `TypeOK`, part of `IInv` |
| `AvailableIsRevised` | `AvailableHasRevision` |
| `RevisionIsFresh` | `RevisionNotOlder` |
| `ImageIsFresh` | `ImageNotOlderThanRevision` |
| `SettledIsWhole` | `SettledStateIsWhole` |
| `LabelIsFresh` | `LabelNotOlder` |
| `QuietIsConsistent` | `QuietAnswersAgree` |

Assumptions: the key tables are sequences of distinct strings that begin with
`workState`, and `None` is neither a text nor a revision.

Argument for `Status`. `Since(t, s)` (t is s or was stored later) is reflexive
and transitive, and every step moves the texts in memory forward
(`TextsMoveForward`). `HeldOK` therefore survives every step: memory is never
older than what a reader has read, what its revision was computed from and what
its client was told. `PlaceOK` adds what a reader has done so far; in
particular the type of a revision depends on it, since `RevisionTrack`
completes one that `RevisionMap` has begun. The three properties follow reader
by reader (`ReaderStep`, `OtherReaders`). `StoreOK` follows the handlers: while
updates do not overlap only one stores, its message is the last, and what it has
left is the end of the status keys or none of them (`Storing`); so the keys
agree when nothing is left, and the work state only moves forward, which
`LabelOK` needs. `QuietOK` follows a request during which nothing is stored:
what it has read is what the memory still holds.

`RobotFacing_proofs` proves, for any sizes, streams and requests:

| Theorem | Property |
|---|---|
| `Invariant` | `IInv` of that module, which is not a run's property |
| `StaysInStep` | `InStep` |
| `Acknowledges` | `AcksAreDue` |
| `ReceivesWhatWasAsked` | `TcpTypeOK` |
| `AnswersAfterRequest` | `ReadBeforeAnswer` |

Assumptions: a header has at least one byte, packets follow one another without
gaps, a packet with a possible length is as long as it says, and receives of the
HTTP service ask for at least one byte.

Argument for `RobotFacing`. `PlaceOK` says how many bytes of the packet in hand
have been received in each stage; with it the offset of the header identifies
the packet (`InHandIsComing`, which rests on packets being in increasing
positions), so `ParseHeader` and `Handle` are about the first packet that is not
handled yet, and its end is the next boundary (`NextBoundary`). `AckIsDue`
compares the order of the tests in the code with the kinds of packets. For a
request, `HttpInv` says why an answer is given: nothing is missing, or nothing
more can come.

`HomeAssistant_proofs` proves, for any number of service calls, any capability
tables, reports and budgets:

| Theorem | Property |
|---|---|
| `Invariant` | `IInv` of that module, which is not a run's property |
| `SwitchIsRight` | `VoiceAgrees` |
| `RefreshIsFresh` | `RefreshSeesCommand` |
| `OptionsAreAccepted` | `RefusedOnlyByLogin` |
| `TypeCorrect` | `TypeOK` |

Assumptions: the groups of capabilities are mode and fan, and `None` is neither
a command, a call nor a status.

Argument for `HomeAssistant`. `RefreshOK` ties each call to the refresh: a call
awaits one exactly when it owns it, so nobody takes the end of another's
refresh for its own, and a status that is on its way has seen every command of
the calls that await or awaited one (commands are counted, and a refresh starts
only when none runs). `CallOK` keeps the command of a call among those that were
offered, which `OfferedIsAccepted` finds among those the service takes: what is
left of a 400 is the login (`RefusedOnlyByLogin`). `VoiceOK` adds what is
between the sending of a voice command and the assignment of the switch: until
its answer the switch agrees with the robot, after it the value of the call does.

`MapRuns_proofs` and `MapDecoder_proofs` prove, for any number of cells in a
byte, any size of the map and any payloads of any length:

| Theorem | Property |
|---|---|
| `Reads` | `DInv`, which is not a run's property |
| `Decodes` | `DecodesRuns` |
| `EveryPayload` | every sequence of bytes is the bytes of some tokens |
| `Invariant` | `IInv` of that module, which is not a run's property |
| `Advances` | `RenderAdvances` |
| `Draws` | `TInv`, which is not a run's property |
| `DrawsTrack` | `TrackIsDrawn` |

Assumptions: the sizes are positive, a map's body consists of tokens of which
the last one misses less than all its bytes, and a track consists of bytes.
`EveryPayload` shows that the second one excludes nothing.

Argument for the map. `DInv` says that the decoder's index is at the first byte
of a token, and that its cells are those of the tokens before it, cut to the
size of the map. `TokenPlace` finds the token of an index, `InHand` and
`TokenRead` tie the bytes at the index to it, so that a literal (`LiteralRead`),
a short and a long run (`RunRead`) each add the cells of exactly one token; a
byte from the mark on after another one can only be the second half of a long
count, because a literal or the byte of a short run is below it. An error needs
a token cut off while there are still cells to come (`RunRefused`). Which bytes
and cells belong to the first tokens is a statement about `FlattenSeq`, a fold;
`FlattenSeqTheorems` proves what it does to one more sequence and to a prefix.
The induction that this takes is done by hand, over the least counterexample
(`Least`, from the well-foundedness of the naturals), because the library's
induction theorems cannot be instantiated.

Argument for the track. A line that is `A` cells long in its longer direction
and `B` in the other is, in the numbers of that direction, a `Walk`: after `X`
and `Y` cells the error is `(A - B) - X * B + Y * A`, between `-B / 2` and
`(3 * A - 2 * B) / 2`. Every round takes a step in the longer direction and the
bounds decide about the other one (`WalkGoesOn`). From the bounds follows that
`Y` never exceeds `B`, that what is left in the shorter direction is never more
than what is left in the longer one, and that both are done in the same round
(`WalkMeets`): the loop cannot step past the point at which it ends.

The same bounds, with the strict one at the lower end for a line that has a
length, place the cell of a round within half a cell of the line (`WalkNear`)
and make it the only one of its row or column for which that is so away from a
tie (`WalkOnly`). Hence no cell is painted that is not near the line, and every
cell whose middle the line meets is painted when its round is done. `TInv` keeps
this for the whole track: the points that are left are the end of the track
(`Left`), the legs behind them are complete (`LegDone`), of the one in hand the
cells up to `at` (`Complete`, `NoMore`). `Divisible` and `MeantIsSigned` show that the
coordinates the code computes from a byte are those the property means.

With this every safety invariant and every action property of the passing runs
is stated by a theorem. Only model-checked: liveness, which is out of the
prover's reach (`RequestsAnswered`, `SilentRobotDetached`, `LoopCatchesUp`,
`RobotGetsIn`, `EntitiesSettle`, `ImageSettles`, `CallsEnd`), and the four
disagreements, each of which is one trace.

## 5. Not modelled, and plan

Not modelled: PNG encoding, palette and scale of the renderer and the text of
the token response (byte layout); reading the configuration and binding the
listeners (`runtime.py`), which happens before there is any state; unknown paths
of the API (404 without touching state); unloading an entry, forms and device
registry of Home Assistant (framework); plain sensors, which show fields of the
last status; packaging; and the reference script, the historical origin of the
core, which is not part of the running system.

Next, in order of importance:

1. `Status` answers requests from single reads: an abstract store of which an
   answer is a cut between two moments, with `Status` shown to implement it.
2. The safety half of the liveness properties: for each, the invariant that the
   thread waited for can take a step, which is a state property and provable.

## 6. Running

```
tlc -workers 2 -config MC_RobotConnection_session.cfg MC_RobotConnection
tlc -workers 2 -config MC_Persistence.cfg Persistence
tlc -workers 2 -config MC_Status.cfg MC_Status
tlc -workers 2 -config MC_RobotFacing.cfg MC_RobotFacing
tlc -workers 2 -config MC_MapDecoder.cfg MC_MapDecoder
tlc -workers 2 -config MC_HomeAssistant.cfg MC_HomeAssistant
tlapm RobotConnection_proofs.tla
tlapm Persistence_proofs.tla
tlapm RobotFacing_proofs.tla
tlapm FlattenSeqTheorems.tla
tlapm MapRuns_proofs.tla
tlapm MapDecoder_proofs.tla
tlapm HomeAssistant_proofs.tla
tlapm Status_proofs.tla
```
