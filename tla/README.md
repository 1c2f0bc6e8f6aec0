# A verification project for libpict

libpict (formerly camlib) talks PTP to cameras over USB, TCP/IP or USB framing
over TCP. This directory holds TLA+ models of its concurrent, failing and
stateful parts, TLC instances of them, and proofs checked by TLAPS. Paths below
are relative to the repository; `src/` is its library directory.

## 1. The system

### Components, their state and operations

| component | state | operations | modelled in |
|---|---|---|---|
| runtime (`lib.c`, `error.c`, `operations.c`) | recursive mutex, `operation_kill_switch`, `io_kill_switch`, `transaction`, `session`, the one `data` buffer | `ptp_send`, `ptp_send_data`, queries that parse under the mutex, `ptp_open_session`, `ptp_report_error`, `ptp_get_event`, `ptp_device_init`/`close` switches | `PtpRuntime`; buffer, `r->di` and `ptp_init` in `Lifecycle` |
| packets (`packet.c`) | none: layouts of the buffer | builders, accessors of code, payload, parameters | `PacketLayout` (accessors), lengths in `UsbTransport` |
| USB transport (`transport.c`) | `wait_for_response`, bytes read so far | `ptp_send_packet`, `ptpusb_read_all_packets`, the second try of `ptp_send_data` | `UsbTransport` |
| IP transport (`transport.c`, `ip.c`) | the same, buffer size, the stream | `ptpip_receive_bulk_packets`, `ptpip_read_packet`, `ptp_buffer_resize` | `IpTransport` |
| USB back end (`libusb.c`) | libusb handles, the interface claim, device list | list, open, init, close, transfer | `UsbDevice` |
| downloads (`operations.c`, `bind.c`) | offset, FILE | `ptp_download_object`, `bind_download_file` | `DownloadObject` |
| property lists (`lib.c`, `generic.c`) | `r->avail` and the memory of its entries | `ptp_set_prop_avail_info`, `ptp_validate_property_value` | `PropAvail` |
| EOS events (`data.c`, `generic.c`, `bind.c`) | payload of the last poll, event array | `ptp_eos_get_event`, `ptp_eos_events`, `ptp_eos_events_json`, `ptp_set_generic_property` | `EosEvents` |
| conversion (`conv.c`) | constant tables | `ptp_eos_get_shutter`, `_iso`, `_white_balance`, `_aperture` | `EosConv` |
| EOS remote control (`canon.c`, `generic.c`, `liveview.c`, `bind.c`) | the camera's shutter, exposures and properties; the return code in `r->data` | picture, bulb, focus, mirror, live view and white balance sequences, firmware blocks | `EosRemote`, `CanonExtras` (firmware) |
| data codec (`data.c`) | none | strings, arrays, object, storage and device info, property descriptions and values, JSON lists of them | `PtpData` |
| event procedures (`canon_adv.c`) | token and string tables of one call | lexer, packer, `ptp_eos_evproc_run` and its payload variant | `EvProc` |
| IP back end (`ip.c`, `operations.c`) | two descriptors | connect, both handshakes, reads, writes, close | `Lifecycle` |
| text bindings (`bind.c`) | request, one runtime, the device info it allocates | `bind_run` and its routes | `Bindings` (answers), `Lifecycle` (`bind_init`, `bind_connect`, `bind_get_device_info`), others with their subject |
| Magic Lantern (`ml.c`) | the palette of earlier calls | the bitmap of live view | `CanonExtras` |
| packet decoder (`dec/main.c`) | containers under way | captures, raw dumps, event procedures | `PacketDump`, `EvProc` |
| enums, stubs, `libwpd.c`, `cli.c`, `lua/`, tests, examples | see PROJECT.json | | not modelled (reasons there) |

### How they interact

An application thread calls an operation. It fills a command and calls
`ptp_send`, which takes the mutex, builds the packet in `r->data`, writes it and
reads the answer into the same buffer (`transport.c` through a back end,
`libusb.c` or `ip.c`), repeats a command that was ignored once, and releases the
mutex. A query keeps the (recursive) mutex around `ptp_send` and its parser.
Errors latch the two kill switches, which later calls read before they take
the mutex and again after. `ptp_report_error` sends a CloseSession and shuts
everything down. Event polls of EOS cameras feed `r->avail`, which setting a
property reads.

### What is hard

* One buffer, pipe and counter shared by threads; checks outside the lock;
  returns inside it; functions that stay outside it altogether.
* Answers in pieces, late, missing; commands repeated without knowing whether
  the first one ran; streams that end or fall silent.
* Long legal sequences: lists that grow and shrink, handles opened and lost,
  chunks up to an exact end, entries between entries.
* Process-wide names: a socket's number that another thread's file takes after
  the close, a structure that is gone while `r->di` still points to it.
* Cursors: every parser moves an offset by what it believes a field is long; a
  string that is cut, a form that is unknown or a line with a blank at its end
  leaves it in the wrong place.

The hazards, each at its line with the properties about it, are in
PROJECT.json. What makes each component correct is stated in its module's last
section.

## 2. The modules

* **PtpRuntime** (abstract specification **CommandBus**). A step is one access to
  shared state that no lock makes atomic with its neighbours; `pc` names the
  places in `ptp_send`, `ptp_send_data`, the locking queries, `ptp_open_session`
  and `ptp_report_error`. A call is of a kind ("send", "sendData", "query",
  "info", "open", "abort" and "quit" for the two uses of `ptp_report_error`,
  "connect", "disconnect", "event"); operations that differ only in code and
  parameters are one kind. A try ends in an outcome of
  `ptp_receive_all_packets`. `used`, `last`, `closed` and `calls` are history.
  CommandBus is the pipe as a camera expects it from one careful initiator: one
  outstanding command, repeated at most once and unchanged.
* **UsbTransport** (abstract specification **RemoteCall**). One exchange after
  another on two bulk pipes: partial writes, failing writes, reads of any
  available length, empty reads counted against `wait_for_response`, the second
  try. A packet is a sequence of units; a unit knows its container and place.
  The camera is external: it may drop a command and answers after at most
  `Patience` empty reads. RemoteCall: a command runs once and its caller gets
  its own answer. **PacketLayout** has the accessors both transports use.
* **IpTransport**. `ptpip_receive_bulk_packets` and `ptpip_read_packet` on a TCP
  stream: failing reads, reads of any length, packets of foreign types, a peer
  that is there, silent or gone, and the size of `r->data`. A packet may claim any
  length of 32 bits (`Modulus`): one below its own length field makes the difference of
  transport.c:85 wrap, one equal to it returns with the type unread, and one near
  2^32 makes the sum of line 77 wrap. `claims` remembers that a length was not
  `Sound`; a read past the block ends in the verdict "overrun", and nothing is said
  about what the overwritten memory does then. A count above the largest `int` is
  negative as the argument of read(): Linux refuses it (`BodyRefused`), and a system that
  took it as a large one would go on as in `ReadBody`; both are in the model.
* **UsbDevice**. A manager thread that lists, opens, initialises and closes and
  workers that transfer, with the handle, the interface claim, the mutex and the
  switches.
* **DownloadObject** (abstract specification **ObjectCopy**). Any number of
  downloads and other commands through one buffer, each chunk's request,
  fwrite and unlock, and the closing of the FILE. Nobody looks at the results of
  `fopen` (bind.c:513) and `fwrite` (operations.c:373), so a FILE that is not there is used
  and ends the program (`Crash`), and of each chunk the disk may take any part;
  the camera may send less than it has, which operations.c:379 takes for the end.
  `faults` remembers which of the two happened. ObjectCopy promises what is left: what
  is fetched goes to the file in order, and success comes at the end of the object or
  after a short chunk.
* **PropAvail**. `r->avail` from its oldest entry to its youngest; an entry's
  `cnt` and `memb` are `memb_cnt` and `memb_size` of the first list, `room` the bytes
  allocated, `data` the members in them. Each event has a member size of its own
  (data.c:801), and lib.c:74 compares numbers of members only: a list of larger members
  may be copied past the block (`spilt`), and one of another size leaves bytes that
  are no members (`torn`). `mixed` are the codes whose lists differed in it. A
  validation with a size the code does not know panics.
* **EosEvents** extends PropAvail, whose variables it shares, and **EosConv** (the
  tables of `conv.c`). The lists it unpacks are PropAvail's
  `SetPropAvailInfo`. The camera collects entries at any time;
  the client polls, counts, unpacks entry by entry, writes the JSON lines and
  sets properties between polls. A poll the camera refuses changes nothing
  here and is left out. The front end is external: it takes the lines in order.

* **EosRemote**. A call of the front end is a sequence of commands; each is one
  exchange with the mutex held (`Send` to `AnswerOk`, `Refuse`, `Fail` or `Latch`),
  may be refused, fail or be tried twice, and is tested afterwards, when the
  mutex is free: library functions test what `ptp_send` returned, bindings the
  code in the shared buffer, white balance neither. Polling threads use the
  buffer in between. The camera is external: two buttons that stay down until
  they are released, an exposure when the full one goes down. Other devices get
  PTP_UNSUPPORTED at once, and `wait_for_response` is in the transports' models.

* **PtpData** (numbers, strings, arrays, datasets), **EvProc** (event procedures),
  **PacketDump** (the decoder), **CanonExtras** (firmware blocks and the bitmap)
  and **Bindings** (what each route prints, as JSON tokens) hold the sequential
  algorithms as operators: loops are recursive functions, or folds. Bytes are
  numbers and a reader returns what it stored, the offset it goes on at, and the
  highest place it wrote. EvProc's packer has two blocks of `PackBuffer` bytes (500,
  canon_adv.c:189 and 198) that nobody checks: a command longer than that ends as
  `Overrun`. In PacketDump a position stands for a byte, and carries what the decoder reads
  when it takes it for the start of a container: behind the first position of a
  container that is anything, a command, a response and an event among it (four bytes
  on, the transaction id stands for the type). A raw dump is tried at every
  position; the copy of a data payload to the file DUMP and to the output reads behind
  the file when the length claims it, and `fatal` are the positions where that
  ends the program. The same copy behind a packet of a capture
  that is split is taken to go well. In Bindings a token stands for a number, a text or a bracket, and a
  bare `word` for text outside quotes.
* **Codec** composes these. A caller has a job; one step performs it. The job's
  input on the wire is written down as the PTP standard has it (`CameraDevice`,
  `CameraDesc`, `PrintLine`, `Traffic`), independently of the parser's tables of
  fields, so a parser and its reference cannot share a mistake. What the callers'
  jobs are made of (`StringJob`, `DatasetJob`, `DescJob`, `EvprocJob`,
  `CaptureJob`, `RequestJob`) is written down for the proofs; `MCJobsAreJobs` has TLC find it true of the jobs of the run. A capture's packets end at
  the positions of `cuts`.
* **Lifecycle**. One runtime and the process around it: a table of descriptors,
  another thread that opens and closes files and takes the lowest free number,
  `ptpip_new_timeout_socket` step by step, both handshakes, `ptpip_close`, which
  leaves the numbers standing, `bind_init`, and the structure behind `r->di`. The
  descriptor table, the peer and the other thread are external.
  `Habits` names what a program may do that the library does not guard against;
  with no habit it connects each socket once between two initialisations,
  goes on only after a connection and closes once.

Definitions called mutants ("Mutant: ...") are not part of the model: each is a
plausible mistake in the definition after it, kept to show that the property
named in PROJECT.json would notice.

## 3. The runs

| run | instance | what it shows |
|---|---|---|
| runtime_life | 2 threads, 4 calls, every outcome, shutdown, disconnect, connect | TypeOK, MutexMatchesCalls, QueryReadsOwnAnswer, WireExclusion, SessionStaysClosed, and the pipe implements CommandBus (BusSpec) |
| runtime_live | 2 threads, any 2 calls, every outcome | CallsReturn under weak fairness |
| usb_prompt | 3 calls with and without data phase, answers of 0 to 3 units, drops, answers up to 2 empty reads late, budget 3 | WholePackets, WholeAnswer, AccessorsAgree, RemoteSpec, CallEnds |
| ip_camera | 2 exchanges, failing reads, hang-ups, silence, foreign packets, claimed lengths from 0 to near the wrap, smallest buffer | ExactAnswer, WaitHonoured, BufferHolds, ReceiveEndsWithPeer |
| download_copy | 2 downloads, an object of whole chunks and one that is not, 2 other commands, short chunks, full disks, files that do not open | CopiesObject, DownloadsEnd |
| avail_changing | 2 codes, lists of 1 to 3 values, of one code with members of several sizes | InsideMemory, OneEntryPerCode, JudgedAtFirstLength |
| usb_life | a manager and 2 workers, 3 handles | ActiveMeansClaimed, MutexReleased |
| eos_poll | 4 properties (two settable, one without a name, one with texts), lists that change and become empty, 2 entries on their way | ShownIsCamera, SetReadsBack, OffersKnown, and r->avail implements PropAvail (AvailSpec) |
| eos_remote | 3 calls of 10 kinds, 4 kinds of live view, a polling thread, every command refused, repeated or failing | ReleasedWhenTold, ShotsTold, LiveviewTold |
| codec | about 7100 jobs: strings of 0 to 5 characters into buffers of 3 to 6, every property type in both forms, ranges, command lines of up to 3 arguments below and above the packer's blocks, captures cut at every place of their data, dumps with anything inside the containers, bitmaps, every finished route with every outcome | StringsReturn, DatasetsReturn, DescReturns, EvprocReadsBack, CaptureDecoded, FrameIsPicture, AnswersAreJson |
| lifecycle | 4 numbers, stdin open, a camera that hangs up, a sound program, another thread's files | OwnDescriptors, DiAlive, ConnectReturns |
| runtime_failure | 2 threads, every outcome | counterexample to FailureStopsCommands: the mutex is released before the switch is set (lib.c:212-213) |

Left out of the runs because a deeper property of the same run implies most of
them, and checked by hand on the same instances: FileIsPrefix and the TypeOK of
the modules other than PtpRuntime. Also checked by hand: FreshIds with three threads on
one session (`QueryCalls`, `SerialOutcomes`), and runtime_life with three threads
(`ThreeThreads`), 11.4 million states.

### Bounds

`MaxCalls` (runtime, transports), `MaxOthers` (downloads), `MaxHandles` (USB),
`MaxFails` (IP) and `QueueMax` (EOS, collected plus being unpacked) end behaviours.
Two threads already show every pairwise order; a third, a waiting thread that
is overtaken, is in the instance checked by hand, and the proofs remove the
bound on threads and calls.
Four calls hold a quit or disconnect, a reconnection and traffic on both sides.
A packet limit of four units over a header of two gives packets below, at and
above a read; an object of two chunks and one of two and a half give both ends
of a download. Lists of one to three members grow and shrink past the first
length. Three calls of the front end (`MaxCalls` of EosRemote) are a picture or bulb that
leaves the shutter down, a call about something else or that repairs it, and
the next picture. Two entries in flight put one before, after and between the others'
effects.
The buffers of Codec (`NameMax`, `DateMax`, `TextMax`, `ArrayMax`, `MaxStr`, `MaxTok`)
are of a few bytes, and jobs lie below, at and one above each; `DataLength` is
`r->data_length` for those that only need room, and `Turns` ends an upload that
would not. A screen of 3 by 2 in a memory 5 wide has the column too many that
720 in 960 has. `MaxNumber` (Lifecycle) leaves room for both sockets and a file
beside stdin, which is what a reused number takes.

### Deadlock

It is checked in every run but codec, where a caller has one job and then
stops (CHECK_DEADLOCK FALSE). PtpRuntime, the transports and DownloadObject end in an
explicit step that changes nothing, possible only when everybody has returned
(or, over IP, when the reader is blocked in read()); the others can always go on.

### Fairness

* runtime_live: weak fairness of each thread's own steps: an operating system
  schedules runnable threads and libusb transfers have a time-out. Mutex
  fairness is not assumed; the calls are finite.
* usb_prompt: the host's thread, and the camera, which works off what it
  received. It need not answer: it may drop the command, and the read then
  ends by its budget.
* ip_camera: the reading thread and the camera's sending of a begun answer; no
  read has to fail. The sockets are blocking (ip.c:152), so with a silent or
  absent peer nothing is promised: ReceiveEndsWithPeer says so.
* download_copy: each downloading thread.
* lifecycle: the steps of a connection attempt. The socket is non-blocking while
  it connects and `select` waits for one second (ip.c:147), so `SelectFails`
  happens at the latest then; the camera need not do anything.

Everything else is safety and assumes no fairness.

### Assumptions that matter

* usb_prompt needs a wait budget above the camera's delay (3 above 2). The
  shipped budget is 1 (libpict.h:158), which tolerates no empty read: see
  UsbTransport_faults below.
* At this commit `ptp_send_packet` panics for PTP_IP (transport.c:19-20) before the first
  byte of any command is out, so the receiving code of IpTransport cannot be reached
  through `ptp_send`; the model is of that code as it is, behind a send that works. An
  exchange ends on failure, since the second try sends through the same function.
* ExactAnswer, BufferHolds and ReceiveEndsWithPeer are about packets that claim
  `Sound` lengths, up to the first one that does not; InsideMemory about codes whose lists
  keep their member size. The other lengths and sizes are in the models: NeverOverrun and
  ReallocIfNeeded below show what they do.
* CopiesObject does not say that success is the whole object in the file, which
  WholeOnSuccess below refutes; without faults FileIsPrefix has it.
* A camera reports a value it took in a later poll (EosEvents).
* In usb_life the manager opens only what is closed.
* In lifecycle the program is sound (no `Habits`), the process has stdin open,
  `getsockopt` works, and the structure given to `ptp_get_device_info` lasts.
* AnswersAreJson leaves out the routes of `Unfinished`, which print no value, no
  quotes, no closing bracket or raw bytes for some answers, and texts with a quotation mark,
  which nothing escapes. EvprocReadsBack is about lines within the limits of the lexer and
  without a blank at their end, and says that the packer leaves its blocks exactly when
  the command is longer than one; DescReturns about values that are not negative
  INT8, and positive steps; CaptureDecoded about packets that do not end one container and
  begin the next, and of a dump that has readings inside its containers that pass for
  others it says that what is printed passes, in order, with every container up to
  the first failure; only without such readings that nothing else is.

### Counterexamples outside the listed runs

These configurations give a counterexample when run by hand
(`tlc -config X.cfg <module>`); they belong to hazards in PROJECT.json.

| configuration (module) | property | what it shows |
|---|---|---|
| PtpRuntime_faults (MCPtpRuntime) | InfoReadsOwnAnswer | `ptp_get_device_info` and `ptp_get_object_info` parse after the unlock (operations.c:116, 209) |
| | OpenTidZero | "transaction ID is always 0" (operations.c:96) fails beside another command |
| | EventIsEvent | `ptp_get_event` copies the buffer only when nothing arrived (operations.c:63) |
| UsbTransport_faults (MCUsbTransport) | IgnoredMeansSilence | an answer one empty read late is thrown away and the command repeated (transport.c:176) |
| | WaitHonoured | a caller's `wait_for_response` is overwritten before a USB read (transport.c:141) |
| | ParamsAgree | `ptp_get_param` returns the code after a data phase (packet.c:209) |
| IpTransport_hangup (IpTransport) | NeverOverrun | "Ensure data buffer is large enough for the rest of the packet" (transport.c:76): a claimed length below 4, or near 2^32, is read past the block (transport.c:77, 85) |
| | ReceiveEnds | the end of the stream inside a packet loops for ever (transport.c:92) |
| DownloadObject_close (MCDownloadObject) | ClosedByCaller | an object of whole chunks closes the caller's FILE twice (operations.c:366) |
| | WholeOnSuccess | "Download an object from handle, to a local file" (cl_ops.h): a full disk (operations.c:373) or a short chunk (operations.c:379) leaves part of it and 0 is returned |
| PropAvail_stale (MCPropAvail) | ReallocIfNeeded | a list of as many but larger members is copied past the block (lib.c:74-78, data.c:801) |
| | JudgedByLatest | a list of another length is judged under the old `memb_cnt` (lib.c:78) |
| EosEvents_json (MCEosEvents) | EventsJsonValid | bind.c:3-5 promises valid JSON; an array with an item ends in a comma (data.c:829) |
| EosRemote_faults (MCEosRemote) | BulbStopTold | a poll's answer hides a refused release from `bind_bulb_stop` (bind.c:396) |
| | PictureTaken | "this time a picture will be taken" (cl_ops.h:40): not after a picture whose release failed (generic.c:100) |
| | LiveviewTakenDown | live view with ML BMP is not taken down as it was set up (liveview.c:75) |
| | WhiteBalanceTold | the first white balance command's result is overwritten (generic.c:70) |
| UsbDevice_close (UsbDevice) | TransferOnClaimed | the handle is freed under a transfer (libusb.c:297) |
| UsbDevice_reopen (UsbDevice) | MutexReleased | opening an active connection keeps the mutex (libusb.c:210-213) |
| Lifecycle_faults (Lifecycle) | OwnDescriptors | a failing `getsockopt` closes a socket twice (ip.c:59, 157); a second close, or a command after it, meets a file (ip.c:203) |
| | DiAlive | `r->di` outlives a local structure (data.c:520) |
| | NothingLost | number 0 and a repeated connection lose a socket (ip.c:169) |
| | AcceptedWhenTold | a camera that hangs up in the handshake seems to accept (operations.c:49) |
| | TypeKnown | the structure is there before its content (bind.c:61-76) |
| | BindConnects | `bind_connect` refuses after the buffer grew |
| Codec_faults (MCCodec) | Utf8Inside, CutStrings | a string that does not fit: one byte behind the buffer, no terminator, and its rest is the next field (data.c:34-62, 98-130) |
| | SignKept, RangeEnds, RangeComplete, FormsRead | negative INT8 values, a step of 0, the maximum of a range, a description without a form (data.c:175-390) |
| | LineEnds, LongLineRefused, StringsDecoded | a blank at the end of a line, one token too many, string parameters in the decoder (canon_adv.c:111, dec/main.c:25-61) |
| | FirmwareArrives, CopiedWhenFetched | the size of the last block (canon.c:204); data copied after a failed command |
| | LinesPacked | four strings of about 120 characters, within MAX_STR and MAX_TOK, overflow the packer's blocks of 500 (canon_adv.c:189, 198) |
| | DumpIsContainers | a place inside a container that passes the filter is printed as another one (dec/main.c:272-295) |
| | AnyCutDecoded, FrameInside, AllAnswersAreJson | a packet that ends a container and begins another (dec/main.c:68), the last row's column too many (ml.c:110), the routes of `Unfinished` |

In a configuration with several properties TLC stops at the first one: leave
one of them at a time, or give `-continue` where all are invariants.

## 4. The proofs

Eight modules hold the theorems and their lemmas. They hold for every set of threads,
calls, outcomes, lengths and every bound; a hypothesis is a named definition of
the module and is listed here. The way is the same each time: an inductive
invariant that holds initially, that every action preserves (one lemma or step
per action), and that implies the property.

* **PtpRuntimeProofs**. `IInv` is `TypeOK`, `PcMatchesCall` (the code a thread is in
  belongs to its call) and `MutexMatchesCalls`. None is inductive alone: the
  depth stays a number because a releasing thread holds a level, and the levels
  depend on which function is around `ptp_send`. From it: TypeCorrect,
  MutexBalanced, and ExclusiveWire (two threads in an exchange would both own
  the mutex).

  Its second part is about the content of the exchanges. `EInv` relates the
  state of the pipe, the buffer and the last command to the place of the one
  thread inside an exchange; OthersKeep and OthersOut carry it over other
  threads' steps. From it: QueryOwnAnswer; ClosedStaysClosed (with `SInv`);
  ImplementsBus (with `TInv`: the id of a packet is the counter's while a thread
  is in its exchange); IdsAreFresh (with `FInv`: used ids stay below the
  counter). Hypotheses: `NoEvent` (ptp_get_event writes the buffer without the
  mutex); `NoOpen` for the last two, since ptp_open_session resets the counter
  outside the mutex; `OneSession` and `NoIoErr` for IdsAreFresh, since a failed
  first try returns without incrementing while a waiting thread may already be
  past the switch. PtpRuntime_faults shows that NoEvent and NoOpen are needed.
* **UsbProofs**, first part, on UsbTransport. `UInv` says what is where at each place of a call: `Writing`
  (the camera has heard the command up to `SentSoFar` and does nothing yet),
  `Reading` (the command is at the camera, or dropped, or executed, and then
  `r->data` followed by the pipe is one answer to it), `Resting` (all of that answer is in
  the buffer, nothing on the way), `Failed`, `Own` (nothing executed is of a later call),
  `Results`, and `Counting` (reads tried and left make up the budget). A stream is described by
  place: unit i of it is `UnitAt(a, i)` of the answer a, which makes splitting it
  at any place of any read a matter of arithmetic. From it: UsbCallTypeCorrect,
  PacketsAreWhole, AnswersAreWhole, AccessorsFindParts, and ImplementsRemoteCall, whose
  mapping counts the executions of the current call. Hypothesis: `Prompt`, the camera's
  patience below the budget; without it an answer is thrown away and the
  command runs twice (UsbTransport_faults).
* **UsbProofs**, second part, on UsbDevice (`DeviceSpec`). `AInv` adds to ActiveMeansClaimed in which part of which call the manager
  is (`PlacesMatch`) and what that part has made of the handle (`ManagerKnows`): the I/O
  switch is on from the lock to the claim. From it: UsbTypeCorrect, SwitchMeansClaim (also for a
  program that opens an active connection), OneTransfer (two workers never
  transfer at once). MutexIsReleased has the hypothesis `NoReopens`: without it the
  early return of libusb.c:210-213 keeps the mutex (UsbDevice_reopen).
* **IpTransportProofs**. In `IInv`, `InStep` says that the stream is a beginning of one of
  the answers a camera may give, packet after packet with their lengths, and
  where in it the reader's `stage` and `of` are; `Quiet` that nothing is left over between two
  exchanges; `Waits` that failed reads and reads left make up the caller's wait; `Roomy` that a
  packet leaves room for the length field of the next. From it: IpTypeCorrect,
  WaitIsHonoured, AnswersExact and BufferIsLarge, for any cut of the stream, and a
  peer that stops or closes anywhere. Packets may claim any length; `Steady` holds
  the parts of the invariant that last until one claims a length that is not `Sound`,
  and the two theorems about content and buffer end there. Their strength is that the
  first unsound length is the only way out of r->data.
* **DownloadProofs**. `DInv` gives what the file of each download holds of its
  object at each place, up to what its `faults` have left out, and the buffer's content while the
  mutex is held. From it: DownloadTypeCorrect, FilesArePrefixes (units of the own
  object, in order, without gaps unless the disk was full, whole on success without a
  fault), and DownloadsCopy (refinement of ObjectCopy) for any object and chunk lengths.
* **LifecycleProofs**. `LInv` is the type, `Ours` (a number the runtime holds is a socket of its
  kind, one the other thread holds is a file), `Attempt` (the socket of a
  connection under way is nobody else's) and `Connection`. From it: DescriptorsAreOwn under
  `Careful` (no `Habits`), which says for any number of descriptors that a sound program
  never touches another thread's file. DeviceInfoLives needs `DInv` alone and holds with
  any habits. Both are about `Spec`, in which getsockopt works and `r->di` is set by
  `bind_get_device_info` only; Lifecycle_faults has the counterexamples with a habit,
  and with `FaultSpec`, where getsockopt fails and a local structure is passed.
* **EosRemoteProofs**. `RInv` relates the exchange to its owner (`Wires`, `Own`), a call to its
  commands (`Calling`), what returned PTP_OK to what it did to the camera (`Acknowledged`,
  `Told`), and the exposures to the calls (`Counted`, `Bounded`). `Acknowledged` is the heart: the
  commands before the current one are in effect, or the call is already bound to
  fail. `trusted` restricts the bindings that test the shared buffer to calls no poll
  disturbed. From it: RemoteTypeCorrect, CallsInEffect (a call that returned PTP_OK stays in
  effect, all of it, until the next of its group), ShutterReleased, ExposuresCounted and
  LiveviewAsTold.
* **EosEventsProofs**. First PropAvail: `PInv` says that a listed code has one entry whose
  memory begins with its last list and, unless the code is `mixed`, is that of its
  members (`Known`, `Fits`), that the blank entry is alone (`BlankAlone`), and that what was
  spilt is of a mixed code (`SpiltMixed`); InsideMemory is not inductive without the first
  two. From it: AvailTypeCorrect, ListsInsideMemory, OneEntry, JudgedRight, for any
  codes, values, list lengths and member sizes. Then EosEvents: `EInv` says of each property that
  the last entry about it among those collected or polled is the camera's value, or
  there is none and the front end shows it already (`ValuesCome`), the same for lists and
  `r->avail` (`ListsCome`), that the array holds what was unpacked so far (`Unpacking`), and that
  what was set is still set (`Wished`). From it: FrontEndCatchesUp and OffersAreKnown, for
  any properties, values and number of entries in flight; SettingsReadBack;
  ImplementsPropAvail, and by it EventListsInside. Hypothesis of
  SettingsReadBack: `ReadsBack`, the values set are among those that `conv.c`
  brings back. All rows of the shutter, iso and aperture tables are, but iso
  640, whose data is that of 500 (conv.c:101-102).

* **CodecProofs**. Here a step is one call and the work is in what the operators compute,
  for data of any length. The induction theorems of the library take an operator, which
  the provers cannot instantiate; `UpTo` is induction over the members of a *set* of
  numbers, from the least-number principle (`WFMin`), and `Recursion` that a recursive function
  exists and satisfies its equation. With these, whatever a loop does is a statement about each
  turn of it:
  - `Stands(w, d, of)`: the bytes w are in d behind the first `of`. The parts of a
    dataset stand at the sums of the lengths before them (`PartsStand`, `Layout`), wherever it is.
  - a number, string or array is read from wherever it stands, and the reader goes on right behind it
    (`ReadsNumber`, `ReadStringIs`, `ArrayStands`), so a parser's cursor follows the parts
    (`FieldsRead`): DatasetsComeBack for object, storage and device infos with texts and
    lists of any length; StringsComeBack for the three codings, strings that are cut included.
  - a value of each of the thirteen types is `Taken` where it stands, its sign kept where the code
    keeps it, and so are the values of an enumeration and the three of a range, whose valid
    entries are listed by `RangeIs`: DescriptionsComeBack, for any type, form and number of values.
  - a token of each kind is taken from wherever its print stands in a line (`TokenTaken`), numbers
    from their digits in either base (`DigitsRead`), so the i-th turn of the lexer ends behind the i-th
    token (`TurnIs`, `LexIs`); the packed command, if it fits its block, stands in memory as `CommandAt` says, and the strings
    where `ReadsFooter` looks for them (`PackIs`, `FooterReads`), and its length is that of its parts: EvprocsReadBack, for any line.
  - a text *leads* the reader of JSON from one state to another (`Leads`); a value leads it from
    wherever one is wanted to behind it, whatever is open around it, and lists and
    objects of values do so too (`ItemsLead`, `Bracketed`): AnswersAreTexts, for lists of any length.
  - `Reached` says that behind a packet the containers up to the k-th are printed and the decoder
    misses exactly the rest of the k-th. Of a dump, what is printed behind each
    position is what passed up to there, unless it has stopped (`DumpGoesOn`, `DumpWhole`), which without
    strays are the starts of the containers: CapturesAreDecoded, for any containers, insides and cuts.
  - FrameIsThePicture: the last row that stores a place is the row of its pixel.

  The hypotheses are the job predicates of Codec: printable texts a length byte can count, numbers
  below 2^24 (the model keeps three bytes of a number), fields that fit their members, values
  of a description that fit their type (no negative INT8, whose sign is lost) and a step above 0, lines
  of at most `MaxTok` tokens that begin with a word, have strings of at most `MaxStr` characters
  without a quotation mark and no blank at their end (and a name that fits the decoder's buffer,
  for what is decoded), containers
  the decoder knows, cut inside data containers only and at the end of each. What
  happens outside is in Codec_faults.

These theorems state properties no listed run checks: the type theorems other
than TypeCorrect, IdsAreFresh, FilesArePrefixes, OneTransfer, CallsInEffect and
EventListsInside. The others state properties of the runs.

Only model-checked: liveness (CallsReturn, CallEnds, ReceiveEndsWithPeer,
DownloadsEnd, ConnectReturns), which is out of the prover's reach.

## 5. Not modelled

PROJECT.json gives a reason per component. Inside modelled ones: logging and
`ptp_panic`; allocation failures other than that of `ptp_buffer_resize`; what a program does after
memory was overwritten; image format entries (their lists reach `r->avail` and are there,
as lists whose members differ in size); lens steps; USB descriptors; the content of packets in
the runtime and the transports other than lengths, types and ids (PtpData has the
content of datasets on its own); the data race on the `int` switches beyond the
order of their accesses; the socket options and Windows variants of `ip.c`; the
CHDK commands and the palette counter of `ml.c`; the wording of JSON texts. In
Lifecycle a read or write of the handshake works or fails as a whole: partial
ones are in IpTransport. `read` of `ptp_download_object` is an int; objects of 2 GiB and
more, whose offset overflows, are left out. Words and
strings of MAX_STR characters and one more leave their entry of the lexer's table by the
terminator or a character (canon_adv.c:110-121, 152-165); the model follows the text and not
the byte behind it.

## 6. Plan

Done: every module of section 2, and the proofs of section 4: every safety
property of the runs.

Left to prove:

1. the entries' types (`EosTypeOK`), with the JSON lines among them;
2. under what a program would have to observe, the properties of the
   counterexamples: InfoReadsOwnAnswer with one thread, JudgedByLatest with
   lists of one length, NothingLost with a first socket above 0.

A new run takes the place of the least telling one, whose configuration then
moves to the table of section 3.
