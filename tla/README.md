# melo in TLA+

melo lets a *master* (a PC) read and write the memory of a *slave* (an Arduino
sketch, say) over a serial line.  This directory holds TLA+ specifications of
the library and of the programs around it, the TLC configurations that check
them, and proofs for TLAPS.  `PROJECT.json` relates every definition to the
lines of source it models, and lists the runs, the mutants that show that each
property can fail, the hazards and the theorems.

To check one model, `tlc -config SlaveInterrupt.cfg MCSlave.tla`; to check the
proofs, `tlapm MeloSlaveProofs.tla` and the same for the other `...Proofs` modules.

## The system

A master sends a *request* frame.  The slave answers with two frames: a *pending
response*, which announces the length of what is to follow, and a *final
response*, positive or negative.

| Component | State it keeps | Operations | What makes it correct |
|---|---|---|---|
| Main state machine of the slave (`melo/melo.c`, chart in `melo/states.yml`) | `_current_state`, timers of `_table`, `recv_frame`, `send_frame`, `wait_frame` | `MeloBackground`, `MeloReceiveByte(s)`, `MeloTransmitComplete`, during/entry actions | each transmission is confirmed once; a reply is one pending and one final response to one request; buffers under transmission are left alone |
| Event stack (`melo.c` 273-291, 425-447) | `_m_event_stack` | `_notify_event`, `_get_event` | no event that matters is dropped, whichever instruction an interrupt meets |
| Transition function generated by airy (`airy/templates`, `melo.c` 772-837) | none: works from the numbers in `_table` | `_is_parent`, `_state_transition` | entry and exit actions nest as the states do |
| Frame codec (`melo.c`) | receiver: `buffer`, `escape_buffer`, `crc_present`, `byte_order` | `_melo_serialize_frame`, `_melo_rx_byte` | what survives the line whole is delivered as sent |
| Packet handler and services (`melo.c`) | memory, packets of the two answers | `_melo_packet_handler`, `_service_read_write` | memory changes as asked and nowhere else; announced length is right |
| Slave sketch (`arudino-slave/slave.ino`) | the serial buffer of the Arduino core | `setup`, `loop`, `MeloTransmitBytes` | each request that arrives whole is executed once and answered before the next byte is read |
| PC master example (`win-master/serial_example.cc`) | receive buffer, its own copy of `melo.c` | builds requests, reads answers with a time limit | asks for what it is told to ask; shows each answer once, and for the command it belongs to |
| airy generator (`airy/airy.py`) | none | text templates | not modelled; what it generates is |
| Serial port library for Unix (`win-master/serial.cc`, `impl/unix.cc`) | port, descriptor, `is_open_`, two mutexes | `open`, `close`, `setPort`, the settings, `read`, `readline`, `readlines`, `write`, `flush`, `flushInput` | concurrent calls stay in one piece, on one port, and return; a failed `open` leaves nothing that looks open |
| The same for Windows (`impl/win.cc`) | handle, two mutexes | the same interface, over blocking operations on a handle that serialises them | the same |
| Port enumeration (`impl/list_ports`) | none | queries of the operating system | not modelled: no state |
| Build files and configuration | none | | constants appear as CONSTANTS |

**How they interact.**  The application of the slave feeds bytes into
`MeloReceiveByte`.  The TAIL byte of an intact frame puts the packet into
`recv_frame` and pushes REQUEST_RECEIVED on the event stack.
`MeloBackground` pops events and lets the current state handle them.  The
entry action of RESP_PROC executes the request and serialises both answers; the
entry actions of RESP_PEND and TX_PEND call back the application's
`MeloTransmitBytes`, which sends, straight from the library's buffers, and ends
in `MeloTransmitComplete`; that pushes TX_CONFIRMATION.

**What is hard.**  Nothing in the library masks interrupts or takes a lock, and
the README of melo does not say from where the callbacks may be called, so they can come
between any two events, and a receive interrupt between any two instructions.
Events are handled newest first, and one that meets a full stack, or an equal
event on top, is dropped silently.  There is one receive buffer and one pair of
answer buffers.  The line may lose bytes, and only part of the receiver's state is reset by
a new frame.  A master's write may end short and is then repeated from its first byte.  A
request may have fewer data bytes than it announces.  The time limit counts events.  The two
machines may differ in byte order.

The PC master runs the same state machine over the answers.  It waits for them with a time
limit, and has no way to tell a late answer from the one it waits for.  The class `Serial`
below it may be called from several threads; it locks transfers, but not `open`, `close` and the
settings.  `open` has several steps, and the later ones may fail when the earlier are done.

## Modules

### The slave

* **MeloEventStack**: `notify_event`, `top` and `popped` are `_notify_event` and
  `_get_event`; a stack is the sequence of the occupied slots.
* **MeloSlave** composes the event stack and the transition function with the
  four states.  `Receive` is a TAIL byte that completes a frame (the bytes are
  MeloLink's subject), `TransmitComplete` the callback of that name,
  `BackgroundCall`, `Dispatch` and `BackgroundReturn` are the call of
  `MeloBackground`, one turn of its loop, and its return.  `Dispatch` holds the
  whole handling of one event: the pop, the during action of the state and
  of RESP_PROC, the transition with the entry actions, and the application's
  `MeloTransmitBytes`.  Packets are members of `Requests` or `NonRequests`; a frame
  being built is remembered by the request it answers.  `Port` selects how the
  application calls the library:
  - `"sketch"`: as `slave.ino`, synchronously;
  - `"interrupt"`: callbacks come between any two events of `MeloBackground`.  An
    application that polls, and ends its transmissions after `MeloTransmitBytes` has
    returned, is a special case.
* **MeloReplies** is the abstract specification: an inbox of one packet, a phase,
  and the request the replies are about.  `RepliesSpec` in MeloSlave is that
  specification under a refinement mapping: the inbox is `packet` while a
  REQUEST_RECEIVED is on the stack, the phase is the state.  MeloReplies
  admits that a packet is replaced by a newer one, that a busy slave drops it, and that a
  packet which is no request makes the slave repeat its last reply, because the
  code does all three.
* **MCSlave** supplies the packets.
* **MeloEventRace** takes `_get_event` and `_notify_event` apart into the loads and stores of
  their C statements.  `RxInterrupt` is a whole `_notify_event` from a receive interrupt and may
  come between any two of them.  The stack is the length and the array, with what was popped still
  lying above the length, as in the code.  Only the events are modelled, and the states as far
  as they decide which event matters; transmission is that of slave.ino.  `Rereads` says
  whether the build may load the length again in the middle of a function; see the remarks below.

In the code, the AFTER(500) transition of RESP_PROC runs in the during action that the substates
call first; they throw its result away.  What is left in the model is
the count (`RESP_PROC_during`); see finding 1.

### The generated state machines

* **AiryTransitions**: `is_parent` and the loops of `_state_transition`
  (`downwards`, `upwards`) with the sequence of exit and entry calls they make.  MeloSlave takes its
  entry actions from here.
* **AiryMachine** runs that function on *every* chart of a given size, one
  action call a step, and compares the states it opened and closed with the
  parents in the chart.  The chart's own definition of nesting (`Ancestors`) is
  independent of the left and right numbers that the code reads.  Those an author writes beside the
  states in `states.yml`; they are the constant `Numbers`, and `NumbersAssumption` asks that their intervals nest as
  the states do.  **MCAiry** is its instance and has such numbers for every chart.

### Frames

* **MeloFrame**: the format; `serialize_byte` is one turn of the data loop of
  `_melo_serialize_frame`, `rx_byte` is `_melo_rx_byte` with one operator for
  each kind of byte.
* **MeloLink**: a sender, a line that loses bytes, and the receiver.  The lines
  that send and receive one byte are steps, so that a loss can hit each byte.  **MCLink**
  supplies the data of the packets.

### The sketch

* **MeloSketch** is the whole slave, byte by byte.  Its line is filled by a master's
  `MeloTransmitBytes` (`Send`; `SendTwice`, when the first `write` ends short and the loop begins
  again; `SendThrows`, when it throws half way) and emptied by `loop()` (`ReadByte`), which calls
  `MeloBackground` after each byte.  It composes the receiver of MeloFrame, the state machine and
  the event stack of MeloSlave with `Port = "sketch"`, and the services of MeloService, whose
  answers it serialises again.  `own`, `whole`, `before` and `clean` are ghosts that remember what
  the newest request was sent as and what it met.  **MCSketch** supplies the requests.

### Requests

* **MeloService**: `Request(op)` is the whole way from the master's call to the
  packets of the answers: `request` is what `MeloReadMemoryByAddress` and
  `MeloWriteMemoryByAddress` build, `packet_handler` is `_melo_packet_handler` in
  a slave.  A request may also have fewer data bytes than its size says (`Shorts`); then
  the service reads on into what the packet before it has left in `recv_frame`.  Integers are sequences of bytes; `esafe` and `native` are the
  byte-order conversions of the library and of the processor.
* **MeloMemory** is its abstract specification: reads return what is there,
  writes change the cells they name, and whatever else is asked is refused.
  `MemorySpec` is the refinement.  **MCService** supplies the bytes.

### The PC

* **MeloSession** is `main()` of serial_example.cc.  A command is `Ask` (build and
  transmit the request), any number of `Arrive`, `Read` (which may come at any time: the time
  limit), `MeloReceiveBytes` (the whole buffer, whatever was read), and the `Dispatch` and
  `BackgroundReturn` of `MeloBackground`.  It composes four modules: the answers are those of
  MeloService (`Slave`), the bytes those of MeloFrame, the events those of
  MeloEventStack, and the state machine is MeloSlave (`Machine`), with
  `packet_handler` for what a master does with a packet.  `ServeGarbage`: an
  uninitialised buffer may hold a frame that passes for a request, which the master then
  serves, at an address made of garbage; the session ends there, undefined.
  `main()` reads and writes single bytes (`CommandsAssumption`).
  **MCSession** supplies commands and the contents of that buffer.
* **SerialPort** is the class `Serial` with both of its implementations; `system` says which.
  Each thread is at a label of its call, and the steps between two labels are those between
  which another thread can change what the call relies on: taking each lock, the test of
  `is_open_`, then
  - on Unix the first `::read`, `select`, the `::read` or `::write` behind it; `TimedOut` is the end
    of the total time, at any turn of either loop;
  - on Windows `ReadFile` or `WriteFile`, entered (`EnterFile`) and then under way, which on a
    handle that is not overlapped excludes every other operation on it, its closing included
    (`may_operate`).

  `Flush` waits for the line with both locks held: `Drained` is the return of `tcdrain`,
  `FlushFile` that of `FlushFileBuffers`, which has the handle to itself meanwhile.

  The owner's calls are `::close` or `CloseHandle`, `::open` or `CreateFile`, `reconfigurePort`, which may
  fail (`ConfigureFails`, `StateRefused`), and the assignments of `fd_` and `is_open_`, each a step.
  `stale` is a handle that `reconfigurePort` has closed without a change of `fd_`, `leaked` the
  handles that are open and in no `fd_`; on Windows, where a port is opened with no share mode,
  these keep it from being opened again.  `FileFails` is a transfer that the system refuses.
  **MCSerial** is its instance.

Definitions whose name is that of another with a suffix and that stand right before it
(`notify_event_always`, `rx_data_unshifted`, ...) are mutants: what the
definition would be with a plausible bug.  Nothing uses them; `PROJECT.json`
names for each property a mutant that breaks it.

## Runs

| Run | Instance | What it shows |
|---|---|---|
| slave_interrupt | Port "interrupt", 3 requests, 1 other packet, with fairness | `TypeOK`, `ExactlyOneConfirmation`, `StackHasRoom`, `BuffersStable`, `RepliesSpec`, `RepliesEnd` |
| race | the shipped stack, an interrupt between any two instructions, with fairness | `TypeOK`, `ConfirmationKept`, `NoEmptyPlaces`, `RequestTakenUp`, `CalmAfterSilence` |
| sketch | 3 requests out of 4, one byte lost, writes that end short, with fairness | `TypeOK`, `BuffersHold`, `Quiescent`, `WholeRequestServed`, `EveryRequestAnswered` |
| slave_timeout | Port "interrupt", with fairness | finding 1 |
| airy | all charts of 6 states | `AiryTypeOK`, `ConfigurationMatches`, `ParentsOutlast`, `EnteredOnce`, `SharedParentsStay` |
| link | 3 frames of 6 payloads with and without CRC, 3 losses | `TypeOK`, `WholeFrameDelivered`, `OnlyTailsAnnounce`, `WholeFrameCleans` |
| link_head | 2 frames, 3 losses | finding 2 |
| service | 4 cells, 3 values, complete and short requests, both sides big endian | `TypeOK`, `AnnouncedLengthIsExact`, `FramesFit`, `MemorySpec` |
| service_order | as service, slave little endian, master big endian | finding 3 |
| session | 3 commands, 2 addresses, 7 contents of the uninitialised buffer | `TypeOK`, `PromptIsClean`, `AtMostOneResponse`, `TimelyAnswersAreShown` |
| session_stale | as session, 2 commands, a buffer of zeros | finding 4 |
| serial | Unix and Windows, 2 threads with a call each, an owner with 2 calls, 2 ports, with fairness | `TypeOK`, `OpenMeansOpen`, `OnePort`, `ReadsDoNotInterleave`, `WritesDoNotInterleave`, `EveryCallReturns` |

**The properties**

* `ExactlyOneConfirmation`: a busy slave has exactly one confirmation coming
  (a transmission under way) or waiting (on the stack), an idle slave none.
* `StackHasRoom`: the shipped stack of five slots, four of them usable, is never
  full; so the only events dropped are those equal to the top.
* `BuffersStable`: while the application sends, neither answer is rewritten and
  no second transmission starts.
* `RepliesSpec`: each packet is taken up at most once and never in the middle of
  a reply, and both responses of a reply are about the same request.
* `RepliesEnd`: a reply that has begun ends, provided that `MeloBackground` returns again and
  again.  The condition is needed: `MeloBackground` pops the newest event first, so requests that
  arrive from an interrupt as fast as they are dropped keep a confirmation below them waiting.
  No line of the repository promises the contrary, so this is a remark and not a finding.
  Where one loop calls both, the condition holds of itself: nothing is pushed while
  `MeloBackground` runs but one confirmation a transmission.
* `ConfirmationKept`, `NoEmptyPlaces`: whichever instruction of the event stack is interrupted, the
  confirmation of a busy slave stays the only one, in hand or on the stack, and no empty place
  gets onto the stack, where `MeloBackground` would take it for the end.  A *request* may be lost: one that
  arrives between the load of the length and the store of what is left is overwritten.
  `RequestTakenUp` says that this is the only way: one that comes while the application is outside
  `MeloBackground` is taken up.  `CalmAfterSilence`: once packets stop, the slave comes to rest with nothing left.
* `BuffersHold`: the receive buffers, which `_melo_rx_byte` fills without looking at their ends, are
  long enough, also when the HEAD between two frames is lost and their bytes run together.
* `Quiescent`: whatever byte of whatever frame, whole or damaged, `slave.ino` leaves
  `MeloBackground` with an idle slave and nothing on the stack.  `WholeRequestServed`: a
  request of which every byte arrives, at a receiver without left-over escape bits, is executed
  on the memory it finds and answered by a pending and a final response that a master's
  receiver understands, whatever became of the requests before, and although its
  beginning may have been sent twice.  `EveryRequestAnswered`: the slave gets there, for each of
  the requests.
* `ConfigurationMatches`, `ParentsOutlast`, `EnteredOnce`, `SharedParentsStay`:
  the calls of any transition open and close the right states, inside out and
  outside in, each once, and leave common parents open.
* `WholeFrameDelivered`: whatever the line did to earlier frames, a frame that
  arrives whole at a receiver without left-over escape bits is delivered as sent.
  `WholeFrameCleans` bounds the damage where there are left-over bits: one whole
  frame with three data bytes uses them up.  `OnlyTailsAnnounce`: data is never
  mistaken for the end of a frame.
* `AnnouncedLengthIsExact`: the pending response announces the number of bytes
  the final response has, escape bytes included.  `FramesFit`: neither answer
  outgrows its buffer.  `MemorySpec`: see MeloMemory.
* `PromptIsClean`: a command leaves the master's state machine idle with nothing on its
  stack, although transmitting the request leaves a confirmation nobody asked for below
  the answer, and although an answer may be late, missing or half there.
  `AtMostOneResponse`: the two frames of an answer, and of a late one before it,
  make one event.  `TimelyAnswersAreShown`: a command whose answer came whole and in time shows that
  answer, whatever the commands before it met and whatever the buffer began with, on a condition (`undisturbed`):
  when the buffer is fed to the receiver, the receiver has no escape bits left over, and
  behind the answer there is no HEAD with a TAIL behind it.  Both may be otherwise, as the buffer
  begins uninitialised and keeps earlier answers: see the remarks.  So the
  property says that nothing else which is fed on behind an answer (data, ESCAPE bytes,
  TAILs) takes its place, and that the six bytes that `main()` adds to the length of the
  request are enough.
* `OpenMeansOpen`: between two calls of the owner, an open port has the descriptor of the port
  it is named after, whichever step of `open`, `close` or `setPort` failed before.
* `OnePort`, `ReadsDoNotInterleave`, `WritesDoNotInterleave`: what the two mutexes are
  there for, also when the port is closed and opened, which takes no lock, under a transfer.
  `EveryCallReturns`: no two calls wait for each other's lock, or for the handle, and a call whose
  port was closed ends.

### Findings

1. `states.yml` gives RESP_PROC a transition AFTER(500) to IDLE.  In the code the
   limit never brings the slave back to IDLE (slave_timeout): RESP_PROC is never the
   current state, and its substates discard what its during action returns.
   Besides, the timer counts events rather than time.
2. The HEAD branch of `_melo_rx_byte` is commented "Reset receive buffer"; it
   does not reset `escape_buffer`.  When data bytes behind an ESCAPE byte are
   lost, a following frame that arrives whole is delivered with changed data (link_head).
3. `serial_example.cc` says of the address format that byte order "is
   automatically accounted for"; a master of the other byte order writes to
   another address (service_order), because it announces its own byte order for data
   that it always lays out lowest byte first.
4. The README of melo says `MeloReceiveResponse` is called "when a slave response has been
   received".  `serial_example.cc` feeds its whole buffer to the receiver, however little
   `read` returned: after a read that timed out empty, the previous answer is shown again
   (session_stale).

Remarks, on what no line of the repository promises or no run shows:

* `MeloEventRace` with `Rereads = TRUE`, a build that loads the length again at each use, violates
  `TypeOK`: an interrupt between two loads moves the index past the array.  C allows both builds, as the stack is not
  `volatile`; an optimising compiler keeps the length in a register, and the run is about that one.
* A write request that is short of data takes the rest from the packet before it.  It
  changes no cell other than those it names (`MemorySpec`), but what it writes there is
  nothing the master sent.
* `serial.h` says of `flush` that it flushes "the input and output buffers"; `unix.cc` only waits for the output.
* In `unix.cc` a `read` does not end when `inter_byte_timeout` is over, the loop just comes round.
* In `win.cc`, `reconfigurePort` closes the handle when `SetCommState` refuses a setting of a port that was
  open, and leaves `fd_` and `is_open_`: `isOpen()` then says true of a handle that no longer works,
  although `serial.h` promises "true if the port is open, false otherwise", and
  `close()` throws, for ever (`StateRefused`, `stale`).  Every other call throws and comes back, which is checked.
* `_melo_frame_handler` has branches for "Run CRC check" and "Error - Invalid CRC", and the API offers
  `use_crc`; the state machine calls it with `false` whatever the frame says.  The length byte is believed too.
  So a frame that lost bytes is handed on, with or without a CRC: one without data that lost its
  command byte arrives with its CRC for a command.  No property of MeloLink speaks of what a broken frame
  delivers.
* `rx_frame_buffer` of `serial_example.cc` is not initialised, and all that was asked for is fed to the receiver.  When it
  happens to hold a frame behind the place where a whole answer ends, or an earlier answer is still
  there, that frame is shown in place of the answer; finding 4 is the same with no answer at all.
* An ESCAPE byte in `rx_frame_buffer`, behind an answer, leaves bits over (finding 2), and the *next* answer, whole
  and in time, is shown with changed data.  Such buffers are among those of the run session (all 127, or 127 at
  the 15th place only); the condition of `TimelyAnswersAreShown` leaves out the command that meets those bits and
  not the one that leaves them.
* With the default `Timeout`, which is zero everywhere, a read returns at once on Unix and
  waits for all its bytes on Windows.

## Bounds

* `StackSize = 5` is the shipped `MELO_CFG_MAX_STACK_SIZE`.  `After = 2` and
  `TimerMod = 4` stand for 500 and 2^16: the timer goes past its limit, wraps
  and is reset.  Three requests are enough for one to replace another that replaced a third, while a
  packet that is no request interferes; slave_timeout, where the timer is what counts, has two.  The
  number of packets that arrive is unbounded.  In MeloEventRace packets are alike, and nothing
  else is bounded.
* In MeloSketch, three requests: one that is damaged, one that meets the consequences, one that
  shows whether they are over.  A byte lost is enough to take away a HEAD, a TAIL, a length, an ESCAPE
  or data; MeloLink has three losses.  The receive buffers are those of `MAX_DATA = 12`, where
  `melo_cfg.h` ships 100; with 10 they would overflow, so that `BuffersHold` says something.  A write ends short after 5 bytes, which is in
  the middle of a frame, behind an ESCAPE if there is one.  The commands have addresses and
  values that need an escape and some that do not, and there is one that the slave refuses.
* Six states hold three levels of nesting with siblings on each, and transitions
  between any two of them.
* Three frames: one that is hit, one that meets the consequences, one that shows
  whether they are over.  Three losses remove all that follows an ESCAPE byte, or a HEAD, a
  TAIL and a length in one run.  The payloads cover the window of an escape byte at both
  ends, a second window, and data that looks like each control byte.
* Data whose value read as a length would exceed the receive buffer, and data longer than a length
  byte can say, is excluded (`PayloadAssumption`): there the code copies past its buffers, which has
  no defined outcome.
* The requests of MeloSketch write values of one, two or four bytes to cells that exist, or are
  refused (`CommandsAssumption`), as those of MeloService are.
* Four cells hold one 4-byte value or two 2-byte values that overlap; 33 is a byte
  that needs an escape and 1 one that does not.  A short request may lack any number of
  its data bytes, and what is in their place is whatever the packet before it was.  The frame buffers are of the
  shipped size (`MAX_DATA = 100`).
* Three commands: one that is late or lost, one that meets its answer, one that shows
  what is left over.  The buffer starts with data, HEAD, TAIL or ESCAPE bytes only, with HEADs and TAILs in turn, with
  one ESCAPE byte where no answer reaches, or with a frame there.  Requests are lost whole and answers come in order; bytes lost inside a frame are
  MeloLink's.  The operations are of one byte, as one side of the master's menu is.
* In SerialPort, two bytes to a transfer and three that come in are enough for a byte of one
  call to fall between two of another.  Each thread has the calls that `Tasks` gives it,
  between them every kind that takes each lock.  `MaxCalls` gives the owner two calls, so that it can
  close a port under a transfer and open it again.  With finitely many calls no
  thread can be kept from a lock for ever by others that keep calling: starvation by
  the scheduler is outside the model.  Only one thread opens and closes; two that did so at once
  would get two descriptors.

`CHECK_DEADLOCK FALSE` stands in the runs of link, session, sketch and serial, which stop after
`MaxFrames` frames, `MaxExchanges` commands, `MaxRequests` requests and `MaxCalls` calls.

## Fairness

MeloSlave, MeloEventRace, MeloSketch and SerialPort have a `FairSpec`.

For MeloSlave: the README of melo says that `MeloBackground` "must be called continuously", hence
weak fairness of `BackgroundCall`; that its loop goes on and returns is weak fairness of `Dispatch`
and `BackgroundReturn`.  It also says that once the transmission is complete the
application "must" call `MeloTransmitComplete`.  An application that polls can do so
only between two calls of `MeloBackground`; its loop comes round to it again and
again, which is strong fairness of `TransmitComplete`.  Nothing makes packets arrive.

For MeloEventRace, weak fairness of `Background`: the application calls it continuously,
and interrupts leave it time for an instruction now and then.

For MeloSketch, weak fairness of `loop()`, which is one sequential program: it reads a byte that
is there, and `MeloBackground` goes on.  Nothing makes the master ask, and no byte need be lost.

For SerialPort, weak fairness of each thread's steps is that the operating system runs the
thread, that time passes for one that waits for the port, and that the line takes what was
written, for one that flushes.  The last is a premise about the device: neither `tcdrain` nor
`FlushFileBuffers` has a time limit, and where hardware flow control stops the output for good, a
`flush` never returns, and keeps both locks.  Nobody need call, nothing need
arrive, and `FileFails`, which stands for a device that went away, is not fair.

## Proofs

Every modelled component has theorems.  They hold for every value of the
constants that the named assumptions admit; TLC evaluates each assumption in a run.  Each state
invariant of the runs is a theorem but for `BuffersHold`, and so are the action properties and both refinements.

### The slave

`MeloSlaveProofs`: for every set of packets, both
ports, every stack of five slots or more, every time limit and timer width,

* `TypeCorrect`, `ExactlyOneConfirmationAlways`, `StackHasRoomAlways`: the state invariants
  of slave_interrupt;
* `BuffersStableAlways`: its action property;
* `SlaveImplementsReplies`: `Spec => RepliesSpec`, the refinement.

They rest on `PacketsAssumption`, `PortAssumption`, `TimerAssumption` and
`StackSizeAssumption`.

**The invariant.**  None of the three state invariants is inductive.  That the
confirmation of a transmission is not dropped needs room on the stack; that there is room
cannot follow from the length alone, because requests keep arriving.  The
argument is: neighbours on the stack differ (`Alternating`), because
`_notify_event` drops an event that equals the top and popping removes the end;
there is at most one confirmation (`ExactlyOneConfirmation`); a sequence over two
events in which neighbours differ and one of them occurs at most once has at most three
elements (`AlternatingIsShort`), and if the confirmation is not there at most one
(`NoConfirmationIsShort`).  So a stack that takes four always has room.  In turn `notify_event`
really adds the confirmation, because none is on the stack when a transmission
ends (`NotifyOnce`).  For the refinement `IInv` adds that both answers are about
one request (`FramesAgree`) and that an announced packet exists (`PacketPresent`).
`NextIInv` shows that every action keeps `IInv`, with a lemma for each of the
actions that change the stack; `Entries` computes once from the table
which transitions enter RESP_PROC.  The refinement has a lemma for each action
that is not a stutter; that of `Dispatch` has a case for each state and event.

### The machines that airy generates

The second part of `MeloSlaveProofs`: for a chart of any number of states and any numbers that nest as its states
do (`TopAssumption`, `NumbersAssumption`), `AiryTypeCorrect`, `ConfigurationMatchesAlways`,
`ParentsOutlastAlways`, `EnteredOnceAlways` and `SharedParentsStayAlways`: all properties of the
run airy.  `MeloTableNests` shows that the chart of melo and the numbers in its `_table` are an instance.

**The loops** give, for any set of states, those up to their bound, each once, in falling or in rising order
(`Downwards`, `Upwards`), by the induction described under Frames.  A state's ancestors have smaller
numbers (`Around`), so the bounds leave none out, and the numbers tell which of them a transition leaves
(`Crossed`).  So `TransitionCalls`: what is closed from within, then what is opened from without, each once.

**The invariant** `Balance` needs no position in the list of calls: open is what both ends share, what is still to be
exited, and what was to be entered and is no longer.  What is still to be exited is always the *outer* part of
what the transition closes, as the largest number goes first, and what is still to be entered
the *inner* part of what it opens; hence `ParentsOutlast`.  When the list is empty, the balance is the
configuration (`AtRest`).  Between them lies one lemma about a single call (`CallBalance`).

### The event stack, instruction by instruction

`MeloEventRaceProofs`: for every stack of five slots or more, in a build that keeps the length in
a register (`~ Rereads`, a hypothesis of each theorem), `TypeCorrect` (no index leaves the array),
`ConfirmationKeptAlways` and `NoEmptyPlacesAlways`.

**The invariant** relates not the stack to its length but to `depth`, where the
function at work has it end: between the load of the length and its store, what an interrupt puts
on top does not count.  Up to the depth neighbours differ (`Differ`) and there is one confirmation
at most (`Kept`), the argument of MeloSlave over again, except for the place that
`_notify_event` has counted and not yet filled; `Registers` says what each function
still knows of the stack when the interrupt is over.  Each instruction has a lemma.

### The serial port

`SerialPortProofs`: for any number of workers, ports, sizes and calls, and every choice of
the systems, `TypeCorrect`, `OpenMeansOpenAlways`, `OnePortAlways`, `ReadsDoNotInterleaveAlways` and
`WritesDoNotInterleaveAlways`: all the state invariants of the run.  They rest on the five named
assumptions of SerialPort: that a size is not zero, that the owner is no worker, and that
only the owner opens, closes and configures.

**The invariant** has layers, each of which needs those before it.
`Base` are the types and the locks: a thread past its locks holds those of its kind of call
(`Locked`) and is at a label of that kind (`Fitting`).  So at most one thread is reading and at
most one writing, and while one of them is, `setPort` does not get past its locks.  `Opened` is what `is_open_`, `fd_`
and the place of the owner say of each other; `OpenMeansOpen` is its first line, seen from outside the owner's calls.  `OnLine`:
while someone reads, what is in his buffer and in the input belongs to one port: closing may take the descriptor
away and opening brings the same port back, as its name cannot change meanwhile.  `Ordered` and `Apart`: the numbers
of the bytes rise along the input, all of them above those in any buffer; the buffer of the reader
lies above the others.  `Written` and `InOnePiece`: what the call of a
writer has written is the end of the output, and a call that begins has a number under which
nothing is written.  Each layer has a lemma of its own for the next-state relation
(`NextBase`, `NextOpened`, `NextOnLine`, `NextOrdered`, `NextWritten`).

### Frames

`MeloFrameProofs` is about the format alone, `MeloLinkProofs` about MeloLink: `TypeCorrect`,
`WholeFrameDeliveredAlways`, `OnlyTailsAnnounceAlways` and `WholeFrameCleansAlways`, all the
invariants of the run link, for any payloads, with and without CRC, any number of frames and any
number of losses.  The assumptions are `CommandAssumption`, `PayloadAssumption` and
`LimitAssumption`.

**Induction over data.**  Writing a frame is a recursive function over its data, and what it gives for data of any
length needs induction.  The library's induction theorems take an operator and cannot be used here; `NatInd`, which
follows from `WFMin`, takes a *set* of numbers.  A loop is proved about in two steps: the function that it
looks for exists up to any number of turns (`LoopExists`), so each of its values is one turn away from the one before
(`LoopTurns`); then the loop invariant is a set of numbers.  The same is done for a master that
reads (MeloSketchProofs), for the buffer it feeds to its receiver (MeloSessionProofs), and for the loops and the ancestors
of charts (MeloSlaveProofs).

**The sender.**  `Decodes(out, data, n, e, c)` says that a receiver which reads `out` gets the first `n` bytes of
`data`: `e[k]` are the escapes it holds before the `k`-th byte, `c[k]` the bytes it has then.
The loop invariant `LoopInv` is that, and where the newest ESCAPE byte is and how many of its
bits are free.  The difficulty is that the sender goes back to that byte and sets a bit in it after the
bytes behind it were written (`AppendWithin`): then `e` changes for all of them, which no byte without an escape
notices, as the new bit is above those they see (`OpenBits`, `EscapeRoom`).  `DataDecodes` is
the result, with the length: at most twice that of the data.  `FramesAreFrames` adds HEAD,
command, length and TAIL.

**The receiver.**  `FrameHead`, `FrameByte` and `FrameTail` are what each byte of a frame does to *any*
receiver.  A chain of them is the invariant of MeloLink: the next byte on the wire is the `k`-th of a frame
(`OnWire`, `Carrying`), and what the receiver holds is what `e[k]` and `c[k]` say, if it was clean, or bits that
the next bytes shift out, if it was not (`Reading`, `Left`, `LeftShifts`: three bytes of data, with
the command and the length, are five shifts).

### The services

`MeloServiceProofs`, for every size of the memory and every set of values, under
`MemoryAssumption`, `OrderAssumption` and `DataAssumption`:

* `TypeCorrect`, `AnnouncedLengthIsExactAlways`, `FramesFitAlways`: the state invariants of the run,
  for master and slave of any byte order;
* `ServiceImplementsMemory`: MeloService implements MeloMemory, where both have one byte order
  (`PE = HE`, a hypothesis; finding 3 is what happens elsewhere).

**The refinement.**  The invariant is only that memory and receive buffer hold bytes.  The work is
in the data: the bytes of the request come to lie in the
buffer where the service looks for them, behind whatever was there (`Buffer`, `RestOfBuffer`), the
bit fields of the command byte come out as they went in (`Fields`, `Sizes`), a store changes
the cells it names (`Stored`), and reversing twice is nothing (`NativeTwice`).  There is one lemma for each
kind of request.

**The answers.**  A service leaves at most four bytes of data, also when it is refused and those of
the answer before stay (`ServiceTypes`).  So a final response has at most twelve bytes, four of them
around the data (`AnswerLength`, from `DataDecodes`), and `create_r`, which changes greater numbers, leaves its
length as it is (`ShortLength`).

### The sketch

`MeloSketchProofs`, for any requests, any number of them, any short writes and any losses, under the assumptions of
MeloSketch, MeloFrame and MeloEventStack:

* `QuiescentAlways`.  The invariant `IInv` lists what `MeloBackground` may find: an idle slave with
  nothing or with a packet, or a busy one with its one confirmation (`Waiting`).  It asks
  nothing of the receiver, as `_melo_rx_byte` notifies one event or none, whatever the bytes.
* `TypeCorrect`.  A damaged frame can make any packet, with any command and any
  length; that the bytes stay bytes through a service that was never asked for is `Types`.
* `WholeRequestServedAlways`, where master and slave have one byte order (`PE = HE`).  `Tracked` follows
  a request that loses no byte.  While it is on the line, its bytes are the last ones there,
  whatever is in front of them (`Coming`), and once its HEAD has met a receiver without left-over escapes, the receiver
  holds what has been read of it (`Arriving`).  At the TAIL it is in the buffers and one event on the stack (`Received`),
  and from the first dispatch on it has been executed on the memory it found, and a part of its answers is out
  (`Answered`).  There are lemmas for HEAD, TAIL and the bytes between them, and for each of the dispatches.  At
  the end `TwoPackets` shows that the bytes of the two answers are, to a master that has
  read nothing before, those two answers.

The services' lemmas are those of MeloServiceProofs, taken through an instance (`Proofs`).  A fact about an instance
holds under the assumptions of its module, so `ServiceAssumptions` shows that
they follow from those of MeloSketch, and is cited with every such fact.

These theorems and those of MeloLink take sequences for the receive buffers.  The code has arrays, and what a build does past
their ends is undefined: where `BuffersHold` is false, the theorems speak of a slave whose
buffers are longer.

### The session

`MeloSessionProofs`, for any commands of one byte at addresses of the memory and outside it, any number of commands, and
machines of any byte order, under `SessionAssumption` and `CommandsAssumption`, and those of MeloFrame and MeloEventStack:

* `PromptIsCleanAlways`, `AtMostOneResponseAlways`.  `IInv` is about the events alone: a request leaves one confirmation
  on the stack (`Confirmed`), and whatever bytes one buffer holds, feeding them to the receiver puts one event on
  top of it or none (`Announced`), because a second would equal the first.
* `TypeCorrect`.  `read_size`, the length of the request's frame and six, never exceeds the buffer: a frame is
  at most twice its five bytes of data and four bytes around them (`DataDecodes`).
* `TimelyAnswersAreShownAlways`.  `Timely` follows the answer while it is in time: it is on the
  line, then at the head of the buffer (`Answered`), then in the packet that the receiver holds
  (`Showing`), then shown.  It has ten or eleven bytes, and at least fourteen are asked for.  `FeedAnswer`: a
  receiver without left-over escapes makes the first frame's packet and then that of the second, and there is an
  event for them; `FeedRest`: what is fed on behind them leaves both as they are, unless there is a frame in it.  A TAIL
  alone delivers the packet once more, and an ESCAPE byte changes only data that comes later.

The last theorem has no hypothesis on the buffer: what `main()` leaves uninitialised may be any bytes, and the
condition of the property speaks of the buffer and the receiver at the moment of the read.

### Model-checked only

* Liveness and everything that needs fairness: `RepliesEnd`, `RequestTakenUp`, `CalmAfterSilence`,
  `EveryRequestAnswered`, `EveryCallReturns`.
* `BuffersHold`, which is no theorem: it holds for a number of losses that is small against
  the buffer.  A line that loses every HEAD fills it past its end.

## Not modelled

* Writes past a buffer, for want of a defined outcome: a stream of data bytes
  without a HEAD, or a length beyond the buffer; `BuffersHold` says that the runs do not get there.  The run of a build that loads the length of
  the event stack again ends at the same place.
* `MeloTransmitComplete` from an interrupt at the level of instructions: MeloEventRace has the receive
  interrupt only, as the sketch transmits synchronously.
* A CRC of its own: the code puts a constant where the check sum belongs and never looks at it
  (`CRC`, and see the remarks).
* In the serial library: what `FD_SET` does with the descriptor -1, when the port is closed under a `read`
  (`unix.cc` 497) or a `write` (629): that is undefined, and of its outcomes only the one is modelled where the
  wait goes on until its time is over.
* Also there: what the settings do on the line, modem lines, break, errors of `::close`, time
  limits of zero, a descriptor that the system gives out again for something else
  while a call still uses it, names that `win.cc` completes with a prefix.  One thread opens and closes; the library
  has no lock that would let two do so.
* In the PC master: the choice of the port, menus and printing.
* The port enumeration, which is queries of the operating system without state, and airy's text processing.

## Plan

Done:

1. MeloEventStack, MeloSlave, MeloReplies; AiryTransitions, AiryMachine; MeloFrame,
   MeloLink; MeloService, MeloMemory; proofs of the slave's safety and refinement.
2. *The master's session*: MeloSession, over the four modules above.
3. *The serial library*: SerialPort, for both systems, and its proofs.
4. *The event stack at instruction level*: MeloEventRace and its proofs.
5. *The slave byte by byte*: MeloSketch and its proof; requests with too little data in
   MeloService, and the proof that it implements MeloMemory.
6. *The frames*, by induction over data: MeloFrameProofs, and with them the proofs of
   MeloLink, of the answers' lengths in MeloService, and of the sketch from a byte on the line to
   the answer.
7. *The proofs of the session*, MeloSessionProofs.
8. *The proofs for every chart*, in MeloSlaveProofs.

What could follow, in order:

9. The instruction-level stack with `MeloTransmitComplete` from an interrupt as well.
10. The port enumeration and airy's text processing, if they ever keep state.
