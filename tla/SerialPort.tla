------------------------------- MODULE SerialPort -------------------------------
(***************************************************************************)
(* The serial port of the PC: class Serial with its two mutexes            *)
(* (serial.cc) and its two implementations, for Unix (impl/unix.cc) and    *)
(* for Windows (impl/win.cc), called by several threads at once.           *)
(*                                                                         *)
(* Workers read, write and flush; one thread, the owner, opens, closes and *)
(* changes the port and its settings.  open(), close() and the settings    *)
(* take no lock, so the owner can close a port under a worker.  What the   *)
(* settings do to the signal on the line, and the modem lines, are left    *)
(* out; the time limits are not zero, and an open descriptor is always     *)
(* closed when it is asked for.                                            *)
(*                                                                         *)
(* Of Windows: a port can be opened once at a time (no share mode), the    *)
(* operations on a handle that is not overlapped wait for each other, its  *)
(* closing included, and a handle that has been closed makes them fail.    *)
(***************************************************************************)
EXTENDS Naturals, Sequences

CONSTANTS Systems,      \* the systems the library is built for
          Workers, Owner,
          Ports,        \* the names of the ports
          FirstPort,    \* the one given to the constructor
          None,         \* no thread, or no file descriptor
          Sizes,        \* how much is asked for, or written, at a time
          Lines,        \* the numbers of the bytes that end a line
          MaxBytes,     \* bytes that come in, on all ports together
          Tasks,        \* per thread, which calls it makes
          MaxCalls      \* and how many

ASSUME SystemsAssumption == Systems \subseteq {"unix", "windows"}
ASSUME NamesAssumption == Owner \notin Workers /\ None \notin Workers \cup {Owner} \cup Ports
ASSUME PortsAssumption == FirstPort \in Ports
ASSUME SizesAssumption == Sizes # {} /\ Sizes \subseteq Nat \ {0} /\ MaxBytes \in Nat

Threads == Workers \cup {Owner}

Reads     == {"read", "readline", "readlines"}
Transfers == Reads \cup {"write"}
Controls  == {"open", "close", "setPort", "set", "flush", "flushInput"}

ASSUME CallsAssumption ==
  /\ Tasks \in [Threads -> SUBSET (Transfers \cup Controls)]
  /\ \A t \in Workers : Tasks[t] \subseteq Transfers \cup {"flush", "flushInput"}
  /\ MaxCalls \in [Threads -> Nat]

VARIABLES
  system,       \* the build: it never changes
  port_, fd_, is_open_,   \* fd_ is the port that the descriptor belongs to
  stale,        \* the descriptor has been closed, although fd_ still has it
  leaked,       \* on Windows, ports with a handle that is open and in no fd_
  mutex,        \* who holds "read", read_mutex, and "write", write_mutex
  input,        \* the bytes that wait to be read from the descriptor
  arrived,      \* how many have come; they are numbered in that order
  output,       \* per port, for each byte written the call that wrote it
  pc, call,     \* per thread, where it is and what it is about
  calls         \* per thread, how many calls it has made

port  == <<system, port_, fd_, is_open_, stale, leaked>>
lines == <<input, arrived, output>>
vars  == <<port, mutex, lines, pc, call, calls>>

\* left is how many bytes the system's read or write has still to move, locks how
\* many of its locks the call has, buf what a read has received.
NoCall == [kind |-> "none", size |-> 0, left |-> 0, port |-> None, locks |-> 0,
           buf |-> <<>>]

Init ==
  /\ system \in Systems
  /\ port_ = FirstPort
  /\ \/ fd_ = port_ /\ is_open_ = TRUE      \* the constructor has opened it
     \/ fd_ = None /\ is_open_ = FALSE
  /\ stale = FALSE
  /\ leaked = {}
  /\ mutex = [m \in {"read", "write"} |-> None]
  /\ input = <<>>
  /\ arrived = 0
  /\ output = [p \in Ports |-> <<>>]
  /\ pc = [t \in Threads |-> "idle"]
  /\ call = [t \in Threads |-> NoCall]
  /\ calls = [t \in Threads |-> 0]

goto(t, label) == pc' = [pc EXCEPT ![t] = label]

continue(t, label) == goto(t, label) /\ UNCHANGED <<mutex, call>>

\* The end of a call, or an exception out of it: the scoped locks are released, and
\* what was read stays with the caller.
return(t) == /\ goto(t, "idle")
             /\ mutex' = [m \in {"read", "write"} |-> IF mutex[m] = t THEN None ELSE mutex[m]]
             /\ call' = [call EXCEPT ![t] = [NoCall EXCEPT !.buf = call[t].buf]]

------------------------------------------------------------------------------
(* Calls and locks: serial.cc *)

\* Mutants of locks: setPort keeps only writers away; readline and write do
\* without their lock; flush takes its locks the other way round.
locks_set_port(kind) ==
  CASE kind \in {"read", "readline", "readlines", "flushInput"} -> <<"read">>
    [] kind \in {"write", "setPort"}               -> <<"write">>
    [] kind = "flush"                              -> <<"read", "write">>
    [] kind \in {"open", "close", "set"}           -> <<>>

locks_readline(kind) ==
  CASE kind \in {"read", "readlines", "flushInput"} -> <<"read">>
    [] kind = "write"                            -> <<"write">>
    [] kind \in {"setPort", "flush"}             -> <<"read", "write">>
    [] kind \in {"open", "close", "set", "readline"} -> <<>>

locks_write(kind) ==
  CASE kind \in {"read", "readline", "readlines", "flushInput"} -> <<"read">>
    [] kind \in {"setPort", "flush"}               -> <<"read", "write">>
    [] kind \in {"open", "close", "set", "write"} -> <<>>

locks_crossed(kind) ==
  CASE kind \in {"read", "readline", "readlines", "flushInput"} -> <<"read">>
    [] kind = "write"                              -> <<"write">>
    [] kind = "setPort"                            -> <<"read", "write">>
    [] kind = "flush"                              -> <<"write", "read">>
    [] kind \in {"open", "close", "set"}           -> <<>>

\* The scoped locks of each function, in the order it takes them.
locks(kind) ==
  CASE kind \in {"read", "readline", "readlines", "flushInput"} -> <<"read">>
    [] kind = "write"                              -> <<"write">>
    [] kind \in {"setPort", "flush"}               -> <<"read", "write">>
    [] kind \in {"open", "close", "set"}           -> <<>>

Call(t, kind, size, p) ==
  /\ pc[t] = "idle"
  /\ kind \in Tasks[t]
  /\ calls[t] < MaxCalls[t]
  /\ calls' = [calls EXCEPT ![t] = @ + 1]
  /\ call' = [call EXCEPT ![t] =
                [NoCall EXCEPT !.kind = kind, !.size = size, !.port = p,
                               !.left = IF kind \in {"readline", "readlines"} THEN 1 ELSE size]]
  /\ goto(t, IF locks(kind) = <<>> THEN "begin" ELSE "lock")
  /\ UNCHANGED <<port, mutex, lines>>

\* pthread_mutex_lock: the next lock the call needs.
Lock(t) ==
  LET wanted == locks(call[t].kind)
      next   == call[t].locks + 1
  IN
  /\ pc[t] = "lock"
  /\ mutex[wanted[next]] = None
  /\ mutex' = [mutex EXCEPT ![wanted[next]] = t]
  /\ call' = [call EXCEPT ![t].locks = next]
  /\ goto(t, IF next = Len(wanted) THEN "begin" ELSE "lock")
  /\ UNCHANGED <<port, lines, calls>>

------------------------------------------------------------------------------
(* Reading: SerialImpl::read, and the loop of readline around it *)

\* Mutant of taken: as much as there is, whatever the buffer holds.
taken_all(t) == Len(input)

\* How many bytes ::read returns; on a closed descriptor it fails.
taken(t) == IF Len(input) < call[t].left THEN Len(input) ELSE call[t].left

\* ::read moves n bytes of the open port to the caller's buffer.
take(t, n) ==
  /\ call' = [call EXCEPT ![t].buf  = @ \o SubSeq(input, 1, n),
                          ![t].left = @ - n]
  /\ input' = SubSeq(input, n + 1, Len(input))

\* A port that is not open makes the call throw.
BeginRead(t) ==
  /\ pc[t] = "begin"
  /\ call[t].kind \in Reads
  /\ IF ~ is_open_ THEN return(t)
     ELSE continue(t, IF system = "unix" THEN "prefill" ELSE "enter")
  /\ UNCHANGED <<port, lines, calls>>

\* "Pre-fill buffer with available bytes"; an error here is passed over.
Prefill(t) ==
  /\ pc[t] = "prefill"
  /\ take(t, taken(t))
  /\ goto(t, "wait")
  /\ UNCHANGED <<port, mutex, arrived, output, calls>>

\* select reports the descriptor readable.  When it times out or is interrupted
\* the loop comes round unchanged.  So it does, here and in Writable, when fd_ is -1
\* because the owner has closed the port: FD_SET (-1) is undefined (unix.cc:497, 629),
\* and of what it may do only that the wait goes on is modelled.
Readable(t) ==
  /\ system = "unix"
  /\ pc[t] = "wait"
  /\ call[t].kind \in Reads
  /\ call[t].left > 0
  /\ input # <<>>
  /\ continue(t, "take")
  /\ UNCHANGED <<port, lines, calls>>

\* A descriptor that was readable and yields nothing makes the call throw: the
\* owner has closed it meanwhile.
Take(t) ==
  /\ pc[t] = "take"
  /\ IF taken(t) = 0 THEN return(t) /\ UNCHANGED input
     ELSE take(t, taken(t)) /\ goto(t, "wait") /\ UNCHANGED mutex
  /\ UNCHANGED <<port, arrived, output, calls>>

ends_line(byte) == byte[2] \in Lines

line_ended(t) == \/ call[t].kind = "read"
                 \/ Len(call[t].buf) = call[t].size
                 \/ call[t].kind = "readline" /\ ends_line(call[t].buf[Len(call[t].buf)])

\* All bytes are there.  readline and readlines ask for one at a time, up to the end
\* of a line or of all lines, and hold on to their lock.
ReadDone(t) ==
  /\ pc[t] = "wait"
  /\ call[t].kind \in Reads
  /\ call[t].left = 0
  /\ IF line_ended(t) THEN return(t)
     ELSE goto(t, "begin") /\ call' = [call EXCEPT ![t].left = 1] /\ UNCHANGED mutex
  /\ UNCHANGED <<port, lines, calls>>

------------------------------------------------------------------------------
(* Writing: SerialImpl::write *)

BeginWrite(t) ==
  /\ pc[t] = "begin"
  /\ call[t].kind = "write"
  /\ IF ~ is_open_ THEN return(t)
     ELSE continue(t, IF system = "unix" THEN "wait" ELSE "enter")
  /\ UNCHANGED <<port, lines, calls>>

Writable(t) ==
  /\ system = "unix"
  /\ pc[t] = "wait"
  /\ call[t].kind = "write"
  /\ call[t].left > 0
  /\ fd_ # None
  /\ continue(t, "put")
  /\ UNCHANGED <<port, lines, calls>>

\* ::write takes as much as it likes, but something; on a closed descriptor it
\* fails and the call throws.
Put(t) ==
  /\ pc[t] = "put"
  /\ IF fd_ = None THEN return(t) /\ UNCHANGED output
     ELSE \E n \in 1 .. call[t].left :
            /\ output' = [output EXCEPT ![fd_] = @ \o [i \in 1 .. n |-> <<t, calls[t]>>]]
            /\ call' = [call EXCEPT ![t].left = @ - n]
            /\ goto(t, "wait")
            /\ UNCHANGED mutex
  /\ UNCHANGED <<port, input, arrived, calls>>

WriteDone(t) ==
  /\ pc[t] = "wait"
  /\ call[t].kind = "write"
  /\ call[t].left = 0
  /\ return(t)
  /\ UNCHANGED <<port, lines, calls>>

\* Reading or writing: the loop finds its total time over, which it may at any
\* turn; on Windows, the system has moved less than was asked for.  A line ends there.
TimedOut(t) ==
  /\ pc[t] = "wait"
  /\ call[t].left > 0
  /\ return(t)
  /\ UNCHANGED <<port, lines, calls>>

------------------------------------------------------------------------------
(* Reading and writing on Windows: one ReadFile or WriteFile *)

\* What the system does with the handle, one thread at a time.
handle_free == \A t \in Threads : pc[t] # "inside"

handle_open == fd_ # None /\ ~ stale

\* A handle that is not open any more makes a transfer throw, and a flush return at once.
EnterFile(t) ==
  /\ pc[t] = "enter"
  /\ IF handle_open THEN handle_free /\ continue(t, "inside") ELSE return(t)
  /\ UNCHANGED <<port, lines, calls>>

\* The device is gone, or the handle was closed while the thread waited.
FileFails(t) ==
  /\ pc[t] \in {"enter", "inside"}
  /\ return(t)
  /\ UNCHANGED <<port, lines, calls>>

\* ReadFile has as many bytes as it wants, or its time is over.
ReadFile(t) ==
  /\ pc[t] = "inside"
  /\ call[t].kind \in Reads
  /\ take(t, taken(t))
  /\ goto(t, "wait")
  /\ UNCHANGED <<port, mutex, arrived, output, calls>>

WriteFile(t) ==
  /\ pc[t] = "inside"
  /\ call[t].kind = "write"
  /\ \E n \in 0 .. call[t].left :
       /\ output' = [output EXCEPT ![fd_] = @ \o [i \in 1 .. n |-> <<t, calls[t]>>]]
       /\ call' = [call EXCEPT ![t].left = @ - n]
  /\ goto(t, "wait")
  /\ UNCHANGED <<port, mutex, input, arrived, calls>>

------------------------------------------------------------------------------
(* Opening, closing, changing the port and its settings *)

BeginOpen(t) ==
  /\ pc[t] = "begin"
  /\ call[t].kind = "open"
  /\ IF is_open_ THEN return(t) ELSE continue(t, "open")
  /\ UNCHANGED <<port, lines, calls>>

BeginClose(t) ==
  /\ pc[t] = "begin"
  /\ call[t].kind = "close"
  /\ IF is_open_ THEN continue(t, "close") ELSE return(t)
  /\ UNCHANGED <<port, lines, calls>>

\* Mutant of BeginSetPort: an open port gets its new name and is not opened again.
BeginSetPort_renames(t) ==
  /\ pc[t] = "begin"
  /\ call[t].kind = "setPort"
  /\ return(t) /\ port_' = call[t].port
  /\ UNCHANGED <<system, fd_, is_open_, stale, leaked, lines, calls>>

BeginSetPort(t) ==
  /\ pc[t] = "begin"
  /\ call[t].kind = "setPort"
  /\ IF is_open_ THEN continue(t, "close") /\ UNCHANGED port_
                 ELSE return(t) /\ port_' = call[t].port
  /\ UNCHANGED <<system, fd_, is_open_, stale, leaked, lines, calls>>

\* setBaudrate and the other settings: an open port is configured anew.
BeginSet(t) ==
  /\ pc[t] = "begin"
  /\ call[t].kind = "set"
  /\ IF is_open_ THEN continue(t, "configure") ELSE return(t)
  /\ UNCHANGED <<port, lines, calls>>

\* flushInput drops what was not read; on Windows it is not supported.
FlushInput(t) ==
  /\ pc[t] = "begin"
  /\ call[t].kind = "flushInput"
  /\ input' = IF is_open_ /\ system = "unix" THEN <<>> ELSE input
  /\ return(t)
  /\ UNCHANGED <<port, arrived, output, calls>>

BeginFlush(t) ==
  /\ pc[t] = "begin"
  /\ call[t].kind = "flush"
  /\ IF ~ is_open_ THEN return(t)
     ELSE continue(t, IF system = "unix" THEN "drain" ELSE "enter")
  /\ UNCHANGED <<port, lines, calls>>

\* tcdrain waits, without a time limit and with both locks held, until what was
\* written is sent.
Drained(t) ==
  /\ pc[t] = "drain"
  /\ return(t)
  /\ UNCHANGED <<port, lines, calls>>

\* So does FlushFileBuffers, which has the handle to itself meanwhile.
FlushFile(t) ==
  /\ pc[t] = "inside"
  /\ call[t].kind = "flush"
  /\ return(t)
  /\ UNCHANGED <<port, lines, calls>>

Flush(t) == FlushInput(t) \/ BeginFlush(t) \/ Drained(t) \/ FlushFile(t)

\* No other thread is in the middle of an operation on the handle.
may_operate == system = "windows" => handle_free

\* ::close or CloseHandle; what has not been read is gone.  A handle that is not
\* open any more makes close() throw.
CloseDescriptor(t) ==
  /\ pc[t] = "close"
  /\ may_operate
  /\ IF stale THEN return(t) /\ UNCHANGED <<fd_, input>>
              ELSE fd_' = None /\ input' = <<>> /\ continue(t, "closed")
  /\ UNCHANGED <<system, port_, is_open_, stale, leaked, arrived, output, calls>>

Closed(t) ==
  /\ pc[t] = "closed"
  /\ is_open_' = FALSE
  /\ IF call[t].kind = "setPort" THEN port_' = call[t].port /\ continue(t, "open")
                                 ELSE return(t) /\ UNCHANGED port_
  /\ UNCHANGED <<system, fd_, stale, leaked, lines, calls>>

\* CreateFileW without a share mode fails when a handle of the port is open.
openable(p, leaks) == system = "windows" => p \notin leaks

\* ::open or CreateFileW, which may always fail.  A descriptor that is still open is
\* overwritten; what waits on another port is out of reach.
OpenDescriptor(t) ==
  /\ pc[t] = "open"
  /\ leaked' = IF system = "windows" /\ handle_open THEN leaked \cup {fd_} ELSE leaked
  /\ \/ /\ openable(port_, leaked')
        /\ fd_' = port_ /\ continue(t, "configure")
     \/ fd_' = None /\ return(t)
  /\ stale' = FALSE
  /\ input' = IF fd_' = fd_ THEN input ELSE <<>>
  /\ UNCHANGED <<system, port_, is_open_, arrived, output, calls>>

\* reconfigurePort applies the settings.
Configure(t) ==
  /\ pc[t] = "configure"
  /\ may_operate
  /\ handle_open
  /\ is_open_' = TRUE
  /\ return(t)
  /\ UNCHANGED <<system, port_, fd_, stale, leaked, lines, calls>>

\* It throws when a setting does not suit the device, and leaves the descriptor open.
ConfigureFails(t) ==
  /\ pc[t] = "configure"
  /\ may_operate
  /\ return(t)
  /\ UNCHANGED <<port, lines, calls>>

\* On Windows a SetCommState that fails closes the handle, and fd_ keeps it.
StateRefused(t) ==
  /\ system = "windows"
  /\ pc[t] = "configure"
  /\ may_operate
  /\ handle_open
  /\ stale' = TRUE
  /\ input' = <<>>
  /\ return(t)
  /\ UNCHANGED <<system, port_, fd_, is_open_, leaked, arrived, output, calls>>

------------------------------------------------------------------------------
(* The line *)

\* A byte that comes to a port nobody has open is lost, and does not count.
Arrive ==
  /\ handle_open
  /\ arrived < MaxBytes
  /\ arrived' = arrived + 1
  /\ input' = Append(input, <<fd_, arrived'>>)
  /\ UNCHANGED <<port, mutex, output, pc, call, calls>>

Transfer(t) == \/ BeginRead(t) \/ Prefill(t) \/ Readable(t) \/ Take(t) \/ ReadDone(t)
               \/ BeginWrite(t) \/ Writable(t) \/ Put(t) \/ WriteDone(t)
               \/ TimedOut(t)
               \/ EnterFile(t) \/ ReadFile(t) \/ WriteFile(t)

Control(t) == \/ BeginOpen(t) \/ BeginClose(t) \/ BeginSetPort(t) \/ BeginSet(t)
              \/ Flush(t)
              \/ CloseDescriptor(t) \/ Closed(t) \/ OpenDescriptor(t)
              \/ Configure(t) \/ ConfigureFails(t) \/ StateRefused(t)

Step(t) == Lock(t) \/ Transfer(t) \/ Control(t)

Next ==
  \/ \E t \in Threads, kind \in Transfers, size \in Sizes : Call(t, kind, size, None)
  \/ \E t \in Threads, kind \in Controls \ {"setPort"} : Call(t, kind, 0, None)
  \/ \E p \in Ports : Call(Owner, "setPort", 0, p)
  \/ \E t \in Threads : Step(t) \/ FileFails(t)
  \/ Arrive

Spec == Init /\ [][Next]_vars

\* Threads run, time passes for those that wait for the port, and the line takes what
\* is written to it, for those that flush.  Nobody need call, nothing need arrive, and
\* no device need go.
FairSpec == Spec /\ \A t \in Threads : WF_vars(Step(t))

------------------------------------------------------------------------------
\* The types; no call returns more bytes than it was asked for.
TypeOK ==
  /\ system \in Systems
  /\ port_ \in Ports /\ fd_ \in Ports \cup {None} /\ is_open_ \in BOOLEAN
  /\ stale \in BOOLEAN /\ leaked \subseteq Ports
  /\ mutex \in [{"read", "write"} -> Threads \cup {None}]
  /\ arrived \in 0 .. MaxBytes
  /\ \A t \in Threads : /\ call[t].kind \in Transfers \cup Controls \cup {"none"}
                        /\ call[t].left \in Nat
                        /\ \E size \in Sizes : Len(call[t].buf) <= size

\* Between two calls of the owner, a port that says it is open has the descriptor of
\* the port it is named after, whatever failed on the way there.  (On Windows that
\* descriptor no longer works when a setting was refused, win.cc:260; and a port that
\* says it is closed may have one all the same, unix.cc:155.)
OpenMeansOpen == pc[Owner] = "idle" /\ is_open_ => fd_ = port_

\* setPort takes both locks (serial.cc:267): a call that has begun to read goes on
\* on the same port, even when the owner closes and opens it without a lock.
OnePort ==
  \A t \in Workers : \A i, j \in DOMAIN call[t].buf :
    call[t].buf[i][1] = call[t].buf[j][1]

\* What one call reads is a run of the incoming bytes: no other call gets a byte
\* out of the middle of it, also where a line is read byte by byte.
ReadsDoNotInterleave ==
  \A t, u \in Workers : \A i, j \in DOMAIN call[t].buf, k \in DOMAIN call[u].buf :
    /\ t # u
    /\ call[t].buf[i][1] = call[u].buf[k][1]
    /\ call[t].buf[j][1] = call[u].buf[k][1]
    => ~ (/\ call[t].buf[i][2] <= call[u].buf[k][2]
          /\ call[u].buf[k][2] <= call[t].buf[j][2])

\* What one call writes leaves the port in one piece, however many ::write it takes.
WritesDoNotInterleave ==
  \A p \in Ports : \A i, j, k \in DOMAIN output[p] :
    i < j /\ j < k /\ output[p][i] = output[p][k] => output[p][j] = output[p][i]

\* No two calls wait for each other's lock, and a call whose port is closed under
\* it comes back as well, as long as the line takes what flush waits for.  As each thread makes MaxCalls calls, that is to say that
\* all threads come to rest.
EveryCallReturns == <>[](\A t \in Threads : pc[t] = "idle")
================================================================================
