---------------------------- MODULE SerialPortProofs ----------------------------
(***************************************************************************)
(* The state invariants of SerialPort, for all threads, ports and numbers  *)
(* of calls.  They rest on one another: the types and the locks (Sound),   *)
(* then what an open port means (Opened), then what readers have in their  *)
(* buffers (OnLine, Ordered) and what writers have written (Written).      *)
(***************************************************************************)
EXTENDS SerialPort, SequenceTheorems, TLAPS

Labels == {"idle", "lock", "begin", "prefill", "wait", "take", "put", "enter", "inside",
           "drain", "open", "close", "closed", "configure"}

Opening == {"open", "close", "closed", "configure"}

Kinds == Transfers \cup Controls \cup {"none"}

Bytes == Ports \X Nat

CallRecord == [kind : Kinds, size : Nat, left : Nat, port : Ports \cup {None},
               locks : Nat, buf : Seq(Bytes)]

PortTypes ==
  /\ system \in Systems
  /\ port_ \in Ports /\ fd_ \in Ports \cup {None}
  /\ is_open_ \in BOOLEAN /\ stale \in BOOLEAN
  /\ leaked \subseteq Ports

LineTypes ==
  /\ input \in Seq(Bytes)
  /\ arrived \in 0 .. MaxBytes
  /\ output \in [Ports -> Seq(Threads \X Nat)]

ThreadTypes ==
  /\ mutex \in [{"read", "write"} -> Threads \cup {None}]
  /\ pc \in [Threads -> Labels]
  /\ call \in [Threads -> CallRecord]
  /\ calls \in [Threads -> Nat]

\* Past its locks.
under_way(t) == pc[t] \notin {"idle", "lock"}

\* Where a thread is fits the call it makes.
Fitting(t) ==
  /\ pc[t] = "idle" => call[t].kind = "none"
  /\ pc[t] # "idle" => call[t].kind \in Tasks[t]
  /\ pc[t] \in {"prefill", "take"} => call[t].kind \in Reads
  /\ pc[t] = "put" => call[t].kind = "write"
  /\ pc[t] = "wait" => call[t].kind \in Transfers
  /\ pc[t] \in {"enter", "inside"} => call[t].kind \in Transfers \cup {"flush"}
  /\ pc[t] = "drain" => call[t].kind = "flush"
  /\ pc[t] \in Opening => call[t].kind \in {"open", "close", "setPort", "set"}
  /\ pc[t] \in Opening \ {"configure"} => call[t].kind # "set"
  /\ call[t].kind = "setPort" => call[t].port \in Ports

\* It holds the locks of its call.
Locked(t) ==
  /\ under_way(t) /\ call[t].kind \in Reads \cup {"flushInput", "setPort", "flush"} =>
       mutex["read"] = t
  /\ under_way(t) /\ call[t].kind \in {"write", "setPort", "flush"} => mutex["write"] = t
  /\ pc[t] = "lock" =>
       /\ call[t].kind \notin {"open", "close", "set"}
       /\ call[t].locks # 0 =>
            call[t].locks = 1 /\ call[t].kind \in {"setPort", "flush"} /\ mutex["read"] = t
       /\ call[t].buf = <<>>

\* It receives no more than it asks for.
Bounded(t) ==
  /\ \E size \in Sizes : Len(call[t].buf) <= size
  /\ pc[t] # "idle" /\ call[t].kind \in Reads =>
       call[t].size \in Sizes /\ Len(call[t].buf) + call[t].left <= call[t].size

Sound(t) == Fitting(t) /\ Locked(t) /\ Bounded(t)

Threading == ThreadTypes /\ \A t \in Threads : Sound(t)

Base == PortTypes /\ LineTypes /\ Threading

------------------------------------------------------------------------------
(* The operators of the module *)

\* The kinds of calls, one by one.
LEMMA KindsApart ==
  /\ Reads = {"read", "readline", "readlines"} /\ Transfers = Reads \cup {"write"}
  /\ Controls = {"open", "close", "setPort", "set", "flush", "flushInput"}
  BY DEF Reads, Transfers, Controls

\* Which locks a call of each kind takes, in which order.
LEMMA LocksOf ==
  /\ \A kind \in Reads \cup {"flushInput"} : locks(kind) = <<"read">>
  /\ locks("write") = <<"write">>
  /\ \A kind \in {"setPort", "flush"} : locks(kind) = <<"read", "write">>
  /\ \A kind \in {"open", "close", "set"} : locks(kind) = <<>>
  BY DEF locks, Reads

\* The record of a thread outside a call is one.
LEMMA NoCallType == NoCall \in CallRecord
  BY DEF NoCall, CallRecord, Kinds, Bytes

\* The changes that the steps make to the record of a call leave it a record of a call.
LEMMA RecordsChanged ==
  ASSUME NEW c \in CallRecord
  PROVE  /\ \A n \in Nat :
              /\ [c EXCEPT !.locks = n] \in CallRecord
              /\ [c EXCEPT !.left = n] \in CallRecord
         /\ \A b \in Seq(Bytes), n \in Nat : [c EXCEPT !.buf = b, !.left = n] \in CallRecord
         /\ \A k \in Kinds, n, l \in Nat, p \in Ports \cup {None} :
              [c EXCEPT !.kind = k, !.size = n, !.port = p, !.left = l] \in CallRecord
  BY DEF CallRecord

\* There is a size that a call may ask for, and it is not zero.
LEMMA SomeSize == \E size \in Sizes : size \in Nat /\ 0 <= size /\ 1 <= size
<1>1. PICK size : size \in Sizes
  BY SizesAssumption, Zenon
<1>2. size \in Nat /\ size # 0
  BY <1>1, SizesAssumption
<1>3. QED BY <1>1, <1>2

\* Only the owner opens, closes or changes anything.
LEMMA OnlyOwner ==
  ASSUME NEW t \in Threads, Sound(t),
         call[t].kind \in {"open", "close", "setPort", "set"}, pc[t] # "idle"
  PROVE  t = Owner
  BY CallsAssumption DEF Sound, Fitting, Threads, Transfers, Reads

\* A thread is as sound as before when nothing of its own changes and no lock is
\* taken from it.
LEMMA OthersSound ==
  ASSUME NEW u, Sound(u), pc'[u] = pc[u], call'[u] = call[u],
         mutex["read"] = u => mutex'["read"] = u,
         mutex["write"] = u => mutex'["write"] = u
  PROVE  Sound(u)'
  BY DEF Sound, Fitting, Locked, Bounded, under_way

\* A call that ends leaves everybody sound.
LEMMA Returns ==
  ASSUME Threading, NEW t \in Threads, return(t), calls' = calls
  PROVE  /\ Threading'
         /\ pc' = [pc EXCEPT ![t] = "idle"]
         /\ \A u \in Threads : /\ u # t => call'[u] = call[u]
                               /\ call'[u].buf = call[u].buf
         /\ call'[t].kind = "none"
<1>1. /\ pc' = [pc EXCEPT ![t] = "idle"]
      /\ mutex' = [m \in {"read", "write"} |-> IF mutex[m] = t THEN None ELSE mutex[m]]
      /\ call' = [call EXCEPT ![t] = [NoCall EXCEPT !.buf = call[t].buf]]
  BY DEF return, goto
<1>2. /\ call[t].buf \in Seq(Bytes)
      /\ [NoCall EXCEPT !.buf = call[t].buf] \in CallRecord
      /\ [NoCall EXCEPT !.buf = call[t].buf].kind = "none"
      /\ [NoCall EXCEPT !.buf = call[t].buf].buf = call[t].buf
  BY NoCallType DEF Threading, ThreadTypes, CallRecord, NoCall
<1>3. ThreadTypes'
  BY <1>1, <1>2 DEF Threading, ThreadTypes, Labels
<1>4. /\ \A u \in Threads \ {t} : pc'[u] = pc[u] /\ call'[u] = call[u]
      /\ pc'[t] = "idle" /\ call'[t].kind = "none" /\ call'[t].buf = call[t].buf
  BY <1>1, <1>2 DEF Threading, ThreadTypes
<1>5. Sound(t)'
  BY <1>4 DEF Threading, Sound, Fitting, Locked, Bounded, under_way, Reads, Opening
<1>6. \A u \in Threads \ {t} : Sound(u)'
  BY <1>1, <1>4, OthersSound DEF Threading
<1>7. QED BY <1>1, <1>3, <1>4, <1>5, <1>6 DEF Threading

\* So does one that goes on to a place that fits it.
LEMMA Continues ==
  ASSUME Threading, NEW t \in Threads, NEW label \in Labels \ {"idle", "lock"},
         continue(t, label), calls' = calls, under_way(t),
         \/ label \in {"prefill", "take"} /\ call[t].kind \in Reads
         \/ label = "put" /\ call[t].kind = "write"
         \/ label = "wait" /\ call[t].kind \in Transfers
         \/ label \in {"enter", "inside"} /\ call[t].kind \in Transfers \cup {"flush"}
         \/ label = "drain" /\ call[t].kind = "flush"
         \/ label \in Opening \ {"configure"} /\ call[t].kind \in {"open", "close", "setPort"}
         \/ label = "configure" /\ call[t].kind \in {"open", "close", "setPort", "set"}
  PROVE  Threading' /\ pc' = [pc EXCEPT ![t] = label] /\ call' = call
<1>1. pc' = [pc EXCEPT ![t] = label] /\ call' = call /\ mutex' = mutex
  BY DEF continue, goto
<1>2. ThreadTypes'
  BY <1>1 DEF Threading, ThreadTypes
<1>3. pc'[t] = label /\ \A u \in Threads \ {t} : pc'[u] = pc[u]
  BY <1>1 DEF Threading, ThreadTypes
<1>4. Fitting(t)'
  BY <1>1, <1>3 DEF Threading, Sound, Fitting, under_way, Reads, Transfers, Opening
<1>5. Locked(t)' /\ Bounded(t)'
  BY <1>1, <1>3 DEF Threading, Sound, Locked, Bounded, under_way
<1>6. \A u \in Threads \ {t} : Sound(u)'
  BY <1>1, <1>3, OthersSound DEF Threading
<1>7. QED BY <1>1, <1>2, <1>4, <1>5, <1>6 DEF Threading, Sound

\* What a read takes is moved whole from the line to the buffer.
LEMMA Moves ==
  ASSUME Threading, LineTypes, NEW t \in Threads, NEW n \in 0 .. Len(input), take(t, n),
         n <= call[t].left, goto(t, "wait"), mutex' = mutex, calls' = calls,
         under_way(t), call[t].kind \in Reads
  PROVE  /\ Threading' /\ input' \in Seq(Bytes)
         /\ \A u \in Threads \ {t} : call'[u] = call[u]
         /\ pc' = [pc EXCEPT ![t] = "wait"]
         /\ call'[t].kind = call[t].kind
         /\ call'[t].buf = call[t].buf \o SubSeq(input, 1, n)
         /\ input' = SubSeq(input, n + 1, Len(input))
<1> DEFINE taken_now == SubSeq(input, 1, n)
           after == [call[t] EXCEPT !.buf = call[t].buf \o taken_now, !.left = call[t].left - n]
<1>1. pc' = [pc EXCEPT ![t] = "wait"] /\ call' = [call EXCEPT ![t] = after]
  BY DEF goto, take
<1>2. /\ input \in Seq(Bytes) /\ input' = SubSeq(input, n + 1, Len(input))
      /\ call[t] \in CallRecord /\ call[t].buf \in Seq(Bytes) /\ call[t].left \in Nat
      /\ n \in Nat /\ Len(input) \in Nat
  BY DEF LineTypes, Threading, ThreadTypes, CallRecord, take
<1>3. taken_now \in Seq(Bytes) /\ Len(taken_now) = n /\ input' \in Seq(Bytes)
  BY <1>2
<1> HIDE DEF taken_now
<1>4. /\ call[t].buf \o taken_now \in Seq(Bytes)
      /\ Len(call[t].buf \o taken_now) = Len(call[t].buf) + n
  BY <1>2, <1>3, ConcatProperties
<1>5. /\ after \in CallRecord /\ after.kind = call[t].kind /\ after.size = call[t].size /\ after.port = call[t].port
      /\ after.buf = call[t].buf \o taken_now /\ after.left = call[t].left - n
  <2>1. call[t].left - n \in Nat
    BY <1>2
  <2>2. after \in CallRecord
    BY <1>2, <1>4, <2>1, RecordsChanged
  <2>3. QED BY <1>2, <2>2 DEF CallRecord
<1> HIDE DEF after
<1>6. ThreadTypes'
  BY <1>1, <1>5 DEF Threading, ThreadTypes, Labels
<1>7. /\ pc'[t] = "wait" /\ call'[t] = after
      /\ \A u \in Threads \ {t} : pc'[u] = pc[u] /\ call'[u] = call[u]
  BY <1>1 DEF Threading, ThreadTypes
<1>8. Fitting(t)'
  BY <1>5, <1>7 DEF Threading, Sound, Fitting, under_way, Reads, Transfers, Opening
<1>9. Locked(t)'
  BY <1>5, <1>7 DEF Threading, Sound, Locked, under_way
<1>10. Bounded(t)'
  <2>1. call[t].size \in Sizes /\ Len(call[t].buf) + call[t].left <= call[t].size
    BY DEF Threading, Sound, Bounded, under_way
  <2>2. Len(call[t].buf) \in Nat /\ call[t].size \in Nat
    BY <1>2 DEF CallRecord
  <2>3. Len(after.buf) + after.left <= after.size /\ Len(after.buf) <= after.size
    <3>1. /\ Len(after.buf) = Len(call[t].buf) + n /\ after.left = call[t].left - n
          /\ after.size = call[t].size
      BY <1>4, <1>5
    <3>2. n \in Nat /\ call[t].left \in Nat /\ n <= call[t].left
      BY <1>2
    <3>3. \A a, b, c, d \in Nat : a + b <= c /\ d <= b => (a + d) + (b - d) <= c /\ a + d <= c
      OBVIOUS
    <3>4. /\ (Len(call[t].buf) + n) + (call[t].left - n) <= call[t].size
          /\ Len(call[t].buf) + n <= call[t].size
      BY <2>1, <2>2, <3>2, <3>3
    <3>5. QED BY <3>1, <3>4
  <2>4. QED BY <1>5, <1>7, <2>1, <2>3 DEF Bounded
<1>11. \A u \in Threads \ {t} : Sound(u)'
  BY <1>7, OthersSound DEF Threading
<1>12. QED
  BY <1>1, <1>2, <1>3, <1>5, <1>6, <1>7, <1>8, <1>9, <1>10, <1>11
  DEF Threading, Sound, taken_now

\* Never more than there is or than is wanted.
LEMMA TakenBound ==
  ASSUME Threading, LineTypes, NEW t \in Threads
  PROVE  taken(t) \in 0 .. Len(input) /\ taken(t) <= call[t].left
<1>1. Len(input) \in Nat /\ call[t].left \in Nat
  BY DEF LineTypes, Threading, ThreadTypes, CallRecord
<1>2. QED BY <1>1 DEF taken

------------------------------------------------------------------------------
(* The types and the locks *)

\* The library starts with the right types, and with no lock held.
LEMMA InitBase == Init => Base
<1> SUFFICES ASSUME Init PROVE Base
  OBVIOUS
<1>1. PortTypes
  BY PortsAssumption, SystemsAssumption DEF Init, PortTypes
<1>2. LineTypes
  BY SizesAssumption DEF Init, LineTypes
<1>3. ThreadTypes
  BY NoCallType DEF Init, ThreadTypes, Labels
<1>4. ASSUME NEW t \in Threads PROVE Sound(t)
  <2>1. pc[t] = "idle" /\ call[t].kind = "none" /\ Len(call[t].buf) = 0
    BY DEF Init, NoCall
  <2>2. \E size \in Sizes : 0 <= size
    BY SomeSize
  <2>3. QED BY <2>1, <2>2 DEF Sound, Fitting, Locked, Bounded, under_way, Opening
<1>5. QED BY <1>1, <1>2, <1>3, <1>4 DEF Base, Threading

\* What every call of Next is like.
called(t, kind, size, p) ==
  /\ kind \in Tasks[t]
  /\ kind = "setPort" => p \in Ports
  /\ kind \in Transfers => size \in Sizes
  /\ size \in Nat

\* A call begins with an empty buffer, and in front of its first lock if it has one.
LEMMA CallThreading ==
  ASSUME Threading, NEW t \in Threads, NEW kind \in Transfers \cup Controls, NEW size,
         NEW p \in Ports \cup {None}, called(t, kind, size, p), Call(t, kind, size, p)
  PROVE  /\ Threading'
         /\ \A u \in Threads \ {t} : call'[u] = call[u] /\ pc'[u] = pc[u] /\ calls'[u] = calls[u]
         /\ call'[t].kind = kind /\ call'[t].buf = <<>> /\ call'[t].port = p
         /\ pc'[t] \in {"lock", "begin"}
         /\ pc'[t] = "begin" => kind \in {"open", "close", "set"}
         /\ calls' = [calls EXCEPT ![t] = calls[t] + 1]
<1> DEFINE new == [NoCall EXCEPT !.kind = kind, !.size = size, !.port = p,
                     !.left = IF kind \in {"readline", "readlines"} THEN 1 ELSE size]
<1>1. /\ pc[t] = "idle" /\ mutex' = mutex
      /\ calls' = [calls EXCEPT ![t] = calls[t] + 1]
      /\ call' = [call EXCEPT ![t] = new]
      /\ pc' = [pc EXCEPT ![t] = IF locks(kind) = <<>> THEN "begin" ELSE "lock"]
  BY DEF Call, goto
<1>2. /\ new.kind = kind /\ new.size = size /\ new.port = p /\ new.locks = 0 /\ new.buf = <<>>
      /\ new.left = IF kind \in {"readline", "readlines"} THEN 1 ELSE size
  BY DEF NoCall
<1>3. new \in CallRecord
  <2>1. /\ kind \in Kinds /\ size \in Nat
        /\ (IF kind \in {"readline", "readlines"} THEN 1 ELSE size) \in Nat
    BY DEF called, Kinds
  <2>2. QED BY <2>1, NoCallType, RecordsChanged
<1> HIDE DEF new
<1>4. ThreadTypes'
  BY <1>1, <1>3 DEF Threading, ThreadTypes, Labels
<1>5. /\ call'[t] = new
      /\ \A u \in Threads \ {t} : pc'[u] = pc[u] /\ call'[u] = call[u] /\ calls'[u] = calls[u]
  BY <1>1 DEF Threading, ThreadTypes
<1>6. pc'[t] = IF kind \in {"open", "close", "set"} THEN "begin" ELSE "lock"
  <2>1. locks(kind) = <<>> <=> kind \in {"open", "close", "set"}
    BY LocksOf DEF Reads, Transfers, Controls
  <2>2. QED BY <1>1, <2>1 DEF Threading, ThreadTypes
<1>7. Fitting(t)' /\ Locked(t)'
  <2>1. Fitting(t)'
    BY <1>2, <1>5, <1>6 DEF called, Fitting, Opening
  <2>2. Locked(t)'
    BY <1>2, <1>5, <1>6 DEF Locked, under_way, Reads
  <2>3. QED BY <2>1, <2>2
<1>8. Bounded(t)'
  <2>1. Len(new.buf) = 0
    BY <1>2
  <2>2. \E s \in Sizes : 0 <= s
    BY SomeSize
  <2>3. kind \in Reads => size \in Sizes /\ 0 + new.left <= size
    BY <1>2, SizesAssumption DEF called, Transfers
  <2>4. QED BY <1>2, <1>5, <2>1, <2>2, <2>3 DEF Bounded
<1>9. \A u \in Threads \ {t} : Sound(u)'
  BY <1>1, <1>5, OthersSound DEF Threading
<1>10. QED BY <1>1, <1>2, <1>4, <1>5, <1>6, <1>7, <1>8, <1>9 DEF Threading, Sound

\* Taking a lock puts it into the hands of the caller and moves nobody else.
LEMMA LockThreading ==
  ASSUME Threading, NEW t \in Threads, Lock(t)
  PROVE  /\ Threading'
         /\ \A u \in Threads \ {t} : call'[u] = call[u] /\ pc'[u] = pc[u]
         /\ call'[t].kind = call[t].kind /\ call'[t].buf = <<>> /\ call[t].buf = <<>>
         /\ pc[t] = "lock" /\ pc'[t] \in {"lock", "begin"}
<1> DEFINE kind == call[t].kind
           next == call[t].locks + 1
           new  == [call[t] EXCEPT !.locks = next]
<1>1. /\ pc[t] = "lock" /\ calls' = calls
      /\ mutex[locks(kind)[next]] = None
      /\ mutex' = [mutex EXCEPT ![locks(kind)[next]] = t]
      /\ call' = [call EXCEPT ![t] = new]
      /\ pc' = [pc EXCEPT ![t] = IF next = Len(locks(kind)) THEN "begin" ELSE "lock"]
  BY DEF Lock, goto
<1>2. /\ call[t] \in CallRecord /\ new \in CallRecord /\ new.kind = kind /\ new.size = call[t].size /\ new.port = call[t].port
      /\ new.locks = next /\ new.buf = call[t].buf /\ new.left = call[t].left
      /\ call[t].locks \in Nat
  <2>1. call[t] \in CallRecord
    BY DEF Threading, ThreadTypes
  <2>2. next \in Nat
    BY <2>1 DEF CallRecord
  <2>3. new \in CallRecord
    BY <2>1, <2>2, RecordsChanged
  <2>4. QED BY <2>1, <2>3 DEF CallRecord
<1>3. /\ kind \in Tasks[t] /\ kind \notin {"open", "close", "set"} /\ call[t].buf = <<>>
      /\ kind = "setPort" => call[t].port \in Ports
      /\ call[t].locks # 0 =>
           call[t].locks = 1 /\ kind \in {"setPort", "flush"} /\ mutex["read"] = t
  BY <1>1 DEF Threading, Sound, Fitting, Locked
<1>4. kind \in Transfers \cup Controls
  BY <1>3, CallsAssumption
<1>5. \/ /\ kind \in Reads \cup {"flushInput"} /\ next = 1
         /\ locks(kind)[next] = "read" /\ Len(locks(kind)) = 1
      \/ /\ kind = "write" /\ next = 1
         /\ locks(kind)[next] = "write" /\ Len(locks(kind)) = 1
      \/ /\ kind \in {"setPort", "flush"} /\ next = 1
         /\ locks(kind)[next] = "read" /\ Len(locks(kind)) = 2
      \/ /\ kind \in {"setPort", "flush"} /\ next = 2
         /\ locks(kind)[next] = "write" /\ Len(locks(kind)) = 2 /\ mutex["read"] = t
  BY <1>2, <1>3, <1>4, LocksOf DEF Transfers, Controls, Reads
<1> HIDE DEF new
<1>6. locks(kind)[next] \in {"read", "write"} /\ None \notin Threads
  BY <1>5, NamesAssumption DEF Threads
<1>7. ThreadTypes'
  BY <1>1, <1>2, <1>6 DEF Threading, ThreadTypes, Labels
<1>8. /\ call'[t] = new
      /\ pc'[t] = IF next = Len(locks(kind)) THEN "begin" ELSE "lock"
      /\ \A u \in Threads \ {t} : pc'[u] = pc[u] /\ call'[u] = call[u]
  BY <1>1 DEF Threading, ThreadTypes
<1>9. mutex'[locks(kind)[next]] = t /\ \A m \in {"read", "write"} : mutex[m] # None => mutex'[m] = mutex[m]
  BY <1>1, <1>6 DEF Threading, ThreadTypes
<1>10. Fitting(t)'
  BY <1>1, <1>2, <1>3, <1>8 DEF Fitting, Opening
<1>11. Locked(t)'
  <2>1. CASE kind \in Reads \cup {"flushInput"}
    BY <1>2, <1>3, <1>5, <1>8, <1>9, <2>1 DEF Locked, under_way, Reads
  <2>2. CASE kind = "write"
    BY <1>2, <1>3, <1>5, <1>8, <1>9, <2>2 DEF Locked, under_way, Reads
  <2>3. CASE kind \in {"setPort", "flush"}
    <3>1. CASE next = 1
      <4>1. locks(kind)[1] = "read" /\ Len(locks(kind)) = 2
        BY <2>3, LocksOf
      <4>2. new.locks = 1 /\ pc'[t] = "lock" /\ mutex'["read"] = t
        BY <1>2, <1>8, <1>9, <3>1, <4>1
      <4>3. QED BY <1>2, <1>3, <1>8, <2>3, <4>2 DEF Locked, under_way
    <3>2. CASE next = 2
      <4>0. locks(kind)[2] = "write" /\ Len(locks(kind)) = 2
        BY <2>3, LocksOf
      <4>1. pc'[t] = "begin" /\ mutex'["write"] = t /\ mutex["read"] = t
        <5>1. pc'[t] = "begin" /\ mutex'["write"] = t
          BY <1>8, <1>9, <3>2, <4>0
        <5>2. call[t].locks # 0
          BY <1>2, <3>2
        <5>3. QED BY <1>3, <5>1, <5>2
      <4>2. mutex'["read"] = t
        BY <1>6, <1>9, <4>1
      <4>3. QED BY <1>2, <1>8, <2>3, <4>1, <4>2 DEF Locked, under_way, Reads
    <3>3. QED BY <1>5, <2>3, <3>1, <3>2 DEF Reads
  <2>4. QED BY <1>5, <2>1, <2>2, <2>3
<1>12. Bounded(t)'
  BY <1>1, <1>2, <1>8 DEF Threading, Sound, Bounded
<1>13. \A u \in Threads \ {t} : Sound(u)'
  BY <1>6, <1>8, <1>9, OthersSound DEF Threading
<1>14. QED
  BY <1>1, <1>2, <1>3, <1>7, <1>8, <1>10, <1>11, <1>12, <1>13 DEF Threading, Sound

\* A call that goes on with another number of bytes to move.
LEMMA LeftChanges ==
  ASSUME Threading, NEW t \in Threads, NEW label \in {"begin", "wait"}, NEW n \in Nat,
         call' = [call EXCEPT ![t].left = n], goto(t, label), mutex' = mutex, calls' = calls,
         under_way(t), call[t].kind \in Transfers,
         call[t].kind \in Reads => Len(call[t].buf) + n <= call[t].size
  PROVE  /\ Threading'
         /\ pc' = [pc EXCEPT ![t] = label]
         /\ \A u \in Threads : call'[u].buf = call[u].buf /\ call'[u].kind = call[u].kind
         /\ \A u \in Threads \ {t} : call'[u] = call[u]
<1> DEFINE after == [call[t] EXCEPT !.left = n]
<1>1. pc' = [pc EXCEPT ![t] = label] /\ call' = [call EXCEPT ![t] = after]
  BY DEF goto
<1>2. /\ call[t] \in CallRecord /\ after \in CallRecord
      /\ after.kind = call[t].kind /\ after.size = call[t].size /\ after.port = call[t].port
      /\ after.buf = call[t].buf /\ after.left = n
  <2>1. call[t] \in CallRecord
    BY DEF Threading, ThreadTypes
  <2>2. after \in CallRecord
    BY <2>1, RecordsChanged
  <2>3. QED BY <2>1, <2>2 DEF CallRecord
<1> HIDE DEF after
<1>3. ThreadTypes'
  BY <1>1, <1>2 DEF Threading, ThreadTypes, Labels
<1>4. /\ pc'[t] = label /\ call'[t] = after
      /\ \A u \in Threads \ {t} : pc'[u] = pc[u] /\ call'[u] = call[u]
  BY <1>1 DEF Threading, ThreadTypes
<1>5. Fitting(t)'
  BY <1>2, <1>4 DEF Threading, Sound, Fitting, under_way, Opening
<1>6. Locked(t)'
  BY <1>2, <1>4 DEF Threading, Sound, Locked, under_way
<1>7. Bounded(t)'
  BY <1>2, <1>4 DEF Threading, Sound, Bounded, under_way
<1>8. \A u \in Threads \ {t} : Sound(u)'
  BY <1>4, OthersSound DEF Threading
<1>9. QED BY <1>1, <1>2, <1>3, <1>4, <1>5, <1>6, <1>7, <1>8 DEF Threading, Sound

------------------------------------------------------------------------------
(* What a step does to the buffers: nothing, or it moves bytes from the line to  *)
(* the one of a reader that has its lock.                                         *)

reading(t) == under_way(t) /\ call[t].kind \in Reads

Keeps(t) ==
  /\ \A u \in Threads : /\ call'[u].buf = call[u].buf
                        /\ call'[u].kind \in {call[u].kind, "none"}
                        /\ under_way(u)' => under_way(u)
                        /\ pc'[u] = "lock" => pc[u] = "lock"
  /\ \A u \in Threads \ {t} : pc'[u] = pc[u] /\ call'[u] = call[u]

MovesTo(t) ==
  /\ reading(t) /\ pc[t] # "begin"
  /\ pc'[t] = "wait" /\ call'[t].kind = call[t].kind
  /\ \E n \in 0 .. Len(input) :
       /\ call'[t].buf = call[t].buf \o SubSeq(input, 1, n)
       /\ input' = SubSeq(input, n + 1, Len(input))
  /\ \A u \in Threads \ {t} : call'[u] = call[u] /\ pc'[u] = pc[u]
  /\ arrived' = arrived
  /\ output' = output
  /\ UNCHANGED port

\* A return keeps the bytes of everybody and gives back the locks of the call.
LEMMA ReturnsKeeping ==
  ASSUME Threading, NEW t \in Threads, return(t), calls' = calls
  PROVE  Threading' /\ Keeps(t) /\ pc' = [pc EXCEPT ![t] = "idle"]
<1>1. /\ Threading' /\ pc' = [pc EXCEPT ![t] = "idle"]
      /\ \A u \in Threads : /\ u # t => call'[u] = call[u]
                            /\ call'[u].buf = call[u].buf
      /\ call'[t].kind = "none"
  BY Returns
<1>2. Keeps(t)
  BY <1>1 DEF Threading, ThreadTypes, Keeps, reading, under_way
<1>3. QED BY <1>1, <1>2

\* A call that goes on at a label of its own kind keeps its locks and its bytes.
LEMMA ContinuesKeeping ==
  ASSUME Threading, NEW t \in Threads, NEW label \in Labels \ {"idle", "lock"},
         continue(t, label), calls' = calls, under_way(t),
         \/ label \in {"prefill", "take"} /\ call[t].kind \in Reads
         \/ label = "put" /\ call[t].kind = "write"
         \/ label = "wait" /\ call[t].kind \in Transfers
         \/ label \in {"enter", "inside"} /\ call[t].kind \in Transfers \cup {"flush"}
         \/ label = "drain" /\ call[t].kind = "flush"
         \/ label \in Opening \ {"configure"} /\ call[t].kind \in {"open", "close", "setPort"}
         \/ label = "configure" /\ call[t].kind \in {"open", "close", "setPort", "set"}
  PROVE  Threading' /\ Keeps(t) /\ pc' = [pc EXCEPT ![t] = label]
<1>1. Threading' /\ pc' = [pc EXCEPT ![t] = label] /\ call' = call
  BY Continues
<1>2. Keeps(t)
  BY <1>1 DEF Threading, ThreadTypes, Keeps, reading, under_way
<1>3. QED BY <1>1, <1>2

\* Taking bytes from the input is a move: what leaves the input is at the end of the buffer.
LEMMA MovesMoving ==
  ASSUME Threading, LineTypes, NEW t \in Threads, take(t, taken(t)), goto(t, "wait"),
         UNCHANGED <<port, mutex, arrived, output, calls>>,
         under_way(t), pc[t] # "begin", call[t].kind \in Reads
  PROVE  Threading' /\ MovesTo(t)
<1>1. taken(t) \in 0 .. Len(input) /\ taken(t) <= call[t].left
  BY TakenBound
<1>2. /\ Threading'
      /\ \A u \in Threads \ {t} : call'[u] = call[u]
      /\ pc' = [pc EXCEPT ![t] = "wait"] /\ call'[t].kind = call[t].kind
      /\ call'[t].buf = call[t].buf \o SubSeq(input, 1, taken(t))
      /\ input' = SubSeq(input, taken(t) + 1, Len(input))
  BY <1>1, Moves
<1>3. QED BY <1>1, <1>2 DEF MovesTo, reading, Threading, ThreadTypes

\* A call that is given some bytes fewer to go keeps its locks and its bytes.
LEMMA LeftKeeping ==
  ASSUME Threading, NEW t \in Threads, NEW label \in {"begin", "wait"}, NEW n \in Nat,
         call' = [call EXCEPT ![t].left = n], goto(t, label), mutex' = mutex, calls' = calls,
         under_way(t), call[t].kind \in Transfers,
         call[t].kind \in Reads => Len(call[t].buf) + n <= call[t].size
  PROVE  Threading' /\ Keeps(t) /\ pc' = [pc EXCEPT ![t] = label]
<1>1. /\ Threading'
      /\ pc' = [pc EXCEPT ![t] = label]
      /\ \A u \in Threads : call'[u].buf = call[u].buf /\ call'[u].kind = call[u].kind
      /\ \A u \in Threads \ {t} : call'[u] = call[u]
  BY LeftChanges
<1>2. Keeps(t)
  BY <1>1 DEF Threading, ThreadTypes, Keeps, reading, under_way
<1>3. QED BY <1>1, <1>2

\* SerialImpl::read
LEMMA ReadStep ==
  ASSUME Base, NEW t \in Threads,
         \/ BeginRead(t) \/ Prefill(t) \/ Readable(t) \/ Take(t) \/ ReadDone(t) \/ ReadFile(t)
  PROVE  Threading' /\ ((Keeps(t) /\ input' = input) \/ MovesTo(t))
<1> USE DEF Base
<1>1. CASE BeginRead(t)
  <2>1. /\ under_way(t) /\ call[t].kind \in Transfers /\ input' = input /\ calls' = calls
        /\ return(t) \/ continue(t, "prefill") \/ continue(t, "enter")
    BY <1>1, CallsAssumption DEF BeginRead, under_way, PortTypes, lines, Transfers
  <2>2. QED BY <1>1, <2>1, ReturnsKeeping, ContinuesKeeping DEF BeginRead, Labels
<1>2. CASE Prefill(t)
  <2>1. under_way(t) /\ call[t].kind \in Reads
    BY <1>2 DEF Prefill, Threading, Sound, Fitting, under_way
  <2>2. QED BY <1>2, <2>1, MovesMoving DEF Prefill
<1>3. CASE Readable(t)
  <2>1. /\ under_way(t) /\ call[t].kind \in Reads /\ input' = input /\ calls' = calls
        /\ continue(t, "take")
    BY <1>3 DEF Readable, under_way, lines
  <2>2. QED BY <2>1, ContinuesKeeping DEF Labels
<1>4. CASE Take(t)
  <2>1. under_way(t) /\ call[t].kind \in Reads /\ calls' = calls
    BY <1>4 DEF Take, Threading, Sound, Fitting, under_way
  <2>2. CASE taken(t) = 0
    BY <1>4, <2>1, <2>2, ReturnsKeeping DEF Take
  <2>3. CASE taken(t) # 0
    BY <1>4, <2>1, <2>3, MovesMoving DEF Take
  <2>4. QED BY <2>2, <2>3
<1>5. CASE ReadDone(t)
  <2>1. under_way(t) /\ call[t].kind \in Reads /\ calls' = calls /\ input' = input
    BY <1>5 DEF ReadDone, under_way, lines
  <2>2. CASE line_ended(t)
    BY <1>5, <2>1, <2>2, ReturnsKeeping DEF ReadDone
  <2>3. CASE ~ line_ended(t)
    <3>1. Len(call[t].buf) + 1 <= call[t].size
      <4>1. /\ Len(call[t].buf) + 0 <= call[t].size /\ Len(call[t].buf) # call[t].size
        BY <1>5, <2>1, <2>3 DEF ReadDone, Threading, Sound, Bounded, line_ended, under_way
      <4>2. Len(call[t].buf) \in Nat /\ call[t].size \in Nat
        BY DEF Threading, ThreadTypes, CallRecord
      <4>3. QED BY <4>1, <4>2
    <3>2. QED BY <1>5, <2>1, <2>3, <3>1, LeftKeeping DEF ReadDone, Transfers
  <2>4. QED BY <2>2, <2>3
<1>6. CASE ReadFile(t)
  <2>1. under_way(t) /\ call[t].kind \in Reads
    BY <1>6 DEF ReadFile, under_way
  <2>2. QED BY <1>6, <2>1, MovesMoving DEF ReadFile
<1>7. QED BY <1>1, <1>2, <1>3, <1>4, <1>5, <1>6

\* SerialImpl::write, the end of a time limit, and the calls of Windows
LEMMA WriteStep ==
  ASSUME Base, NEW t \in Threads,
         \/ BeginWrite(t) \/ Writable(t) \/ Put(t) \/ WriteDone(t) \/ WriteFile(t)
         \/ TimedOut(t) \/ EnterFile(t) \/ FileFails(t)
  PROVE  Threading' /\ Keeps(t) /\ input' = input
<1> USE DEF Base
<1>1. CASE BeginWrite(t)
  <2>1. /\ under_way(t) /\ call[t].kind \in Transfers /\ input' = input /\ calls' = calls
        /\ return(t) \/ continue(t, "wait") \/ continue(t, "enter")
    BY <1>1, CallsAssumption DEF BeginWrite, under_way, PortTypes, lines, Transfers
  <2>2. QED BY <2>1, ReturnsKeeping, ContinuesKeeping DEF Labels
<1>2. CASE Writable(t)
  <2>1. /\ under_way(t) /\ call[t].kind = "write" /\ input' = input /\ calls' = calls
        /\ continue(t, "put")
    BY <1>2 DEF Writable, under_way, lines
  <2>2. QED BY <2>1, ContinuesKeeping DEF Labels
<1>3. ASSUME Put(t) \/ WriteFile(t), ~ return(t)
      PROVE  Threading' /\ Keeps(t) /\ input' = input
  <2>1. /\ under_way(t) /\ call[t].kind = "write" /\ input' = input /\ calls' = calls
        /\ goto(t, "wait") /\ mutex' = mutex
    BY <1>3 DEF Put, WriteFile, Threading, Sound, Fitting, under_way
  <2>2. PICK n \in 0 .. call[t].left : call' = [call EXCEPT ![t].left = call[t].left - n]
    <3>1. call[t].left \in Nat
      BY DEF Threading, ThreadTypes, CallRecord
    <3>2. CASE Put(t)
      <4>1. PICK n \in 1 .. call[t].left : 
                call' = [call EXCEPT ![t].left = call[t].left - n]
        BY <1>3, <3>2 DEF Put
      <4>2. n \in 0 .. call[t].left
        BY <3>1
      <4>3. QED BY <4>1, <4>2
    <3>3. CASE WriteFile(t)
      BY <3>3 DEF WriteFile
    <3>4. QED BY <1>3, <3>2, <3>3
  <2>3. call[t].left - n \in Nat
    BY <2>2 DEF Threading, ThreadTypes, CallRecord
  <2>4. call[t].kind \in Transfers /\ call[t].kind \notin Reads
    BY <2>1 DEF Transfers, Reads
  <2>5. QED BY <2>1, <2>2, <2>3, <2>4, LeftKeeping
<1>4. CASE Put(t)
  BY <1>3, <1>4, ReturnsKeeping DEF Put
<1>5. CASE WriteDone(t)
  BY <1>5, ReturnsKeeping DEF WriteDone, lines
<1>6. CASE WriteFile(t)
  BY <1>3, <1>6, ReturnsKeeping DEF WriteFile
<1>7. CASE TimedOut(t)
  BY <1>7, ReturnsKeeping DEF TimedOut, lines
<1>8. CASE EnterFile(t)
  <2>1. /\ under_way(t) /\ call[t].kind \in Transfers \cup {"flush"}
        /\ input' = input /\ calls' = calls /\ (return(t) \/ continue(t, "inside"))
    BY <1>8 DEF EnterFile, under_way, lines, Threading, Sound, Fitting
  <2>2. QED BY <2>1, ReturnsKeeping, ContinuesKeeping DEF Labels
<1>9. CASE FileFails(t)
  BY <1>9, ReturnsKeeping DEF FileFails, lines
<1>10. QED BY <1>1, <1>2, <1>4, <1>5, <1>6, <1>7, <1>8, <1>9

\* open, close, setPort and the settings; flush
LEMMA ControlStep ==
  ASSUME Base, NEW t \in Threads, Control(t)
  PROVE  Threading' /\ Keeps(t)
<1> USE DEF Base
<1> DEFINE kind == call[t].kind
<1>1. ASSUME calls' = calls, under_way(t),
             \/ return(t)
             \/ /\ continue(t, "open") \/ continue(t, "close") \/ continue(t, "closed")
                /\ kind \in {"open", "close", "setPort"}
             \/ continue(t, "configure") /\ kind \in {"open", "close", "setPort", "set"}
             \/ (continue(t, "drain") \/ continue(t, "enter")) /\ kind = "flush"
      PROVE  Threading' /\ Keeps(t)
  BY <1>1, ReturnsKeeping, ContinuesKeeping DEF Labels, Opening
<1>2. pc[t] \in Opening \ {"configure"} => kind \in {"open", "close", "setPort"}
  BY DEF Threading, Sound, Fitting
<1>3. CASE BeginOpen(t)
  BY <1>1, <1>3 DEF BeginOpen, under_way
<1>4. CASE BeginClose(t)
  BY <1>1, <1>4 DEF BeginClose, under_way
<1>5. CASE BeginSetPort(t)
  BY <1>1, <1>5 DEF BeginSetPort, under_way
<1>6. CASE BeginSet(t)
  BY <1>1, <1>6 DEF BeginSet, under_way
<1>7. CASE Flush(t)
  BY <1>1, <1>7, CallsAssumption DEF Flush, FlushInput, BeginFlush, Drained, FlushFile,
                                     under_way, PortTypes
<1>8. CASE CloseDescriptor(t)
  BY <1>1, <1>2, <1>8 DEF CloseDescriptor, under_way, Opening
<1>9. CASE Closed(t)
  BY <1>1, <1>2, <1>9 DEF Closed, under_way, Opening
<1>10. CASE OpenDescriptor(t)
  BY <1>1, <1>2, <1>10 DEF OpenDescriptor, under_way, Opening
<1>11. CASE Configure(t)
  BY <1>1, <1>11 DEF Configure, under_way
<1>12. CASE ConfigureFails(t)
  BY <1>1, <1>12 DEF ConfigureFails, under_way
<1>13. CASE StateRefused(t)
  BY <1>1, <1>13 DEF StateRefused, under_way
<1>14. QED
  BY <1>3, <1>4, <1>5, <1>6, <1>7, <1>8, <1>9, <1>10, <1>11, <1>12, <1>13 DEF Control

\* The calls of Next, with what they are called with.
LEMMA NextCases ==
  ASSUME Next
  PROVE  \/ \E t \in Threads, kind \in Transfers \cup Controls, size \in Nat,
               p \in Ports \cup {None} :
              called(t, kind, size, p) /\ Call(t, kind, size, p)
         \/ \E t \in Threads : Step(t) \/ FileFails(t)
         \/ Arrive
<1>1. ASSUME NEW t \in Threads, NEW kind \in Transfers, NEW size \in Sizes,
             Call(t, kind, size, None)
      PROVE  called(t, kind, size, None)
  BY <1>1, SizesAssumption DEF Call, called, Transfers, Reads
<1>2. ASSUME NEW t \in Threads, NEW kind \in Controls, NEW p,
             kind = "setPort" => p \in Ports, Call(t, kind, 0, p)
      PROVE  called(t, kind, 0, p)
  BY <1>2 DEF Call, called, Transfers, Reads, Controls
<1>3. Owner \in Threads /\ "setPort" \in Controls
  BY DEF Threads, Controls
<1>4. CASE \E t \in Threads, kind \in Transfers, size \in Sizes : Call(t, kind, size, None)
  <2>1. PICK t \in Threads, kind \in Transfers, size \in Sizes : Call(t, kind, size, None)
    BY <1>4
  <2>2. called(t, kind, size, None) /\ kind \in Transfers \cup Controls
    BY <1>1, <2>1
  <2>3. size \in Nat /\ None \in Ports \cup {None}
    BY <2>2 DEF called
  <2>4. QED BY <2>1, <2>2, <2>3
<1>5. CASE \E t \in Threads, kind \in Controls \ {"setPort"} : Call(t, kind, 0, None)
  <2>1. PICK t \in Threads, kind \in Controls \ {"setPort"} : Call(t, kind, 0, None)
    BY <1>5
  <2>2. called(t, kind, 0, None) /\ kind \in Transfers \cup Controls
    BY <1>2, <2>1
  <2>3. QED BY <2>1, <2>2
<1>6. CASE \E p \in Ports : Call(Owner, "setPort", 0, p)
  <2>1. PICK p \in Ports : Call(Owner, "setPort", 0, p)
    BY <1>6
  <2>2. called(Owner, "setPort", 0, p) /\ "setPort" \in Transfers \cup Controls
    BY <1>2, <1>3, <2>1
  <2>3. QED BY <1>3, <2>1, <2>2
<1>7. QED BY <1>4, <1>5, <1>6 DEF Next

\* Each step of a call that has begun keeps the locks with those who took them.
LEMMA StepThreading ==
  ASSUME Base, NEW t \in Threads, Step(t) \/ FileFails(t)
  PROVE  Threading'
<1>1. CASE Lock(t) BY <1>1, LockThreading DEF Base
<1>2. CASE Transfer(t) \/ FileFails(t)
  BY <1>2, ReadStep, WriteStep DEF Transfer
<1>3. CASE Control(t) BY <1>3, ControlStep
<1>4. QED BY <1>1, <1>2, <1>3 DEF Step

\* Each step keeps the types of the port and its descriptor.
LEMMA StepPortTypes ==
  ASSUME Base, NEW t \in Threads, Step(t) \/ FileFails(t)
  PROVE  PortTypes'
<1> USE DEF Base
<1>1. CASE Lock(t) \/ Transfer(t) \/ FileFails(t)
  <2>1. UNCHANGED port
    BY <1>1 DEF Lock, Transfer, BeginRead, Prefill, Readable, Take, ReadDone, BeginWrite,
                Writable, Put, WriteDone, TimedOut, EnterFile, ReadFile, WriteFile, FileFails
  <2>2. QED BY <2>1 DEF port, PortTypes
<1>2. CASE BeginSetPort(t)
  BY <1>2 DEF BeginSetPort, PortTypes, Threading, Sound, Fitting
<1>3. CASE Closed(t)
  BY <1>3 DEF Closed, PortTypes, Threading, Sound, Fitting
<1>4. CASE OpenDescriptor(t)
  BY <1>4 DEF OpenDescriptor, PortTypes, handle_open
<1>5. CASE CloseDescriptor(t)
  BY <1>5 DEF CloseDescriptor, PortTypes
<1>6. CASE Configure(t) \/ ConfigureFails(t) \/ StateRefused(t)
  BY <1>6 DEF Configure, ConfigureFails, StateRefused, PortTypes, port
<1>7. CASE BeginOpen(t) \/ BeginClose(t) \/ BeginSet(t) \/ Flush(t)
  <2>1. UNCHANGED port
    BY <1>7 DEF BeginOpen, BeginClose, BeginSet, Flush, FlushInput, BeginFlush, Drained,
                FlushFile
  <2>2. QED BY <2>1 DEF port, PortTypes
<1>8. QED
  BY <1>1, <1>2, <1>3, <1>4, <1>5, <1>6, <1>7 DEF Step, Control

\* Each step keeps the types of what is on the line.
LEMMA StepLineTypes ==
  ASSUME Base, NEW t \in Threads, Step(t) \/ FileFails(t)
  PROVE  LineTypes'
<1> USE DEF Base
<1>1. CASE Lock(t) \/ Control(t) \/ FileFails(t)
  <2>1. (input' = input \/ input' = <<>>) /\ arrived' = arrived /\ output' = output
    BY <1>1 DEF Lock, FileFails, Control, BeginOpen, BeginClose, BeginSetPort, BeginSet,
                Flush, FlushInput, BeginFlush, Drained, FlushFile,
                CloseDescriptor, Closed, OpenDescriptor, Configure, ConfigureFails, StateRefused,
                lines
  <2>2. input' \in Seq(Bytes)
    <3>1. <<>> \in Seq(Bytes) /\ input \in Seq(Bytes)
      BY DEF LineTypes
    <3>2. QED BY <2>1, <3>1, Zenon
  <2>3. QED BY <2>1, <2>2 DEF LineTypes
<1>2. CASE Put(t) \/ WriteFile(t)
  <2>1. input' = input /\ arrived' = arrived
    BY <1>2 DEF Put, WriteFile
  <2>2. output' \in [Ports -> Seq(Threads \X Nat)]
    <3>1. ASSUME NEW n \in Nat, output' = [output EXCEPT ![fd_] = @ \o [i \in 1 .. n |-> <<t, calls[t]>>]]
          PROVE  output' \in [Ports -> Seq(Threads \X Nat)]
      <4>1. [i \in 1 .. n |-> <<t, calls[t]>>] \in Seq(Threads \X Nat)
        BY DEF Threading, ThreadTypes
      <4>2. \A p \in Ports : output[p] \in Seq(Threads \X Nat)
        BY DEF LineTypes
      <4>3. \A p \in Ports :
              output[p] \o [i \in 1 .. n |-> <<t, calls[t]>>] \in Seq(Threads \X Nat)
        BY <4>1, <4>2, ConcatProperties
      <4>4. output' = [output EXCEPT ![fd_] = output[fd_] \o [i \in 1 .. n |-> <<t, calls[t]>>]]
        BY <3>1
      <4>5. QED BY <4>3, <4>4 DEF LineTypes
    <3>2. call[t].left \in Nat
      BY DEF Threading, ThreadTypes, CallRecord
    <3>3. \/ output' = output
          \/ \E n \in 0 .. call[t].left :
               output' = [output EXCEPT ![fd_] = @ \o [i \in 1 .. n |-> <<t, calls[t]>>]]
      <4>1. CASE Put(t)
        <5>1. CASE fd_ = None BY <4>1, <5>1 DEF Put
        <5>2. CASE fd_ # None
          <6>1. PICK n \in 1 .. call[t].left :
                  output' = [output EXCEPT ![fd_] = @ \o [i \in 1 .. n |-> <<t, calls[t]>>]]
            BY <4>1, <5>2 DEF Put
          <6>2. n \in 0 .. call[t].left
            BY <3>2
          <6>3. QED BY <6>1, <6>2
        <5>3. QED BY <5>1, <5>2
      <4>2. CASE WriteFile(t)
        BY <4>2 DEF WriteFile
      <4>3. QED BY <1>2, <4>1, <4>2
    <3>4. CASE output' = output
      BY <3>4 DEF LineTypes
    <3>5. \A n \in 0 .. call[t].left : n \in Nat
      BY <3>2
    <3>6. QED BY <3>1, <3>3, <3>4, <3>5
  <2>3. QED BY <2>1, <2>2 DEF LineTypes
<1>3. CASE BeginRead(t) \/ Prefill(t) \/ Readable(t) \/ Take(t) \/ ReadDone(t) \/ ReadFile(t)
  <2>1. output' = output /\ arrived' = arrived
    BY <1>3 DEF BeginRead, Prefill, Readable, Take, ReadDone, ReadFile, lines
  <2>2. input' \in Seq(Bytes)
    <3>1. input \in Seq(Bytes) /\ Len(input) \in Nat
      BY DEF LineTypes
    <3>2. ASSUME MovesTo(t) PROVE input' \in Seq(Bytes)
      <4>1. PICK n \in 0 .. Len(input) : input' = SubSeq(input, n + 1, Len(input))
        BY <3>2 DEF MovesTo
      <4>2. QED BY <3>1, <4>1
    <3>3. QED BY <1>3, <3>1, <3>2, ReadStep
  <2>3. QED BY <2>1, <2>2 DEF LineTypes
<1>4. CASE BeginWrite(t) \/ Writable(t) \/ WriteDone(t) \/ TimedOut(t) \/ EnterFile(t)
  BY <1>4 DEF BeginWrite, Writable, WriteDone, TimedOut, EnterFile, lines, LineTypes
<1>5. QED
  BY <1>1, <1>2, <1>3, <1>4 DEF Step, Transfer

\* A byte that arrives disturbs neither types nor locks.
LEMMA ArriveBase ==
  ASSUME Base, Arrive
  PROVE  Base'
<1> USE DEF Base
<1>1. PortTypes'
  BY DEF Arrive, PortTypes, port
<1>2. LineTypes'
  <2>1. fd_ \in Ports /\ arrived' = arrived + 1 /\ arrived' \in 0 .. MaxBytes
    BY SizesAssumption DEF Arrive, handle_open, PortTypes, LineTypes
  <2>2. <<fd_, arrived'>> \in Bytes
    BY <2>1, SizesAssumption DEF Bytes
  <2>3. input' \in Seq(Bytes)
    BY <2>2 DEF Arrive, LineTypes
  <2>4. QED BY <2>1, <2>3 DEF Arrive, LineTypes
<1>3. Threading'
  BY DEF Arrive, Threading, ThreadTypes, Sound, Fitting, Locked, Bounded, under_way
<1>4. QED BY <1>1, <1>2, <1>3

\* Every step keeps the types and the locks.
LEMMA NextBase ==
  ASSUME Base, [Next]_vars
  PROVE  Base'
<1>1. CASE UNCHANGED vars
  BY <1>1 DEF vars, port, lines, Base, PortTypes, LineTypes, Threading, ThreadTypes, Sound,
              Fitting, Locked, Bounded, under_way
<1>2. ASSUME NEW t \in Threads, NEW kind \in Transfers \cup Controls, NEW size \in Nat,
             NEW p \in Ports \cup {None}, called(t, kind, size, p), Call(t, kind, size, p)
      PROVE  Base'
  <2>1. UNCHANGED <<port, lines>>
    BY <1>2 DEF Call
  <2>2. QED
    BY <1>2, <2>1, CallThreading DEF Base, PortTypes, LineTypes, port, lines
<1>3. ASSUME NEW t \in Threads, Step(t) \/ FileFails(t)
      PROVE  Base'
  BY <1>3, StepThreading, StepPortTypes, StepLineTypes DEF Base
<1>4. QED BY <1>1, <1>2, <1>3, ArriveBase, NextCases

------------------------------------------------------------------------------
(* What an open port means *)

Opened ==
  /\ is_open_ /\ pc[Owner] # "closed" => fd_ = port_
  /\ pc[Owner] = "closed" => fd_ = None
  /\ pc[Owner] = "open" => ~ is_open_
  /\ pc[Owner] = "close" => is_open_
  /\ pc[Owner] = "configure" => fd_ = port_

\* The owner alone is ever in a call that opens, closes or configures.
LEMMA OwnerControls ==
  ASSUME Base, NEW t \in Threads,
         pc[t] \in Opening \/ call[t].kind \in {"open", "close", "setPort", "set"}, pc[t] # "idle"
  PROVE  t = Owner
<1>1. Sound(t) /\ call[t].kind \in {"open", "close", "setPort", "set"}
  BY DEF Base, Threading, Sound, Fitting
<1>2. QED BY <1>1, OnlyOwner

\* Every step keeps what is_open_, the descriptor and the place of the owner say of each other.
LEMMA NextOpened ==
  ASSUME Base, Opened, [Next]_vars
  PROVE  Opened'
<1> USE DEF Opening
<1>o. Owner \in Threads
  BY DEF Threads
<1>t. ThreadTypes
  BY DEF Base, Threading
\* Nothing happens when the port stays as it is, and the owner gets nowhere special.
<1>1. ASSUME UNCHANGED <<port_, fd_, is_open_>>,
             pc'[Owner] = pc[Owner] \/ pc'[Owner] \notin Opening,
             pc[Owner] # "closed" \/ pc'[Owner] = pc[Owner]
      PROVE  Opened'
  BY <1>1 DEF Opened
<1>2. CASE UNCHANGED vars
  BY <1>1, <1>2 DEF vars, port
<1>3. ASSUME NEW t \in Threads, NEW kind \in Transfers \cup Controls, NEW size \in Nat,
             NEW p \in Ports \cup {None}, called(t, kind, size, p), Call(t, kind, size, p)
      PROVE  Opened'
  <2>1. UNCHANGED port /\ pc[t] = "idle"
    BY <1>3 DEF Call
  <2>2. \/ pc'[Owner] = pc[Owner]
        \/ pc[Owner] = "idle" /\ pc'[Owner] \in {"lock", "begin"}
    <3>1. /\ pc'[t] \in {"lock", "begin"} /\ pc[t] = "idle"
          /\ \A u \in Threads \ {t} : pc'[u] = pc[u]
      <4>1. Threading
        BY DEF Base
      <4>2. QED BY <1>3, <2>1, <4>1, CallThreading
    <3>2. QED BY <1>o, <3>1
  <2>3. QED BY <1>1, <2>1, <2>2 DEF port
<1>4. CASE Arrive
  BY <1>1, <1>4 DEF Arrive, port
<1>5. ASSUME NEW t \in Threads, Step(t) \/ FileFails(t)
      PROVE  Opened'
  \* Steps that leave the port alone and do not lead to it.
  <2>1. CASE Lock(t) \/ Transfer(t) \/ FileFails(t) \/ Flush(t)
    <3>1. UNCHANGED port /\ pc[t] \notin Opening
      BY <2>1 DEF Lock, Transfer, BeginRead, Prefill, Readable, Take, ReadDone, BeginWrite,
                Writable, Put, WriteDone, TimedOut, EnterFile, ReadFile, WriteFile, FileFails,
                Flush, FlushInput, BeginFlush, Drained, FlushFile
    <3>2. \E label \in Labels \ Opening : pc' = [pc EXCEPT ![t] = label]
      <4>1. \/ goto(t, "idle") \/ goto(t, "lock") \/ goto(t, "begin") \/ goto(t, "prefill")
            \/ goto(t, "wait") \/ goto(t, "take") \/ goto(t, "put") \/ goto(t, "enter")
            \/ goto(t, "inside") \/ goto(t, "drain")
        <5>1. CASE Lock(t) \/ FileFails(t) \/ Flush(t)
          BY <5>1 DEF Lock, FileFails, Flush, FlushInput, BeginFlush, Drained, FlushFile, return,
                      continue, Base, PortTypes
        <5>2. CASE BeginRead(t) \/ Prefill(t) \/ Readable(t) \/ Take(t) \/ ReadDone(t)
          BY <5>2 DEF BeginRead, Prefill, Readable, Take, ReadDone, return, continue, Base,
                      PortTypes
        <5>3. CASE BeginWrite(t) \/ Writable(t) \/ Put(t) \/ WriteDone(t) \/ TimedOut(t)
          BY <5>3 DEF BeginWrite, Writable, Put, WriteDone, TimedOut, return, continue, Base,
                      PortTypes
        <5>4. CASE EnterFile(t) \/ ReadFile(t) \/ WriteFile(t)
          BY <5>4 DEF EnterFile, ReadFile, WriteFile, return, continue
        <5>5. QED BY <2>1, <5>1, <5>2, <5>3, <5>4 DEF Transfer
      <4>2. QED BY <4>1 DEF goto, Labels
    <3>3. pc'[Owner] = pc[Owner] \/ (pc'[Owner] \notin Opening /\ pc[Owner] \notin Opening)
      BY <1>o, <1>t, <3>1, <3>2 DEF ThreadTypes
    <3>4. QED BY <1>1, <3>1, <3>3 DEF port
  <2>2. ASSUME Control(t), ~ Flush(t)
        PROVE  Opened'
    <3>1. t = Owner
      BY <2>2, OwnerControls
      DEF Control, BeginOpen, BeginClose, BeginSetPort, BeginSet, CloseDescriptor, Closed,
          OpenDescriptor, Configure, ConfigureFails, StateRefused
    <3>2. /\ return(t) => pc'[Owner] = "idle"
          /\ \A label : continue(t, label) => pc'[Owner] = label
      BY <1>o, <1>t, <3>1 DEF return, continue, goto, ThreadTypes
    <3>3. CASE BeginOpen(t)
      BY <3>1, <3>2, <3>3 DEF BeginOpen, Opened, port
    <3>4. CASE BeginClose(t)
      BY <3>1, <3>2, <3>4 DEF BeginClose, Opened, port
    <3>5. CASE BeginSetPort(t)
      BY <3>1, <3>2, <3>5 DEF BeginSetPort, Opened
    <3>6. CASE BeginSet(t)
      BY <3>1, <3>2, <3>6 DEF BeginSet, Opened, port
    <3>7. CASE CloseDescriptor(t)
      BY <3>1, <3>2, <3>7 DEF CloseDescriptor, Opened
    <3>8. CASE Closed(t)
      BY <3>1, <3>2, <3>8 DEF Closed, Opened
    <3>9. CASE OpenDescriptor(t)
      BY <3>1, <3>2, <3>9 DEF OpenDescriptor, Opened
    <3>10. CASE Configure(t)
      BY <3>1, <3>2, <3>10 DEF Configure, Opened
    <3>11. CASE ConfigureFails(t) \/ StateRefused(t)
      BY <3>1, <3>2, <3>11 DEF ConfigureFails, StateRefused, Opened, port
    <3>12. QED
      BY <2>2, <3>3, <3>4, <3>5, <3>6, <3>7, <3>8, <3>9, <3>10, <3>11 DEF Control
  <2>3. QED BY <1>5, <2>1, <2>2 DEF Step
<1>6. QED BY <1>2, <1>3, <1>4, <1>5, NextCases

------------------------------------------------------------------------------
(* What the steps do to the buffers and the line, in one place *)

\* A step that is neither a call nor a byte that arrives.
LEMMA StepBuffers ==
  ASSUME Base, NEW t \in Threads, Step(t) \/ FileFails(t)
  PROVE  \/ /\ Lock(t) /\ UNCHANGED port /\ input' = input /\ arrived' = arrived
            /\ \A u \in Threads : /\ call'[u].buf = call[u].buf
                                  /\ call'[u].kind = call[u].kind
                                  /\ u # t => pc'[u] = pc[u]
            /\ call[t].buf = <<>> /\ pc'[t] \in {"lock", "begin"}
         \/ /\ Keeps(t) /\ UNCHANGED port /\ input' = input /\ arrived' = arrived
         \/ MovesTo(t)
         \/ /\ Keeps(t) /\ Control(t) /\ (input' = input \/ input' = <<>>) /\ arrived' = arrived
<1>1. CASE Lock(t)
  BY <1>1, LockThreading DEF Base, Lock, lines
<1>2. CASE BeginRead(t) \/ Prefill(t) \/ Readable(t) \/ Take(t) \/ ReadDone(t) \/ ReadFile(t)
  <2>1. UNCHANGED port /\ arrived' = arrived
    BY <1>2 DEF BeginRead, Prefill, Readable, Take, ReadDone, ReadFile, lines
  <2>2. QED BY <1>2, <2>1, ReadStep
<1>3. CASE \/ BeginWrite(t) \/ Writable(t) \/ Put(t) \/ WriteDone(t) \/ WriteFile(t)
           \/ TimedOut(t) \/ EnterFile(t) \/ FileFails(t)
  <2>1. UNCHANGED port /\ arrived' = arrived
    BY <1>3 DEF BeginWrite, Writable, Put, WriteDone, WriteFile, TimedOut, EnterFile,
                FileFails, lines
  <2>2. QED BY <1>3, <2>1, WriteStep
<1>4. CASE Control(t)
  <2>1. (input' = input \/ input' = <<>>) /\ arrived' = arrived
    BY <1>4 DEF Control, BeginOpen, BeginClose, BeginSetPort, BeginSet, Flush, FlushInput,
                BeginFlush, Drained, FlushFile,
                CloseDescriptor, Closed, OpenDescriptor, Configure, ConfigureFails, StateRefused,
                lines
  <2>2. QED BY <1>4, <2>1, ControlStep
<1>5. QED BY <1>1, <1>2, <1>3, <1>4 DEF Step, Transfer

\* Input and buffers are sequences of bytes.
LEMMA Lengths ==
  ASSUME Base, NEW t \in Threads
  PROVE  /\ input \in Seq(Bytes) /\ Len(input) \in Nat
         /\ call[t].buf \in Seq(Bytes) /\ Len(call[t].buf) \in Nat
<1>1. input \in Seq(Bytes) /\ call[t].buf \in Seq(Bytes)
  BY DEF Base, LineTypes, Threading, ThreadTypes, CallRecord
<1>2. QED BY <1>1

\* The bytes are numbered.
LEMMA Numbers ==
  ASSUME Base, NEW t \in Threads
  PROVE  /\ arrived \in Nat
         /\ \A i \in 1 .. Len(input) : input[i][2] \in Nat
         /\ \A i \in 1 .. Len(call[t].buf) : call[t].buf[i][2] \in Nat
<1>1. /\ \A i \in 1 .. Len(input) : input[i] \in Bytes
      /\ \A i \in 1 .. Len(call[t].buf) : call[t].buf[i] \in Bytes
  BY Lengths
<1>2. \A b \in Bytes : b[2] \in Nat
  BY DEF Bytes
<1>3. arrived \in Nat
  BY SizesAssumption DEF Base, LineTypes
<1>4. QED BY <1>1, <1>2, <1>3

\* Where the bytes are after a read has moved some.
LEMMA BytesMoved ==
  ASSUME Base, NEW t \in Threads, MovesTo(t)
  PROVE  \E n \in 0 .. Len(input) :
           /\ Len(call'[t].buf) = Len(call[t].buf) + n
           /\ \A i \in 1 .. Len(call[t].buf) : call'[t].buf[i] = call[t].buf[i]
           /\ \A i \in 1 .. n : call'[t].buf[Len(call[t].buf) + i] = input[i]
           /\ Len(input') = Len(input) - n
           /\ \A i \in 1 .. Len(input) - n : input'[i] = input[n + i]
<1>1. input \in Seq(Bytes) /\ call[t].buf \in Seq(Bytes)
  BY DEF Base, LineTypes, Threading, ThreadTypes, CallRecord
<1>2. PICK n \in 0 .. Len(input) :
         /\ call'[t].buf = call[t].buf \o SubSeq(input, 1, n)
         /\ input' = SubSeq(input, n + 1, Len(input))
  BY DEF MovesTo
<1>3. Len(input) \in Nat /\ Len(call[t].buf) \in Nat /\ n \in Nat /\ n <= Len(input)
  <2>1. Len(input) \in Nat /\ Len(call[t].buf) \in Nat
    BY <1>1
  <2>2. QED BY <2>1
<1>4. /\ SubSeq(input, 1, n) \in Seq(Bytes) /\ Len(SubSeq(input, 1, n)) = n
      /\ \A i \in 1 .. n : SubSeq(input, 1, n)[i] = input[i]
  BY <1>1, <1>3
<1>5. /\ Len(call'[t].buf) = Len(call[t].buf) + n
      /\ \A i \in 1 .. Len(call[t].buf) : call'[t].buf[i] = call[t].buf[i]
      /\ \A i \in 1 .. n : call'[t].buf[Len(call[t].buf) + i] = SubSeq(input, 1, n)[i]
  <2> DEFINE a == call[t].buf
             b == SubSeq(input, 1, n)
  <2>1. a \in Seq(Bytes) /\ b \in Seq(Bytes) /\ Len(b) = n /\ Len(a) \in Nat
    BY <1>1, <1>3, <1>4
  <2>2. call'[t].buf = a \o b
    BY <1>2
  <2> HIDE DEF a, b
  <2>3. /\ Len(a \o b) = Len(a) + Len(b)
        /\ \A i \in 1 .. Len(a) + Len(b) :
             (a \o b)[i] = IF i <= Len(a) THEN a[i] ELSE b[i - Len(a)]
    BY <2>1, ConcatProperties
  <2>4. \A i \in 1 .. Len(a) : (a \o b)[i] = a[i]
    BY <1>3, <2>1, <2>3
  <2>5. \A i \in 1 .. n : (a \o b)[Len(a) + i] = b[i]
    BY <1>3, <2>1, <2>3
  <2>6. QED BY <2>1, <2>2, <2>3, <2>4, <2>5 DEF a, b
<1>6. /\ Len(input') = Len(input) - n
      /\ \A i \in 1 .. Len(input) - n : input'[i] = input[n + i]
  BY <1>1, <1>2, <1>3
<1>7. QED BY <1>2, <1>4, <1>5, <1>6

\* A byte of the new buffer was in the old one or on the line, before every byte that
\* is still there.
LEMMA ByteOrigins ==
  ASSUME Base, NEW t \in Threads, MovesTo(t)
  PROVE  /\ \A i \in 1 .. Len(call'[t].buf) :
              \/ \E h \in 1 .. Len(call[t].buf) : h = i /\ call'[t].buf[i] = call[t].buf[h]
              \/ \E h \in 1 .. Len(input) : /\ call'[t].buf[i] = input[h]
                                            /\ \A k \in 1 .. Len(input') :
                                                 \E l \in 1 .. Len(input) : h < l /\ input'[k] = input[l]
         /\ \A i, j \in 1 .. Len(input') : i < j =>
              \E k, l \in 1 .. Len(input) : k < l /\ input'[i] = input[k] /\ input'[j] = input[l]
         /\ \A i \in 1 .. Len(input') : \E k \in 1 .. Len(input) : input'[i] = input[k]
<1>1. PICK n \in 0 .. Len(input) :
           /\ Len(call'[t].buf) = Len(call[t].buf) + n
           /\ \A i \in 1 .. Len(call[t].buf) : call'[t].buf[i] = call[t].buf[i]
           /\ \A i \in 1 .. n : call'[t].buf[Len(call[t].buf) + i] = input[i]
           /\ Len(input') = Len(input) - n
           /\ \A i \in 1 .. Len(input) - n : input'[i] = input[n + i]
  BY BytesMoved
<1>2. Len(input) \in Nat /\ Len(call[t].buf) \in Nat /\ n \in Nat /\ n <= Len(input)
  <2>1. Len(input) \in Nat /\ Len(call[t].buf) \in Nat
    BY Lengths
  <2>2. QED BY <2>1
<1>3. \A k \in 1 .. Len(input') :
        n + k \in 1 .. Len(input) /\ input'[k] = input[n + k] /\ n < n + k
  BY <1>1, <1>2
<1>4. ASSUME NEW i \in 1 .. Len(call'[t].buf), i \notin 1 .. Len(call[t].buf)
      PROVE  \E h \in 1 .. Len(input) : /\ call'[t].buf[i] = input[h]
                                        /\ \A k \in 1 .. Len(input') :
                                             \E l \in 1 .. Len(input) : h < l /\ input'[k] = input[l]
  <2>1. PICK h \in 1 .. n : i = Len(call[t].buf) + h
    <3>1. /\ i \in Nat /\ i <= Len(call[t].buf) + n /\ i > Len(call[t].buf)
      BY <1>1, <1>2, <1>4
    <3>2. i - Len(call[t].buf) \in 1 .. n /\ i = Len(call[t].buf) + (i - Len(call[t].buf))
      BY <1>2, <3>1
    <3>3. QED BY <3>2
  <2>2. h \in 1 .. Len(input) /\ call'[t].buf[i] = input[h]
    BY <1>1, <1>2, <2>1
  <2>3. ASSUME NEW k \in 1 .. Len(input')
        PROVE  \E l \in 1 .. Len(input) : h < l /\ input'[k] = input[l]
    <3>1. h < n + k
      BY <1>1, <1>2, <2>1
    <3>2. QED BY <1>3, <3>1
  <2>4. QED BY <2>2, <2>3
<1>5. ASSUME NEW i \in 1 .. Len(input'), NEW j \in 1 .. Len(input'), i < j
      PROVE  \E k, l \in 1 .. Len(input) : k < l /\ input'[i] = input[k] /\ input'[j] = input[l]
  <2>1. n + i < n + j
    BY <1>1, <1>2, <1>5
  <2>2. QED BY <1>3, <2>1
<1>6. QED BY <1>1, <1>3, <1>4, <1>5

------------------------------------------------------------------------------
(* Readers stay on one port *)

past_begin(t) == reading(t) /\ pc[t] # "begin"

OnLine ==
  /\ \A i \in 1 .. Len(input) : input[i][1] = fd_
  /\ \A t \in Threads :
       /\ past_begin(t) => fd_ \in {None, port_}
       /\ reading(t) => \A i \in 1 .. Len(call[t].buf) : call[t].buf[i][1] = port_
       /\ \A i, j \in 1 .. Len(call[t].buf) : call[t].buf[i][1] = call[t].buf[j][1]

\* A call that opens, closes, configures or flushes transfers nothing.
LEMMA ControlKinds ==
  ASSUME Base, NEW t \in Threads, Control(t)
  PROVE  under_way(t) /\ call[t].kind \notin Transfers
<1>1. under_way(t) /\ call[t].kind \in Controls
  BY DEF Base, Threading, Sound, Fitting, Control, BeginOpen, BeginClose, BeginSetPort, BeginSet,
         Flush, FlushInput, BeginFlush, Drained, FlushFile, CloseDescriptor, Closed,
         OpenDescriptor, Configure, ConfigureFails, StateRefused,
         under_way, Opening, Controls
<1>2. QED BY <1>1 DEF Controls, Transfers, Reads

\* No step changes the port's name while somebody reads, or gets the port another
\* descriptor but none or its own.
LEMMA ControlPort ==
  ASSUME Base, NEW t \in Threads, Control(t)
  PROVE  /\ \A u \in Threads : reading(u) => port_' = port_
         /\ fd_' = fd_ \/ fd_' \in {None, port_'}
         /\ fd_' = fd_ \/ input' = <<>>
         /\ \A u \in Threads : reading(u)' => reading(u)
         /\ \A u \in Threads : past_begin(u)' => past_begin(u)
<1>1. /\ \A u \in Threads : reading(u)' => reading(u)
      /\ \A u \in Threads : past_begin(u)' => past_begin(u)
  <2>1. call[t].kind \notin Reads /\ call'[t].kind \in {call[t].kind, "none"}
    BY ControlKinds, ControlStep DEF Transfers, Keeps
  <2>2. ~ reading(t)'
    BY <2>1 DEF reading, Reads
  <2>3. \A u \in Threads \ {t} : pc'[u] = pc[u] /\ call'[u] = call[u]
    BY ControlStep DEF Keeps
  <2>4. QED BY <2>2, <2>3 DEF past_begin, reading, under_way
<1>2. /\ fd_' = fd_ \/ fd_' = None \/ fd_' = port_'
      /\ fd_' = fd_ \/ input' = <<>>
  BY DEF Control, BeginOpen, BeginClose, BeginSetPort, BeginSet, Flush, FlushInput,
         BeginFlush, Drained, FlushFile, CloseDescriptor, Closed,
         OpenDescriptor, Configure, ConfigureFails, StateRefused, port
<1>3. ASSUME NEW u \in Threads, reading(u)
      PROVE  port_' = port_
  <2>1. SUFFICES ASSUME port_' # port_ PROVE FALSE
    OBVIOUS
  <2>2. under_way(t) /\ call[t].kind = "setPort"
    BY <2>1
    DEF Control, BeginOpen, BeginClose, BeginSetPort, BeginSet, Flush, FlushInput,
        BeginFlush, Drained, FlushFile, CloseDescriptor, Closed,
        OpenDescriptor, Configure, ConfigureFails, StateRefused, port, under_way
  <2>3. mutex["read"] = t /\ mutex["read"] = u
    BY <1>3, <2>2 DEF Base, Threading, Sound, Locked, reading
  <2>4. QED BY <1>3, <2>2, <2>3 DEF reading, Reads
<1>4. QED BY <1>1, <1>2, <1>3

\* Every step keeps the bytes in the input and in the buffers those of one port each.
LEMMA NextOnLine ==
  ASSUME Base, Opened, OnLine, [Next]_vars
  PROVE  OnLine'
\* Nothing happens to the bytes, and nobody begins to read.
<1>1. ASSUME port_' = port_, fd_' = fd_, input' = input,
             \A u \in Threads : /\ call'[u].buf = call[u].buf \/ call'[u].buf = <<>>
                                /\ reading(u)' => reading(u) \/ call'[u].buf = <<>>
                                /\ past_begin(u)' => past_begin(u) \/ fd_ \in {None, port_}
      PROVE  OnLine'
  <2>1. ASSUME NEW u \in Threads
        PROVE  /\ past_begin(u)' => fd_' \in {None, port_'}
               /\ reading(u)' => \A i \in 1 .. Len(call'[u].buf) : call'[u].buf[i][1] = port_'
               /\ \A i, j \in 1 .. Len(call'[u].buf) : call'[u].buf[i][1] = call'[u].buf[j][1]
    <3>1. CASE call'[u].buf = <<>>
      BY <1>1, <3>1 DEF OnLine
    <3>2. CASE call'[u].buf # <<>>
      BY <1>1, <3>2 DEF OnLine
    <3>3. QED BY <3>1, <3>2
  <2>2. QED BY <1>1, <2>1 DEF OnLine
<1>2. CASE UNCHANGED vars
  BY <1>1, <1>2 DEF vars, port, lines, past_begin, reading, under_way
<1>3. ASSUME NEW t \in Threads, NEW kind \in Transfers \cup Controls, NEW size \in Nat,
             NEW p \in Ports \cup {None}, called(t, kind, size, p), Call(t, kind, size, p)
      PROVE  OnLine'
  <2>1. UNCHANGED <<port, lines>>
    BY <1>3 DEF Call
  <2>2. Threading
    BY DEF Base
  <2>3. /\ \A u \in Threads \ {t} : call'[u] = call[u] /\ pc'[u] = pc[u]
        /\ call'[t].buf = <<>> /\ call'[t].kind = kind
        /\ pc'[t] \in {"lock", "begin"}
    BY <1>3, <2>2, CallThreading
  <2>4. ~ past_begin(t)'
    BY <2>3 DEF past_begin, reading, under_way
  <2>5. QED BY <1>1, <2>1, <2>3, <2>4 DEF port, lines, past_begin, reading, under_way
<1>4. CASE Arrive
  <2>1. /\ UNCHANGED <<port, pc, call>> /\ input' = Append(input, <<fd_, arrived'>>)
        /\ input \in Seq(Bytes) /\ Len(input) \in Nat
    BY <1>4 DEF Arrive, Base, LineTypes
  <2>2. /\ Len(input') = Len(input) + 1 /\ input'[Len(input) + 1] = <<fd_, arrived'>>
        /\ \A i \in 1 .. Len(input) : input'[i] = input[i]
    BY <2>1
  <2>3. \A i \in 1 .. Len(input') : input'[i][1] = fd_
    <3>1. \A i \in 1 .. Len(input') : i \in 1 .. Len(input) \/ i = Len(input) + 1
      BY <2>1, <2>2
    <3>2. QED BY <2>2, <3>1 DEF OnLine
  <2>4. QED BY <2>1, <2>3 DEF OnLine, port, past_begin, reading, under_way
<1>5. ASSUME NEW t \in Threads, Step(t) \/ FileFails(t)
      PROVE  OnLine'
  <2>1. CASE /\ Lock(t) /\ UNCHANGED port /\ input' = input /\ arrived' = arrived
             /\ \A u \in Threads : /\ call'[u].buf = call[u].buf
                                   /\ call'[u].kind = call[u].kind
                                   /\ u # t => pc'[u] = pc[u]
             /\ call[t].buf = <<>> /\ pc'[t] \in {"lock", "begin"}
    BY <1>1, <2>1 DEF port, past_begin, reading, under_way
  <2>2. CASE Keeps(t) /\ UNCHANGED port /\ input' = input /\ arrived' = arrived
    <3>1. \A u \in Threads : reading(u)' => reading(u)
      BY <2>2 DEF Keeps, reading, Reads
    <3>2. \A u \in Threads \ {t} : past_begin(u)' => past_begin(u)
      BY <2>2 DEF Keeps, past_begin, reading, under_way
    <3>3. past_begin(t)' => past_begin(t) \/ fd_ \in {None, port_}
      <4>1. SUFFICES ASSUME past_begin(t)', ~ past_begin(t) PROVE fd_ \in {None, port_}
        OBVIOUS
      <4>2. reading(t) /\ pc[t] = "begin" /\ pc'[t] # "begin" /\ pc'[t] # "idle"
        BY <3>1, <4>1 DEF past_begin, reading, under_way
      <4>3. is_open_
        <5>1. ~ Lock(t) /\ ~ Control(t)
          BY <4>2, ControlKinds DEF Lock, reading, Transfers
        <5>2. BeginRead(t)
          BY <1>5, <4>2, <5>1
          DEF Step, Transfer, Prefill, Readable, Take, ReadDone, BeginWrite, Writable, Put,
              WriteDone, TimedOut, EnterFile, ReadFile, WriteFile, FileFails, reading, Reads
        <5>3. pc' # [pc EXCEPT ![t] = "idle"]
          BY <4>2 DEF Base, Threading, ThreadTypes
        <5>4. return(t) => pc' = [pc EXCEPT ![t] = "idle"]
          BY DEF return, goto
        <5>5. ~ is_open_ => return(t)
          BY <5>2 DEF BeginRead, Base, PortTypes
        <5>6. QED BY <5>3, <5>4, <5>5
      <4>4. QED BY <4>3 DEF Opened
    <3>4. QED BY <1>1, <2>2, <3>1, <3>2, <3>3 DEF port, Keeps
  <2>3. CASE MovesTo(t)
    <3>1. /\ past_begin(t) /\ reading(t) /\ UNCHANGED port
          /\ pc'[t] = "wait" /\ call'[t].kind = call[t].kind
          /\ \A u \in Threads \ {t} : call'[u] = call[u] /\ pc'[u] = pc[u]
      BY <2>3 DEF MovesTo, past_begin
    <3>2. \A u \in Threads : past_begin(u)' => past_begin(u)
      BY <3>1 DEF past_begin, reading, under_way
    <3>3. fd_ \in {None, port_} /\ port_' = port_ /\ fd_' = fd_
      BY <3>1 DEF OnLine, port
    <3>4. \A i \in 1 .. Len(input) : input[i][1] = port_
      <4>1. ASSUME NEW i \in 1 .. Len(input) PROVE input[i][1] = port_
        <5>1. input[i] \in Bytes
          BY Lengths
        <5>2. input[i][1] \in Ports /\ input[i][1] = fd_
          BY <5>1 DEF Bytes, OnLine
        <5>3. QED BY <3>3, <5>2, NamesAssumption
      <4>2. QED BY <4>1
    <3>5. \A i \in 1 .. Len(call'[t].buf) : call'[t].buf[i][1] = port_
      BY <2>3, <3>1, <3>4, ByteOrigins DEF OnLine
    <3>6. \A i \in 1 .. Len(input') : input'[i][1] = fd_
      BY <2>3, ByteOrigins DEF OnLine
    <3>7. ASSUME NEW u \in Threads
          PROVE  /\ past_begin(u)' => fd_' \in {None, port_'}
                 /\ reading(u)' => \A i \in 1 .. Len(call'[u].buf) : call'[u].buf[i][1] = port_'
                 /\ \A i, j \in 1 .. Len(call'[u].buf) : call'[u].buf[i][1] = call'[u].buf[j][1]
      <4>1. CASE u = t
        BY <3>3, <3>5, <4>1
      <4>2. CASE u # t
        BY <3>1, <3>3, <4>2 DEF OnLine, past_begin, reading, under_way
      <4>3. QED BY <4>1, <4>2
    <3>8. QED BY <3>3, <3>6, <3>7 DEF OnLine
  <2>4. CASE Keeps(t) /\ Control(t) /\ (input' = input \/ input' = <<>>) /\ arrived' = arrived
    <3>1. /\ \A u \in Threads : reading(u) => port_' = port_
          /\ fd_' = fd_ \/ fd_' \in {None, port_'}
          /\ fd_' = fd_ \/ input' = <<>>
          /\ \A u \in Threads : reading(u)' => reading(u)
          /\ \A u \in Threads : past_begin(u)' => past_begin(u)
      BY <2>4, ControlPort
    <3>2. \A i \in 1 .. Len(input') : input'[i][1] = fd_'
      <4>1. CASE input' = <<>>
        BY <4>1
      <4>2. CASE input' # <<>>
        BY <2>4, <3>1, <4>2 DEF OnLine
      <4>3. QED BY <4>1, <4>2
    <3>3. \A u \in Threads : call'[u].buf = call[u].buf
      BY <2>4 DEF Keeps
    <3>4. \A u \in Threads : past_begin(u)' => fd_' \in {None, port_'}
      BY <3>1 DEF OnLine, past_begin
    <3>5. QED BY <3>1, <3>2, <3>3, <3>4 DEF OnLine
  <2>5. QED BY <1>5, <2>1, <2>2, <2>3, <2>4, StepBuffers
<1>6. QED BY <1>2, <1>3, <1>4, <1>5, NextCases

------------------------------------------------------------------------------
(* Readers take the bytes one after the other *)

\* The numbers of the bytes rise along the line; what has been read is below what is
\* on the line; and a reader's bytes are above everybody else's.
Ordered ==
  /\ \A i, j \in 1 .. Len(input) : i < j => input[i][2] < input[j][2]
  /\ \A i \in 1 .. Len(input) : input[i][2] <= arrived
  /\ \A t \in Threads :
       /\ \A i \in 1 .. Len(call[t].buf) : call[t].buf[i][2] <= arrived
       /\ \A i \in 1 .. Len(call[t].buf), k \in 1 .. Len(input) :
            call[t].buf[i][2] < input[k][2]
       /\ reading(t) => \A u \in Threads \ {t} :
            \A i \in 1 .. Len(call[u].buf), k \in 1 .. Len(call[t].buf) :
              call[u].buf[i][2] < call[t].buf[k][2]

below(s, r) == \A i \in 1 .. Len(s), k \in 1 .. Len(r) : s[i][2] < r[k][2]

Apart ==
  \A t, u \in Threads : t # u => \/ below(call[t].buf, call[u].buf)
                                 \/ below(call[u].buf, call[t].buf)

\* Two threads past the locks of a read are one: they hold the same mutex.
LEMMA OneReader ==
  ASSUME Base, NEW t \in Threads, NEW u \in Threads, reading(t), reading(u)
  PROVE  t = u
  BY DEF Base, Threading, Sound, Locked, reading

\* Nothing is moved, nobody begins to read with something in the buffer, and nothing
\* but the end of the line changes.
LEMMA StillOrdered ==
  ASSUME Ordered, Apart, arrived' = arrived, input' = input \/ input' = <<>>,
         \A u \in Threads : /\ call'[u].buf = call[u].buf \/ call'[u].buf = <<>>
                            /\ reading(u)' => reading(u) \/ call'[u].buf = <<>>
  PROVE  Ordered' /\ Apart'
<1>1. /\ \A i, j \in 1 .. Len(input') : i < j => input'[i][2] < input'[j][2]
      /\ \A i \in 1 .. Len(input') : input'[i][2] <= arrived'
      /\ \A t \in Threads : \A i \in 1 .. Len(call[t].buf), k \in 1 .. Len(input') :
           call[t].buf[i][2] < input'[k][2]
  <2>1. CASE input' = input BY <2>1 DEF Ordered
  <2>2. CASE input' = <<>> BY <2>2
  <2>3. QED BY <2>1, <2>2
<1>2. ASSUME NEW t \in Threads
      PROVE  /\ \A i \in 1 .. Len(call'[t].buf) : call'[t].buf[i][2] <= arrived'
             /\ \A i \in 1 .. Len(call'[t].buf), k \in 1 .. Len(input') :
                  call'[t].buf[i][2] < input'[k][2]
  <2>1. CASE call'[t].buf = call[t].buf BY <1>1, <2>1 DEF Ordered
  <2>2. CASE call'[t].buf = <<>> BY <2>2
  <2>3. QED BY <2>1, <2>2
<1>3. ASSUME NEW t \in Threads, NEW u \in Threads, below(call[u].buf, call[t].buf)
      PROVE  below(call'[u].buf, call'[t].buf)
  <2>1. CASE call'[u].buf = <<>> \/ call'[t].buf = <<>> BY <2>1 DEF below
  <2>2. CASE call'[u].buf = call[u].buf /\ call'[t].buf = call[t].buf BY <1>3, <2>2
  <2>3. QED BY <2>1, <2>2
<1>4. ASSUME NEW t \in Threads, NEW u \in Threads \ {t}, reading(t)'
      PROVE  below(call'[u].buf, call'[t].buf)
  <2>1. CASE call'[t].buf = <<>> BY <2>1 DEF below
  <2>2. CASE reading(t)
    <3>1. below(call[u].buf, call[t].buf) BY <2>2 DEF Ordered, below
    <3>2. QED BY <1>3, <3>1
  <2>3. QED BY <1>4, <2>1, <2>2
<1>5. Ordered'
  BY <1>1, <1>2, <1>4 DEF Ordered, below
<1>6. Apart'
  BY <1>3 DEF Apart
<1>7. QED BY <1>5, <1>6

\* Taking bytes from the front of the input keeps buffers apart and in order.
LEMMA MovesOrdered ==
  ASSUME Base, Ordered, Apart, NEW t \in Threads, MovesTo(t)
  PROVE  Ordered' /\ Apart'
<1>1. /\ reading(t) /\ arrived' = arrived
      /\ \A u \in Threads \ {t} : call'[u] = call[u] /\ pc'[u] = pc[u]
  BY DEF MovesTo
<1>2. ASSUME NEW u \in Threads \ {t} PROVE ~ reading(u)'
  BY <1>1, OneReader DEF reading, under_way
<1>3. \A i \in 1 .. Len(call'[t].buf) : call'[t].buf[i][2] <= arrived'
  BY <1>1, ByteOrigins, Numbers DEF Ordered
<1>4. /\ \A i, j \in 1 .. Len(input') : i < j => input'[i][2] < input'[j][2]
      /\ \A i \in 1 .. Len(input') : input'[i][2] <= arrived'
  <2>1. ASSUME NEW i \in 1 .. Len(input'), NEW j \in 1 .. Len(input'), i < j
        PROVE  input'[i][2] < input'[j][2]
    <3>1. PICK k \in 1 .. Len(input), l \in 1 .. Len(input) :
               k < l /\ input'[i] = input[k] /\ input'[j] = input[l]
      BY <2>1, ByteOrigins
    <3>2. input[k][2] < input[l][2]
      BY <3>1 DEF Ordered
    <3>3. QED BY <3>1, <3>2
  <2>2. ASSUME NEW i \in 1 .. Len(input') PROVE input'[i][2] <= arrived'
    <3>1. PICK k \in 1 .. Len(input) : input'[i] = input[k]
      BY ByteOrigins
    <3>2. input[k][2] <= arrived
      BY DEF Ordered
    <3>3. QED BY <1>1, <3>1, <3>2
  <2>3. QED BY <2>1, <2>2
<1>5. ASSUME NEW i \in 1 .. Len(call'[t].buf), NEW k \in 1 .. Len(input')
      PROVE  call'[t].buf[i][2] < input'[k][2]
  <2>1. CASE \E h \in 1 .. Len(call[t].buf) : h = i /\ call'[t].buf[i] = call[t].buf[h]
    <3>1. PICK l \in 1 .. Len(input) : input'[k] = input[l]
      BY ByteOrigins
    <3>2. i \in 1 .. Len(call[t].buf) /\ call'[t].buf[i] = call[t].buf[i]
      BY <2>1
    <3>3. call[t].buf[i][2] < input[l][2]
      BY <3>2 DEF Ordered
    <3>4. QED BY <3>1, <3>2, <3>3
  <2>2. CASE \E h \in 1 .. Len(input) : /\ call'[t].buf[i] = input[h]
                                        /\ \A n \in 1 .. Len(input') :
                                             \E l \in 1 .. Len(input) : h < l /\ input'[n] = input[l]
    <3>1. PICK h \in 1 .. Len(input) :
               /\ call'[t].buf[i] = input[h]
               /\ \A n \in 1 .. Len(input') :
                    \E l \in 1 .. Len(input) : h < l /\ input'[n] = input[l]
      BY <2>2
    <3>2. PICK l \in 1 .. Len(input) : h < l /\ input'[k] = input[l]
      BY <3>1
    <3>3. input[h][2] < input[l][2]
      BY <3>2 DEF Ordered
    <3>4. QED BY <3>1, <3>2, <3>3
  <2>3. QED BY <2>1, <2>2, ByteOrigins
<1>6. ASSUME NEW u \in Threads \ {t}
      PROVE  /\ below(call'[u].buf, call'[t].buf)
             /\ \A i \in 1 .. Len(call'[u].buf) : call'[u].buf[i][2] <= arrived'
             /\ \A i \in 1 .. Len(call'[u].buf), k \in 1 .. Len(input') :
                  call'[u].buf[i][2] < input'[k][2]
  <2>1. call'[u].buf = call[u].buf BY <1>1
  <2>2. /\ \A i \in 1 .. Len(call[u].buf) : call[u].buf[i][2] <= arrived
        /\ \A i \in 1 .. Len(call[u].buf), k \in 1 .. Len(input) :
             call[u].buf[i][2] < input[k][2]
        /\ \A i \in 1 .. Len(call[u].buf), k \in 1 .. Len(call[t].buf) :
             call[u].buf[i][2] < call[t].buf[k][2]
    BY <1>1 DEF Ordered
  <2>3. below(call[u].buf, call'[t].buf)
    <3>1. SUFFICES ASSUME NEW i \in 1 .. Len(call[u].buf), NEW k \in 1 .. Len(call'[t].buf)
                   PROVE  call[u].buf[i][2] < call'[t].buf[k][2]
      BY DEF below
    <3>2. \/ \E h \in 1 .. Len(call[t].buf) : call'[t].buf[k] = call[t].buf[h]
          \/ \E h \in 1 .. Len(input) : call'[t].buf[k] = input[h]
      BY ByteOrigins
    <3>3. QED BY <2>2, <3>2
  <2>4. \A i \in 1 .. Len(call[u].buf), k \in 1 .. Len(input') :
          call[u].buf[i][2] < input'[k][2]
    BY <2>2, ByteOrigins
  <2>5. QED BY <1>1, <2>1, <2>2, <2>3, <2>4
<1>7. Ordered'
  BY <1>2, <1>3, <1>4, <1>5, <1>6 DEF Ordered, below
<1>8. Apart'
  <2>1. SUFFICES ASSUME NEW u \in Threads, NEW v \in Threads, u # v
                 PROVE  \/ below(call'[u].buf, call'[v].buf)
                        \/ below(call'[v].buf, call'[u].buf)
    BY DEF Apart
  <2>2. CASE u = t \/ v = t
    BY <1>6, <2>1, <2>2
  <2>3. CASE u # t /\ v # t
    BY <1>1, <2>1, <2>3 DEF Apart
  <2>4. QED BY <2>2, <2>3
<1>9. QED BY <1>7, <1>8

\* A byte that arrives has the highest number of all.
LEMMA ArriveOrdered ==
  ASSUME Base, Ordered, Apart, Arrive
  PROVE  Ordered' /\ Apart'
<1>1. /\ UNCHANGED <<port, pc, call>> /\ arrived' = arrived + 1 /\ arrived \in Nat
      /\ input' = Append(input, <<fd_, arrived'>>)
      /\ input \in Seq(Bytes) /\ Len(input) \in Nat
  BY SizesAssumption DEF Arrive, Base, LineTypes
<1>2. /\ Len(input') = Len(input) + 1 /\ input'[Len(input) + 1][2] = arrived + 1
      /\ \A i \in 1 .. Len(input) : input'[i] = input[i]
      /\ \A i \in 1 .. Len(input') : i \in 1 .. Len(input) \/ i = Len(input) + 1
  BY <1>1
<1>3. /\ \A i \in 1 .. Len(input) : input[i][2] \in Nat /\ input[i][2] <= arrived
      /\ \A t \in Threads : \A i \in 1 .. Len(call[t].buf) :
           call[t].buf[i][2] \in Nat /\ call[t].buf[i][2] <= arrived
  <2>1. \A i \in 1 .. Len(input) : input[i][2] \in Nat
    BY Numbers DEF Threads
  <2>2. ASSUME NEW t \in Threads, NEW i \in 1 .. Len(call[t].buf)
        PROVE  call[t].buf[i][2] \in Nat
    BY Numbers
  <2>3. QED BY <2>1, <2>2 DEF Ordered
<1>4. /\ \A i \in 1 .. Len(input') : input'[i][2] <= arrived'
      /\ \A i, j \in 1 .. Len(input') : i < j => input'[i][2] < input'[j][2]
  <2>1. \A i \in 1 .. Len(input') : input'[i][2] <= arrived'
    BY <1>1, <1>2, <1>3
  <2>2. ASSUME NEW i \in 1 .. Len(input'), NEW j \in 1 .. Len(input'), i < j
        PROVE  input'[i][2] < input'[j][2]
    <3>1. i \in 1 .. Len(input)
      BY <1>1, <1>2, <2>2
    <3>2. CASE j \in 1 .. Len(input)
      BY <1>2, <2>2, <3>1, <3>2 DEF Ordered
    <3>3. CASE j = Len(input) + 1
      BY <1>1, <1>2, <1>3, <3>1, <3>3
    <3>4. QED BY <1>2, <3>2, <3>3
  <2>3. QED BY <2>1, <2>2
<1>5. ASSUME NEW t \in Threads
      PROVE  /\ \A i \in 1 .. Len(call[t].buf) : call[t].buf[i][2] <= arrived'
             /\ \A i \in 1 .. Len(call[t].buf), k \in 1 .. Len(input') :
                  call[t].buf[i][2] < input'[k][2]
  <2>1. \A i \in 1 .. Len(call[t].buf) : call[t].buf[i][2] < arrived + 1
    <3> SUFFICES ASSUME NEW i \in 1 .. Len(call[t].buf)
                 PROVE  call[t].buf[i][2] < arrived + 1
      OBVIOUS
    <3>1. call[t].buf[i][2] \in Nat /\ call[t].buf[i][2] <= arrived
      BY <1>3
    <3>2. QED BY <1>1, <3>1
  <2>2. QED BY <1>1, <1>2, <1>3, <2>1 DEF Ordered
<1>6. Ordered'
  BY <1>1, <1>4, <1>5 DEF Ordered, reading, under_way
<1>7. Apart'
  BY <1>1 DEF Apart
<1>8. QED BY <1>6, <1>7

\* Every step keeps the bytes of two readers apart and in the order they arrived in.
LEMMA NextOrdered ==
  ASSUME Base, Ordered, Apart, [Next]_vars
  PROVE  Ordered' /\ Apart'
<1>1. CASE UNCHANGED vars
  BY <1>1, StillOrdered DEF vars, lines, reading, under_way
<1>2. ASSUME NEW t \in Threads, NEW kind \in Transfers \cup Controls, NEW size \in Nat,
             NEW p \in Ports \cup {None}, called(t, kind, size, p), Call(t, kind, size, p)
      PROVE  Ordered' /\ Apart'
  <2>1. UNCHANGED lines
    BY <1>2 DEF Call
  <2>2. Threading
    BY DEF Base
  <2>3. /\ \A u \in Threads \ {t} : call'[u] = call[u] /\ pc'[u] = pc[u]
        /\ call'[t].buf = <<>>
    BY <1>2, <2>2, CallThreading
  <2>4. QED BY <2>1, <2>3, StillOrdered DEF lines, reading, under_way
<1>3. ASSUME NEW t \in Threads, Step(t) \/ FileFails(t)
      PROVE  Ordered' /\ Apart'
  <2>1. CASE /\ Lock(t) /\ UNCHANGED port /\ input' = input /\ arrived' = arrived
             /\ \A u \in Threads : /\ call'[u].buf = call[u].buf
                                   /\ call'[u].kind = call[u].kind
                                   /\ u # t => pc'[u] = pc[u]
             /\ call[t].buf = <<>> /\ pc'[t] \in {"lock", "begin"}
    BY <2>1, StillOrdered DEF reading, under_way
  <2>2. CASE MovesTo(t)
    BY <2>2, MovesOrdered
  <2>3. CASE Keeps(t) /\ (input' = input \/ input' = <<>>) /\ arrived' = arrived
    <3>1. \A u \in Threads : reading(u)' => reading(u)
      BY <2>3 DEF Keeps, reading, Reads
    <3>2. \A u \in Threads : call'[u].buf = call[u].buf
      BY <2>3 DEF Keeps
    <3>3. QED BY <2>3, <3>1, <3>2, StillOrdered
  <2>4. QED BY <1>3, <2>1, <2>2, <2>3, StepBuffers
<1>4. QED BY <1>1, <1>2, <1>3, ArriveOrdered, NextCases

------------------------------------------------------------------------------
(* Writers write one after the other *)

writing(t) == under_way(t) /\ call[t].kind = "write"
waiting_to_write(t) == pc[t] = "lock" /\ call[t].kind = "write"

written(p) == 1 .. Len(output[p])
current(t) == <<t, calls[t]>>

\* Nothing is written under the number of a call to come; what the call of a writer
\* has written is the end of the output; one that waits has written nothing.
Written ==
  /\ \A p \in Ports : \A i \in written(p) : output[p][i][2] <= calls[output[p][i][1]]
  /\ \A t \in Threads, p \in Ports :
       /\ writing(t) => \A i, j \in written(p) :
            i < j /\ output[p][i] = current(t) => output[p][j] = current(t)
       /\ waiting_to_write(t) => \A i \in written(p) : output[p][i] # current(t)

InOnePiece ==
  \A p \in Ports : \A i, j, k \in written(p) :
    i < j /\ j < k /\ output[p][i] = output[p][k] => output[p][j] = output[p][i]

\* What is written on a port is a sequence of pairs, of a thread and the number of a call.
LEMMA OutputTypes ==
  ASSUME Base, NEW p \in Ports
  PROVE  /\ output[p] \in Seq(Threads \X Nat) /\ Len(output[p]) \in Nat
         /\ \A i \in written(p) : /\ output[p][i] \in Threads \X Nat
                                  /\ output[p][i][1] \in Threads /\ output[p][i][2] \in Nat
                                  /\ output[p][i] = <<output[p][i][1], output[p][i][2]>>
<1>1. output[p] \in Seq(Threads \X Nat)
  BY DEF Base, LineTypes
<1>2. \A i \in written(p) : output[p][i] \in Threads \X Nat
  BY <1>1 DEF written
<1>3. QED BY <1>1, <1>2

\* Nothing is written, and nobody comes to write but from waiting for it.
LEMMA StillWritten ==
  ASSUME Written, InOnePiece, output' = output, calls' = calls,
         \A u \in Threads : /\ writing(u)' => writing(u) \/ waiting_to_write(u)
                            /\ waiting_to_write(u)' => waiting_to_write(u)
  PROVE  Written' /\ InOnePiece'
<1>1. InOnePiece'
  BY DEF InOnePiece, written
<1>2. Written'
  <2>1. ASSUME NEW t \in Threads, NEW p \in Ports
        PROVE  /\ writing(t)' => \A i, j \in written(p) :
                    i < j /\ output[p][i] = current(t) => output[p][j] = current(t)
               /\ waiting_to_write(t)' => \A i \in written(p) : output[p][i] # current(t)
    BY <2>1 DEF Written
  <2>2. \A p \in Ports : written(p)' = written(p)
    BY DEF written
  <2>3. \A t \in Threads : current(t)' = current(t)
    BY DEF current
  <2>4. QED BY <2>1, <2>2, <2>3 DEF Written
<1>3. QED BY <1>1, <1>2

\* A call that begins has a number under which nothing is written yet.
LEMMA CallWritten ==
  ASSUME Base, Written, InOnePiece,
         NEW t \in Threads, NEW kind \in Transfers \cup Controls, NEW size \in Nat,
         NEW p \in Ports \cup {None}, called(t, kind, size, p), Call(t, kind, size, p)
  PROVE  Written' /\ InOnePiece'
<1>1. output' = output
  BY DEF Call, lines
<1>2. Threading
  BY DEF Base
<1>3. /\ \A u \in Threads \ {t} : call'[u] = call[u] /\ pc'[u] = pc[u] /\ calls'[u] = calls[u]
      /\ call'[t].kind = kind /\ pc'[t] \in {"lock", "begin"}
      /\ pc'[t] = "begin" => kind \in {"open", "close", "set"}
      /\ calls' = [calls EXCEPT ![t] = calls[t] + 1]
  BY <1>2, CallThreading
<1>4. /\ calls'[t] = calls[t] + 1 /\ calls[t] \in Nat
      /\ \A u \in Threads : calls[u] \in Nat /\ calls'[u] \in Nat /\ calls[u] <= calls'[u]
  BY <1>2, <1>3 DEF Threading, ThreadTypes
<1>5. InOnePiece'
  BY <1>1 DEF InOnePiece, written
<1>6. ~ writing(t)'
  BY <1>3 DEF writing, under_way
<1>7. \A u \in Threads \ {t} : /\ writing(u)' => writing(u)
                               /\ waiting_to_write(u)' => waiting_to_write(u)
                               /\ current(u)' = current(u)
  BY <1>3 DEF writing, waiting_to_write, under_way, current
<1>8. ASSUME NEW q \in Ports, NEW i \in written(q)
      PROVE  /\ output[q][i][2] <= calls'[output[q][i][1]]
             /\ output[q][i] # current(t)'
  <2>1. /\ output[q][i][2] <= calls[output[q][i][1]]
        /\ output[q][i][1] \in Threads /\ output[q][i][2] \in Nat
    BY OutputTypes DEF Written
  <2>2. output[q][i][2] <= calls'[output[q][i][1]]
    BY <1>4, <2>1
  <2>3. ASSUME output[q][i] = current(t)' PROVE FALSE
    <3>1. output[q][i][1] = t /\ output[q][i][2] = calls[t] + 1
      BY <1>4, <2>3 DEF current
    <3>2. QED BY <1>4, <2>1, <3>1
  <2>4. QED BY <2>2, <2>3
<1>9. \A q \in Ports : written(q)' = written(q)
  BY <1>1 DEF written
<1>10. ASSUME NEW u \in Threads, NEW q \in Ports
       PROVE  /\ writing(u)' => \A i, j \in written(q) :
                   i < j /\ output[q][i] = current(u)' => output[q][j] = current(u)'
              /\ waiting_to_write(u)' => \A i \in written(q) : output[q][i] # current(u)'
  <2>1. CASE u = t BY <1>6, <1>8, <2>1
  <2>2. CASE u # t BY <1>7, <2>2 DEF Written
  <2>3. QED BY <2>1, <2>2
<1>11. Written'
  BY <1>1, <1>8, <1>9, <1>10 DEF Written
<1>12. QED BY <1>5, <1>11

\* An output that has grown by bytes of the call that writes keeps what is known of it.
LEMMA GrownOutput ==
  ASSUME Base, Written, InOnePiece, NEW t \in Threads, writing(t), Keeps(t), calls' = calls,
         NEW q \in Ports, NEW n \in Nat, NEW L \in Nat, L = Len(output[q]),
         \A p \in Ports \ {q} : output'[p] = output[p] /\ written(p)' = written(p),
         Len(output'[q]) = L + n,
         \A i \in 1 .. L : output'[q][i] = output[q][i],
         \A i \in L + 1 .. L + n : output'[q][i] = current(t)
  PROVE  Written' /\ InOnePiece'
<1>1. /\ \A p \in Ports \ {q} : output'[p] = output[p] /\ written(p)' = written(p)
      /\ L \in Nat /\ Len(output'[q]) = L + n /\ L = Len(output[q])
      /\ \A i \in 1 .. L : output'[q][i] = output[q][i]
      /\ \A i \in L + 1 .. L + n : output'[q][i] = current(t)
  OBVIOUS
\* Each place of the new output is an old one, or one of the new.
<1>2. /\ \A i \in written(q)' : i \in written(q) \/ (i > L /\ output'[q][i] = current(t))
      /\ \A i \in written(q)' : i \in Nat
      /\ \A i \in written(q) : i \in Nat /\ i <= L
  <2>1. written(q)' = 1 .. L + n /\ written(q) = 1 .. L
    BY <1>1 DEF written
  <2>2. \A i \in 1 .. L + n : i \in 1 .. L \/ (i > L /\ i \in L + 1 .. L + n)
    BY <1>1
  <2>3. QED BY <1>1, <2>1, <2>2
<1>3. \A i \in written(q) : output'[q][i] = output[q][i]
  BY <1>1 DEF written
<1>4. \A u \in Threads : current(u)' = current(u)
  BY DEF current
<1>5. ASSUME NEW u \in Threads \ {t}
      PROVE  /\ ~ writing(u)' /\ current(u) # current(t)
             /\ waiting_to_write(u)' => waiting_to_write(u)
  <2>1. ~ writing(u)
    BY DEF Base, Threading, Sound, Locked, writing
  <2>2. pc'[u] = pc[u] /\ call'[u] = call[u]
    BY DEF Keeps
  <2>3. QED BY <2>1, <2>2 DEF writing, waiting_to_write, under_way, current
<1>6. /\ ~ waiting_to_write(t)'
      /\ \A i, j \in written(q) :
           i < j /\ output[q][i] = current(t) => output[q][j] = current(t)
  BY DEF Written, Keeps, waiting_to_write, writing, under_way
<1>7. ASSUME NEW i \in written(q)', NEW j \in written(q)', i < j,
             output'[q][i] = current(t)
      PROVE  output'[q][j] = current(t)
  <2>1. CASE j \in written(q)
    <3>1. i \in written(q)
      BY <1>2, <1>7, <2>1
    <3>2. QED BY <1>3, <1>6, <1>7, <2>1, <3>1
  <2>2. CASE j \notin written(q)
    BY <1>2, <2>2
  <2>3. QED BY <2>1, <2>2
<1>8. Written'
  <2>1. ASSUME NEW p \in Ports, NEW i \in written(p)'
        PROVE  output'[p][i][2] <= calls'[output'[p][i][1]]
    <3>1. CASE p # q
      BY <1>1, <3>1 DEF Written
    <3>2. CASE p = q /\ i \in written(q)
      BY <1>3, <3>2 DEF Written
    <3>3. CASE p = q /\ output'[q][i] = current(t)
      <4>1. output'[p][i] = <<t, calls[t]>>
        BY <3>3 DEF current
      <4>2. output'[p][i][1] = t /\ output'[p][i][2] = calls[t]
        BY <4>1
      <4>3. calls[t] \in Nat
        BY DEF Base, Threading, ThreadTypes
      <4>4. QED BY <4>2, <4>3
    <3>4. QED BY <1>2, <2>1, <3>1, <3>2, <3>3
  <2>2. ASSUME NEW u \in Threads, NEW p \in Ports
        PROVE  (writing(u) => \A i, j \in written(p) :
                 i < j /\ output[p][i] = current(u) => output[p][j] = current(u))'
    <3>1. CASE p # q
      BY <1>1, <1>4, <1>5, <3>1 DEF Written
    <3>2. CASE u # t
      BY <1>5, <3>2
    <3>3. CASE u = t /\ p = q
      <4>1. current(u)' = current(t)
        BY <1>4, <3>3
      <4>2. \A i, j \in written(p)' :
               i < j /\ output'[p][i] = current(t) => output'[p][j] = current(t)
        BY <1>7, <3>3 DEF written
      <4>3. QED BY <4>1, <4>2
    <3>4. QED BY <3>1, <3>2, <3>3
  <2>3. ASSUME NEW u \in Threads, NEW p \in Ports
        PROVE  (waiting_to_write(u) => \A i \in written(p) : output[p][i] # current(u))'
    <3>1. CASE u = t BY <1>6, <3>1
    <3>2. CASE u # t /\ p # q
      BY <1>1, <1>4, <1>5, <3>2 DEF Written
    <3>3. CASE u # t /\ p = q
      <4>1. current(u)' = current(u) /\ current(u) # current(t)
        BY <1>4, <1>5, <3>3
      <4>2. waiting_to_write(u)' => \A i \in written(q) : output'[q][i] # current(u)
        BY <1>3, <1>5, <3>3 DEF Written
      <4>3. waiting_to_write(u)' => \A i \in written(p)' : output'[p][i] # current(u)
        BY <1>2, <3>3, <4>1, <4>2 DEF written
      <4>4. QED BY <4>1, <4>3
    <3>4. QED BY <3>1, <3>2, <3>3
  <2>4. QED BY <2>1, <2>2, <2>3 DEF Written
<1>9. InOnePiece'
  <2>1. SUFFICES ASSUME NEW p \in Ports, NEW i \in written(p)', NEW j \in written(p)',
                        NEW k \in written(p)', i < j, j < k, output'[p][i] = output'[p][k]
                 PROVE  output'[p][j] = output'[p][i]
    BY DEF InOnePiece
  <2>2. CASE p # q
    BY <1>1, <2>1, <2>2 DEF InOnePiece
  <2>3. CASE p = q /\ k \in written(q)
    <3>1. i \in written(q) /\ j \in written(q)
      <4>1. i \in written(q)' /\ j \in written(q)' /\ k <= L
        BY <1>2, <2>1, <2>3 DEF written
      <4>2. i \in Nat /\ j \in Nat /\ k \in Nat
        BY <1>2, <2>3, <4>1
      <4>3. ~ (i > L) /\ ~ (j > L)
        BY <1>1, <2>1, <4>1, <4>2
      <4>4. QED BY <1>2, <4>1, <4>3
    <3>2. QED BY <1>3, <2>1, <2>3, <3>1 DEF InOnePiece
  <2>4. CASE p = q /\ k \notin written(q)
    <3>1. output'[q][i] = current(t)
      BY <1>2, <2>1, <2>4
    <3>2. QED BY <1>7, <2>1, <2>4, <3>1
  <2>5. QED BY <2>2, <2>3, <2>4
<1>10. QED BY <1>8, <1>9

\* What WriteFile and Put do to the output: n more bytes of the call that writes.
LEMMA WritesWritten ==
  ASSUME Base, Written, InOnePiece, NEW t \in Threads, writing(t), Keeps(t), calls' = calls,
         NEW q \in Ports, NEW n \in Nat,
         output' = [output EXCEPT ![q] = @ \o [i \in 1 .. n |-> <<t, calls[t]>>]]
  PROVE  Written' /\ InOnePiece'
<1> DEFINE L == Len(output[q])
<1>1. /\ \A p \in Ports \ {q} : output'[p] = output[p] /\ written(p)' = written(p)
      /\ L \in Nat /\ Len(output'[q]) = L + n
      /\ \A i \in 1 .. L : output'[q][i] = output[q][i]
      /\ \A i \in L + 1 .. L + n : output'[q][i] = current(t)
  <2> DEFINE a == output[q]
             b == [i \in 1 .. n |-> current(t)]
  <2>1. /\ a \in Seq(Threads \X Nat) /\ Len(a) \in Nat
    BY OutputTypes
  <2>2. current(t) \in Threads \X Nat
    BY DEF current, Base, Threading, ThreadTypes
  <2>3. b \in Seq(Threads \X Nat) /\ Len(b) = n
    BY <2>2
  <2>4. \A i \in 1 .. n : b[i] = current(t)
    OBVIOUS
  <2>5. output \in [Ports -> Seq(Threads \X Nat)]
    BY DEF Base, LineTypes
  <2>6. output'[q] = a \o b /\ \A p \in Ports \ {q} : output'[p] = output[p]
    BY <2>5 DEF current
  <2> HIDE DEF a, b
  <2>7. /\ Len(a \o b) = Len(a) + Len(b)
        /\ \A i \in 1 .. Len(a) + Len(b) :
             (a \o b)[i] = IF i <= Len(a) THEN a[i] ELSE b[i - Len(a)]
    BY <2>1, <2>3, ConcatProperties
  <2>8. \A i \in 1 .. Len(a) : (a \o b)[i] = a[i]
    BY <2>1, <2>3, <2>7
  <2>9. ASSUME NEW i \in Len(a) + 1 .. Len(a) + n PROVE (a \o b)[i] = current(t)
    <3>1. i - Len(a) \in 1 .. n /\ i \in 1 .. Len(a) + n /\ ~ (i <= Len(a))
      BY <2>1
    <3>2. QED BY <2>3, <2>4, <2>7, <3>1
  <2>10. \A p \in Ports \ {q} : written(p)' = written(p)
    BY <2>6 DEF written
  <2>11. QED BY <2>1, <2>3, <2>6, <2>7, <2>8, <2>9, <2>10 DEF a
<1>2. QED BY <1>1, GrownOutput

\* Every step keeps what a call has written in one piece.
LEMMA NextWritten ==
  ASSUME Base, Written, InOnePiece, [Next]_vars
  PROVE  Written' /\ InOnePiece'
<1>1. CASE UNCHANGED vars
  BY <1>1, StillWritten DEF vars, lines, writing, waiting_to_write, under_way
<1>2. CASE Arrive
  BY <1>2, StillWritten DEF Arrive, writing, waiting_to_write, under_way
<1>3. ASSUME NEW t \in Threads, Step(t) \/ FileFails(t)
      PROVE  Written' /\ InOnePiece'
  <2>1. CASE Lock(t)
    <3>1. /\ \A u \in Threads \ {t} : call'[u] = call[u] /\ pc'[u] = pc[u]
          /\ call'[t].kind = call[t].kind /\ pc[t] = "lock"
          /\ output' = output /\ calls' = calls
      BY <2>1, LockThreading DEF Base, Lock, lines
    <3>2. QED BY <3>1, StillWritten DEF writing, waiting_to_write, under_way
  <2>2. CASE Put(t) \/ WriteFile(t)
    <3>1. Keeps(t) /\ calls' = calls /\ writing(t)
      BY <2>2, WriteStep DEF Put, WriteFile, writing, under_way, Base, Threading, Sound, Fitting
    <3>2. call[t].left \in Nat
      BY DEF Base, Threading, ThreadTypes, CallRecord
    <3>3. \/ output' = output
          \/ \E n \in Nat :
               output' = [output EXCEPT ![fd_] = @ \o [i \in 1 .. n |-> <<t, calls[t]>>]]
      <4>1. CASE Put(t)
        <5>1. CASE fd_ = None BY <4>1, <5>1 DEF Put
        <5>2. CASE fd_ # None
          <6>1. PICK n \in 1 .. call[t].left :
                  output' = [output EXCEPT ![fd_] = @ \o [i \in 1 .. n |-> <<t, calls[t]>>]]
            BY <4>1, <5>2 DEF Put
          <6>2. n \in Nat
            BY <3>2
          <6>3. QED BY <6>1, <6>2
        <5>3. QED BY <5>1, <5>2
      <4>2. CASE WriteFile(t)
        <5>1. PICK n \in 0 .. call[t].left :
                output' = [output EXCEPT ![fd_] = @ \o [i \in 1 .. n |-> <<t, calls[t]>>]]
          BY <4>2 DEF WriteFile
        <5>2. n \in Nat
          BY <3>2
        <5>3. QED BY <5>1, <5>2
      <4>3. QED BY <2>2, <4>1, <4>2
    <3>4. CASE output' = output
      BY <3>1, <3>4, StillWritten DEF Keeps, writing, waiting_to_write, under_way
    <3>5. ASSUME NEW n \in Nat,
                 output' = [output EXCEPT ![fd_] = @ \o [i \in 1 .. n |-> <<t, calls[t]>>]]
          PROVE  Written' /\ InOnePiece'
      <4>1. CASE fd_ \in Ports
        <5>1. PICK q \in Ports : q = fd_
          BY <4>1
        <5>2. output' = [output EXCEPT ![q] = @ \o [i \in 1 .. n |-> <<t, calls[t]>>]]
          BY <3>5, <5>1
        <5>3. QED BY <3>1, <5>2, WritesWritten
      <4>2. CASE fd_ \notin Ports
        <5>1. output' = output
          BY <3>5, <4>2 DEF Base, LineTypes
        <5>2. QED BY <3>4, <5>1
      <4>3. QED BY <4>1, <4>2
    <3>6. QED BY <3>3, <3>4, <3>5
  <2>3. CASE MovesTo(t)
    <3>1. calls' = calls
      BY <1>3 DEF Step, Lock, Transfer, Control, BeginRead, Prefill, Readable, Take, ReadDone,
         BeginWrite, Writable, Put, WriteDone, TimedOut, EnterFile, ReadFile, WriteFile, FileFails,
         BeginOpen, BeginClose, BeginSetPort, BeginSet, Flush, FlushInput, BeginFlush,
         Drained, FlushFile, CloseDescriptor, Closed,
         OpenDescriptor, Configure, ConfigureFails, StateRefused
    <3>2. /\ call[t].kind \in Reads /\ call'[t].kind = call[t].kind /\ output' = output
          /\ \A u \in Threads \ {t} : call'[u] = call[u] /\ pc'[u] = pc[u]
      BY <2>3 DEF MovesTo, reading
    <3>3. QED BY <3>1, <3>2, StillWritten DEF writing, waiting_to_write, under_way, Reads
  <2>4. ASSUME Keeps(t), ~ Lock(t), ~ Put(t), ~ WriteFile(t)
        PROVE  Written' /\ InOnePiece'
    <3>1. calls' = calls /\ output' = output
      BY <1>3, <2>4 DEF Step, Transfer, Control, BeginRead, Prefill, Readable, Take, ReadDone,
         BeginWrite, Writable, WriteDone, TimedOut, EnterFile, ReadFile, FileFails,
         BeginOpen, BeginClose, BeginSetPort, BeginSet, Flush, FlushInput, BeginFlush,
         Drained, FlushFile, CloseDescriptor, Closed,
         OpenDescriptor, Configure, ConfigureFails, StateRefused, lines
    <3>2. QED BY <2>4, <3>1, StillWritten DEF Keeps, writing, waiting_to_write
  <2>5. QED BY <1>3, <2>1, <2>2, <2>3, <2>4, StepBuffers
<1>4. QED BY <1>1, <1>2, <1>3, CallWritten, NextCases

------------------------------------------------------------------------------
(* The theorems *)

IInv == Base /\ Opened /\ OnLine /\ Ordered /\ Apart /\ Written /\ InOnePiece

\* The invariant holds before the first call.
LEMMA InitIInv == Init => IInv
<1> SUFFICES ASSUME Init PROVE IInv
  OBVIOUS
<1>1. Base
  BY InitBase
<1>2. /\ \A t \in Threads : pc[t] = "idle" /\ call[t].buf = <<>>
      /\ input = <<>> /\ \A p \in Ports : output[p] = <<>>
  BY DEF Init, NoCall
<1>3. Opened
  <2>1. pc[Owner] = "idle"
    BY <1>2 DEF Threads
  <2>2. QED BY <2>1 DEF Init, Opened
<1>4. OnLine
  BY <1>2 DEF OnLine, past_begin, reading, under_way
<1>5. Ordered /\ Apart
  BY <1>2 DEF Ordered, Apart, below
<1>6. Written /\ InOnePiece
  BY <1>2 DEF Written, InOnePiece, written
<1>7. QED BY <1>1, <1>3, <1>4, <1>5, <1>6 DEF IInv

\* The inductive invariant holds in every reachable state.
THEOREM Invariant == Spec => []IInv
<1>1. Init => IInv
  BY InitIInv
<1>2. IInv /\ [Next]_vars => IInv'
  BY NextBase, NextOpened, NextOnLine, NextOrdered, NextWritten DEF IInv
<1>3. QED BY <1>1, <1>2, PTL DEF Spec

\* Type correctness; no read returns more bytes than it was asked for (unix.cc:597).
THEOREM TypeCorrect == Spec => []TypeOK
<1>1. IInv => TypeOK
  <2> SUFFICES ASSUME IInv PROVE TypeOK
    OBVIOUS
  <2>1. /\ PortTypes /\ LineTypes /\ ThreadTypes
        /\ \A t \in Threads : Bounded(t)
    BY DEF IInv, Base, Threading, Sound
  <2>2. \A t \in Threads : call[t] \in CallRecord
    BY <2>1 DEF ThreadTypes
  <2>3. \A t \in Threads : /\ call[t].kind \in Transfers \cup Controls \cup {"none"}
                           /\ call[t].left \in Nat
    BY <2>2 DEF CallRecord, Kinds
  <2>4. \A t \in Threads : \E size \in Sizes : Len(call[t].buf) <= size
    BY <2>1 DEF Bounded
  <2>5. QED BY <2>1, <2>3, <2>4 DEF TypeOK, PortTypes, LineTypes, ThreadTypes
<1>2. Spec => []IInv BY Invariant
<1>3. QED BY <1>1, <1>2, PTL

\* Between two calls of the owner a port that says it is open is the one it is named
\* after (setPort, serial.cc:267).
THEOREM OpenMeansOpenAlways == Spec => []OpenMeansOpen
<1>1. IInv => OpenMeansOpen
  BY DEF IInv, Opened, OpenMeansOpen
<1>2. Spec => []IInv BY Invariant
<1>3. QED BY <1>1, <1>2, PTL

\* What a read returns comes from one port, although open and close take no lock.
THEOREM OnePortAlways == Spec => []OnePort
<1>1. IInv => OnePort
  <2> SUFFICES ASSUME IInv, NEW t \in Workers PROVE
        \A i, j \in DOMAIN call[t].buf : call[t].buf[i][1] = call[t].buf[j][1]
    BY DEF OnePort
  <2>1. t \in Threads
    BY DEF Threads
  <2>2. DOMAIN call[t].buf = 1 .. Len(call[t].buf)
    BY <2>1, Lengths DEF IInv
  <2>3. QED BY <2>1, <2>2 DEF IInv, OnLine
<1>2. Spec => []IInv BY Invariant
<1>3. QED BY <1>1, <1>2, PTL

\* No read gets a byte out of the middle of another (readline, serial.cc:163).
THEOREM ReadsDoNotInterleaveAlways == Spec => []ReadsDoNotInterleave
<1>1. IInv => ReadsDoNotInterleave
  <2> SUFFICES ASSUME IInv, NEW t \in Workers, NEW u \in Workers, t # u,
                      NEW i \in DOMAIN call[t].buf, NEW j \in DOMAIN call[t].buf,
                      NEW k \in DOMAIN call[u].buf
               PROVE  ~ (/\ call[t].buf[i][2] <= call[u].buf[k][2]
                         /\ call[u].buf[k][2] <= call[t].buf[j][2])
    BY DEF ReadsDoNotInterleave
  <2>1. Base /\ t \in Threads /\ u \in Threads
    BY DEF Threads, IInv
  <2>2. /\ DOMAIN call[t].buf = 1 .. Len(call[t].buf)
        /\ DOMAIN call[u].buf = 1 .. Len(call[u].buf)
    BY <2>1, Lengths
  <2>3. /\ call[t].buf[i][2] \in Nat /\ call[t].buf[j][2] \in Nat
        /\ call[u].buf[k][2] \in Nat
    BY <2>1, <2>2, Numbers
  <2>4. \/ call[t].buf[j][2] < call[u].buf[k][2]
        \/ call[u].buf[k][2] < call[t].buf[i][2]
    BY <2>1, <2>2 DEF IInv, Apart, below
  <2>5. QED BY <2>3, <2>4
<1>2. Spec => []IInv BY Invariant
<1>3. QED BY <1>1, <1>2, PTL

\* What a write sends leaves in one piece, however often it calls ::write (unix.cc:654).
THEOREM WritesDoNotInterleaveAlways == Spec => []WritesDoNotInterleave
<1>1. IInv => WritesDoNotInterleave
  <2> SUFFICES ASSUME IInv, NEW p \in Ports,
                      NEW i \in DOMAIN output[p], NEW j \in DOMAIN output[p],
                      NEW k \in DOMAIN output[p],
                      i < j, j < k, output[p][i] = output[p][k]
               PROVE  output[p][j] = output[p][i]
    BY DEF WritesDoNotInterleave
  <2>1. DOMAIN output[p] = written(p)
    BY OutputTypes DEF IInv, written
  <2>2. QED BY <2>1 DEF IInv, InOnePiece
<1>2. Spec => []IInv BY Invariant
<1>3. QED BY <1>1, <1>2, PTL
================================================================================
