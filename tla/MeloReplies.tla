------------------------------ MODULE MeloReplies ------------------------------
(***************************************************************************)
(* What a melo slave promises its master, without events, stacks or        *)
(* frames.  The slave holds at most one unanswered packet; it takes it up  *)
(* only between two replies; and each reply is a pending response followed *)
(* by a final response to one and the same request.                        *)
(***************************************************************************)
CONSTANTS Requests,     \* packets whose status field is REQUEST
          NonRequests,  \* packets with any other status
          NoRequest     \* stands for "no packet"

VARIABLES inbox,        \* the newest packet not taken up yet, or NoRequest
          phase,        \* "idle", "pending" or "final"
          answered      \* the request the replies on the wire are about

vars == <<inbox, phase, answered>>

Init == /\ inbox = NoRequest
        /\ phase = "idle"
        /\ answered = NoRequest

\* A newer packet replaces an unanswered older one.
Arrive(packet) ==
  /\ inbox' = packet
  /\ UNCHANGED <<phase, answered>>

Begin ==
  /\ phase = "idle"
  /\ inbox \in Requests
  /\ answered' = inbox
  /\ inbox' = NoRequest
  /\ phase' = "pending"

\* A packet that is no request makes the slave send its last reply once more.
Resend ==
  /\ phase = "idle"
  /\ inbox \in NonRequests
  /\ inbox' = NoRequest
  /\ phase' = "pending"
  /\ UNCHANGED answered

\* A slave that is busy may let a packet fall.
Ignore ==
  /\ phase # "idle"
  /\ inbox' = NoRequest
  /\ UNCHANGED <<phase, answered>>

Finish ==
  /\ phase = "pending"
  /\ phase' = "final"
  /\ UNCHANGED <<inbox, answered>>

Done ==
  /\ phase = "final"
  /\ phase' = "idle"
  /\ UNCHANGED <<inbox, answered>>

Next == \/ \E packet \in Requests \cup NonRequests : Arrive(packet)
        \/ Begin \/ Resend \/ Ignore \/ Finish \/ Done

Spec == Init /\ [][Next]_vars
================================================================================
