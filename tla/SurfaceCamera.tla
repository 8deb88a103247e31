---------------------------- MODULE SurfaceCamera ----------------------------
(***************************************************************************)
(* SurfaceCamera.cpp: the camera sessions of the provider (a SurfaceCamera *)
(* instance per opened device) and the one SurfaceCameraTransport they     *)
(* share, over a virtio-serial port to the host's camera bridge, which is  *)
(* outside the repository and modelled from the protocol the HAL speaks.   *)
(*                                                                         *)
(* Every exchange runs under mMutex, so a step ends where the host can     *)
(* act: after a request line is written and after each reply is read.      *)
(* Replies are whole messages; the pixels of a frame are one message.      *)
(***************************************************************************)
EXTENDS Integers, Sequences

CONSTANTS
  Session,     \* SurfaceCamera instances
  NoSession,   \* mOwner is null
  Facing,      \* the sensor, "rear" or "front", of each session
  MaxQueue,    \* requests under way, and replies a reset leaves (a bound)
  Faults       \* what the host may do: "refuse", "garble", "hangup"

Sensor == {"rear", "front"}

ASSUME FacingAssumption == Facing \in [Session -> Sensor]
ASSUME NoSessionAssumption == NoSession \notin Session
ASSUME MaxQueueAssumption == MaxQueue \in Nat

VARIABLES
  pc,         \* where each session's current call is
  lock,       \* the session that holds mMutex across an exchange
  mFd,        \* the port is open
  mOwner,     \* the session the camera is open for
  failed,     \* an exchange has failed, and resetLocked() was called
  mStreams,   \* the sessions with configured streams
  requests,   \* lines written to the port, not yet read by the host
  replies,    \* messages of the host, not yet read
  bridge,     \* "steady", "away" from its end of the port, or "back"
  sensor      \* the sensor the bridge has open

transport == <<mFd, mOwner, failed>>
host == <<requests, replies, bridge, sensor>>
vars == <<pc, lock, transport, mStreams, host>>

Request == [verb : {"OPEN"}, sensor : Sensor] \cup [verb : {"FRAME", "CLOSE"}]
Reply == [kind : {"READY", "HEADER", "PIXELS"}, sensor : Sensor]
         \cup [kind : {"CLOSED", "REFUSED", "GARBLED"}]
Label == {"idle", "handover", "opening", "header", "pixels", "mixed",
          "closing"}

TypeOK == /\ pc \in [Session -> Label]
          /\ lock \in Session \cup {NoSession}
          /\ mFd \in BOOLEAN
          /\ mOwner \in Session \cup {NoSession}
          /\ failed \in BOOLEAN
          /\ mStreams \subseteq Session
          /\ requests \in Seq(Request)
          /\ replies \in Seq(Reply)
          /\ bridge \in {"steady", "away", "back"}
          /\ sensor \in Sensor \cup {"none"}

Init == /\ pc = [s \in Session |-> "idle"] /\ lock = NoSession
        /\ mFd = FALSE /\ mOwner = NoSession /\ failed = FALSE
        /\ mStreams = {}
        /\ requests = <<>> /\ replies = <<>>
        /\ bridge = "steady" /\ sensor = "none"

----------------------------------------------------------------------------
(* The port                                                                *)

Goto(s, label) == pc' = [pc EXCEPT ![s] = label]

(* The bridge holds its end of the port. *)
Connected == bridge # "away"

(* Write a request and wait for its reply, mMutex held. *)
Ask(s, request, label) ==
  /\ Connected /\ Len(requests) < MaxQueue
  /\ requests' = Append(requests, request)
  /\ lock' = s /\ Goto(s, label)
  /\ UNCHANGED <<replies, bridge, sensor>>

(* A slip: OPEN names the session, not its sensor. *)
OpenSession(s) == Ask(s, [verb |-> "OPEN", sensor |-> s], "opening")

Open(s) == Ask(s, [verb |-> "OPEN", sensor |-> Facing[s]], "opening")

(* readLine and readFully: the next message, or none when the host hung up. *)
Answer == IF replies = <<>> THEN [kind |-> "END"] ELSE Head(replies)

Answered == replies # <<>> \/ ~Connected

Took == IF replies = <<>> THEN <<>> ELSE Tail(replies)

(* The call returns. *)
Return(s) == Goto(s, "idle") /\ lock' = NoSession

(* resetLocked(): closing the port drops what has already arrived. *)
Reset(read) ==
  /\ mFd' = FALSE /\ mOwner' = NoSession /\ failed' = TRUE
  /\ \E n \in 0..Len(read) : /\ Len(read) - n <= MaxQueue
                              /\ replies' = SubSeq(read, n + 1, Len(read))
  /\ UNCHANGED <<requests, bridge, sensor>>

(* A reply that is not read as what it is leaves bytes behind: a line read as *)
(* a frame, or the bytes of a frame read as a line.                           *)
Misread(s) == /\ replies # <<>>
              /\ pc[s] = "header" \/ Answer.kind \in {"HEADER", "PIXELS", "GARBLED"}

(* A slip: a reply that makes no sense is skipped, and the call reads on. *)
ReadOn(s) == /\ replies' = Took
             /\ UNCHANGED <<pc, lock, transport, requests, bridge, sensor>>

(* The call fails on the reply it has read: the transport is reset. *)
Fail(s) ==
  /\ \/ Reset(Took)
     \/ Misread(s) /\ Reset(<<[kind |-> "GARBLED"]>> \o Took)
  /\ Return(s)

----------------------------------------------------------------------------
(* The framework's calls                                                   *)

(* A slip: the bridge is left to close the sensor of the previous owner. *)
NeverOwned == FALSE

Owned == mOwner # NoSession

(* configure() and acquire(): nothing to do for the owner (its sensor and    *)
(* frame size are fixed); else open the port, close the sensor of the        *)
(* previous owner and open one's own.                                        *)
Acquire(s) ==
  /\ pc[s] = "idle" /\ lock = NoSession
  /\ \/ /\ mOwner = s
        /\ mStreams' = mStreams \cup {s}
        /\ Return(s)
        /\ UNCHANGED <<transport, host>>
     \/ /\ mOwner # s /\ ~mFd                       \* the port is missing
        /\ Return(s)
        /\ UNCHANGED <<transport, mStreams, host>>
     \/ /\ mOwner # s
        /\ mFd' = TRUE
        /\ IF Owned THEN Ask(s, [verb |-> "CLOSE"], "handover") ELSE Open(s)
        /\ UNCHANGED <<mOwner, failed, mStreams>>
     \/ /\ mOwner # s /\ ~Connected                 \* writeLine fails
        /\ Reset(replies) /\ Return(s)
        /\ UNCHANGED mStreams

(* A slip: the reply of CLOSE is not waited for. *)
ClosedUnread == TRUE

(* closeCameraLocked() goes on: the host has let the sensor go. *)
Closed == Answered /\ Answer.kind = "CLOSED"

(* acquire() goes on after the previous owner's sensor is closed. *)
Handover(s) ==
  /\ pc[s] = "handover"
  /\ \/ /\ Closed /\ Connected
        /\ mOwner' = NoSession
        /\ requests' = Append(requests, [verb |-> "OPEN", sensor |-> Facing[s]])
        /\ replies' = Took
        /\ Goto(s, "opening")
        /\ UNCHANGED <<lock, mFd, failed, bridge, sensor>>
     \/ /\ Answered /\ ~Closed
        /\ Fail(s)
     \/ /\ Closed /\ ~Connected                     \* writeLine fails
        /\ Fail(s)
  /\ UNCHANGED mStreams

(* The bridge opened the sensor that was asked for. *)
Ready(s) == Answered /\ Answer = [kind |-> "READY", sensor |-> Facing[s]]

(* acquire() ends; only a success replaces the configured streams. *)
Opening(s) ==
  /\ pc[s] = "opening"
  /\ \/ /\ Ready(s)
        /\ mOwner' = s /\ mStreams' = mStreams \cup {s}
        /\ replies' = Took
        /\ Return(s)
        /\ UNCHANGED <<mFd, failed, requests, bridge, sensor>>
     \/ /\ Answered /\ ~Ready(s)
        /\ Fail(s)
        /\ UNCHANGED mStreams

(* A slip: the owner is not looked at. *)
CapturesAnyway(s) == mFd

(* capture() is for the owner of the camera. *)
Captures(s) == mOwner = s /\ mFd

(* processCaptureRequest(), capture(): a request that gets no frame finishes *)
(* its buffers with an error and changes nothing, even when the write fails. *)
Capture(s) ==
  /\ pc[s] = "idle" /\ lock = NoSession
  /\ \/ /\ Captures(s)
        /\ Ask(s, [verb |-> "FRAME"], "header")
        /\ UNCHANGED <<transport, mStreams>>
     \/ /\ ~Captures(s) \/ ~Connected
        /\ Return(s)
        /\ UNCHANGED <<transport, mStreams, host>>

(* A valid header announces the pixels; anything else resets the transport. *)
ReadHeader(s) ==
  /\ pc[s] = "header" /\ Answered
  /\ \/ /\ Answer.kind = "HEADER"
        /\ replies' = Took
        /\ Goto(s, "pixels")
        /\ UNCHANGED <<lock, transport, requests, bridge, sensor>>
     \/ /\ Answer.kind # "HEADER"
        /\ Fail(s)
  /\ UNCHANGED mStreams

(* The pixels are copied to the configured streams of the request.  After a  *)
(* frame that was cut, the bytes of later messages are read as its pixels.   *)
ReadPixels(s) ==
  /\ pc[s] \in {"pixels", "mixed"} /\ Answered
  /\ \/ /\ Answer.kind = "PIXELS"
        /\ \/ pc[s] = "pixels" /\ replies' = Took
           \/ pc[s] = "mixed" /\ replies' = <<[kind |-> "GARBLED"]>> \o Took
        /\ Return(s)
        /\ UNCHANGED <<transport, requests, bridge, sensor>>
     \/ /\ Answer.kind \notin {"PIXELS", "END"}     \* too short: read on
        /\ replies' = Took
        /\ Goto(s, "mixed")
        /\ UNCHANGED <<lock, transport, requests, bridge, sensor>>
     \/ /\ replies = <<>>
        /\ Fail(s)
  /\ UNCHANGED mStreams

(* release() is for the owner of the camera. *)
Releases(s) == mOwner = s

(* close() *)
Release(s) ==
  /\ pc[s] = "idle" /\ lock = NoSession
  /\ \/ /\ Releases(s) /\ mFd
        /\ Ask(s, [verb |-> "CLOSE"], "closing")
        /\ UNCHANGED <<transport, mStreams>>
     \/ /\ Releases(s) /\ ~(mFd /\ Connected)       \* no port, or writeLine fails
        /\ Reset(replies) /\ Return(s)
        /\ mStreams' = mStreams \ {s}
     \/ /\ ~Releases(s)
        /\ Return(s)
        /\ mStreams' = mStreams \ {s}
        /\ UNCHANGED <<transport, host>>

Closing(s) ==
  /\ pc[s] = "closing"
  /\ \/ /\ Closed
        /\ mOwner' = NoSession
        /\ replies' = Took
        /\ Return(s)
        /\ UNCHANGED <<mFd, failed, requests, bridge, sensor>>
     \/ /\ Answered /\ ~Closed
        /\ Fail(s)
  /\ mStreams' = mStreams \ {s}

----------------------------------------------------------------------------
(* The host's camera bridge (external)                                     *)

(* The bridge reads a request and sends messages. *)
Serve(verb, messages) ==
  /\ Connected /\ requests # <<>> /\ Head(requests).verb = verb
  /\ requests' = Tail(requests)
  /\ replies' = replies \o messages
  /\ UNCHANGED <<pc, lock, transport, mStreams, bridge>>

(* OPEN releases the sensor that was open. *)
ServeOpen ==
  LET asked == Head(requests).sensor IN
  \/ /\ Serve("OPEN", <<[kind |-> "READY", sensor |-> asked]>>)
     /\ sensor' = asked
  \/ /\ "refuse" \in Faults
     /\ Serve("OPEN", <<[kind |-> "REFUSED"]>>)
     /\ sensor' = "none"

ServeFrame ==
  /\ UNCHANGED sensor
  /\ \/ /\ sensor # "none"
        /\ Serve("FRAME", <<[kind |-> "HEADER", sensor |-> sensor],
                            [kind |-> "PIXELS", sensor |-> sensor]>>)
     \/ /\ sensor # "none" /\ "garble" \in Faults
        /\ Serve("FRAME", <<[kind |-> "GARBLED"],
                            [kind |-> "PIXELS", sensor |-> sensor]>>)
     \/ /\ sensor = "none"
        /\ Serve("FRAME", <<[kind |-> "REFUSED"]>>)

(* CLOSED is sent when the sensor has really been released. *)
ServeClose == Serve("CLOSE", <<[kind |-> "CLOSED"]>>) /\ sensor' = "none"

HangUp ==
  /\ "hangup" \in Faults /\ Connected
  /\ bridge' = "away" /\ sensor' = "none" /\ requests' = <<>>
  /\ \E n \in 0..Len(replies) : replies' = SubSeq(replies, 1, n)
  /\ UNCHANGED <<pc, lock, transport, mStreams>>

Reconnect ==
  /\ ~Connected /\ bridge' = "back"
  /\ UNCHANGED <<pc, lock, transport, mStreams, requests, replies, sensor>>

Bridge == ServeOpen \/ ServeFrame \/ ServeClose

----------------------------------------------------------------------------
(* The framework's calls take the mutex; the rest of a call is an exchange. *)
Call(s) == Acquire(s) \/ Capture(s) \/ Release(s)

Exchange(s) == Handover(s) \/ Opening(s) \/ ReadHeader(s) \/ ReadPixels(s)
               \/ Closing(s)

Next == \/ \E s \in Session : Call(s) \/ Exchange(s)
        \/ Bridge \/ HangUp \/ Reconnect

Spec == Init /\ [][Next]_vars

(* Fairness: a call under way goes on, and the bridge answers.  Nothing is  *)
(* assumed of the framework's calls.                                        *)
FairSpec == /\ Spec
            /\ WF_vars(\E s \in Session : Exchange(s))
            /\ WF_vars(Bridge)

----------------------------------------------------------------------------
(* Properties                                                              *)

(* A session is never given a whole frame of the other sensor, whatever was   *)
(* left in the port by exchanges that failed or by a bridge that hung up.     *)
RightSensor ==
  \A s \in Session : pc[s] = "pixels" /\ Answer.kind = "PIXELS" =>
    Answer.sensor = Facing[s]

(* "acquire() synchronously closes and releases the old source before it     *)
(* issues OPEN for the new facing" (lines 458-460): as long as no exchange   *)
(* fails and the bridge does not hang up, it is asked to open a sensor only  *)
(* when none is open.                                                        *)
Orderly == ~failed /\ bridge = "steady"

SensorHandedOver ==
  Orderly /\ requests # <<>> /\ Head(requests).verb = "OPEN" =>
    sensor = "none"

(* Between two calls the HAL and the bridge agree, as long as no exchange    *)
(* fails: nothing is under way on the port, and the bridge has the owner's   *)
(* sensor open, or none when nobody owns the camera.                         *)
InStep ==
  Orderly /\ lock = NoSession =>
    /\ requests = <<>> /\ replies = <<>>
    /\ sensor = IF mOwner = NoSession THEN "none" ELSE Facing[mOwner]

(* No exchange holds the mutex forever: while the bridge answers and has     *)
(* never hung up, every call returns and lets the other sessions in, however *)
(* many replies were refused, garbled or left by an exchange that failed.    *)
MutexReleased == lock # NoSession ~> lock = NoSession \/ bridge # "steady"
=============================================================================
