-------------------------- MODULE SurfaceCameraProofs --------------------------
(***************************************************************************)
(* Proofs about SurfaceCamera, for any sessions, bound of the queue and    *)
(* faults of the host: its types, that a session is never given a whole    *)
(* frame of the other sensor, and that the two ends agree until an         *)
(* exchange fails.                                                         *)
(*                                                                         *)
(* The port carries what exchanges that failed have left.  The argument is *)
(* about the messages between one READY and the next: they are of one      *)
(* sensor, and a session becomes the owner by reading a READY of its own.  *)
(***************************************************************************)
EXTENDS SurfaceCamera, SequenceTheorems, TLAPS

(* A call under way holds the mutex, and a capture is the owner's. *)
Exclusive ==
  \A s \in Session :
    /\ pc[s] # "idle" => lock = s
    /\ pc[s] \in {"header", "pixels", "mixed", "closing"} => mOwner = s

Kind(i) == replies[i].kind
Frame == {"HEADER", "PIXELS"}
Sensed == {"READY"} \cup Frame

(* Between one READY and the next the bridge speaks of one sensor ... *)
Coherent ==
  \A i, j \in DOMAIN replies :
    /\ i < j /\ Kind(i) \in Sensed /\ Kind(j) \in Frame
    /\ \A k \in DOMAIN replies : i < k /\ k < j => Kind(k) # "READY"
    => replies[i].sensor = replies[j].sensor

(* ... and after the last READY of the one it has open. *)
Latest ==
  \A i \in DOMAIN replies :
    /\ sensor # "none" /\ Kind(i) \in Sensed
    /\ \A k \in DOMAIN replies : i < k => Kind(k) # "READY"
    => replies[i].sensor = sensor

(* What the owner can read as a frame before it reads something else. *)
Break == {"READY", "GARBLED"}
Owning == mOwner # NoSession /\ pc[mOwner] # "mixed"

OwnFrames ==
  Owning => \A j \in DOMAIN replies :
    Kind(j) \in Frame /\ (\A k \in DOMAIN replies : k <= j => Kind(k) \notin Break)
    => replies[j].sensor = Facing[mOwner]

OwnSensor ==
  Owning /\ (\A k \in DOMAIN replies : Kind(k) \notin Break) =>
    sensor \in {"none", Facing[mOwner]}

Requested(r, opened) == requests = <<r>> /\ replies = <<>> /\ sensor = opened
Replied(m, opened) == requests = <<>> /\ replies = m /\ sensor = opened

Line(kind) == [kind |-> kind]
Of(kind, s) == [kind |-> kind, sensor |-> Facing[s]]

(* An exchange in which nothing has failed: each request has its answer. *)
Exchanging(s) ==
  /\ pc[s] = "handover" =>
       /\ mOwner \in Session
       /\ \/ Requested([verb |-> "CLOSE"], Facing[mOwner])
          \/ Replied(<<Line("CLOSED")>>, "none")
  /\ pc[s] = "opening" =>
       /\ mOwner = NoSession
       /\ \/ Requested([verb |-> "OPEN", sensor |-> Facing[s]], "none")
          \/ Replied(<<Of("READY", s)>>, Facing[s])
          \/ Replied(<<Line("REFUSED")>>, "none")
  /\ pc[s] = "header" =>
       \/ Requested([verb |-> "FRAME"], Facing[s])
       \/ Replied(<<Of("HEADER", s), Of("PIXELS", s)>>, Facing[s])
       \/ Replied(<<Line("GARBLED"), Of("PIXELS", s)>>, Facing[s])
  /\ pc[s] = "pixels" => Replied(<<Of("PIXELS", s)>>, Facing[s])
  /\ pc[s] = "closing" =>
       \/ Requested([verb |-> "CLOSE"], Facing[s])
       \/ Replied(<<Line("CLOSED")>>, "none")
  /\ pc[s] # "mixed"

Exchanged == Orderly => \A s \in Session : lock = s => pc[s] # "idle" /\ Exchanging(s)

IInv == /\ TypeOK /\ Exclusive /\ Coherent /\ Latest /\ OwnFrames /\ OwnSensor
        /\ Exchanged /\ InStep

----------------------------------------------------------------------------
(* Reading                                                                 *)

LEMMA MessageFacts ==
  /\ \A m \in Reply : m.kind \in Sensed => m.sensor \in Sensor
  /\ Line("GARBLED") \in Reply /\ Line("REFUSED") \in Reply /\ Line("CLOSED") \in Reply
  /\ \A kind \in Sensed, x \in Sensor : [kind |-> kind, sensor |-> x] \in Reply
  /\ [verb |-> "FRAME"] \in Request /\ [verb |-> "CLOSE"] \in Request
  /\ \A x \in Sensor : [verb |-> "OPEN", sensor |-> x] \in Request
  /\ \A r \in Request : r.verb = "OPEN" => r.sensor \in Sensor
BY DEF Reply, Request, Sensed, Frame, Line

LEMMA TookFacts ==
  ASSUME replies \in Seq(Reply)
  PROVE  /\ Took \in Seq(Reply) /\ Len(replies) \in Nat
         /\ DOMAIN replies = 1..Len(replies) /\ DOMAIN Took = 1..Len(Took)
         /\ replies # <<>> =>
              /\ Len(replies) >= 1 /\ Answer = replies[1] /\ Answer \in Reply
              /\ Len(Took) = Len(replies) - 1
              /\ \A i \in 1..Len(Took) : Took[i] = replies[i + 1]
         /\ replies = <<>> => Answer.kind = "END" /\ Took = <<>>
<1>1. CASE replies = <<>> BY <1>1 DEF Took, Answer
<1>2. CASE replies # <<>> BY <1>2 DEF Took, Answer
<1> QED BY <1>1, <1>2

(* What is left in the port is the end of what was there, perhaps behind     *)
(* the rest of a message that was read as what it is not.                    *)
Cut(from, to) ==
  \E n \in 0..Len(from) :
    /\ Len(to) = Len(from) - n
    /\ \A i \in 1..Len(to) : to[i] = from[i + n]

CutGarbled(from, to) ==
  /\ Len(to) >= 1 /\ to[1].kind = "GARBLED"
  /\ \E n \in 0..Len(from) :
       /\ Len(to) = Len(from) - n + 1
       /\ \A i \in 2..Len(to) : to[i] = from[i + n - 1]

LEMMA ResetFacts ==
  ASSUME NEW read \in Seq(Reply), Reset(read)
  PROVE  /\ mFd' = FALSE /\ mOwner' = NoSession /\ failed' = TRUE
         /\ replies' \in Seq(Reply) /\ Cut(read, replies')
         /\ UNCHANGED <<requests, bridge, sensor>>
<1>1. PICK n \in 0..Len(read) : replies' = SubSeq(read, n + 1, Len(read))
  BY DEF Reset
<1>2. /\ replies' \in Seq(Reply) /\ Len(replies') = Len(read) - n
      /\ \A i \in 1..Len(replies') : replies'[i] = read[i + n]
  BY <1>1
<1> QED BY <1>2 DEF Reset, Cut

LEMMA FailFacts ==
  ASSUME replies \in Seq(Reply), NEW s \in Session, Fail(s)
  PROVE  /\ mFd' = FALSE /\ mOwner' = NoSession /\ failed' = TRUE
         /\ replies' \in Seq(Reply)
         /\ Cut(replies, replies') \/ CutGarbled(replies, replies')
         /\ Return(s) /\ UNCHANGED <<requests, bridge, sensor>>
<1> DEFINE left == <<[kind |-> "GARBLED"]>> \o Took
<1>0. /\ Took \in Seq(Reply) /\ Return(s)
      /\ \E n \in {0, 1} : /\ Len(Took) = Len(replies) - n /\ n <= Len(replies)
                           /\ \A i \in 1..Len(Took) : Took[i] = replies[i + n]
  <2>1. CASE replies = <<>> BY <2>1, TookFacts DEF Fail
  <2>2. CASE replies # <<>> BY <2>2, TookFacts DEF Fail
  <2> QED BY <2>1, <2>2
<1>1. CASE Reset(Took)
  <2>1. /\ mFd' = FALSE /\ mOwner' = NoSession /\ failed' = TRUE
        /\ replies' \in Seq(Reply) /\ Cut(Took, replies')
        /\ UNCHANGED <<requests, bridge, sensor>>
    BY <1>0, <1>1, ResetFacts
  <2>2. PICK n \in {0, 1} : /\ Len(Took) = Len(replies) - n /\ n <= Len(replies)
                            /\ \A i \in 1..Len(Took) : Took[i] = replies[i + n]
    BY <1>0
  <2>3. PICK m \in 0..Len(Took) :
          /\ Len(replies') = Len(Took) - m
          /\ \A i \in 1..Len(replies') : replies'[i] = Took[i + m]
    BY <2>1 DEF Cut
  <2>n. Len(replies) \in Nat /\ Len(replies') \in Nat /\ Len(Took) \in Nat
    BY <1>0, <2>1
  <2>4. m + n \in 0..Len(replies) /\ Len(replies') = Len(replies) - (m + n)
    BY <2>2, <2>3, <2>n
  <2>5. ASSUME NEW i \in 1..Len(replies') PROVE replies'[i] = replies[i + (m + n)]
    <3>1. i + m \in 1..Len(Took) BY <2>2, <2>3, <2>n
    <3>2. replies'[i] = Took[i + m] /\ Took[i + m] = replies[i + m + n]
      BY <2>2, <2>3, <3>1
    <3> QED BY <2>2, <2>3, <2>n, <3>2
  <2>6. Cut(replies, replies') BY <2>4, <2>5 DEF Cut
  <2> QED BY <1>0, <2>1, <2>6
<1>2. CASE Misread(s) /\ Reset(left)
  <2>0. /\ Len(Took) = Len(replies) - 1 /\ Len(replies) >= 1 /\ Len(replies) \in Nat
        /\ \A i \in 1..Len(Took) : Took[i] = replies[i + 1]
    BY <1>2, TookFacts DEF Misread
  <2>1. /\ left \in Seq(Reply) /\ Len(left) = Len(Took) + 1
        /\ left[1] = [kind |-> "GARBLED"]
        /\ \A i \in 2..Len(left) : left[i] = Took[i - 1]
    <3>1. [kind |-> "GARBLED"] \in Reply BY MessageFacts DEF Line
    <3>2. <<[kind |-> "GARBLED"]>> \in Seq(Reply) BY <3>1
    <3> QED BY <1>0, <3>2
  <2> HIDE DEF left
  <2>2. /\ mFd' = FALSE /\ mOwner' = NoSession /\ failed' = TRUE
        /\ replies' \in Seq(Reply) /\ Cut(left, replies')
        /\ UNCHANGED <<requests, bridge, sensor>>
    BY <1>2, <2>1, ResetFacts
  <2>3. PICK n \in 0..Len(left) :
          /\ Len(replies') = Len(left) - n
          /\ \A i \in 1..Len(replies') : replies'[i] = left[i + n]
    BY <2>2 DEF Cut
  <2>4. CASE n = 0
    <3>1. Len(replies') = Len(left) /\ Len(left) = Len(replies)
      BY <2>0, <2>1, <2>3, <2>4
    <3>2. replies'[1] = [kind |-> "GARBLED"]
      BY <2>0, <2>1, <2>3, <2>4, <3>1
    <3>3. \A i \in 2..Len(replies') : replies'[i] = replies[i + 1 - 1]
      BY <2>0, <2>1, <2>3, <2>4, <3>1
    <3>4. CutGarbled(replies, replies')
      BY <2>0, <3>1, <3>2, <3>3 DEF CutGarbled
    <3> QED BY <1>0, <2>2, <3>4
  <2>5. CASE n # 0
    <3>0. Len(left) = Len(replies) /\ Len(replies') \in Nat BY <2>0, <2>1, <2>2
    <3>1. n \in 0..Len(replies) /\ n >= 1 /\ Len(replies') = Len(replies) - n
      BY <2>0, <2>3, <2>5, <3>0
    <3>2. ASSUME NEW i \in 1..Len(replies') PROVE replies'[i] = replies[i + n]
      <4>1. i + n \in 2..Len(left) /\ i + n - 1 \in 1..Len(Took)
        BY <2>0, <3>0, <3>1
      <4>2. replies'[i] = left[i + n] /\ left[i + n] = Took[i + n - 1]
        BY <2>1, <2>3, <4>1
      <4>3. Took[i + n - 1] = replies[i + n - 1 + 1] BY <2>0, <4>1
      <4> QED BY <3>0, <3>1, <4>2, <4>3
    <3>3. Cut(replies, replies') BY <3>1, <3>2 DEF Cut
    <3> QED BY <1>0, <2>2, <3>3
  <2> QED BY <2>4, <2>5
<1> QED BY <1>1, <1>2 DEF Fail

----------------------------------------------------------------------------
(* Types                                                                   *)

LEMMA AskTyped ==
  ASSUME TypeOK, NEW s \in Session, NEW r \in Request, NEW label \in Label,
         Ask(s, r, label)
  PROVE  /\ requests' \in Seq(Request) /\ lock' = s /\ pc' \in [Session -> Label]
         /\ UNCHANGED <<replies, bridge, sensor>>
BY DEF Ask, TypeOK, Goto

LEMMA ReturnTyped ==
  ASSUME TypeOK, NEW s \in Session, Return(s)
  PROVE  pc' \in [Session -> Label] /\ lock' = NoSession
BY DEF Return, TypeOK, Goto, Label

LEMMA FailTyped ==
  ASSUME TypeOK, NEW s \in Session, Fail(s), mStreams' \subseteq Session
  PROVE  TypeOK'
<1>1. replies \in Seq(Reply) BY DEF TypeOK
<1>2. /\ mFd' = FALSE /\ mOwner' = NoSession /\ failed' = TRUE
      /\ replies' \in Seq(Reply) /\ Return(s)
      /\ UNCHANGED <<requests, bridge, sensor>>
  BY <1>1, FailFacts
<1>3. pc' \in [Session -> Label] /\ lock' = NoSession BY <1>2, ReturnTyped
<1> QED BY <1>2, <1>3 DEF TypeOK

LEMMA ServeTyped ==
  ASSUME TypeOK, NEW verb, NEW messages \in Seq(Reply), Serve(verb, messages),
         sensor' \in Sensor \cup {"none"}
  PROVE  TypeOK'
<1>1. requests' \in Seq(Request) /\ replies' \in Seq(Reply)
  BY DEF Serve, TypeOK
<1> QED BY <1>1 DEF Serve, TypeOK, transport

LEMMA TypeInit == Init => TypeOK
<1>1. <<>> \in Seq(Request) /\ <<>> \in Seq(Reply) OBVIOUS
<1> QED BY <1>1 DEF Init, TypeOK, Label

LEMMA TypeStep == TypeOK /\ [Next]_vars => TypeOK'
<1> SUFFICES ASSUME TypeOK, [Next]_vars PROVE TypeOK' OBVIOUS
<1>t. /\ replies \in Seq(Reply) /\ mStreams \subseteq Session
      /\ lock \in Session \cup {NoSession} /\ mFd \in BOOLEAN /\ failed \in BOOLEAN
      /\ mOwner \in Session \cup {NoSession} /\ requests \in Seq(Request)
      /\ bridge \in {"steady", "away", "back"} /\ sensor \in Sensor \cup {"none"}
      /\ pc \in [Session -> Label]
  BY DEF TypeOK
<1>k. Took \in Seq(Reply) BY <1>t, TookFacts
<1>l. /\ "idle" \in Label /\ "handover" \in Label /\ "opening" \in Label
      /\ "header" \in Label /\ "pixels" \in Label /\ "mixed" \in Label
      /\ "closing" \in Label
  BY DEF Label
<1>1. CASE UNCHANGED vars
  BY <1>1 DEF vars, transport, host, TypeOK
<1>2. ASSUME NEW s \in Session, Acquire(s) PROVE TypeOK'
  <2>s. mStreams \cup {s} \subseteq Session /\ mStreams \ {s} \subseteq Session
    BY <1>t
  <2>1. CASE Return(s) /\ UNCHANGED <<transport, host>> /\ mStreams' \subseteq Session
    BY <2>1, ReturnTyped DEF transport, host, TypeOK
  <2>2. CASE /\ mFd' = TRUE /\ UNCHANGED <<mOwner, failed, mStreams>>
             /\ IF Owned THEN Ask(s, [verb |-> "CLOSE"], "handover") ELSE Open(s)
    <3>1. Facing[s] \in Sensor BY FacingAssumption
    <3>2. \E r \in Request, label \in Label : Ask(s, r, label)
      BY <1>l, <2>2, <3>1, MessageFacts DEF Open
    <3>3. /\ requests' \in Seq(Request) /\ lock' = s /\ pc' \in [Session -> Label]
          /\ UNCHANGED <<replies, bridge, sensor>>
      BY <3>2, AskTyped
    <3> QED BY <2>2, <3>3 DEF TypeOK
  <2>3. CASE Reset(replies) /\ Return(s) /\ UNCHANGED mStreams
    <3>1. /\ mFd' = FALSE /\ mOwner' = NoSession /\ failed' = TRUE
          /\ replies' \in Seq(Reply) /\ UNCHANGED <<requests, bridge, sensor>>
      BY <1>t, <2>3, ResetFacts
    <3> QED BY <2>3, <3>1, ReturnTyped DEF TypeOK
  <2> QED BY <1>2, <2>s, <2>1, <2>2, <2>3 DEF Acquire
<1>3. ASSUME NEW s \in Session, Capture(s) PROVE TypeOK'
  <2>1. CASE Ask(s, [verb |-> "FRAME"], "header") /\ UNCHANGED <<transport, mStreams>>
    <3>1. /\ requests' \in Seq(Request) /\ lock' = s /\ pc' \in [Session -> Label]
          /\ UNCHANGED <<replies, bridge, sensor>>
      BY <1>l, <2>1, MessageFacts, AskTyped
    <3> QED BY <2>1, <3>1 DEF TypeOK, transport
  <2>2. CASE Return(s) /\ UNCHANGED <<transport, mStreams, host>>
    BY <2>2, ReturnTyped DEF transport, host, TypeOK
  <2> QED BY <1>3, <2>1, <2>2 DEF Capture
<1>4. ASSUME NEW s \in Session, Release(s) PROVE TypeOK'
  <2>s. mStreams \ {s} \subseteq Session BY <1>t
  <2>1. CASE Ask(s, [verb |-> "CLOSE"], "closing") /\ UNCHANGED <<transport, mStreams>>
    <3>1. /\ requests' \in Seq(Request) /\ lock' = s /\ pc' \in [Session -> Label]
          /\ UNCHANGED <<replies, bridge, sensor>>
      BY <1>l, <2>1, MessageFacts, AskTyped
    <3> QED BY <2>1, <3>1 DEF TypeOK, transport
  <2>2. CASE Reset(replies) /\ Return(s) /\ mStreams' = mStreams \ {s}
    <3>1. /\ mFd' = FALSE /\ mOwner' = NoSession /\ failed' = TRUE
          /\ replies' \in Seq(Reply) /\ UNCHANGED <<requests, bridge, sensor>>
      BY <1>t, <2>2, ResetFacts
    <3> QED BY <2>s, <2>2, <3>1, ReturnTyped DEF TypeOK
  <2>3. CASE Return(s) /\ mStreams' = mStreams \ {s} /\ UNCHANGED <<transport, host>>
    BY <2>s, <2>3, ReturnTyped DEF transport, host, TypeOK
  <2> QED BY <1>4, <2>1, <2>2, <2>3 DEF Release
<1>5. ASSUME NEW s \in Session, Handover(s) PROVE TypeOK'
  <2>1. CASE Fail(s) BY <1>5, <1>t, <2>1, FailTyped DEF Handover
  <2>2. CASE ~Fail(s)
    <3>1. [verb |-> "OPEN", sensor |-> Facing[s]] \in Request
      BY FacingAssumption, MessageFacts
    <3>2. /\ requests' = Append(requests, [verb |-> "OPEN", sensor |-> Facing[s]])
          /\ mOwner' = NoSession /\ replies' = Took /\ Goto(s, "opening")
          /\ UNCHANGED <<lock, mFd, failed, bridge, sensor, mStreams>>
      BY <1>5, <2>2 DEF Handover
    <3>3. requests' \in Seq(Request) BY <1>t, <3>1, <3>2
    <3> QED BY <1>k, <1>l, <1>t, <3>2, <3>3 DEF TypeOK, Goto
  <2> QED BY <2>1, <2>2
<1>6. ASSUME NEW s \in Session, Opening(s) PROVE TypeOK'
  <2>1. CASE Fail(s) /\ UNCHANGED mStreams BY <1>t, <2>1, FailTyped
  <2>2. CASE /\ mOwner' = s /\ mStreams' = mStreams \cup {s} /\ replies' = Took
             /\ Return(s) /\ UNCHANGED <<mFd, failed, requests, bridge, sensor>>
    BY <1>k, <1>t, <2>2, ReturnTyped DEF TypeOK
  <2> QED BY <1>6, <2>1, <2>2 DEF Opening
<1>7. ASSUME NEW s \in Session, ReadHeader(s) PROVE TypeOK'
  <2>1. CASE Fail(s) BY <1>7, <1>t, <2>1, FailTyped DEF ReadHeader
  <2>2. CASE ~Fail(s)
    BY <1>k, <1>l, <1>t, <1>7, <2>2 DEF ReadHeader, TypeOK, transport, Goto
  <2> QED BY <2>1, <2>2
<1>8. ASSUME NEW s \in Session, ReadPixels(s) PROVE TypeOK'
  <2>1. CASE Fail(s) BY <1>8, <1>t, <2>1, FailTyped DEF ReadPixels
  <2>g. <<[kind |-> "GARBLED"]>> \o Took \in Seq(Reply)
    <3>1. <<[kind |-> "GARBLED"]>> \in Seq(Reply) BY MessageFacts DEF Line
    <3> QED BY <1>k, <3>1
  <2>2. CASE /\ replies' \in Seq(Reply) /\ Return(s)
             /\ UNCHANGED <<transport, requests, bridge, sensor, mStreams>>
    BY <1>t, <2>2, ReturnTyped DEF TypeOK, transport
  <2>3. CASE /\ replies' = Took /\ Goto(s, "mixed")
             /\ UNCHANGED <<lock, transport, requests, bridge, sensor, mStreams>>
    BY <1>k, <1>l, <1>t, <2>3 DEF TypeOK, transport, Goto
  <2> QED BY <1>8, <1>k, <2>1, <2>g, <2>2, <2>3 DEF ReadPixels
<1>9. ASSUME NEW s \in Session, Closing(s) PROVE TypeOK'
  <2>s. mStreams' \subseteq Session BY <1>9, <1>t DEF Closing
  <2>1. CASE Fail(s) BY <2>s, <2>1, FailTyped
  <2>2. CASE /\ mOwner' = NoSession /\ replies' = Took /\ Return(s)
             /\ UNCHANGED <<mFd, failed, requests, bridge, sensor>>
    BY <1>k, <1>t, <2>s, <2>2, ReturnTyped DEF TypeOK
  <2> QED BY <1>9, <2>1, <2>2 DEF Closing
<1>10. CASE ServeOpen
  <2>0. /\ requests # <<>> /\ Head(requests).verb = "OPEN"
    BY <1>10 DEF ServeOpen, Serve
  <2>1. Head(requests) \in Request BY <1>t, <2>0
  <2>2. Head(requests).sensor \in Sensor BY <2>0, <2>1, MessageFacts
  <2>3. CASE Serve("OPEN", <<[kind |-> "READY", sensor |-> Head(requests).sensor]>>)
             /\ sensor' = Head(requests).sensor
    <3>1. [kind |-> "READY", sensor |-> Head(requests).sensor] \in Reply
      BY <2>2, MessageFacts DEF Sensed
    <3>2. <<[kind |-> "READY", sensor |-> Head(requests).sensor]>> \in Seq(Reply)
      BY <3>1
    <3> QED BY <2>2, <2>3, <3>2, ServeTyped
  <2>4. CASE Serve("OPEN", <<[kind |-> "REFUSED"]>>) /\ sensor' = "none"
    <3>1. <<[kind |-> "REFUSED"]>> \in Seq(Reply) BY MessageFacts DEF Line
    <3> QED BY <2>4, <3>1, ServeTyped
  <2> QED BY <1>10, <2>3, <2>4 DEF ServeOpen
<1>11. CASE ServeFrame
  <2>1. PICK messages : /\ Serve("FRAME", messages) /\ sensor' = sensor
                        /\ \/ /\ sensor # "none"
                              /\ messages = <<[kind |-> "HEADER", sensor |-> sensor],
                                              [kind |-> "PIXELS", sensor |-> sensor]>>
                           \/ /\ sensor # "none"
                              /\ messages = <<[kind |-> "GARBLED"],
                                              [kind |-> "PIXELS", sensor |-> sensor]>>
                           \/ messages = <<[kind |-> "REFUSED"]>>
    BY <1>11 DEF ServeFrame
  <2>2. /\ sensor # "none" => /\ [kind |-> "HEADER", sensor |-> sensor] \in Reply
                              /\ [kind |-> "PIXELS", sensor |-> sensor] \in Reply
        /\ [kind |-> "GARBLED"] \in Reply /\ [kind |-> "REFUSED"] \in Reply
    BY <1>t, MessageFacts DEF Sensed, Frame, Line
  <2>3. messages \in Seq(Reply)
    <3>1. \A m, n \in Reply : <<m, n>> \in Seq(Reply) /\ <<m>> \in Seq(Reply)
      OBVIOUS
    <3> QED BY <2>1, <2>2, <3>1
  <2> QED BY <1>t, <2>1, <2>3, ServeTyped
<1>12. CASE ServeClose
  <2>1. <<[kind |-> "CLOSED"]>> \in Seq(Reply) BY MessageFacts DEF Line
  <2> QED BY <1>12, <2>1, ServeTyped DEF ServeClose
<1>13. CASE HangUp
  <2>1. replies' \in Seq(Reply) BY <1>t, <1>13 DEF HangUp
  <2>2. requests' \in Seq(Request) BY <1>13 DEF HangUp
  <2> QED BY <1>13, <1>t, <2>1, <2>2 DEF HangUp, TypeOK, transport
<1>14. CASE Reconnect
  BY <1>14 DEF Reconnect, TypeOK, transport
<1> QED BY <1>1, <1>2, <1>3, <1>4, <1>5, <1>6, <1>7, <1>8, <1>9, <1>10, <1>11,
           <1>12, <1>13, <1>14
        DEF Next, Call, Exchange, Bridge

----------------------------------------------------------------------------
(* The mutex                                                               *)

LEMMA AllIdle ==
  ASSUME TypeOK, Exclusive, lock = NoSession
  PROVE  \A t \in Session : pc[t] = "idle"
BY NoSessionAssumption DEF Exclusive

LEMMA AskExclusive ==
  ASSUME TypeOK, Exclusive, lock = NoSession, NEW s \in Session, NEW r, NEW label,
         Ask(s, r, label), mOwner' = mOwner,
         label \in {"header", "pixels", "mixed", "closing"} => mOwner = s
  PROVE  Exclusive' /\ \A t \in Session : pc'[t] = IF t = s THEN label ELSE "idle"
<1>1. \A t \in Session : pc'[t] = IF t = s THEN label ELSE "idle"
  BY AllIdle DEF Ask, Goto, TypeOK
<1>2. lock' = s BY DEF Ask
<1> QED BY <1>1, <1>2 DEF Exclusive

LEMMA ReturnExclusive ==
  ASSUME TypeOK, Exclusive, NEW s \in Session, lock \in {s, NoSession}, Return(s)
  PROVE  Exclusive' /\ \A t \in Session : pc'[t] = "idle"
<1>1. \A t \in Session : t # s => pc[t] = "idle"
  BY NoSessionAssumption DEF Exclusive
<1>2. \A t \in Session : pc'[t] = "idle"
  BY <1>1 DEF Return, Goto, TypeOK
<1> QED BY <1>2 DEF Exclusive

LEMMA GotoExclusive ==
  ASSUME TypeOK, Exclusive, NEW s \in Session, lock = s, lock' = lock, NEW label,
         Goto(s, label), label \in {"pixels", "mixed"} => mOwner' = s,
         label \notin {"header", "closing"}
  PROVE  Exclusive' /\ pc'[s] = label
<1>1. \A t \in Session : t # s => pc[t] = "idle"
  BY DEF Exclusive
<1>2. \A t \in Session : pc'[t] = IF t = s THEN label ELSE "idle"
  BY <1>1 DEF Goto, TypeOK
<1> QED BY <1>2 DEF Exclusive

LEMMA ExclusiveStep == TypeOK /\ Exclusive /\ [Next]_vars => Exclusive'
<1> SUFFICES ASSUME TypeOK, Exclusive, [Next]_vars PROVE Exclusive' OBVIOUS
<1>r. replies \in Seq(Reply) BY DEF TypeOK
<1>f. \A s \in Session : Fail(s) => Return(s) BY DEF Fail
<1>1. CASE UNCHANGED <<pc, lock, mOwner>> BY <1>1 DEF Exclusive
<1>2. ASSUME NEW s \in Session, Call(s) PROVE Exclusive'
  <2>0. pc[s] = "idle" /\ lock = NoSession
    BY <1>2 DEF Call, Acquire, Capture, Release
  <2>1. CASE Return(s) BY <2>0, <2>1, ReturnExclusive
  <2>2. CASE ~Return(s)
    <3>1. CASE Acquire(s)
      <4>1. /\ mOwner' = mOwner
            /\ \E r, label : Ask(s, r, label) /\ label \in {"handover", "opening"}
        BY <2>2, <3>1 DEF Acquire, Open
      <4> QED BY <2>0, <4>1, AskExclusive
    <3>2. CASE Capture(s)
      <4>1. mOwner = s /\ mOwner' = mOwner /\ Ask(s, [verb |-> "FRAME"], "header")
        BY <2>2, <3>2 DEF Capture, Captures, transport
      <4> QED BY <2>0, <4>1, AskExclusive
    <3>3. CASE Release(s)
      <4>1. mOwner = s /\ mOwner' = mOwner /\ Ask(s, [verb |-> "CLOSE"], "closing")
        BY <2>2, <3>3 DEF Release, Releases, transport
      <4> QED BY <2>0, <4>1, AskExclusive
    <3> QED BY <1>2, <3>1, <3>2, <3>3 DEF Call
  <2> QED BY <2>1, <2>2
<1>3. ASSUME NEW s \in Session, Exchange(s) PROVE Exclusive'
  <2>0. pc[s] # "idle" /\ lock = s
    BY <1>3 DEF Exchange, Handover, Opening, ReadHeader, ReadPixels, Closing, Exclusive
  <2>1. CASE Return(s) BY <2>0, <2>1, ReturnExclusive
  <2>2. CASE ~Return(s)
    <3>1. CASE Handover(s)
      <4>1. Goto(s, "opening") /\ lock' = lock
        BY <1>f, <2>2, <3>1 DEF Handover
      <4> QED BY <2>0, <4>1, GotoExclusive
    <3>2. CASE ReadHeader(s)
      <4>1. Goto(s, "pixels") /\ lock' = lock /\ mOwner' = mOwner /\ pc[s] = "header"
        BY <1>f, <2>2, <3>2 DEF ReadHeader, transport
      <4>2. mOwner = s BY <4>1 DEF Exclusive
      <4> QED BY <2>0, <4>1, <4>2, GotoExclusive
    <3>3. CASE ReadPixels(s)
      <4>1. /\ Goto(s, "mixed") /\ lock' = lock /\ mOwner' = mOwner
            /\ pc[s] \in {"pixels", "mixed"}
        BY <1>f, <2>2, <3>3 DEF ReadPixels, transport
      <4>2. mOwner = s BY <4>1 DEF Exclusive
      <4> QED BY <2>0, <4>1, <4>2, GotoExclusive
    <3> QED BY <1>3, <1>f, <2>2, <3>1, <3>2, <3>3 DEF Exchange, Opening, Closing
  <2> QED BY <2>1, <2>2
<1> QED BY <1>1, <1>2, <1>3
        DEF Next, Bridge, ServeOpen, ServeFrame, ServeClose, Serve, HangUp, Reconnect,
            vars, transport

----------------------------------------------------------------------------
(* What is in the port                                                     *)

Port == Coherent /\ Latest
Own == OwnFrames /\ OwnSensor

LEMMA ShiftFacts ==
  ASSUME NEW from \in Seq(Reply), NEW to \in Seq(Reply),
         Cut(from, to) \/ CutGarbled(from, to)
  PROVE  \E d \in Int, first \in {1, 2} :
           /\ Len(from) = Len(to) + d
           /\ \A i \in DOMAIN to :
                /\ i < first => to[i].kind = "GARBLED"
                /\ i >= first => i + d \in DOMAIN from /\ to[i] = from[i + d]
           /\ \A k \in DOMAIN from : k - d >= first => k - d \in DOMAIN to
<1>0. /\ DOMAIN from = 1..Len(from) /\ DOMAIN to = 1..Len(to)
      /\ Len(from) \in Nat /\ Len(to) \in Nat
  OBVIOUS
<1>1. CASE Cut(from, to)
  <2>1. PICK n \in 0..Len(from) :
          /\ Len(to) = Len(from) - n
          /\ \A i \in 1..Len(to) : to[i] = from[i + n]
    BY <1>1 DEF Cut
  <2>2. /\ n \in Int /\ Len(from) = Len(to) + n
        /\ \A i \in DOMAIN to :
             /\ i < 1 => to[i].kind = "GARBLED"
             /\ i >= 1 => i + n \in DOMAIN from /\ to[i] = from[i + n]
        /\ \A k \in DOMAIN from : k - n >= 1 => k - n \in DOMAIN to
    BY <1>0, <2>1
  <2> QED BY <2>2
<1>2. CASE CutGarbled(from, to)
  <2>1. PICK n \in 0..Len(from) :
          /\ Len(to) = Len(from) - n + 1
          /\ \A i \in 2..Len(to) : to[i] = from[i + n - 1]
    BY <1>2 DEF CutGarbled
  <2>2. to[1].kind = "GARBLED" BY <1>2 DEF CutGarbled
  <2>3. n - 1 \in Int /\ Len(from) = Len(to) + (n - 1) BY <1>0, <2>1
  <2>4. ASSUME NEW i \in DOMAIN to
        PROVE  /\ i < 2 => to[i].kind = "GARBLED"
               /\ i >= 2 => i + (n - 1) \in DOMAIN from /\ to[i] = from[i + (n - 1)]
    <3>1. CASE i < 2
      <4>1. i = 1 BY <1>0, <3>1
      <4> QED BY <2>2, <4>1
    <3>2. CASE i >= 2
      <4>1. i \in 2..Len(to) /\ i + n - 1 = i + (n - 1) /\ i + (n - 1) \in DOMAIN from
        BY <1>0, <2>1, <3>2
      <4> QED BY <2>1, <3>2, <4>1
    <3> QED BY <1>0, <3>1, <3>2
  <2>5. \A k \in DOMAIN from : k - (n - 1) >= 2 => k - (n - 1) \in DOMAIN to
    BY <1>0, <2>1
  <2> QED BY <2>3, <2>4, <2>5
<1> QED BY <1>1, <1>2

LEMMA CutPort ==
  ASSUME replies \in Seq(Reply), replies' \in Seq(Reply), Port, sensor' = sensor,
         Cut(replies, replies') \/ CutGarbled(replies, replies')
  PROVE  Port'
<1>0. /\ DOMAIN replies = 1..Len(replies) /\ DOMAIN replies' = 1..Len(replies')
      /\ Len(replies) \in Nat /\ Len(replies') \in Nat
  OBVIOUS
<1>1. PICK d \in Int, first \in {1, 2} :
        /\ Len(replies) = Len(replies') + d
        /\ \A i \in DOMAIN replies' :
             /\ i < first => replies'[i].kind = "GARBLED"
             /\ i >= first => i + d \in DOMAIN replies /\ replies'[i] = replies[i + d]
        /\ \A k \in DOMAIN replies : k - d >= first => k - d \in DOMAIN replies'
  BY ShiftFacts
<1>s. \A i \in DOMAIN replies' : Kind(i)' \in Sensed => i >= first
  BY <1>0, <1>1 DEF Kind, Sensed, Frame
<1>2. ASSUME NEW i \in DOMAIN replies', NEW j \in DOMAIN replies',
             i < j, Kind(i)' \in Sensed, Kind(j)' \in Frame,
             \A k \in DOMAIN replies' : i < k /\ k < j => Kind(k)' # "READY"
      PROVE  replies'[i].sensor = replies'[j].sensor
  <2>1. i >= first /\ j >= first BY <1>0, <1>2, <1>s
  <2>2. /\ i + d \in DOMAIN replies /\ j + d \in DOMAIN replies /\ i + d < j + d
        /\ replies'[i] = replies[i + d] /\ replies'[j] = replies[j + d]
    BY <1>0, <1>1, <1>2, <2>1
  <2>3. ASSUME NEW k \in DOMAIN replies, i + d < k, k < j + d
        PROVE  Kind(k) # "READY"
    <3>1. k - d \in DOMAIN replies' /\ i < k - d /\ k - d < j /\ k - d >= first
          /\ k - d + d = k
      BY <1>0, <1>1, <2>1, <2>3
    <3> QED BY <1>1, <1>2, <3>1 DEF Kind
  <2> QED BY <1>2, <2>2, <2>3 DEF Port, Coherent, Kind
<1>3. ASSUME NEW i \in DOMAIN replies', sensor' # "none", Kind(i)' \in Sensed,
             \A k \in DOMAIN replies' : i < k => Kind(k)' # "READY"
      PROVE  replies'[i].sensor = sensor'
  <2>1. i >= first BY <1>3, <1>s
  <2>2. i + d \in DOMAIN replies /\ replies'[i] = replies[i + d] BY <1>1, <2>1
  <2>3. ASSUME NEW k \in DOMAIN replies, i + d < k PROVE Kind(k) # "READY"
    <3>1. k - d \in DOMAIN replies' /\ i < k - d /\ k - d >= first /\ k - d + d = k
      BY <1>0, <1>1, <2>1, <2>3
    <3> QED BY <1>1, <1>3, <3>1 DEF Kind
  <2> QED BY <1>3, <2>2, <2>3 DEF Port, Latest, Kind
<1> QED BY <1>2, <1>3 DEF Port, Coherent, Latest, Kind

(* The owner goes on reading what is its own. *)
LEMMA TookOwn ==
  ASSUME TypeOK, Own, replies # <<>>, Answer.kind \notin Break, replies' = Took,
         UNCHANGED <<mOwner, sensor>>, Owning
  PROVE  Own'
<1>t. replies \in Seq(Reply) BY DEF TypeOK
<1>0. /\ replies \in Seq(Reply) /\ Took \in Seq(Reply) /\ Len(replies) \in Nat
      /\ DOMAIN replies = 1..Len(replies) /\ Answer = replies[1] /\ Len(replies) >= 1
      /\ DOMAIN Took = 1..Len(Took) /\ Len(Took) = Len(replies) - 1
      /\ \A i \in 1..Len(Took) : Took[i] = replies[i + 1]
  BY <1>t, TookFacts
<1>1. ASSUME NEW j \in DOMAIN replies', \A k \in DOMAIN replies' : k <= j => Kind(k)' \notin Break
      PROVE  \A k \in DOMAIN replies : k <= j + 1 => Kind(k) \notin Break
  <2> SUFFICES ASSUME NEW k \in DOMAIN replies, k <= j + 1 PROVE Kind(k) \notin Break
    OBVIOUS
  <2>1. CASE k = 1 BY <1>0, <2>1 DEF Kind
  <2>2. CASE k # 1
    <3>1. k - 1 \in DOMAIN replies' /\ k - 1 <= j /\ k - 1 + 1 = k BY <1>0, <1>1, <2>2
    <3>2. replies'[k - 1] = replies[k] BY <1>0, <3>1
    <3> QED BY <1>1, <3>1, <3>2 DEF Kind
  <2> QED BY <2>1, <2>2
<1>2. ASSUME NEW j \in DOMAIN replies', Kind(j)' \in Frame,
             \A k \in DOMAIN replies' : k <= j => Kind(k)' \notin Break
      PROVE  replies'[j].sensor = Facing[mOwner]
  <2>1. j + 1 \in DOMAIN replies /\ replies'[j] = replies[j + 1] BY <1>0
  <2>2. \A k \in DOMAIN replies : k <= j + 1 => Kind(k) \notin Break BY <1>1, <1>2
  <2> QED BY <1>2, <2>1, <2>2 DEF Own, OwnFrames, Kind
<1>3. ASSUME \A k \in DOMAIN replies' : Kind(k)' \notin Break
      PROVE  sensor \in {"none", Facing[mOwner]}
  <2>1. ASSUME NEW k \in DOMAIN replies PROVE Kind(k) \notin Break
    <3>1. CASE k = 1 BY <1>0, <3>1 DEF Kind
    <3>2. CASE k # 1
      <4>1. k - 1 \in DOMAIN replies' /\ k - 1 + 1 = k BY <1>0, <3>2
      <4>2. replies'[k - 1] = replies[k] BY <1>0, <4>1
      <4> QED BY <1>3, <4>1, <4>2 DEF Kind
    <3> QED BY <3>1, <3>2
  <2> QED BY <2>1 DEF Own, OwnSensor
<1> QED BY <1>2, <1>3 DEF Own, OwnFrames, OwnSensor, Kind

(* A session becomes the owner by reading a READY of its sensor. *)
LEMMA ReadyOwn ==
  ASSUME TypeOK, Port, NEW s \in Session, Ready(s), replies' = Took,
         mOwner' = s, sensor' = sensor
  PROVE  Own'
<1>t. replies \in Seq(Reply) BY DEF TypeOK
<1>a. Answer = [kind |-> "READY", sensor |-> Facing[s]] /\ replies # <<>>
  BY <1>t, TookFacts DEF Ready
<1>0. /\ replies \in Seq(Reply) /\ Took \in Seq(Reply) /\ Len(replies) \in Nat
      /\ DOMAIN replies = 1..Len(replies) /\ Answer = replies[1] /\ Len(replies) >= 1
      /\ DOMAIN Took = 1..Len(Took) /\ Len(Took) = Len(replies) - 1
      /\ \A i \in 1..Len(Took) : Took[i] = replies[i + 1]
  BY <1>a, <1>t, TookFacts
<1>b. /\ 1 \in DOMAIN replies /\ Kind(1) \in Sensed /\ replies[1].sensor = Facing[s]
  BY <1>0, <1>a DEF Kind, Sensed
<1>1. ASSUME NEW j \in DOMAIN replies', Kind(j)' \in Frame,
             \A k \in DOMAIN replies' : k <= j => Kind(k)' \notin Break
      PROVE  replies'[j].sensor = Facing[s]
  <2>1. j + 1 \in DOMAIN replies /\ replies'[j] = replies[j + 1] /\ 1 < j + 1
    BY <1>0
  <2>2. ASSUME NEW k \in DOMAIN replies, 1 < k, k < j + 1 PROVE Kind(k) # "READY"
    <3>1. k - 1 \in DOMAIN replies' /\ k - 1 <= j /\ k - 1 + 1 = k
      BY <1>0, <2>2
    <3>2. replies'[k - 1] = replies[k] BY <1>0, <3>1
    <3> QED BY <1>1, <3>1, <3>2 DEF Kind, Break
  <2>3. Kind(j + 1) \in Frame BY <1>1, <2>1 DEF Kind
  <2> QED BY <1>b, <2>1, <2>2, <2>3 DEF Port, Coherent
<1>2. ASSUME \A k \in DOMAIN replies' : Kind(k)' \notin Break
      PROVE  sensor \in {"none", Facing[s]}
  <2>1. ASSUME NEW k \in DOMAIN replies, 1 < k PROVE Kind(k) # "READY"
    <3>1. k - 1 \in DOMAIN replies' /\ k - 1 + 1 = k BY <1>0, <2>1
    <3>2. replies'[k - 1] = replies[k] BY <1>0, <3>1
    <3> QED BY <1>2, <3>1, <3>2 DEF Kind, Break
  <2> QED BY <1>b, <2>1 DEF Port, Latest
<1> QED BY <1>1, <1>2 DEF Own, OwnFrames, OwnSensor, Kind

(* One message, which tells the sensor that is open or says that none is. *)
LEMMA ServeOne ==
  ASSUME TypeOK, Port, Own, NEW m \in Reply, replies' = replies \o <<m>>,
         UNCHANGED <<pc, mOwner>>,
         \/ m.kind = "READY" /\ m.sensor = sensor'
         \/ m.kind \notin Sensed /\ sensor' = "none"
  PROVE  Port' /\ Own'
<1>0. /\ replies \in Seq(Reply) /\ Len(replies) \in Nat
      /\ DOMAIN replies = 1..Len(replies)
      /\ DOMAIN replies' = 1..(Len(replies) + 1) /\ replies'[Len(replies) + 1] = m
      /\ \A i \in 1..Len(replies) : replies'[i] = replies[i]
  BY DEF TypeOK
<1> DEFINE last == Len(replies) + 1
<1>l. /\ last \in DOMAIN replies' /\ replies'[last] = m
      /\ \A i \in DOMAIN replies' : i = last \/ (i \in DOMAIN replies /\ i < last)
      /\ \A i \in DOMAIN replies : i \in DOMAIN replies' /\ replies'[i] = replies[i]
  BY <1>0
<1>n. last \in Int BY <1>0
<1> HIDE DEF last
<1>f. m.kind \notin Frame BY DEF Sensed, Frame
<1>1. Coherent'
  <2> SUFFICES ASSUME NEW i \in DOMAIN replies', NEW j \in DOMAIN replies',
                      i < j, Kind(i)' \in Sensed, Kind(j)' \in Frame,
                      \A k \in DOMAIN replies' : i < k /\ k < j => Kind(k)' # "READY"
               PROVE  replies'[i].sensor = replies'[j].sensor
    BY DEF Coherent, Kind
  <2>1. j # last BY <1>f, <1>l DEF Kind
  <2>2. i \in DOMAIN replies /\ j \in DOMAIN replies BY <1>0, <1>l, <1>n, <2>1
  <2>3. \A k \in DOMAIN replies : i < k /\ k < j => Kind(k) # "READY"
    BY <1>l DEF Kind
  <2> QED BY <1>l, <2>2, <2>3 DEF Port, Coherent, Kind
<1>2. Latest'
  <2> SUFFICES ASSUME NEW i \in DOMAIN replies', sensor' # "none", Kind(i)' \in Sensed,
                      \A k \in DOMAIN replies' : i < k => Kind(k)' # "READY"
               PROVE  replies'[i].sensor = sensor'
    BY DEF Latest, Kind
  <2>1. m.kind = "READY" /\ m.sensor = sensor' OBVIOUS
  <2>2. i = last BY <1>l, <2>1 DEF Kind
  <2> QED BY <1>l, <2>1, <2>2
<1>3. OwnFrames'
  <2> SUFFICES ASSUME Owning', NEW j \in DOMAIN replies', Kind(j)' \in Frame,
                      \A k \in DOMAIN replies' : k <= j => Kind(k)' \notin Break
               PROVE  replies'[j].sensor = Facing[mOwner']
    BY DEF OwnFrames, Kind
  <2>1. j # last BY <1>f, <1>l DEF Kind
  <2>2. j \in DOMAIN replies BY <1>l, <2>1
  <2>3. \A k \in DOMAIN replies : k <= j => Kind(k) \notin Break BY <1>l DEF Kind
  <2>4. Owning BY DEF Owning
  <2> QED BY <1>l, <2>2, <2>3, <2>4 DEF Own, OwnFrames, Kind
<1>4. OwnSensor'
  <2>1. m.kind = "READY" => ~\A k \in DOMAIN replies' : Kind(k)' \notin Break
    BY <1>l DEF Kind, Break
  <2>2. m.kind # "READY" => sensor' = "none" OBVIOUS
  <2> QED BY <2>1, <2>2 DEF OwnSensor, Kind
<1> QED BY <1>1, <1>2, <1>3, <1>4 DEF Port, Own

(* A frame is of the open sensor. *)
LEMMA ServeTwo ==
  ASSUME TypeOK, Port, Own, NEW m \in Reply, NEW n \in Reply,
         replies' = replies \o <<m, n>>, UNCHANGED <<pc, mOwner, sensor>>,
         sensor # "none", (m.kind = "HEADER" /\ m.sensor = sensor) \/ m.kind = "GARBLED",
         n.kind = "PIXELS", n.sensor = sensor
  PROVE  Port' /\ Own'
<1>0. /\ replies \in Seq(Reply) /\ Len(replies) \in Nat
      /\ DOMAIN replies = 1..Len(replies)
      /\ DOMAIN replies' = 1..(Len(replies) + 2)
      /\ replies'[Len(replies) + 1] = m /\ replies'[Len(replies) + 2] = n
      /\ \A i \in 1..Len(replies) : replies'[i] = replies[i]
  BY DEF TypeOK
<1>l. /\ \A i \in DOMAIN replies' :
           \/ i \in DOMAIN replies
           \/ i \notin DOMAIN replies /\ i > Len(replies) /\ replies'[i] \in {m, n}
      /\ \A i \in DOMAIN replies : i \in DOMAIN replies' /\ replies'[i] = replies[i]
      /\ \A i \in DOMAIN replies : i <= Len(replies) /\ i \in Int
  BY <1>0
<1>k. /\ m.kind # "READY" /\ n.kind # "READY"
      /\ m.kind \in Sensed => m.sensor = sensor
      /\ n.sensor = sensor
  BY DEF Sensed, Frame
<1>1. Coherent'
  <2> SUFFICES ASSUME NEW i \in DOMAIN replies', NEW j \in DOMAIN replies',
                      i < j, Kind(i)' \in Sensed, Kind(j)' \in Frame,
                      \A k \in DOMAIN replies' : i < k /\ k < j => Kind(k)' # "READY"
               PROVE  replies'[i].sensor = replies'[j].sensor
    BY DEF Coherent, Kind
  <2>1. CASE j \in DOMAIN replies
    <3>1. i \in DOMAIN replies BY <1>0, <2>1
    <3>2. \A k \in DOMAIN replies : i < k /\ k < j => Kind(k) # "READY"
      BY <1>l DEF Kind
    <3> QED BY <1>l, <2>1, <3>1, <3>2 DEF Port, Coherent, Kind
  <2>2. CASE j \notin DOMAIN replies
    <3>1. replies'[j].sensor = sensor BY <1>k, <1>l, <2>2 DEF Kind, Sensed
    <3>2. CASE i \in DOMAIN replies
      <4>1. \A k \in DOMAIN replies : i < k => Kind(k) # "READY"
        BY <1>0, <1>l, <2>2 DEF Kind
      <4> QED BY <1>l, <3>1, <3>2, <4>1 DEF Port, Latest, Kind
    <3>3. CASE i \notin DOMAIN replies
      BY <1>k, <1>l, <3>1, <3>3 DEF Kind
    <3> QED BY <3>2, <3>3
  <2> QED BY <2>1, <2>2
<1>2. Latest'
  <2> SUFFICES ASSUME NEW i \in DOMAIN replies', Kind(i)' \in Sensed,
                      \A k \in DOMAIN replies' : i < k => Kind(k)' # "READY"
               PROVE  replies'[i].sensor = sensor
    BY DEF Latest, Kind
  <2>1. CASE i \in DOMAIN replies
    <3>1. \A k \in DOMAIN replies : i < k => Kind(k) # "READY" BY <1>l DEF Kind
    <3> QED BY <1>l, <2>1, <3>1 DEF Port, Latest, Kind
  <2>2. CASE i \notin DOMAIN replies BY <1>k, <1>l, <2>2 DEF Kind
  <2> QED BY <2>1, <2>2
<1>3. OwnFrames'
  <2> SUFFICES ASSUME Owning', NEW j \in DOMAIN replies', Kind(j)' \in Frame,
                      \A k \in DOMAIN replies' : k <= j => Kind(k)' \notin Break
               PROVE  replies'[j].sensor = Facing[mOwner]
    BY DEF OwnFrames, Kind
  <2>o. Owning BY DEF Owning
  <2>1. CASE j \in DOMAIN replies
    <3>1. \A k \in DOMAIN replies : k <= j => Kind(k) \notin Break BY <1>l DEF Kind
    <3> QED BY <1>l, <2>1, <2>o, <3>1 DEF Own, OwnFrames, Kind
  <2>2. CASE j \notin DOMAIN replies
    <3>1. replies'[j].sensor = sensor BY <1>k, <1>l, <2>2 DEF Kind, Sensed
    <3>2. \A k \in DOMAIN replies : Kind(k) \notin Break
      BY <1>0, <1>l, <2>2 DEF Kind
    <3> QED BY <2>o, <3>1, <3>2 DEF Own, OwnSensor
  <2> QED BY <2>1, <2>2
<1>4. OwnSensor'
  <2> SUFFICES ASSUME Owning', \A k \in DOMAIN replies' : Kind(k)' \notin Break
               PROVE  sensor \in {"none", Facing[mOwner]}
    BY DEF OwnSensor, Kind
  <2>1. Owning /\ \A k \in DOMAIN replies : Kind(k) \notin Break
    BY <1>l DEF Owning, Kind
  <2> QED BY <2>1 DEF Own, OwnSensor
<1> QED BY <1>1, <1>2, <1>3, <1>4 DEF Port, Own

(* A connection that breaks loses what was sent last. *)
LEMMA HangUpPort ==
  ASSUME TypeOK, Port, Own, HangUp PROVE Port' /\ Own'
<1>1. PICK n \in 0..Len(replies) : replies' = SubSeq(replies, 1, n) BY DEF HangUp
<1>2. /\ sensor' = "none" /\ mOwner' = mOwner /\ pc' = pc BY DEF HangUp, transport
<1>3. /\ DOMAIN replies = 1..Len(replies) /\ DOMAIN replies' = 1..n
      /\ \A i \in 1..n : replies'[i] = replies[i]
      /\ Len(replies) \in Nat /\ n \in Nat /\ n <= Len(replies)
  BY <1>1 DEF TypeOK
<1>4. /\ \A i \in DOMAIN replies' : i \in DOMAIN replies /\ replies'[i] = replies[i]
      /\ \A i \in DOMAIN replies, j \in DOMAIN replies' : i <= j => i \in DOMAIN replies'
      /\ \A i \in DOMAIN replies, j \in DOMAIN replies' : i < j => i \in DOMAIN replies'
  BY <1>3
<1>5. Coherent'
  BY <1>4 DEF Port, Coherent, Kind
<1>6. OwnFrames'
  BY <1>2, <1>4 DEF Own, OwnFrames, Owning, Kind
<1> QED BY <1>2, <1>5, <1>6 DEF Port, Own, Latest, OwnSensor

LEMMA TookCut ==
  ASSUME TypeOK, replies # <<>>
  PROVE  /\ Took \in Seq(Reply) /\ Cut(replies, Took)
         /\ <<[kind |-> "GARBLED"]>> \o Took \in Seq(Reply)
         /\ CutGarbled(replies, <<[kind |-> "GARBLED"]>> \o Took)
<1>t. replies \in Seq(Reply) BY DEF TypeOK
<1>0. /\ Took \in Seq(Reply) /\ Len(replies) \in Nat /\ Len(replies) >= 1
      /\ Len(Took) = Len(replies) - 1
      /\ \A i \in 1..Len(Took) : Took[i] = replies[i + 1]
  BY <1>t, TookFacts
<1>1. Cut(replies, Took)
  <2>1. 1 \in 0..Len(replies) BY <1>0
  <2> QED BY <1>0, <2>1 DEF Cut
<1>2. <<[kind |-> "GARBLED"]>> \in Seq(Reply) BY MessageFacts DEF Line
<1> DEFINE left == <<[kind |-> "GARBLED"]>> \o Took
<1>3. /\ left \in Seq(Reply) /\ Len(left) = Len(Took) + 1
      /\ left[1] = [kind |-> "GARBLED"]
      /\ \A i \in 2..Len(left) : left[i] = Took[i - 1]
  BY <1>0, <1>2
<1> HIDE DEF left
<1>4. Len(left) = Len(replies) - 1 + 1 /\ Len(left) >= 1 BY <1>0, <1>3
<1>5. ASSUME NEW i \in 2..Len(left) PROVE left[i] = replies[i + 1 - 1]
  <2>1. i - 1 \in 1..Len(Took) /\ i - 1 + 1 = i + 1 - 1 BY <1>0, <1>3
  <2> QED BY <1>0, <1>3, <2>1
<1>6. CutGarbled(replies, left)
  <2>1. 1 \in 0..Len(replies) BY <1>0
  <2> QED BY <1>3, <1>4, <1>5, <2>1 DEF CutGarbled
<1> QED BY <1>0, <1>1, <1>3, <1>6 DEF left

LEMMA NobodyOwns == ASSUME mOwner' = NoSession PROVE Own'
BY DEF Own, OwnFrames, OwnSensor, Owning

LEMMA PortStep ==
  TypeOK /\ Exclusive /\ Port /\ Own /\ [Next]_vars => Port' /\ Own'
<1> SUFFICES ASSUME TypeOK, Exclusive, Port, Own, [Next]_vars PROVE Port' /\ Own'
  OBVIOUS
<1>r. replies \in Seq(Reply) /\ sensor \in Sensor \cup {"none"} BY DEF TypeOK
<1>1. ASSUME UNCHANGED <<replies, sensor, mOwner>>, Owning' => Owning PROVE Port' /\ Own'
  BY <1>1 DEF Port, Own, Coherent, Latest, OwnFrames, OwnSensor, Kind
<1>2. ASSUME NEW s \in Session, Call(s) PROVE Port' /\ Own'
  <2>0. pc[s] = "idle" /\ lock = NoSession
    BY <1>2 DEF Call, Acquire, Capture, Release
  <2>1. CASE UNCHANGED <<replies, sensor, mOwner>>
    <3>1. \A t \in Session : pc[t] = "idle" BY <2>0, AllIdle
    <3>2. Owning' => Owning BY <2>1, <3>1 DEF Owning, TypeOK
    <3> QED BY <1>1, <2>1, <3>2
  <2>2. CASE Reset(replies)
    <3>1. /\ mOwner' = NoSession /\ replies' \in Seq(Reply)
          /\ Cut(replies, replies') /\ sensor' = sensor
      BY <1>r, <2>2, ResetFacts
    <3> QED BY <1>r, <3>1, CutPort, NobodyOwns
  <2> QED BY <1>2, <2>1, <2>2
      DEF Call, Acquire, Capture, Release, Open, Ask, transport, host
<1>3. ASSUME NEW s \in Session, Exchange(s) PROVE Port' /\ Own'
  <2>1. CASE Fail(s)
    <3>1. /\ mOwner' = NoSession /\ replies' \in Seq(Reply) /\ sensor' = sensor
          /\ Cut(replies, replies') \/ CutGarbled(replies, replies')
      BY <1>r, <2>1, FailFacts
    <3> QED BY <1>r, <3>1, CutPort, NobodyOwns
  <2>2. CASE /\ mOwner' = NoSession /\ replies' = Took /\ sensor' = sensor
             /\ Answer.kind # "END"
    <3>1. replies # <<>> BY <1>r, <2>2, TookFacts
    <3> QED BY <1>r, <2>2, <3>1, TookCut, CutPort, NobodyOwns
  <2>3. CASE Opening(s) /\ ~Fail(s)
    <3>1. /\ Ready(s) /\ mOwner' = s /\ replies' = Took /\ sensor' = sensor
      BY <2>3 DEF Opening
    <3>2. replies # <<>>
      <4>1. Answer.kind # "END" BY <3>1 DEF Ready
      <4> QED BY <1>r, <4>1, TookFacts
    <3> QED BY <1>r, <3>1, <3>2, TookCut, CutPort, ReadyOwn
  <2>4. CASE ReadHeader(s) /\ ~Fail(s)
    <3>1. /\ pc[s] = "header" /\ Answer.kind = "HEADER" /\ replies' = Took
          /\ mOwner' = mOwner /\ sensor' = sensor
      BY <2>4 DEF ReadHeader, transport
    <3>2. mOwner = s /\ Owning
      BY <3>1, NoSessionAssumption DEF Exclusive, Owning
    <3>3. replies # <<>> /\ Answer.kind \notin Break
      BY <1>r, <3>1, TookFacts DEF Break
    <3> QED BY <1>r, <3>1, <3>2, <3>3, TookCut, CutPort, TookOwn
  <2>5. CASE ReadPixels(s) /\ ~Fail(s)
    <3>0. /\ pc[s] \in {"pixels", "mixed"} /\ mOwner' = mOwner /\ sensor' = sensor
      BY <2>5 DEF ReadPixels, transport
    <3>o. mOwner = s /\ mOwner # NoSession
      BY <3>0, NoSessionAssumption DEF Exclusive
    <3>e. Answer.kind # "END" => replies # <<>> BY <1>r, TookFacts
    <3>1. CASE pc[s] = "pixels" /\ Answer.kind = "PIXELS" /\ replies' = Took
      <4>1. Owning /\ Answer.kind \notin Break BY <3>1, <3>o DEF Owning, Break
      <4> QED BY <1>r, <3>0, <3>1, <3>e, <4>1, TookCut, CutPort, TookOwn
    <3>2. CASE /\ pc[s] = "mixed" /\ Answer.kind = "PIXELS"
               /\ replies' = <<[kind |-> "GARBLED"]>> \o Took
      <4>1. replies' \in Seq(Reply) /\ CutGarbled(replies, replies')
        BY <3>2, <3>e, TookCut
      <4>2. Port' BY <1>r, <3>0, <4>1, CutPort
      <4>3. 1 \in DOMAIN replies' /\ Kind(1)' \in Break
            /\ \A j \in DOMAIN replies' : 1 <= j
        BY <4>1 DEF CutGarbled, Kind, Break
      <4> QED BY <4>2, <4>3 DEF Own, OwnFrames, OwnSensor
    <3>3. CASE Answer.kind # "END" /\ replies' = Took /\ Goto(s, "mixed")
      <4>1. ~Owning' BY <3>0, <3>3, <3>o DEF Owning, Goto, TypeOK
      <4>2. Port' BY <1>r, <3>0, <3>3, <3>e, TookCut, CutPort
      <4> QED BY <4>1, <4>2 DEF Own, OwnFrames, OwnSensor
    <3> QED BY <2>5, <3>1, <3>2, <3>3 DEF ReadPixels
  <2> QED BY <1>3, <2>1, <2>2, <2>3, <2>4, <2>5 DEF Exchange, Handover, Closing, Closed
<1>4. CASE ServeOpen
  <2>0. /\ requests # <<>> /\ Head(requests).verb = "OPEN" /\ requests \in Seq(Request)
    BY <1>4 DEF ServeOpen, Serve, TypeOK
  <2>1. Head(requests) \in Request BY <2>0
  <2>2. Head(requests).sensor \in Sensor BY <2>0, <2>1, MessageFacts
  <2>3. \E m \in Reply :
          /\ replies' = replies \o <<m>> /\ UNCHANGED <<pc, mOwner>>
          /\ \/ m.kind = "READY" /\ m.sensor = sensor'
             \/ m.kind \notin Sensed /\ sensor' = "none"
    <3>1. CASE Serve("OPEN", <<[kind |-> "READY", sensor |-> Head(requests).sensor]>>)
               /\ sensor' = Head(requests).sensor
      <4>1. [kind |-> "READY", sensor |-> Head(requests).sensor] \in Reply
        BY <2>2, MessageFacts DEF Sensed
      <4> QED BY <3>1, <4>1 DEF Serve, transport
    <3>2. CASE Serve("OPEN", <<[kind |-> "REFUSED"]>>) /\ sensor' = "none"
      <4>1. [kind |-> "REFUSED"] \in Reply BY MessageFacts DEF Line
      <4> QED BY <3>2, <4>1 DEF Serve, transport, Sensed, Frame
    <3> QED BY <1>4, <3>1, <3>2 DEF ServeOpen
  <2> QED BY <2>3, ServeOne
<1>5. CASE ServeFrame
  <2>m. /\ [kind |-> "GARBLED"] \in Reply /\ [kind |-> "REFUSED"] \in Reply
        /\ sensor # "none" => /\ [kind |-> "HEADER", sensor |-> sensor] \in Reply
                              /\ [kind |-> "PIXELS", sensor |-> sensor] \in Reply
    BY <1>r, MessageFacts DEF Line, Sensed, Frame
  <2>1. CASE sensor # "none"
    <3>1. PICK m : /\ \/ m = [kind |-> "HEADER", sensor |-> sensor]
                      \/ m = [kind |-> "GARBLED"]
                   /\ Serve("FRAME", <<m, [kind |-> "PIXELS", sensor |-> sensor]>>)
      BY <1>5, <2>1 DEF ServeFrame
    <3>2. /\ m \in Reply
          /\ (m.kind = "HEADER" /\ m.sensor = sensor) \/ m.kind = "GARBLED"
      BY <2>1, <2>m, <3>1
    <3>3. /\ replies' = replies \o <<m, [kind |-> "PIXELS", sensor |-> sensor]>>
          /\ UNCHANGED <<pc, mOwner, sensor>>
      BY <1>5, <3>1 DEF Serve, ServeFrame, transport
    <3> QED BY <2>1, <2>m, <3>2, <3>3, ServeTwo
  <2>2. CASE sensor = "none"
    <3>1. /\ replies' = replies \o <<[kind |-> "REFUSED"]>>
          /\ UNCHANGED <<pc, mOwner, sensor>>
      BY <1>5, <2>2 DEF Serve, ServeFrame, transport
    <3>2. [kind |-> "REFUSED"].kind \notin Sensed BY DEF Sensed, Frame
    <3> QED BY <2>2, <2>m, <3>1, <3>2, ServeOne
  <2> QED BY <2>1, <2>2
<1>6. CASE ServeClose
  <2>1. /\ replies' = replies \o <<[kind |-> "CLOSED"]>> /\ UNCHANGED <<pc, mOwner>>
        /\ sensor' = "none"
    BY <1>6 DEF Serve, ServeClose, transport
  <2>2. [kind |-> "CLOSED"] \in Reply /\ [kind |-> "CLOSED"].kind \notin Sensed
    BY MessageFacts DEF Line, Sensed, Frame
  <2> QED BY <2>1, <2>2, ServeOne
<1>7. CASE HangUp BY <1>7, HangUpPort
<1>8. CASE Reconnect \/ UNCHANGED vars
  <2>1. UNCHANGED <<replies, sensor, mOwner, pc>>
    BY <1>8 DEF Reconnect, vars, transport, host
  <2> QED BY <1>1, <2>1 DEF Owning
<1> QED BY <1>2, <1>3, <1>4, <1>5, <1>6, <1>7, <1>8 DEF Next, Bridge


----------------------------------------------------------------------------
(* The two ends agree                                                      *)

LEMMA ShortPieces ==
  ASSUME NEW a, NEW b
  PROVE  /\ Append(<<>>, a) = <<a>> /\ <<>> \o <<a>> = <<a>> /\ <<>> \o <<a, b>> = <<a, b>>
         /\ Head(<<a>>) = a /\ Tail(<<a>>) = <<>>
         /\ Head(<<a, b>>) = a /\ Tail(<<a, b>>) = <<b>>
         /\ <<a>> # <<>> /\ <<a, b>> # <<>>
OBVIOUS

LEMMA UnderWay ==
  ASSUME NEW s \in Session, lock' = s, pc'[s] # "idle", Exchanging(s)'
  PROVE  Exchanged' /\ InStep'
BY NoSessionAssumption DEF Exchanged, InStep

LEMMA InBetween ==
  ASSUME lock' = NoSession, requests' = <<>>, replies' = <<>>,
         sensor' = IF mOwner' = NoSession THEN "none" ELSE Facing[mOwner']
  PROVE  Exchanged' /\ InStep'
BY NoSessionAssumption DEF Exchanged, InStep

LEMMA CallAgrees ==
  ASSUME TypeOK, Exclusive, InStep, Orderly, Orderly', NEW s \in Session, Call(s)
  PROVE  Exchanged' /\ InStep'
<1>0. pc[s] = "idle" /\ lock = NoSession
  BY DEF Call, Acquire, Capture, Release
<1>1. /\ requests = <<>> /\ replies = <<>>
      /\ sensor = IF mOwner = NoSession THEN "none" ELSE Facing[mOwner]
  BY <1>0 DEF InStep
<1>2. CASE Return(s) /\ UNCHANGED <<mOwner, host>>
  <2>1. /\ lock' = NoSession /\ requests' = <<>> /\ replies' = <<>>
        /\ sensor' = sensor /\ mOwner' = mOwner
    BY <1>1, <1>2 DEF Return, host
  <2> QED BY <1>1, <2>1, InBetween
<1>3. ASSUME NEW r, NEW label, Ask(s, r, label)
      PROVE  lock' = s /\ pc'[s] = label /\ requests' = <<r>> /\ replies' = <<>>
             /\ sensor' = sensor
  BY <1>1, <1>3, ShortPieces DEF Ask, Goto, TypeOK
<1>4. ASSUME NEW read, Reset(read) PROVE FALSE
  BY <1>4 DEF Reset, Orderly
<1>5. CASE mOwner' = mOwner /\ Owned /\ Ask(s, [verb |-> "CLOSE"], "handover")
  <2>1. /\ lock' = s /\ pc'[s] = "handover" /\ requests' = <<[verb |-> "CLOSE"]>>
        /\ replies' = <<>> /\ sensor' = sensor
    BY <1>3, <1>5
  <2>2. mOwner' \in Session /\ sensor' = Facing[mOwner']
    BY <1>1, <1>5, <2>1 DEF Owned, TypeOK
  <2>3. Exchanging(s)' BY <2>1, <2>2 DEF Exchanging, Requested
  <2> QED BY <2>1, <2>3, UnderWay
<1>6. CASE mOwner' = mOwner /\ ~Owned /\ Open(s)
  <2>1. /\ lock' = s /\ pc'[s] = "opening" /\ replies' = <<>> /\ sensor' = "none"
        /\ requests' = <<[verb |-> "OPEN", sensor |-> Facing[s]]>>
        /\ mOwner' = NoSession
    BY <1>1, <1>3, <1>6 DEF Open, Owned
  <2>3. Exchanging(s)' BY <2>1 DEF Exchanging, Requested
  <2> QED BY <2>1, <2>3, UnderWay
<1>7. CASE mOwner = s /\ Ask(s, [verb |-> "FRAME"], "header")
  <2>1. /\ lock' = s /\ pc'[s] = "header" /\ requests' = <<[verb |-> "FRAME"]>>
        /\ replies' = <<>> /\ sensor' = Facing[s]
    BY <1>1, <1>3, <1>7, NoSessionAssumption
  <2>3. Exchanging(s)' BY <2>1 DEF Exchanging, Requested
  <2> QED BY <2>1, <2>3, UnderWay
<1>8. CASE mOwner = s /\ Ask(s, [verb |-> "CLOSE"], "closing")
  <2>1. /\ lock' = s /\ pc'[s] = "closing" /\ requests' = <<[verb |-> "CLOSE"]>>
        /\ replies' = <<>> /\ sensor' = Facing[s]
    BY <1>1, <1>3, <1>8, NoSessionAssumption
  <2>3. Exchanging(s)' BY <2>1 DEF Exchanging, Requested
  <2> QED BY <2>1, <2>3, UnderWay
<1>9. CASE Acquire(s) BY <1>9, <1>2, <1>4, <1>5, <1>6 DEF Acquire, transport
<1>10. CASE Capture(s)
  BY <1>10, <1>2, <1>7 DEF Capture, Captures, transport
<1>11. CASE Release(s)
  BY <1>11, <1>2, <1>4, <1>8 DEF Release, Releases, transport
<1> QED BY <1>9, <1>10, <1>11 DEF Call

LEMMA ExchangeAgrees ==
  ASSUME TypeOK, Exclusive, Exchanged, Orderly, Orderly', NEW s \in Session, Exchange(s)
  PROVE  Exchanged' /\ InStep'
<1>0. pc[s] # "idle" /\ lock = s /\ pc[s] # "mixed"
  <2>1. pc[s] # "idle"
    BY DEF Exchange, Handover, Opening, ReadHeader, ReadPixels, Closing
  <2>2. lock = s BY <2>1 DEF Exclusive
  <2> QED BY <2>1, <2>2 DEF Exchanged, Exchanging
<1>1. Exchanging(s) BY <1>0 DEF Exchanged
<1>2. ~Fail(s)
  <2>1. replies \in Seq(Reply) BY DEF TypeOK
  <2> QED BY <2>1, FailFacts DEF Orderly
<1>c. Connected BY DEF Orderly, Connected
<1>e. Answered => replies # <<>> BY <1>c DEF Answered
<1>h. replies # <<>> => Answer = Head(replies) /\ Took = Tail(replies)
  BY DEF Answer, Took
<1>3. CASE Handover(s)
  <2>1. /\ pc[s] = "handover" /\ Closed /\ mOwner' = NoSession
        /\ requests' = Append(requests, [verb |-> "OPEN", sensor |-> Facing[s]])
        /\ replies' = Took /\ Goto(s, "opening") /\ lock' = lock /\ sensor' = sensor
    BY <1>2, <1>3 DEF Handover
  <2>2. Replied(<<Line("CLOSED")>>, "none")
    BY <1>1, <1>e, <2>1 DEF Exchanging, Closed, Requested
  <2>3. /\ requests' = <<[verb |-> "OPEN", sensor |-> Facing[s]]>>
        /\ replies' = <<>> /\ sensor' = "none"
    BY <1>h, <2>1, <2>2, ShortPieces DEF Replied
  <2>4. pc'[s] = "opening" BY <2>1 DEF Goto, TypeOK
  <2>5. Exchanging(s)' BY <2>1, <2>3, <2>4 DEF Exchanging, Requested
  <2> QED BY <1>0, <2>1, <2>4, <2>5, UnderWay
<1>4. CASE Opening(s)
  <2>1. /\ pc[s] = "opening" /\ Ready(s) /\ mOwner' = s /\ replies' = Took
        /\ Return(s) /\ requests' = requests /\ sensor' = sensor
    BY <1>2, <1>4 DEF Opening
  <2>2. replies # <<>> /\ Answer.kind = "READY" BY <1>e, <2>1 DEF Ready
  <2>3. Replied(<<Of("READY", s)>>, Facing[s])
    <3>1. \/ Requested([verb |-> "OPEN", sensor |-> Facing[s]], "none")
          \/ Replied(<<Of("READY", s)>>, Facing[s])
          \/ Replied(<<Line("REFUSED")>>, "none")
      BY <1>1, <2>1 DEF Exchanging
    <3>2. CASE Replied(<<Line("REFUSED")>>, "none")
      <4>1. Answer = Line("REFUSED") BY <1>h, <2>2, <3>2, ShortPieces DEF Replied
      <4> QED BY <2>2, <4>1 DEF Line
    <3> QED BY <2>2, <3>1, <3>2 DEF Requested
  <2>4. /\ lock' = NoSession /\ requests' = <<>> /\ replies' = <<>>
        /\ sensor' = Facing[mOwner'] /\ mOwner' # NoSession
    BY <1>h, <2>1, <2>2, <2>3, ShortPieces, NoSessionAssumption DEF Replied, Return
  <2> QED BY <2>4, InBetween
<1>5. CASE ReadHeader(s)
  <2>1. /\ pc[s] = "header" /\ Answered /\ Answer.kind = "HEADER" /\ replies' = Took
        /\ Goto(s, "pixels") /\ lock' = lock /\ requests' = requests /\ sensor' = sensor
    BY <1>2, <1>5 DEF ReadHeader
  <2>2. Replied(<<Of("HEADER", s), Of("PIXELS", s)>>, Facing[s])
    <3>1. \/ Requested([verb |-> "FRAME"], Facing[s])
          \/ Replied(<<Of("HEADER", s), Of("PIXELS", s)>>, Facing[s])
          \/ Replied(<<Line("GARBLED"), Of("PIXELS", s)>>, Facing[s])
      BY <1>1, <2>1 DEF Exchanging
    <3>2. CASE Replied(<<Line("GARBLED"), Of("PIXELS", s)>>, Facing[s])
      <4>1. Answer = Line("GARBLED")
        BY <1>e, <1>h, <2>1, <3>2, ShortPieces DEF Replied
      <4> QED BY <2>1, <4>1 DEF Line
    <3> QED BY <1>e, <2>1, <3>1, <3>2 DEF Requested
  <2>3. requests' = <<>> /\ replies' = <<Of("PIXELS", s)>> /\ sensor' = Facing[s]
    BY <1>e, <1>h, <2>1, <2>2, ShortPieces DEF Replied
  <2>4. pc'[s] = "pixels" BY <2>1 DEF Goto, TypeOK
  <2>5. Replied(<<Of("PIXELS", s)>>, Facing[s])' BY <2>3 DEF Replied, Of
  <2>6. Exchanging(s)' BY <2>4, <2>5 DEF Exchanging
  <2> QED BY <1>0, <2>1, <2>4, <2>6, UnderWay
<1>6. CASE ReadPixels(s)
  <2>1. pc[s] = "pixels" BY <1>0, <1>6 DEF ReadPixels
  <2>2. Replied(<<Of("PIXELS", s)>>, Facing[s]) BY <1>1, <2>1 DEF Exchanging
  <2>3. replies # <<>> /\ Answer = Of("PIXELS", s) /\ Took = <<>>
    BY <1>h, <2>2, ShortPieces DEF Replied
  <2>4. /\ replies' = Took /\ Return(s)
        /\ UNCHANGED <<mOwner, requests, sensor>>
    BY <1>6, <2>1, <2>3 DEF ReadPixels, transport, Of
  <2>5. mOwner = s BY <2>1 DEF Exclusive
  <2> QED BY <2>2, <2>3, <2>4, <2>5, NoSessionAssumption, InBetween
      DEF Replied, Return
<1>7. CASE Closing(s)
  <2>1. /\ pc[s] = "closing" /\ Closed /\ mOwner' = NoSession /\ replies' = Took
        /\ Return(s) /\ requests' = requests /\ sensor' = sensor
    BY <1>2, <1>7 DEF Closing
  <2>2. Replied(<<Line("CLOSED")>>, "none")
    BY <1>1, <1>e, <2>1 DEF Exchanging, Closed, Requested
  <2>3. /\ lock' = NoSession /\ requests' = <<>> /\ replies' = <<>> /\ sensor' = "none"
    BY <1>h, <2>1, <2>2, ShortPieces DEF Replied, Return
  <2> QED BY <2>1, <2>3, InBetween
<1> QED BY <1>3, <1>4, <1>5, <1>6, <1>7 DEF Exchange

LEMMA ServeAgrees ==
  ASSUME TypeOK, Exclusive, Exchanged, InStep, Orderly, Orderly', Bridge
  PROVE  Exchanged' /\ InStep'
<1>1. PICK verb, messages : Serve(verb, messages)
  BY DEF Bridge, ServeOpen, ServeFrame, ServeClose
<1>2. requests # <<>> /\ UNCHANGED <<pc, lock, mOwner>>
  BY <1>1 DEF Serve, transport
<1>s. lock \in Session BY <1>2 DEF TypeOK, InStep
<1>p. PICK s \in Session : s = lock BY <1>s
<1>3. /\ s \in Session /\ lock' = s /\ pc[s] # "idle" /\ pc'[s] = pc[s] /\ pc[s] # "mixed"
      /\ pc[s] \in Label
  BY <1>p, <1>2 DEF Exchanged, Exchanging, TypeOK
<1>4. Exchanging(s) BY <1>p DEF Exchanged
<1>5. SUFFICES Exchanging(s)' BY <1>3, UnderWay
<1>6. ASSUME NEW r, NEW opened, Requested(r, opened)
      PROVE  /\ requests = <<r>> /\ replies = <<>> /\ sensor = opened
             /\ Head(requests) = r
             /\ \A verb_1, a : Serve(verb_1, <<a>>) =>
                  r.verb = verb_1 /\ requests' = <<>> /\ replies' = <<a>>
             /\ \A verb_1, a, b : Serve(verb_1, <<a, b>>) =>
                  r.verb = verb_1 /\ requests' = <<>> /\ replies' = <<a, b>>
  <2>1. requests = <<r>> /\ replies = <<>> /\ sensor = opened BY <1>6 DEF Requested
  <2> QED BY <2>1, ShortPieces DEF Serve
<1>7. ASSUME NEW m, NEW opened, Replied(m, opened) PROVE FALSE
  BY <1>2, <1>7 DEF Replied
<1>8. CASE /\ Requested([verb |-> "CLOSE"], sensor)
           /\ pc[s] \in {"handover", "closing"}
           /\ pc[s] = "handover" => mOwner \in Session
  <2>1. ServeClose
    BY <1>6, <1>8 DEF Bridge, ServeOpen, ServeFrame, Serve
  <2>2. /\ requests' = <<>> /\ replies' = <<Line("CLOSED")>> /\ sensor' = "none"
    BY <1>6, <1>8, <2>1 DEF ServeClose, Line
  <2>3. Replied(<<Line("CLOSED")>>, "none")' BY <2>2 DEF Replied, Line
  <2> QED BY <1>2, <1>3, <1>8, <2>3 DEF Exchanging
<1>9. CASE /\ Requested([verb |-> "OPEN", sensor |-> Facing[s]], "none")
           /\ pc[s] = "opening" /\ mOwner = NoSession
  <2>1. ServeOpen
    BY <1>6, <1>9 DEF Bridge, ServeClose, ServeFrame, Serve
  <2>2. Head(requests).sensor = Facing[s] BY <1>6, <1>9
  <2>3. \/ Replied(<<Of("READY", s)>>, Facing[s])'
        \/ Replied(<<Line("REFUSED")>>, "none")'
    BY <1>6, <1>9, <2>1, <2>2 DEF ServeOpen, Replied, Of, Line
  <2> QED BY <1>2, <1>3, <1>9, <2>3 DEF Exchanging
<1>10. CASE Requested([verb |-> "FRAME"], Facing[s]) /\ pc[s] = "header"
  <2>1. ServeFrame
    BY <1>6, <1>10 DEF Bridge, ServeOpen, ServeClose, Serve
  <2>2. sensor = Facing[s] /\ sensor # "none" /\ sensor' = sensor
    BY <1>3, <1>6, <1>10, <2>1, FacingAssumption DEF Sensor, ServeFrame
  <2>3. \/ Replied(<<Of("HEADER", s), Of("PIXELS", s)>>, Facing[s])'
        \/ Replied(<<Line("GARBLED"), Of("PIXELS", s)>>, Facing[s])'
    BY <1>6, <1>10, <2>1, <2>2 DEF ServeFrame, Replied, Of, Line
  <2> QED BY <1>3, <1>10, <2>3 DEF Exchanging
<1>11. pc[s] \in {"handover", "opening", "header", "pixels", "closing"}
  BY <1>3 DEF Label
<1>12. ASSUME NEW opened, Requested([verb |-> "CLOSE"], opened)
       PROVE  Requested([verb |-> "CLOSE"], sensor)
  BY <1>12 DEF Requested
<1> QED BY <1>4, <1>7, <1>8, <1>9, <1>10, <1>11, <1>12 DEF Exchanging

LEMMA AgreedStep ==
  TypeOK /\ Exclusive /\ Exchanged /\ InStep /\ [Next]_vars => Exchanged' /\ InStep'
<1> SUFFICES ASSUME TypeOK, Exclusive, Exchanged, InStep, [Next]_vars
             PROVE  Exchanged' /\ InStep'
  OBVIOUS
<1>1. SUFFICES ASSUME Orderly' PROVE Exchanged' /\ InStep'
  BY DEF Exchanged, InStep
<1>2. CASE UNCHANGED vars
  BY <1>2 DEF vars, transport, host, Exchanged, InStep, Orderly, Exchanging,
              Requested, Replied, Of, Line
<1>r. replies \in Seq(Reply) /\ failed \in BOOLEAN BY DEF TypeOK
<1>3. ASSUME NEW s \in Session, Call(s) PROVE Exchanged' /\ InStep'
  <2>1. \A read : ~Reset(read) BY <1>1 DEF Reset, Orderly
  <2>2. failed' = failed /\ bridge' = bridge
    BY <1>3, <2>1 DEF Call, Acquire, Capture, Release, transport, host, Ask, Open
  <2>3. Orderly BY <1>1, <2>2 DEF Orderly
  <2> QED BY <1>1, <1>3, <2>3, CallAgrees
<1>4. ASSUME NEW s \in Session, Exchange(s) PROVE Exchanged' /\ InStep'
  <2>1. ~Fail(s) BY <1>1, <1>r, FailFacts DEF Orderly
  <2>2. failed' = failed /\ bridge' = bridge
    BY <1>4, <2>1 DEF Exchange, Handover, Opening, ReadHeader, ReadPixels, Closing,
                      transport
  <2>3. Orderly BY <1>1, <2>2 DEF Orderly
  <2> QED BY <1>1, <1>4, <2>3, ExchangeAgrees
<1>5. CASE Bridge
  <2>1. failed' = failed /\ bridge' = bridge
    BY <1>5 DEF Bridge, ServeOpen, ServeFrame, ServeClose, Serve, transport
  <2>2. Orderly BY <1>1, <2>1 DEF Orderly
  <2> QED BY <1>1, <1>5, <2>2, ServeAgrees
<1>6. CASE HangUp \/ Reconnect BY <1>1, <1>6 DEF HangUp, Reconnect, Orderly
<1> QED BY <1>2, <1>3, <1>4, <1>5, <1>6 DEF Next

----------------------------------------------------------------------------
(* The theorems                                                            *)

LEMMA IInvInit == Init => IInv
<1> SUFFICES ASSUME Init PROVE IInv OBVIOUS
<1>1. TypeOK BY TypeInit
<1>2. /\ \A s \in Session : pc[s] = "idle"
      /\ lock = NoSession /\ mOwner = NoSession /\ sensor = "none"
      /\ requests = <<>> /\ replies = <<>> /\ DOMAIN replies = {}
  BY DEF Init
<1>3. Exclusive BY <1>2 DEF Exclusive
<1>4. Coherent /\ Latest BY <1>2 DEF Coherent, Latest
<1>5. OwnFrames /\ OwnSensor BY <1>2 DEF OwnFrames, OwnSensor
<1>6. Exchanged /\ InStep BY <1>2, NoSessionAssumption DEF Exchanged, InStep
<1> QED BY <1>1, <1>3, <1>4, <1>5, <1>6 DEF IInv

LEMMA IInvStep == IInv /\ [Next]_vars => IInv'
<1> SUFFICES ASSUME IInv, [Next]_vars PROVE IInv' OBVIOUS
<1>0. /\ TypeOK /\ Exclusive /\ Port /\ Own /\ Exchanged /\ InStep
  BY DEF IInv, Port, Own
<1>1. TypeOK' BY <1>0, TypeStep
<1>2. Exclusive' BY <1>0, ExclusiveStep
<1>3. Port' /\ Own' BY <1>0, PortStep
<1>4. Exchanged' /\ InStep' BY <1>0, AgreedStep
<1> QED BY <1>1, <1>2, <1>3, <1>4 DEF IInv, Port, Own

LEMMA IInvHolds == Spec => []IInv
BY IInvInit, IInvStep, PTL DEF Spec

(* A whole frame at the head of the port is the reader's own.              *)
LEMMA IInvRightSensor == IInv => RightSensor
<1> SUFFICES ASSUME IInv, NEW s \in Session, pc[s] = "pixels",
                    Answer.kind = "PIXELS"
             PROVE  Answer.sensor = Facing[s]
  BY DEF RightSensor
<1>1. replies \in Seq(Reply) BY DEF IInv, TypeOK
<1>2. replies # <<>> BY <1>1, TookFacts
<1>3. Answer = replies[1] /\ 1 \in DOMAIN replies /\ \A k \in DOMAIN replies : k <= 1 => k = 1
  BY <1>1, <1>2, TookFacts
<1>4. mOwner = s /\ Owning BY NoSessionAssumption DEF IInv, Exclusive, Owning
<1>5. /\ Kind(1) \in Frame
      /\ \A k \in DOMAIN replies : k <= 1 => Kind(k) \notin Break
  BY <1>3 DEF Kind, Frame, Break
<1>6. replies[1].sensor = Facing[mOwner]
  BY <1>3, <1>4, <1>5 DEF IInv, OwnFrames
<1> QED BY <1>3, <1>4, <1>6

(* An OPEN is on its way only while nothing is open.                       *)
LEMMA IInvHandedOver == IInv => SensorHandedOver
<1> SUFFICES ASSUME IInv, Orderly, requests # <<>>, Head(requests).verb = "OPEN"
             PROVE  sensor = "none"
  BY DEF SensorHandedOver
<1>1. lock \in Session BY DEF IInv, TypeOK, InStep
<1>2. Exchanging(lock) /\ pc[lock] # "idle" /\ pc[lock] \in Label
  BY <1>1 DEF IInv, Exchanged, TypeOK
<1>3. ASSUME NEW m, NEW opened, Replied(m, opened) PROVE FALSE BY <1>3 DEF Replied
<1>4. ASSUME NEW r, NEW opened, Requested(r, opened)
      PROVE  r.verb = "OPEN" /\ sensor = opened
  <2>1. requests = <<r>> /\ sensor = opened BY <1>4 DEF Requested
  <2>2. Head(requests) = r BY <2>1, ShortPieces
  <2> QED BY <2>1, <2>2
<1>5. ~Requested([verb |-> "CLOSE"], sensor) /\ ~Requested([verb |-> "FRAME"], sensor)
  BY <1>4
<1>6. \A opened : /\ ~Requested([verb |-> "CLOSE"], opened)
                  /\ ~Requested([verb |-> "FRAME"], opened)
  BY <1>5 DEF Requested
<1>7. pc[lock] = "opening"
  BY <1>2, <1>3, <1>6 DEF Exchanging, Label
<1> QED BY <1>2, <1>3, <1>4, <1>7 DEF Exchanging

(* The calls, the exchanges and the bridge keep every variable in its type: *)
(* sessions name sensors to the bridge and the port carries its messages.   *)
THEOREM TypeCorrect == Spec => []TypeOK
<1>1. IInv => TypeOK BY DEF IInv
<1> QED BY <1>1, IInvHolds, PTL

(* Whatever failed exchanges and hang-ups have left in the port, and however  *)
(* many sessions share it, capture() never takes a whole frame of another     *)
(* sensor for its own.                                                        *)
THEOREM GivesRightSensor == Spec => []RightSensor
BY IInvRightSensor, IInvHolds, PTL

(* acquire() asks for a sensor only when the previous owner's is closed, as   *)
(* long as no exchange fails and the bridge does not hang up.                 *)
THEOREM HandsSensorOver == Spec => []SensorHandedOver
BY IInvHandedOver, IInvHolds, PTL

(* Between two calls the transport's owner and the bridge's sensor agree and  *)
(* the port is empty, until an exchange fails or the bridge hangs up.         *)
THEOREM StaysInStep == Spec => []InStep
<1>1. IInv => InStep BY DEF IInv
<1> QED BY <1>1, IInvHolds, PTL
=============================================================================
