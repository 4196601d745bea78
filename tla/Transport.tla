----------------------------- MODULE Transport -----------------------------
(***************************************************************************)
(* TcpSocket's frames as bytes (network.cpp): two sides that go through the *)
(* rounds of run_sync_session, each sending its frame of the round before   *)
(* it receives the peer's.  The socket takes and gives any number of bytes, *)
(* and blocks when its buffer is full or empty.                             *)
(***************************************************************************)
EXTENDS Naturals, SequencesExt

CONSTANTS Side, Other,        \* Other[s]: the peer of s
          Rounds,             \* MANIFEST, CHUNK_REQUEST, CHUNK_DATA, DONE: 4 in the code
          PayloadSizes,       \* the sizes a payload may have
          Base,               \* values of a byte (256)
          LenBytes,           \* bytes of a frame's length (4)
          Capacity            \* bytes the buffers between the two sides hold

ASSUME TransportAssumption ==
  /\ \A s \in Side : Other[s] \in Side \ {s} /\ Other[Other[s]] = s
  /\ {Rounds, Base, LenBytes, Capacity} \subseteq Nat \ {0} /\ Rounds < Base
  /\ PayloadSizes \subseteq Nat

\* What exponentiation is: the provers know no law of it.
ASSUME PowerLaw == Base ^ 0 = 1 /\ \A k \in 1 .. LenBytes : Base ^ k = Base * Base ^ (k - 1)

VARIABLES round,              \* round[s]: s is in this round ...
          state,              \* ... and "sends", "receives", has "returned" or is "gone"
          unsent,             \* bytes of its frame the socket has not taken
          wire,               \* wire[s]: bytes under way to s
          frame,              \* what s has received of the current frame
          sent, received      \* history: the payloads sent and received

vars == <<round, state, unsent, wire, frame, sent, received>>

-----------------------------------------------------------------------------
(* Frames.                                                                  *)

HeaderLen == LenBytes + 1

\* DONE, the last frame, is empty.
Sizes(r) == IF r = Rounds THEN {0} ELSE PayloadSizes

\* The bytes of a payload of some size in round r.
Payload(r, size) == [k \in 1 .. size |-> (r + k) % Base]

\* static_cast<uint32_t>: the high digits of a length that has more are lost.
len_bytes(len) == [k \in 1 .. LenBytes |-> (len \div Base ^ (LenBytes - k)) % Base]

\* Length and type, then the payload.
Bytes(r, payload) == len_bytes(Len(payload)) \o <<r>> \o payload

\* Numbers[k]: what the first k bytes of a header say.
Numbers(header) ==
  LET v[k \in 0 .. LenBytes] == IF k = 0 THEN 0 ELSE Base * v[k - 1] + header[k] IN v

LenOf(header) == Numbers(header)[LenBytes]

\* Mutant: the header is counted as part of the payload.
WantedMutant(bytes) ==
  IF Len(bytes) < HeaderLen THEN HeaderLen - Len(bytes)
  ELSE IF LenOf(bytes) > Len(bytes) THEN LenOf(bytes) - Len(bytes) ELSE 0

\* How many bytes recv_frame still asks for: first the header, then the payload.
Wanted(bytes) ==
  IF Len(bytes) < HeaderLen THEN HeaderLen - Len(bytes)
  ELSE HeaderLen + LenOf(bytes) - Len(bytes)

-----------------------------------------------------------------------------

Running(s) == state[s] \in {"sends", "receives"}

\* send_frame is called for the frame of round r.
Sends(s, r, size) ==
  /\ unsent' = [unsent EXCEPT ![s] = Bytes(r, Payload(r, size))]
  /\ sent' = [sent EXCEPT ![s] = Append(@, Payload(r, size))]

Init ==
  /\ round = [s \in Side |-> 1] /\ state = [s \in Side |-> "sends"]
  /\ \E size \in [Side -> Sizes(1)] :
       /\ unsent = [s \in Side |-> Bytes(1, Payload(1, size[s]))]
       /\ sent = [s \in Side |-> <<Payload(1, size[s])>>]
  /\ wire = [s \in Side |-> <<>>] /\ frame = [s \in Side |-> <<>>]
  /\ received = [s \in Side |-> <<>>]

\* send takes k bytes, as many as there is room for at most; they are lost if the
\* peer is gone and s has not been told yet.
Send(s, k) ==
  /\ state[s] = "sends"
  /\ k <= Len(unsent[s])
  /\ IF Running(Other[s])
     THEN /\ Len(wire[Other[s]]) + k <= Capacity
          /\ wire' = [wire EXCEPT ![Other[s]] = @ \o SubSeq(unsent[s], 1, k)]
     ELSE UNCHANGED wire
  /\ unsent' = [unsent EXCEPT ![s] = SubSeq(@, k + 1, Len(@))]
  /\ UNCHANGED <<round, state, frame, sent, received>>

\* Mutant: the next frame is sent before the peer's is received.
SendAllDoneMutant(s) ==
  /\ state[s] = "sends" /\ unsent[s] = <<>>
  /\ IF round[s] < Rounds /\ received[s] = <<>> /\ Len(sent[s]) = round[s]
     THEN (\E size \in Sizes(round[s] + 1) : Sends(s, round[s] + 1, size)) /\ UNCHANGED state
     ELSE state' = [state EXCEPT ![s] = "receives"] /\ UNCHANGED <<unsent, sent>>
  /\ UNCHANGED <<round, wire, frame, received>>

\* send_all returns.
SendAllDone(s) ==
  /\ state[s] = "sends" /\ unsent[s] = <<>>
  /\ state' = [state EXCEPT ![s] = "receives"]
  /\ UNCHANGED <<round, unsent, wire, frame, sent, received>>

\* recv gives k of the bytes asked for.
Recv(s, k) ==
  /\ state[s] = "receives"
  /\ k <= Wanted(frame[s]) /\ k <= Len(wire[s])
  /\ frame' = [frame EXCEPT ![s] = @ \o SubSeq(wire[s], 1, k)]
  /\ wire' = [wire EXCEPT ![s] = SubSeq(@, k + 1, Len(@))]
  /\ UNCHANGED <<round, state, unsent, sent, received>>

Complete(s) == state[s] = "receives" /\ Len(frame[s]) >= HeaderLen /\ Wanted(frame[s]) = 0

TypeOf(s) == frame[s][HeaderLen]

\* recv_frame returns a frame of the expected type; the next round begins, or the
\* session is over.
RecvFrameDone(s) ==
  /\ Complete(s) /\ TypeOf(s) = round[s]
  /\ received' = [received EXCEPT ![s] = Append(@, SubSeq(frame[s], HeaderLen + 1, Len(frame[s])))]
  /\ frame' = [frame EXCEPT ![s] = <<>>]
  /\ IF round[s] < Rounds
     THEN /\ round' = [round EXCEPT ![s] = @ + 1]
          /\ state' = [state EXCEPT ![s] = "sends"]
          /\ \E size \in Sizes(round[s] + 1) : Sends(s, round[s] + 1, size)
     ELSE state' = [state EXCEPT ![s] = "returned"] /\ UNCHANGED <<round, unsent, sent>>
  /\ UNCHANGED wire

\* s closes the connection; what it sent arrives up to some byte.
Leave(s, how) ==
  /\ state' = [state EXCEPT ![s] = how]
  /\ \E k \in 0 .. Len(wire[Other[s]]) :
       wire' = [wire EXCEPT ![s] = <<>>, ![Other[s]] = SubSeq(@, 1, k)]
  /\ unsent' = [unsent EXCEPT ![s] = <<>>] /\ frame' = [frame EXCEPT ![s] = <<>>]
  /\ UNCHANGED <<round, sent, received>>

\* Mutant: recv_all takes the end of the connection for a short read.
ThrowsMutant(s) ==
  \/ Complete(s) /\ TypeOf(s) # round[s]
  \/ state[s] = "sends" /\ unsent[s] # <<>> /\ ~ Running(Other[s])

\* An unexpected frame, the end of the connection within recv_all, or a failing send.
Throws(s) ==
  \/ Complete(s) /\ TypeOf(s) # round[s]
  \/ /\ state[s] = "receives" /\ Wanted(frame[s]) > 0
     /\ wire[s] = <<>> /\ ~ Running(Other[s])
  \/ state[s] = "sends" /\ unsent[s] # <<>> /\ ~ Running(Other[s])

\* The session fails; only for the last frame, DONE, is "non-fatal: peer may have
\* already closed".
Fail(s) ==
  /\ Throws(s)
  /\ Leave(s, IF round[s] = Rounds /\ state[s] = "receives" THEN "returned" ELSE "gone")

Kill(s) == Running(s) /\ Leave(s, "gone")

Step(s) ==
  \/ \E k \in 1 .. Capacity : Send(s, k) \/ Recv(s, k)
  \/ SendAllDone(s) \/ RecvFrameDone(s) \/ Fail(s)

Next == \E s \in Side : Step(s) \/ Kill(s)

\* Neither side is owed a kill; bytes the socket can take or give are moved.
Spec == Init /\ [][Next]_vars /\ \A s \in Side : WF_vars(Step(s))

-----------------------------------------------------------------------------
(* Properties.                                                              *)

\* No payload s has sent is longer than a header can say.
Sayable(s) == \A k \in DOMAIN sent[s] : Len(sent[s][k]) < Base ^ LenBytes

\* Frames are received whole, unchanged and in the order in which they were
\* sent, although the socket splits and joins them anywhere and the peer may go
\* away within one - as long as their lengths fit into the header (send_frame).
FramesIntact ==
  \A s \in Side : Sayable(Other[s]) => IsPrefix(received[s], sent[Other[s]])

\* Both sides are in send, and neither buffer has room.
Blocked ==
  \A s \in Side : state[s] = "sends" /\ unsent[s] # <<>> /\ Len(wire[s]) = Capacity

\* Sending before receiving blocks both sides for good only if the frames of
\* both in one round are larger than the buffers: one large manifest is no problem.
BlockedOnlyByTwoLarge ==
  Blocked /\ (\A s \in Side : Sayable(s)) => \A s \in Side : HeaderLen + Len(Last(sent[s])) > Capacity

\* The exchange ends on both sides, also when one is killed, or both block.
ExchangeEnds == <>(Blocked \/ \A s \in Side : ~ Running(s))
=============================================================================
