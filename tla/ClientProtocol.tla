--------------------------- MODULE ClientProtocol ---------------------------
(***************************************************************************)
(* What the recorder promises on its publish channel, as a client (the SFU) *)
(* sees it: for every startRecording request, the messages published about  *)
(* that request's recording, in the order they are handed to the pubsub.    *)
(*                                                                          *)
(*   ok       startRecordingResponse, status "ok"                           *)
(*   fail     startRecordingResponse, status "failed"                       *)
(*   status   recordingRtpStatusChanged                                     *)
(*   stopped  recordingStopped                                              *)
(*                                                                          *)
(* SessionServer is shown to implement it.                                  *)
(***************************************************************************)
EXTENDS Naturals, Sequences

CONSTANTS
  Requests,   \* startRecording requests
  IdOf,       \* the recordingSessionId each one names
  LiveKit     \* the requests that use the LiveKit adapter

VARIABLE out  \* out[r]: the messages published about request r

Messages == {"ok", "fail", "status", "stopped"}

Has(s, m) == \E k \in DOMAIN s : s[k] = m

Answered(r) == Has(out[r], "ok") \/ Has(out[r], "fail")

\* The client was told the recording runs, and not yet that it stopped.
Live(r) == Has(out[r], "ok") /\ ~Has(out[r], "stopped")

Publish(r, m) == out' = [out EXCEPT ![r] = Append(@, m)]

\* A request is answered once, and never accepted while the recording of
\* another request with the same session id is live.
Accept(r) ==
  /\ ~Answered(r)
  /\ \A q \in Requests \ {r} : IdOf[q] = IdOf[r] => ~Live(q)
  /\ Publish(r, "ok")

Refuse(r) ==
  /\ ~Answered(r)
  /\ Publish(r, "fail")

\* Flow changes can precede the answer, and never follow a failed one. A
\* LiveKit recording is silent once it is reported stopped; the flow
\* goroutine of a mediasoup track can publish one change after that.
Status(r) ==
  /\ ~Has(out[r], "fail")
  /\ r \in LiveKit => ~Has(out[r], "stopped")
  /\ Publish(r, "status")

\* Only an accepted recording is reported stopped, and only once.
Stopped(r) ==
  /\ Live(r)
  /\ Publish(r, "stopped")

ProtocolInit == out = [r \in Requests |-> <<>>]

ProtocolNext ==
  \E r \in Requests : Accept(r) \/ Refuse(r) \/ Status(r) \/ Stopped(r)

Protocol == ProtocolInit /\ [][ProtocolNext]_out
=============================================================================
