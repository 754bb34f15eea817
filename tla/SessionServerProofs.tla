------------------------- MODULE SessionServerProofs -------------------------
(***************************************************************************)
(* Proofs about SessionServer for any requests, ids, adapters and queue     *)
(* capacity of at least two.                                                *)
(***************************************************************************)
EXTENDS SessionServer, SequenceTheorems, TLAPS

-----------------------------------------------------------------------------
(* The command queue *)

\* What a non-blocking send leaves in the queue: at most the command it
\* offers, behind what was there, and never more than the capacity.
LEMMA OfferFacts ==
  ASSUME NEW q \in Seq(Commands), NEW c \in Commands, Len(q) <= QueueCap
  PROVE  /\ Offer(q, c) \in Seq(Commands)
         /\ Len(Offer(q, c)) <= QueueCap
         /\ \A k \in DOMAIN q : k \in DOMAIN Offer(q, c) /\ Offer(q, c)[k] = q[k]
         /\ \A k \in DOMAIN Offer(q, c) :
              k \in DOMAIN q \/ (k = Len(q) + 1 /\ Offer(q, c)[k] = c)
<1>1. CASE Len(q) < QueueCap
  <2>1. /\ Append(q, c) \in Seq(Commands)
        /\ Len(Append(q, c)) = Len(q) + 1
        /\ \A k \in 1 .. Len(q) : Append(q, c)[k] = q[k]
        /\ Append(q, c)[Len(q) + 1] = c
    BY AppendProperties
  <2>2. DOMAIN q = 1 .. Len(q) /\ DOMAIN Append(q, c) = 1 .. Len(q) + 1
    BY <2>1, LenProperties
  <2>3. Len(q) \in Nat
    BY LenProperties
  <2> QED
    BY <1>1, <2>1, <2>2, <2>3, QueueAssumption DEF Offer
<1>2. CASE ~(Len(q) < QueueCap)
  BY <1>2 DEF Offer
<1> QED
  BY <1>1, <1>2

\* Taking a command keeps the others, one place nearer the head.
LEMMA TakeFacts ==
  ASSUME NEW q \in Seq(Commands), q # <<>>, Len(q) <= QueueCap
  PROVE  /\ Tail(q) \in Seq(Commands)
         /\ Len(Tail(q)) <= QueueCap
         /\ 1 \in DOMAIN q /\ Head(q) = q[1]
         /\ \A k \in DOMAIN Tail(q) :
              k \in Nat \ {0} /\ k + 1 \in DOMAIN q /\ Tail(q)[k] = q[k + 1]
<1>1. /\ Head(q) = q[1]
      /\ Tail(q) \in Seq(Commands)
      /\ Len(Tail(q)) = Len(q) - 1
      /\ \A k \in 1 .. Len(Tail(q)) : Tail(q)[k] = q[k + 1]
  BY HeadTailProperties
<1>2. Len(q) \in Nat /\ DOMAIN q = 1 .. Len(q) /\ DOMAIN Tail(q) = 1 .. Len(Tail(q))
  BY <1>1, LenProperties
<1>3. Len(q) # 0
  BY EmptySeq
<1> QED
  BY <1>1, <1>2, <1>3, QueueAssumption

-----------------------------------------------------------------------------
(* Types *)

\* A stop sent to a session keeps the queues' types and bounds (session.go:115-128).
LEMMA SendStopType ==
  ASSUME TypeOK, NEW r \in Requests, SendStop(r)
  PROVE  /\ queue' \in [Requests -> Seq(Commands)]
         /\ \A q \in Requests : Len(queue'[q]) <= QueueCap
<1> DEFINE new == IF done[r] THEN queue[r] ELSE Offer(queue[r], "stop")
<1>1. new \in Seq(Commands) /\ Len(new) <= QueueCap
  BY OfferFacts DEF TypeOK, Commands
<1>2. queue' = [queue EXCEPT ![r] = new]
  BY DEF SendStop
<1> HIDE DEF new
<1> QED
  BY <1>1, <1>2 DEF TypeOK

Outs == Seq({"ok", "fail", "status", "stopped"})

\* Publishing keeps the type of out.
LEMMA PublishType ==
  ASSUME TypeOK, NEW r \in Requests, NEW m \in {"ok", "fail", "status", "stopped"},
         Publish(r, m)
  PROVE  out' \in [Requests -> Outs]
<1>1. Append(out[r], m) \in Outs
  BY AppendProperties DEF TypeOK, Outs
<1> QED
  BY <1>1 DEF TypeOK, Publish, Outs

\* Every step keeps the types.
LEMMA TypeStep == TypeOK /\ [Next]_vars => TypeOK'
<1> SUFFICES ASSUME TypeOK, [Next]_vars PROVE TypeOK'
  OBVIOUS
<1> USE DEF serverVars, sessionVars, adapterVars, Goto, Publish
<1>1. ASSUME NEW r \in Requests, RefuseDuplicate(r) PROVE TypeOK'
  BY <1>1 DEF TypeOK, PcValues, RefuseDuplicate
<1>2. ASSUME NEW r \in Requests, RefuseInvalid(r) PROVE TypeOK'
  BY <1>2 DEF TypeOK, PcValues, RefuseInvalid
<1>3. ASSUME NEW r \in Requests, Register(r) PROVE TypeOK'
  BY <1>3, RequestAssumption DEF TypeOK, PcValues, Register
<1>4. ASSUME NEW r \in Requests, QueueStart(r) PROVE TypeOK'
  <2>1. CASE ~done[r] /\ Len(queue[r]) < QueueCap
    <3>1. Offer(queue[r], "start") \in Seq(Commands) /\ Len(Offer(queue[r], "start")) <= QueueCap
      BY OfferFacts DEF TypeOK, Commands
    <3> QED
      BY <1>4, <2>1, <3>1 DEF TypeOK, PcValues, QueueStart
  <2>2. CASE ~(~done[r] /\ Len(queue[r]) < QueueCap)
    <3>1. SendStop(r)
      BY <1>4, <2>2 DEF QueueStart
    <3> QED
      BY <1>4, <2>2, <3>1, SendStopType, PublishType DEF TypeOK, PcValues, QueueStart, Outs
  <2> QED
    BY <2>1, <2>2
<1>5. ASSUME NEW i \in Ids, HandleStop(i) PROVE TypeOK'
  BY <1>5, SendStopType DEF TypeOK, PcValues, HandleStop
<1>6. ASSUME NEW r \in Requests, TakeStart(r) PROVE TypeOK'
  BY <1>6, TakeFacts DEF TypeOK, PcValues, TakeStart, Ready
<1>7. ASSUME NEW r \in Requests, TakeStop(r) PROVE TypeOK'
  BY <1>7, TakeFacts DEF TypeOK, PcValues, TakeStop, Ready
<1>8. ASSUME NEW r \in Requests, LeaveLoop(r) PROVE TypeOK'
  <2>1. /\ queue' \in [Requests -> Seq(Commands)]
        /\ \A q \in Requests : Len(queue'[q]) <= QueueCap
    <3>1. CASE UNCHANGED queue
      BY <3>1 DEF TypeOK
    <3>2. CASE queue[r] # <<>> /\ queue' = [queue EXCEPT ![r] = Tail(@)]
      BY <3>2, TakeFacts DEF TypeOK
    <3> QED
      BY <1>8, <3>1, <3>2 DEF LeaveLoop
  <2> QED
    BY <1>8, <2>1 DEF TypeOK, PcValues, LeaveLoop
<1>9. ASSUME NEW r \in Requests, Connect(r) PROVE TypeOK'
  BY <1>9 DEF TypeOK, PcValues, Connect
<1>10. ASSUME NEW r \in Requests, ConnectFails(r) PROVE TypeOK'
  BY <1>10 DEF TypeOK, PcValues, ConnectFails
<1>11. ASSUME NEW r \in Requests, InitSucceeds(r) PROVE TypeOK'
  BY <1>11 DEF TypeOK, PcValues, InitSucceeds
<1>12. ASSUME NEW r \in Requests, SubscribeFails(r) PROVE TypeOK'
  BY <1>12 DEF TypeOK, PcValues, SubscribeFails
<1>13. ASSUME NEW r \in Requests, FinishInitClose(r) PROVE TypeOK'
  BY <1>13 DEF TypeOK, PcValues, FinishInitClose
<1>14. ASSUME NEW r \in Requests, AnswerOK(r) PROVE TypeOK'
  BY <1>14 DEF TypeOK, PcValues, AnswerOK
<1>15. ASSUME NEW r \in Requests, AnswerFailed(r) PROVE TypeOK'
  BY <1>15 DEF TypeOK, PcValues, AnswerFailed
<1>16. ASSUME NEW r \in Requests, ResetCallbacks(r) PROVE TypeOK'
  BY <1>16 DEF TypeOK, PcValues, ResetCallbacks
<1>17. ASSUME NEW r \in Requests, BeginClose(r) PROVE TypeOK'
  BY <1>17 DEF TypeOK, PcValues, BeginClose
<1>18. ASSUME NEW r \in Requests, FinishClose(r) PROVE TypeOK'
  BY <1>18 DEF TypeOK, PcValues, FinishClose
<1>19. ASSUME NEW r \in Requests, PublishStopped(r) PROVE TypeOK'
  <2>1. out' \in [Requests -> Outs]
    BY <1>19, PublishType DEF PublishStopped, TypeOK, Outs
  <2> QED
    BY <1>19, <2>1 DEF TypeOK, PcValues, PublishStopped, Outs
<1>20. ASSUME NEW r \in Requests, Unregister(r) PROVE TypeOK'
  BY <1>20 DEF TypeOK, PcValues, Unregister
<1>21. ASSUME NEW r \in Requests, FinishStop(r) PROVE TypeOK'
  BY <1>21 DEF TypeOK, PcValues, FinishStop
<1>22. ASSUME NEW r \in Requests, NEW t \in Threads, ReadFlowChange(r, t) PROVE TypeOK'
  BY <1>22 DEF TypeOK, PcValues, ReadFlowChange, ReadFlow
<1>23. ASSUME NEW r \in Requests, NEW t \in Threads, ReadFlowClosed(r, t) PROVE TypeOK'
  BY <1>23 DEF TypeOK, PcValues, ReadFlowClosed, ReadFlow
<1>24. ASSUME NEW r \in Requests, NEW t \in Threads, RunFlow(r, t) PROVE TypeOK'
  <2>1. CASE flight[r][t] = "status"
    <3>1. out' \in [Requests -> Outs]
      BY <1>24, <2>1, PublishType DEF RunFlow
    <3> QED
      BY <1>24, <2>1, <3>1 DEF TypeOK, PcValues, RunFlow, Outs
  <2>2. CASE flight[r][t] # "status"
    BY <1>24, <2>2, SendStopType DEF TypeOK, PcValues, RunFlow
  <2> QED
    BY <2>1, <2>2
<1>25. ASSUME NEW r \in Requests, ConnectionLost(r) PROVE TypeOK'
  BY <1>25, SendStopType DEF TypeOK, PcValues, ConnectionLost
<1>26. CASE BeginShutdown
  BY <1>26 DEF TypeOK, PcValues, BeginShutdown
<1>27. ASSUME NEW i \in Ids, VisitSession(i) PROVE TypeOK'
  BY <1>27, SendStopType DEF TypeOK, PcValues, VisitSession
<1>28. CASE EndRange \/ EndWait \/ Exit
  BY <1>28 DEF TypeOK, PcValues, EndRange, EndWait, Exit
<1>29. CASE UNCHANGED vars
  BY <1>29 DEF TypeOK, PcValues, vars
<1> QED
  BY <1>1, <1>2, <1>3, <1>4, <1>5, <1>6, <1>7, <1>8, <1>9, <1>10, <1>11, <1>12,
     <1>13, <1>14, <1>15, <1>16, <1>17, <1>18, <1>19, <1>20, <1>21, <1>22, <1>23,
     <1>24, <1>25, <1>26, <1>27, <1>28, <1>29
     DEF Next, ReceiveLoop, Run, Adapter, CloseServer

\* TypeOK: every reachable state has the declared types; in particular no
\* session's command queue ever exceeds its capacity (session.go:80).
THEOREM TypeCorrect == Spec => []TypeOK
<1>1. Init => TypeOK
  BY RequestAssumption, QueueAssumption DEF Init, TypeOK, PcValues
<1> QED
  BY <1>1, TypeStep, PTL DEF Spec

-----------------------------------------------------------------------------
(* What the steps do to the command queues and to the published messages *)

\* No queue gains a start command.
NoNewStart ==
  \A q \in Requests :
    /\ Has(queue'[q], "start") => Has(queue[q], "start")
    /\ OneStart(queue[q]) => OneStart(queue'[q])

\* A stop adds no start to any queue, and a queue with at most one start keeps at
\* most one (session.go:115-128).
LEMMA SendStopQueues ==
  ASSUME TypeOK, NEW r \in Requests, SendStop(r)
  PROVE  NoNewStart
<1> DEFINE new == IF done[r] THEN queue[r] ELSE Offer(queue[r], "stop")
<1>1. /\ Has(new, "start") => Has(queue[r], "start")
      /\ OneStart(queue[r]) => OneStart(new)
  <2>1. CASE done[r]
    BY <2>1
  <2>2. CASE ~done[r]
    <3>1. \A k \in DOMAIN Offer(queue[r], "stop") :
            Offer(queue[r], "stop")[k] = "start"
              => k \in DOMAIN queue[r] /\ queue[r][k] = "start"
      <4>1. queue[r] \in Seq(Commands) /\ Len(queue[r]) <= QueueCap
        BY DEF TypeOK
      <4>2. "stop" \in Commands
        BY DEF Commands
      <4> QED
        BY <4>1, <4>2, OfferFacts
    <3> QED
      BY <2>2, <3>1 DEF Has, OneStart
  <2> QED
    BY <2>1, <2>2
<1>2. queue' = [queue EXCEPT ![r] = new]
  BY DEF SendStop
<1> HIDE DEF new
<1> QED
  BY <1>1, <1>2 DEF TypeOK, NoNewStart

\* Taking a session's first command leaves the other queues alone, and brings no
\* start that was not there.
LEMMA TakeQueues ==
  ASSUME TypeOK, NEW r \in Requests, queue[r] # <<>>,
         queue' = [queue EXCEPT ![r] = Tail(@)]
  PROVE  /\ NoNewStart
         /\ OneStart(queue[r]) /\ Head(queue[r]) = "start" => ~Has(queue'[r], "start")
         /\ Head(queue[r]) = "start" => Has(queue[r], "start")
<1> DEFINE new == Tail(queue[r])
<1>1. /\ 1 \in DOMAIN queue[r] /\ Head(queue[r]) = queue[r][1]
      /\ \A k \in DOMAIN new :
           k \in Nat \ {0} /\ k + 1 \in DOMAIN queue[r] /\ new[k] = queue[r][k + 1]
  BY TakeFacts DEF TypeOK
<1>2. queue' = [queue EXCEPT ![r] = new]
  OBVIOUS
<1> HIDE DEF new
<1>3. /\ Has(new, "start") => Has(queue[r], "start")
      /\ OneStart(queue[r]) => OneStart(new)
  <2>1. Has(new, "start") => Has(queue[r], "start")
    BY <1>1 DEF Has
  <2>2. ASSUME OneStart(queue[r]), NEW j \in DOMAIN new, NEW k \in DOMAIN new,
               new[j] = "start", new[k] = "start"
        PROVE  j = k
    <3>1. j + 1 = k + 1
      BY <1>1, <2>2 DEF OneStart
    <3> QED
      BY <1>1, <3>1
  <2> QED
    BY <2>1, <2>2 DEF OneStart
<1>4. ASSUME OneStart(queue[r]), Head(queue[r]) = "start", NEW k \in DOMAIN new,
             new[k] = "start"
      PROVE  FALSE
  <2>1. k + 1 = 1
    BY <1>1, <1>4 DEF OneStart
  <2> QED
    BY <1>1, <2>1
<1> QED
  BY <1>1, <1>2, <1>3, <1>4 DEF TypeOK, NoNewStart, Has

\* A step that sends and takes nothing keeps what is known of the queues.
LEMMA SameQueues ==
  ASSUME UNCHANGED queue
  PROVE  NoNewStart
  BY DEF NoNewStart

\* What has been published about a request after one more message: that message,
\* and what there was.
LEMMA PublishHas ==
  ASSUME TypeOK, NEW r \in Requests, NEW m \in {"ok", "fail", "status", "stopped"},
         Publish(r, m)
  PROVE  \A q \in Requests : \A x :
           Has(out'[q], x) <=> Has(out[q], x) \/ (q = r /\ x = m)
<1>1. \A x : Has(Append(out[r], m), x) <=> Has(out[r], x) \/ x = m
  <2>1. out[r] \in Outs
    BY DEF TypeOK, Outs
  <2>2. /\ Append(out[r], m) \in Outs
        /\ Len(Append(out[r], m)) = Len(out[r]) + 1
        /\ \A k \in 1 .. Len(out[r]) : Append(out[r], m)[k] = out[r][k]
        /\ Append(out[r], m)[Len(out[r]) + 1] = m
    BY <2>1, AppendProperties DEF Outs
  <2>3. /\ Len(out[r]) \in Nat
        /\ DOMAIN out[r] = 1 .. Len(out[r])
        /\ DOMAIN Append(out[r], m) = 1 .. Len(out[r]) + 1
    BY <2>1, <2>2, LenProperties DEF Outs
  <2> QED
    BY <2>2, <2>3 DEF Has
<1> QED
  BY <1>1 DEF TypeOK, Publish

-----------------------------------------------------------------------------
(* One start command per session *)

\* Every step keeps CommandInv.
LEMMA CommandStep == SessionInv /\ [Next]_vars => CommandInv'
<1> SUFFICES ASSUME SessionInv, [Next]_vars PROVE CommandInv'
  OBVIOUS
<1>0. TypeOK /\ TypeOK'
  BY TypeStep DEF SessionInv
<1> USE DEF SessionInv, serverVars, sessionVars, adapterVars, Goto
<1>1. ASSUME NEW r \in Requests, RefuseDuplicate(r) PROVE CommandInv'
  BY <1>0, <1>1, SameQueues, RequestAssumption
     DEF TypeOK, CommandInv, RefuseDuplicate, NoNewStart, Starting
<1>2. ASSUME NEW r \in Requests, RefuseInvalid(r) PROVE CommandInv'
  BY <1>0, <1>2, SameQueues, RequestAssumption
     DEF TypeOK, CommandInv, RefuseInvalid, NoNewStart, Starting
<1>3. ASSUME NEW r \in Requests, Register(r) PROVE CommandInv'
  BY <1>0, <1>3, SameQueues, RequestAssumption
     DEF TypeOK, CommandInv, Register, NoNewStart, Starting
<1>4. ASSUME NEW r \in Requests, QueueStart(r) PROVE CommandInv'
  <2>1. CASE ~done[r] /\ Len(queue[r]) < QueueCap
    <3>1. queue' = [queue EXCEPT ![r] = Offer(@, "start")]
      BY <1>4, <2>1 DEF QueueStart
    <3>2. ~Has(queue[r], "start") /\ ~startEvent[r] /\ pc[r] \notin {"absent", "refused"}
      BY <1>4 DEF CommandInv, QueueStart
    <3>3. OneStart(Offer(queue[r], "start"))
      <4>1. \A k \in DOMAIN Offer(queue[r], "start") :
              Offer(queue[r], "start")[k] = "start" => k = Len(queue[r]) + 1
        <5>1. queue[r] \in Seq(Commands) /\ Len(queue[r]) <= QueueCap /\ "start" \in Commands
          BY <1>0 DEF TypeOK, Commands
        <5>2. \A k \in DOMAIN queue[r] : Offer(queue[r], "start")[k] = queue[r][k]
          BY <5>1, OfferFacts
        <5>3. \A k \in DOMAIN Offer(queue[r], "start") :
                k \in DOMAIN queue[r] \/ k = Len(queue[r]) + 1
          BY <5>1, OfferFacts
        <5> QED
          BY <3>2, <5>2, <5>3 DEF Has
      <4> QED
        BY <4>1 DEF OneStart
    <3>4. handler' = None /\ UNCHANGED <<pc, startEvent>>
      BY <1>4 DEF QueueStart
    <3> QED
      BY <1>0, <1>4, <3>1, <3>2, <3>3, <3>4, RequestAssumption
         DEF TypeOK, CommandInv, QueueStart, Starting
  <2>2. CASE ~(~done[r] /\ Len(queue[r]) < QueueCap)
    <3>1. NoNewStart
      BY <1>0, <1>4, <2>2, SendStopQueues DEF QueueStart
    <3>2. handler = r /\ handler' = None /\ UNCHANGED <<pc, startEvent>>
      BY <1>4 DEF QueueStart
    <3> QED
      BY <1>0, <3>1, <3>2, RequestAssumption DEF TypeOK, CommandInv, NoNewStart
  <2> QED
    BY <2>1, <2>2
<1>5. ASSUME NEW r \in Requests, TakeStart(r) PROVE CommandInv'
  <2>1. CommandInv
    OBVIOUS
  <2>2. /\ NoNewStart
        /\ Has(queue[r], "start") /\ ~Has(queue'[r], "start")
    BY <1>0, <1>5, <2>1, TakeQueues DEF TakeStart, Ready, CommandInv
  <2>3. /\ pc[r] = "select" /\ ~done[r] /\ handler # r
        /\ pc' = [pc EXCEPT ![r] = "init"]
        /\ startEvent' = [startEvent EXCEPT ![r] = TRUE]
        /\ UNCHANGED <<handler, done, startedOK>>
    BY <1>5, <2>1, <2>2 DEF TakeStart, Ready, CommandInv
  <2> HIDE DEF SessionInv
  <2> QED
    BY <1>0, <2>1, <2>2, <2>3 DEF TypeOK, CommandInv, NoNewStart, Starting
<1>6. ASSUME NEW r \in Requests, TakeStop(r) PROVE CommandInv'
  BY <1>0, <1>6, TakeQueues
     DEF TypeOK, CommandInv, TakeStop, Ready, NoNewStart, Starting
<1>7. ASSUME NEW r \in Requests, LeaveLoop(r) PROVE CommandInv'
  BY <1>0, <1>7, TakeQueues, SameQueues
     DEF TypeOK, CommandInv, LeaveLoop, NoNewStart, Starting
<1>8. ASSUME NEW r \in Requests, Connect(r) PROVE CommandInv'
  BY <1>0, <1>8, SameQueues, RequestAssumption
     DEF TypeOK, CommandInv, Connect, NoNewStart, Starting
<1>9. ASSUME NEW r \in Requests, ConnectFails(r) PROVE CommandInv'
  BY <1>0, <1>9, SameQueues, RequestAssumption
     DEF TypeOK, CommandInv, ConnectFails, NoNewStart, Starting
<1>10. ASSUME NEW r \in Requests, InitSucceeds(r) PROVE CommandInv'
  BY <1>0, <1>10, SameQueues, RequestAssumption
     DEF TypeOK, CommandInv, InitSucceeds, NoNewStart, Starting
<1>11. ASSUME NEW r \in Requests, SubscribeFails(r) PROVE CommandInv'
  BY <1>0, <1>11, SameQueues, RequestAssumption
     DEF TypeOK, CommandInv, SubscribeFails, NoNewStart, Starting
<1>12. ASSUME NEW r \in Requests, FinishInitClose(r) PROVE CommandInv'
  BY <1>0, <1>12, SameQueues, RequestAssumption
     DEF TypeOK, CommandInv, FinishInitClose, NoNewStart, Starting
<1>13. ASSUME NEW r \in Requests, AnswerOK(r) PROVE CommandInv'
  BY <1>0, <1>13, SameQueues, RequestAssumption
     DEF TypeOK, CommandInv, AnswerOK, NoNewStart, Starting
<1>14. ASSUME NEW r \in Requests, AnswerFailed(r) PROVE CommandInv'
  BY <1>0, <1>14, SameQueues, RequestAssumption
     DEF TypeOK, CommandInv, AnswerFailed, NoNewStart, Starting
<1>15. ASSUME NEW r \in Requests, ResetCallbacks(r) PROVE CommandInv'
  BY <1>0, <1>15, SameQueues, RequestAssumption
     DEF TypeOK, CommandInv, ResetCallbacks, NoNewStart, Starting
<1>16. ASSUME NEW r \in Requests, BeginClose(r) PROVE CommandInv'
  BY <1>0, <1>16, SameQueues, RequestAssumption
     DEF TypeOK, CommandInv, BeginClose, NoNewStart, Starting
<1>17. ASSUME NEW r \in Requests, FinishClose(r) PROVE CommandInv'
  BY <1>0, <1>17, SameQueues, RequestAssumption
     DEF TypeOK, CommandInv, FinishClose, NoNewStart, Starting
<1>18. ASSUME NEW r \in Requests, PublishStopped(r) PROVE CommandInv'
  BY <1>0, <1>18, SameQueues, RequestAssumption
     DEF TypeOK, CommandInv, PublishStopped, NoNewStart, Starting
<1>19. ASSUME NEW r \in Requests, Unregister(r) PROVE CommandInv'
  BY <1>0, <1>19, SameQueues, RequestAssumption
     DEF TypeOK, CommandInv, Unregister, NoNewStart, Starting
<1>20. ASSUME NEW r \in Requests, FinishStop(r) PROVE CommandInv'
  BY <1>0, <1>20, SameQueues, RequestAssumption
     DEF TypeOK, CommandInv, FinishStop, NoNewStart, Starting
<1>21. ASSUME NEW r \in Requests, ConnectionLost(r) PROVE CommandInv'
  BY <1>0, <1>21, SendStopQueues, SameQueues
     DEF TypeOK, CommandInv, ConnectionLost, NoNewStart, Starting
<1>22. ASSUME NEW r \in Requests, NEW t \in Threads, ReadFlowChange(r, t) PROVE CommandInv'
  BY <1>0, <1>22, SameQueues, RequestAssumption
     DEF TypeOK, CommandInv, ReadFlowChange, ReadFlow, NoNewStart, Starting
<1>23. ASSUME NEW r \in Requests, NEW t \in Threads, ReadFlowClosed(r, t) PROVE CommandInv'
  BY <1>0, <1>23, SameQueues, RequestAssumption
     DEF TypeOK, CommandInv, ReadFlowClosed, ReadFlow, NoNewStart, Starting
<1>24. ASSUME NEW r \in Requests, NEW t \in Threads, RunFlow(r, t) PROVE CommandInv'
  BY <1>0, <1>24, SendStopQueues, SameQueues
     DEF TypeOK, CommandInv, RunFlow, NoNewStart, Starting
<1>25. ASSUME NEW i \in Ids, HandleStop(i) PROVE CommandInv'
  BY <1>0, <1>25, SendStopQueues, RequestAssumption
     DEF TypeOK, CommandInv, HandleStop, NoNewStart, Starting
<1>26. ASSUME NEW i \in Ids, VisitSession(i) PROVE CommandInv'
  BY <1>0, <1>26, SendStopQueues, RequestAssumption
     DEF TypeOK, CommandInv, VisitSession, NoNewStart, Starting
<1>27. CASE BeginShutdown
  BY <1>0, <1>27, SameQueues, RequestAssumption
     DEF TypeOK, CommandInv, BeginShutdown, NoNewStart, Starting
<1>28. CASE EndRange \/ EndWait \/ Exit
  BY <1>0, <1>28, SameQueues, RequestAssumption
     DEF TypeOK, CommandInv, EndRange, EndWait, Exit, NoNewStart, Starting
<1>29. CASE UNCHANGED vars
  BY <1>0, <1>29, SameQueues, RequestAssumption
     DEF TypeOK, CommandInv, vars, NoNewStart, Starting
<1> QED
  BY <1>1, <1>2, <1>3, <1>4, <1>5, <1>6, <1>7, <1>8, <1>9, <1>10, <1>11, <1>12, <1>13,
     <1>14, <1>15, <1>16, <1>17, <1>18, <1>19, <1>20, <1>21, <1>22, <1>23, <1>24,
     <1>25, <1>26, <1>27, <1>28, <1>29
     DEF Next, ReceiveLoop, Run, Adapter, CloseServer

-----------------------------------------------------------------------------
(* Registration *)

\* Every step keeps RegistryInv.
LEMMA RegistryStep == SessionInv /\ [Next]_vars => RegistryInv'
<1> SUFFICES ASSUME SessionInv, [Next]_vars PROVE RegistryInv'
  OBVIOUS
<1>0. TypeOK /\ TypeOK'
  BY TypeStep DEF SessionInv
<1> USE DEF SessionInv, serverVars, sessionVars, adapterVars, Goto
<1>1. ASSUME NEW r \in Requests, RefuseDuplicate(r) PROVE RegistryInv'
  BY <1>0, <1>1, RequestAssumption
     DEF TypeOK, RegistryInv, RefuseDuplicate
<1>2. ASSUME NEW r \in Requests, RefuseInvalid(r) PROVE RegistryInv'
  BY <1>0, <1>2, RequestAssumption
     DEF TypeOK, RegistryInv, RefuseInvalid
<1>3. ASSUME NEW r \in Requests, Register(r) PROVE RegistryInv'
  BY <1>0, <1>3, RequestAssumption
     DEF TypeOK, RegistryInv, Register
<1>4. ASSUME NEW r \in Requests, QueueStart(r) PROVE RegistryInv'
  BY <1>0, <1>4, RequestAssumption
     DEF TypeOK, RegistryInv, QueueStart
<1>5. ASSUME NEW r \in Requests, TakeStart(r) PROVE RegistryInv'
  BY <1>0, <1>5, RequestAssumption
     DEF TypeOK, RegistryInv, TakeStart, Ready
<1>6. ASSUME NEW r \in Requests, TakeStop(r) PROVE RegistryInv'
  BY <1>0, <1>6, RequestAssumption
     DEF TypeOK, RegistryInv, TakeStop, Ready
<1>7. ASSUME NEW r \in Requests, LeaveLoop(r) PROVE RegistryInv'
  BY <1>0, <1>7, RequestAssumption
     DEF TypeOK, RegistryInv, LeaveLoop
<1>8. ASSUME NEW r \in Requests, Connect(r) PROVE RegistryInv'
  BY <1>0, <1>8, RequestAssumption
     DEF TypeOK, RegistryInv, Connect
<1>9. ASSUME NEW r \in Requests, ConnectFails(r) PROVE RegistryInv'
  BY <1>0, <1>9, RequestAssumption
     DEF TypeOK, RegistryInv, ConnectFails
<1>10. ASSUME NEW r \in Requests, InitSucceeds(r) PROVE RegistryInv'
  BY <1>0, <1>10, RequestAssumption
     DEF TypeOK, RegistryInv, InitSucceeds
<1>11. ASSUME NEW r \in Requests, SubscribeFails(r) PROVE RegistryInv'
  BY <1>0, <1>11, RequestAssumption
     DEF TypeOK, RegistryInv, SubscribeFails
<1>12. ASSUME NEW r \in Requests, FinishInitClose(r) PROVE RegistryInv'
  BY <1>0, <1>12, RequestAssumption
     DEF TypeOK, RegistryInv, FinishInitClose
<1>13. ASSUME NEW r \in Requests, AnswerOK(r) PROVE RegistryInv'
  BY <1>0, <1>13, RequestAssumption
     DEF TypeOK, RegistryInv, AnswerOK
<1>14. ASSUME NEW r \in Requests, AnswerFailed(r) PROVE RegistryInv'
  BY <1>0, <1>14, RequestAssumption
     DEF TypeOK, RegistryInv, AnswerFailed
<1>15. ASSUME NEW r \in Requests, ResetCallbacks(r) PROVE RegistryInv'
  BY <1>0, <1>15, RequestAssumption
     DEF TypeOK, RegistryInv, ResetCallbacks
<1>16. ASSUME NEW r \in Requests, BeginClose(r) PROVE RegistryInv'
  BY <1>0, <1>16, RequestAssumption
     DEF TypeOK, RegistryInv, BeginClose
<1>17. ASSUME NEW r \in Requests, FinishClose(r) PROVE RegistryInv'
  BY <1>0, <1>17, RequestAssumption
     DEF TypeOK, RegistryInv, FinishClose
<1>18. ASSUME NEW r \in Requests, PublishStopped(r) PROVE RegistryInv'
  BY <1>0, <1>18, RequestAssumption
     DEF TypeOK, RegistryInv, PublishStopped
<1>19. ASSUME NEW r \in Requests, Unregister(r) PROVE RegistryInv'
  <2>1. RegistryInv
    OBVIOUS
  <2>2. /\ pc[r] = "unregister" /\ ~done[r] /\ registry[IdOf[r]] = r
        /\ registry' = [registry EXCEPT ![IdOf[r]] = None]
        /\ pc' = [pc EXCEPT ![r] = "finish"]
        /\ UNCHANGED <<done, media>>
    BY <1>19, <2>1 DEF Unregister, RegistryInv
  <2> HIDE DEF SessionInv
  <2>3. ASSUME NEW q \in Requests, q # r
        PROVE  /\ pc'[q] = pc[q]
               /\ registry[IdOf[q]] = q => registry'[IdOf[q]] = q
    <3>1. pc'[q] = pc[q]
      BY <1>0, <2>2, <2>3 DEF TypeOK
    <3>2. ASSUME registry[IdOf[q]] = q PROVE registry'[IdOf[q]] = q
      <4>1. IdOf[q] \in Ids /\ IdOf[q] # IdOf[r]
        BY <2>2, <2>3, <3>2, RequestAssumption
      <4> QED
        BY <1>0, <2>2, <3>2, <4>1 DEF TypeOK
    <3> QED
      BY <3>1, <3>2
  <2>4. pc'[r] = "finish"
    BY <1>0, <2>2 DEF TypeOK
  <2> QED
    BY <2>1, <2>2, <2>3, <2>4 DEF RegistryInv
<1>20. ASSUME NEW r \in Requests, FinishStop(r) PROVE RegistryInv'
  BY <1>0, <1>20, RequestAssumption
     DEF TypeOK, RegistryInv, FinishStop
<1>21. ASSUME NEW r \in Requests, ConnectionLost(r) PROVE RegistryInv'
  BY <1>0, <1>21, RequestAssumption
     DEF TypeOK, RegistryInv, ConnectionLost
<1>22. ASSUME NEW r \in Requests, NEW t \in Threads, ReadFlowChange(r, t) PROVE RegistryInv'
  BY <1>0, <1>22, RequestAssumption
     DEF TypeOK, RegistryInv, ReadFlowChange, ReadFlow
<1>23. ASSUME NEW r \in Requests, NEW t \in Threads, ReadFlowClosed(r, t) PROVE RegistryInv'
  BY <1>0, <1>23, RequestAssumption
     DEF TypeOK, RegistryInv, ReadFlowClosed, ReadFlow
<1>24. ASSUME NEW r \in Requests, NEW t \in Threads, RunFlow(r, t) PROVE RegistryInv'
  BY <1>0, <1>24, RequestAssumption
     DEF TypeOK, RegistryInv, RunFlow
<1>25. ASSUME NEW i \in Ids, HandleStop(i) PROVE RegistryInv'
  BY <1>0, <1>25, RequestAssumption
     DEF TypeOK, RegistryInv, HandleStop
<1>26. ASSUME NEW i \in Ids, VisitSession(i) PROVE RegistryInv'
  BY <1>0, <1>26, RequestAssumption
     DEF TypeOK, RegistryInv, VisitSession
<1>27. CASE BeginShutdown
  BY <1>0, <1>27, RequestAssumption
     DEF TypeOK, RegistryInv, BeginShutdown
<1>28. CASE EndRange \/ EndWait \/ Exit
  BY <1>0, <1>28, RequestAssumption
     DEF TypeOK, RegistryInv, EndRange, EndWait, Exit
<1>29. CASE UNCHANGED vars
  BY <1>0, <1>29, RequestAssumption
     DEF TypeOK, RegistryInv, vars
<1> QED
  BY <1>1, <1>2, <1>3, <1>4, <1>5, <1>6, <1>7, <1>8, <1>9, <1>10, <1>11, <1>12, <1>13,
     <1>14, <1>15, <1>16, <1>17, <1>18, <1>19, <1>20, <1>21, <1>22, <1>23, <1>24,
     <1>25, <1>26, <1>27, <1>28, <1>29
     DEF Next, ReceiveLoop, Run, Adapter, CloseServer

-----------------------------------------------------------------------------
(* Answers *)

\* Every step keeps AnswerInv.
LEMMA AnswerStep == SessionInv /\ [Next]_vars => AnswerInv'
<1> SUFFICES ASSUME SessionInv, [Next]_vars PROVE AnswerInv'
  OBVIOUS
<1>0. TypeOK /\ TypeOK'
  BY TypeStep DEF SessionInv
<1> USE DEF SessionInv, serverVars, sessionVars, adapterVars, Goto
<1>1. ASSUME NEW r \in Requests, RefuseDuplicate(r) PROVE AnswerInv'
  BY <1>0, <1>1, SameQueues, PublishHas
     DEF TypeOK, AnswerInv, RefuseDuplicate, NoNewStart, Starting, CommandInv, RegistryInv
<1>2. ASSUME NEW r \in Requests, RefuseInvalid(r) PROVE AnswerInv'
  BY <1>0, <1>2, SameQueues, PublishHas
     DEF TypeOK, AnswerInv, RefuseInvalid, NoNewStart, Starting, CommandInv, RegistryInv
<1>3. ASSUME NEW r \in Requests, Register(r) PROVE AnswerInv'
  BY <1>0, <1>3, SameQueues, RequestAssumption
     DEF TypeOK, AnswerInv, Register, NoNewStart, Starting, CommandInv, RegistryInv
<1>4. ASSUME NEW r \in Requests, QueueStart(r) PROVE AnswerInv'
  <2>1. /\ handler = r /\ handler' = None
        /\ pc[r] \notin {"absent", "refused"} /\ pc[r] \notin Starting
        /\ ~startedOK[r] /\ ~Has(queue[r], "start")
        /\ ~Has(out[r], "ok") /\ ~Has(out[r], "fail") /\ ~Has(out[r], "stopped")
        /\ UNCHANGED <<pc, done, startEvent, startedOK>>
    BY <1>4 DEF QueueStart, CommandInv, AnswerInv
  <2>2. CASE ~done[r] /\ Len(queue[r]) < QueueCap
    <3>1. UNCHANGED out /\ queue' = [queue EXCEPT ![r] = Offer(@, "start")]
      BY <1>4, <2>2 DEF QueueStart
    <3> QED
      BY <1>0, <2>1, <3>1, RequestAssumption DEF TypeOK, AnswerInv, Starting
  <2>3. CASE ~(~done[r] /\ Len(queue[r]) < QueueCap)
    <3>1. SendStop(r) /\ Publish(r, "fail")
      BY <1>4, <2>3 DEF QueueStart
    <3>2. NoNewStart
      BY <1>0, <3>1, SendStopQueues
    <3>3. \A q \in Requests : \A x : Has(out'[q], x) <=> Has(out[q], x) \/ (q = r /\ x = "fail")
      BY <1>0, <3>1, PublishHas
    <3> HIDE DEF SessionInv
    <3>4. AnswerInv
      BY DEF SessionInv
    <3> QED
      BY <1>0, <2>1, <3>2, <3>3, <3>4, RequestAssumption DEF AnswerInv, NoNewStart, Starting
  <2> QED
    BY <2>2, <2>3
<1>5. ASSUME NEW r \in Requests, TakeStart(r) PROVE AnswerInv'
  <2>1. /\ NoNewStart
        /\ Has(queue[r], "start") /\ ~Has(queue'[r], "start")
    BY <1>0, <1>5, TakeQueues DEF TakeStart, Ready, CommandInv
  <2>2. AnswerInv /\ ~startedOK[r]
    BY <2>1 DEF AnswerInv, CommandInv
  <2>3. /\ pc[r] = "select" /\ ~done[r]
        /\ pc' = [pc EXCEPT ![r] = "init"]
        /\ startEvent' = [startEvent EXCEPT ![r] = TRUE]
        /\ UNCHANGED <<handler, done, startedOK, out>>
    BY <1>5 DEF TakeStart, Ready
  <2> HIDE DEF SessionInv
  <2> QED
    BY <1>0, <2>1, <2>2, <2>3 DEF TypeOK, AnswerInv, NoNewStart, Starting
<1>6. ASSUME NEW r \in Requests, TakeStop(r) PROVE AnswerInv'
  <2>1. AnswerInv /\ NoNewStart
    BY <1>0, <1>6, TakeQueues DEF TakeStop, Ready
  <2>2. /\ pc[r] = "select" /\ ~done[r]
        /\ pc' = [pc EXCEPT ![r] = "reset"]
        /\ UNCHANGED <<handler, done, startEvent, startedOK, out>>
    BY <1>6 DEF TakeStop, Ready
  <2> HIDE DEF SessionInv
  <2>3. \A q \in Requests :
          IF q = r THEN pc[q] = "select" /\ pc'[q] = "reset" ELSE pc'[q] = pc[q]
    BY <1>0, <2>2 DEF TypeOK
  <2>4. \A q \in Requests : Has(queue'[q], "start") => Has(queue[q], "start")
    BY <2>1 DEF NoNewStart
  <2> QED
    BY <2>1, <2>2, <2>3, <2>4 DEF AnswerInv, Starting
<1>7. ASSUME NEW r \in Requests, LeaveLoop(r) PROVE AnswerInv'
  <2>1. AnswerInv /\ NoNewStart
    BY <1>0, <1>7, TakeQueues, SameQueues DEF LeaveLoop
  <2>2. /\ pc[r] = "select" /\ done[r]
        /\ pc' = [pc EXCEPT ![r] = "gone"]
        /\ UNCHANGED <<handler, done, startEvent, startedOK, out>>
    BY <1>7 DEF LeaveLoop
  <2> HIDE DEF SessionInv
  <2>3. \A q \in Requests :
          IF q = r THEN pc[q] = "select" /\ pc'[q] = "gone" ELSE pc'[q] = pc[q]
    BY <1>0, <2>2 DEF TypeOK
  <2>4. \A q \in Requests : Has(queue'[q], "start") => Has(queue[q], "start")
    BY <2>1 DEF NoNewStart
  <2> QED
    BY <2>1, <2>2, <2>3, <2>4 DEF AnswerInv, Starting
<1>8. ASSUME NEW r \in Requests, Connect(r) PROVE AnswerInv'
  BY <1>0, <1>8, SameQueues, RequestAssumption
     DEF TypeOK, AnswerInv, Connect, NoNewStart, Starting, CommandInv, RegistryInv
<1>9. ASSUME NEW r \in Requests, ConnectFails(r) PROVE AnswerInv'
  BY <1>0, <1>9, SameQueues, RequestAssumption
     DEF TypeOK, AnswerInv, ConnectFails, NoNewStart, Starting, CommandInv, RegistryInv
<1>10. ASSUME NEW r \in Requests, InitSucceeds(r) PROVE AnswerInv'
  BY <1>0, <1>10, SameQueues, RequestAssumption
     DEF TypeOK, AnswerInv, InitSucceeds, NoNewStart, Starting, CommandInv, RegistryInv
<1>11. ASSUME NEW r \in Requests, SubscribeFails(r) PROVE AnswerInv'
  BY <1>0, <1>11, SameQueues, RequestAssumption
     DEF TypeOK, AnswerInv, SubscribeFails, NoNewStart, Starting, CommandInv, RegistryInv
<1>12. ASSUME NEW r \in Requests, FinishInitClose(r) PROVE AnswerInv'
  BY <1>0, <1>12, SameQueues, RequestAssumption
     DEF TypeOK, AnswerInv, FinishInitClose, NoNewStart, Starting, CommandInv, RegistryInv
<1>13. ASSUME NEW r \in Requests, AnswerOK(r) PROVE AnswerInv'
  BY <1>0, <1>13, SameQueues, PublishHas
     DEF TypeOK, AnswerInv, AnswerOK, NoNewStart, Starting, CommandInv, RegistryInv
<1>14. ASSUME NEW r \in Requests, AnswerFailed(r) PROVE AnswerInv'
  BY <1>0, <1>14, SameQueues, PublishHas
     DEF TypeOK, AnswerInv, AnswerFailed, NoNewStart, Starting, CommandInv, RegistryInv
<1>15. ASSUME NEW r \in Requests, ResetCallbacks(r) PROVE AnswerInv'
  BY <1>0, <1>15, SameQueues, RequestAssumption
     DEF TypeOK, AnswerInv, ResetCallbacks, NoNewStart, Starting, CommandInv, RegistryInv
<1>16. ASSUME NEW r \in Requests, BeginClose(r) PROVE AnswerInv'
  BY <1>0, <1>16, SameQueues, RequestAssumption
     DEF TypeOK, AnswerInv, BeginClose, NoNewStart, Starting, CommandInv, RegistryInv
<1>17. ASSUME NEW r \in Requests, FinishClose(r) PROVE AnswerInv'
  BY <1>0, <1>17, SameQueues, RequestAssumption
     DEF TypeOK, AnswerInv, FinishClose, NoNewStart, Starting, CommandInv, RegistryInv
<1>18. ASSUME NEW r \in Requests, PublishStopped(r) PROVE AnswerInv'
  BY <1>0, <1>18, SameQueues, PublishHas
     DEF TypeOK, AnswerInv, PublishStopped, NoNewStart, Starting, CommandInv, RegistryInv
<1>19. ASSUME NEW r \in Requests, Unregister(r) PROVE AnswerInv'
  BY <1>0, <1>19, SameQueues, RequestAssumption
     DEF TypeOK, AnswerInv, Unregister, NoNewStart, Starting, CommandInv, RegistryInv
<1>20. ASSUME NEW r \in Requests, FinishStop(r) PROVE AnswerInv'
  BY <1>0, <1>20, SameQueues, RequestAssumption
     DEF TypeOK, AnswerInv, FinishStop, NoNewStart, Starting, CommandInv, RegistryInv
<1>21. ASSUME NEW r \in Requests, ConnectionLost(r) PROVE AnswerInv'
  BY <1>0, <1>21, SendStopQueues
     DEF TypeOK, AnswerInv, ConnectionLost, NoNewStart, Starting
<1>22. ASSUME NEW r \in Requests, NEW t \in Threads, ReadFlowChange(r, t) PROVE AnswerInv'
  BY <1>0, <1>22, SameQueues, RequestAssumption
     DEF TypeOK, AnswerInv, ReadFlowChange, ReadFlow, NoNewStart, Starting, CommandInv, RegistryInv
<1>23. ASSUME NEW r \in Requests, NEW t \in Threads, ReadFlowClosed(r, t) PROVE AnswerInv'
  BY <1>0, <1>23, SameQueues, RequestAssumption
     DEF TypeOK, AnswerInv, ReadFlowClosed, ReadFlow, NoNewStart, Starting, CommandInv, RegistryInv
<1>24. ASSUME NEW r \in Requests, NEW t \in Threads, RunFlow(r, t) PROVE AnswerInv'
  <2>1. NoNewStart
    BY <1>0, <1>24, SendStopQueues, SameQueues DEF RunFlow
  <2>2. \A q \in Requests : \A x : x # "status" => (Has(out'[q], x) <=> Has(out[q], x))
    <3>1. CASE Publish(r, "status")
      BY <1>0, <3>1, PublishHas
    <3>2. CASE UNCHANGED out
      BY <3>2
    <3> QED
      BY <1>24, <3>1, <3>2 DEF RunFlow
  <2>3. AnswerInv /\ UNCHANGED <<handler, pc, done, startEvent, startedOK>>
    BY <1>24 DEF RunFlow
  <2> HIDE DEF SessionInv
  <2> QED
    BY <2>1, <2>2, <2>3 DEF AnswerInv, NoNewStart, Starting
<1>25. ASSUME NEW i \in Ids, HandleStop(i) PROVE AnswerInv'
  BY <1>0, <1>25, SendStopQueues, RequestAssumption
     DEF TypeOK, AnswerInv, HandleStop, NoNewStart, Starting
<1>26. ASSUME NEW i \in Ids, VisitSession(i) PROVE AnswerInv'
  BY <1>0, <1>26, SendStopQueues, RequestAssumption
     DEF TypeOK, AnswerInv, VisitSession, NoNewStart, Starting
<1>27. CASE BeginShutdown
  BY <1>0, <1>27, SameQueues, RequestAssumption
     DEF TypeOK, AnswerInv, BeginShutdown, NoNewStart, Starting, CommandInv, RegistryInv
<1>28. CASE EndRange \/ EndWait \/ Exit
  BY <1>0, <1>28, SameQueues, RequestAssumption
     DEF TypeOK, AnswerInv, EndRange, EndWait, Exit, NoNewStart, Starting, CommandInv, RegistryInv
<1>29. CASE UNCHANGED vars
  BY <1>0, <1>29, SameQueues, RequestAssumption
     DEF TypeOK, AnswerInv, vars, NoNewStart, Starting, CommandInv, RegistryInv
<1> QED
  BY <1>1, <1>2, <1>3, <1>4, <1>5, <1>6, <1>7, <1>8, <1>9, <1>10, <1>11, <1>12, <1>13,
     <1>14, <1>15, <1>16, <1>17, <1>18, <1>19, <1>20, <1>21, <1>22, <1>23, <1>24,
     <1>25, <1>26, <1>27, <1>28, <1>29
     DEF Next, ReceiveLoop, Run, Adapter, CloseServer

-----------------------------------------------------------------------------
(* Callbacks under way *)

\* Every step keeps FlowInv.
LEMMA FlowStep == SessionInv /\ [Next]_vars => FlowInv'
<1> SUFFICES ASSUME SessionInv, [Next]_vars PROVE FlowInv'
  OBVIOUS
<1>0. TypeOK /\ TypeOK'
  BY TypeStep DEF SessionInv
<1> USE DEF SessionInv, serverVars, sessionVars, adapterVars, Goto
<1>1. ASSUME NEW r \in Requests, RefuseDuplicate(r) PROVE FlowInv'
  BY <1>0, <1>1, PublishHas
     DEF TypeOK, FlowInv, RefuseDuplicate, InFlight, Starting, CommandInv, RegistryInv, AnswerInv
<1>2. ASSUME NEW r \in Requests, RefuseInvalid(r) PROVE FlowInv'
  BY <1>0, <1>2, PublishHas
     DEF TypeOK, FlowInv, RefuseInvalid, InFlight, Starting, CommandInv, RegistryInv, AnswerInv
<1>3. ASSUME NEW r \in Requests, Register(r) PROVE FlowInv'
  BY <1>0, <1>3
     DEF TypeOK, FlowInv, Register, InFlight, Starting, CommandInv, RegistryInv, AnswerInv
<1>4. ASSUME NEW r \in Requests, QueueStart(r) PROVE FlowInv'
  BY <1>0, <1>4, PublishHas
     DEF TypeOK, FlowInv, QueueStart, InFlight, Starting, CommandInv, RegistryInv, AnswerInv
<1>5. ASSUME NEW r \in Requests, TakeStart(r) PROVE FlowInv'
  <2>1. Has(queue[r], "start")
    BY <1>0, <1>5, TakeQueues DEF TakeStart, Ready
  <2>2. ~Has(out[r], "fail") /\ ~startEvent[r] /\ ~InFlight(r) /\ ~done[r]
    BY <1>5, <2>1 DEF AnswerInv, CommandInv, FlowInv, TakeStart, Ready
  <2> QED
    BY <1>0, <1>5, <2>2 DEF TypeOK, FlowInv, TakeStart, InFlight
<1>6. ASSUME NEW r \in Requests, TakeStop(r) PROVE FlowInv'
  BY <1>0, <1>6, TakeQueues
     DEF TypeOK, FlowInv, TakeStop, Ready, InFlight, Starting, CommandInv, RegistryInv, AnswerInv
<1>7. ASSUME NEW r \in Requests, LeaveLoop(r) PROVE FlowInv'
  BY <1>0, <1>7
     DEF TypeOK, FlowInv, LeaveLoop, InFlight, Starting, CommandInv, RegistryInv, AnswerInv
<1>8. ASSUME NEW r \in Requests, Connect(r) PROVE FlowInv'
  BY <1>0, <1>8
     DEF TypeOK, FlowInv, Connect, InFlight, Starting, CommandInv, RegistryInv, AnswerInv
<1>9. ASSUME NEW r \in Requests, ConnectFails(r) PROVE FlowInv'
  BY <1>0, <1>9
     DEF TypeOK, FlowInv, ConnectFails, InFlight, Starting, CommandInv, RegistryInv, AnswerInv
<1>10. ASSUME NEW r \in Requests, InitSucceeds(r) PROVE FlowInv'
  BY <1>0, <1>10
     DEF TypeOK, FlowInv, InitSucceeds, InFlight, Starting, CommandInv, RegistryInv, AnswerInv
<1>11. ASSUME NEW r \in Requests, SubscribeFails(r) PROVE FlowInv'
  BY <1>0, <1>11
     DEF TypeOK, FlowInv, SubscribeFails, InFlight, Starting, CommandInv, RegistryInv, AnswerInv
<1>12. ASSUME NEW r \in Requests, FinishInitClose(r) PROVE FlowInv'
  BY <1>0, <1>12
     DEF TypeOK, FlowInv, FinishInitClose, InFlight, Starting, CommandInv, RegistryInv, AnswerInv
<1>13. ASSUME NEW r \in Requests, AnswerOK(r) PROVE FlowInv'
  BY <1>0, <1>13, PublishHas
     DEF TypeOK, FlowInv, AnswerOK, InFlight, Starting, CommandInv, RegistryInv, AnswerInv
<1>14. ASSUME NEW r \in Requests, AnswerFailed(r) PROVE FlowInv'
  BY <1>0, <1>14, PublishHas
     DEF TypeOK, FlowInv, AnswerFailed, InFlight, Starting, CommandInv, RegistryInv, AnswerInv
<1>15. ASSUME NEW r \in Requests, ResetCallbacks(r) PROVE FlowInv'
  BY <1>0, <1>15
     DEF TypeOK, FlowInv, ResetCallbacks, InFlight, Starting, CommandInv, RegistryInv, AnswerInv
<1>16. ASSUME NEW r \in Requests, BeginClose(r) PROVE FlowInv'
  <2>1. /\ \A q \in Requests \ {r} : flowStopped'[q] = flowStopped[q]
        /\ r \in LiveKit => flowStopped'[r]
        /\ flowStopped[r] => flowStopped'[r]
    BY <1>0, <1>16 DEF TypeOK, BeginClose
  <2>2. \A q \in Requests : InFlight(q)' <=> InFlight(q)
    BY <1>16 DEF BeginClose, InFlight
  <2> QED
    BY <1>0, <1>16, <2>1, <2>2 DEF TypeOK, FlowInv, BeginClose
<1>17. ASSUME NEW r \in Requests, FinishClose(r) PROVE FlowInv'
  <2>1. \A q \in Requests : InFlight(q)' <=> InFlight(q)
    BY <1>17 DEF FinishClose, InFlight
  <2> QED
    BY <1>0, <1>17, <2>1 DEF TypeOK, FlowInv, FinishClose, FlowDrained
<1>18. ASSUME NEW r \in Requests, PublishStopped(r) PROVE FlowInv'
  BY <1>0, <1>18, PublishHas
     DEF TypeOK, FlowInv, PublishStopped, InFlight, Starting, CommandInv, RegistryInv, AnswerInv
<1>19. ASSUME NEW r \in Requests, Unregister(r) PROVE FlowInv'
  BY <1>0, <1>19
     DEF TypeOK, FlowInv, Unregister, InFlight, Starting, CommandInv, RegistryInv, AnswerInv
<1>20. ASSUME NEW r \in Requests, FinishStop(r) PROVE FlowInv'
  BY <1>0, <1>20
     DEF TypeOK, FlowInv, FinishStop, InFlight, Starting, CommandInv, RegistryInv, AnswerInv
<1>21. ASSUME NEW r \in Requests, ConnectionLost(r) PROVE FlowInv'
  BY <1>0, <1>21
     DEF TypeOK, FlowInv, ConnectionLost, InFlight, Starting, CommandInv, RegistryInv, AnswerInv
<1>22. ASSUME NEW r \in Requests, NEW t \in Threads, ReadFlowChange(r, t) PROVE FlowInv'
  BY <1>0, <1>22
     DEF TypeOK, FlowInv, ReadFlowChange, ReadFlow, InFlight, Starting, CommandInv, RegistryInv, AnswerInv
<1>23. ASSUME NEW r \in Requests, NEW t \in Threads, ReadFlowClosed(r, t) PROVE FlowInv'
  BY <1>0, <1>23
     DEF TypeOK, FlowInv, ReadFlowClosed, ReadFlow, InFlight, Starting, CommandInv, RegistryInv, AnswerInv
<1>24. ASSUME NEW r \in Requests, NEW t \in Threads, RunFlow(r, t) PROVE FlowInv'
  BY <1>0, <1>24, PublishHas
     DEF TypeOK, FlowInv, RunFlow, InFlight, Starting, CommandInv, RegistryInv, AnswerInv
<1>25. ASSUME NEW i \in Ids, HandleStop(i) PROVE FlowInv'
  BY <1>0, <1>25
     DEF TypeOK, FlowInv, HandleStop, InFlight, Starting, CommandInv, RegistryInv, AnswerInv
<1>26. ASSUME NEW i \in Ids, VisitSession(i) PROVE FlowInv'
  BY <1>0, <1>26
     DEF TypeOK, FlowInv, VisitSession, InFlight, Starting, CommandInv, RegistryInv, AnswerInv
<1>27. CASE BeginShutdown
  BY <1>0, <1>27
     DEF TypeOK, FlowInv, BeginShutdown, InFlight, Starting, CommandInv, RegistryInv, AnswerInv
<1>28. CASE EndRange \/ EndWait \/ Exit
  BY <1>0, <1>28
     DEF TypeOK, FlowInv, EndRange, EndWait, Exit, InFlight, Starting, CommandInv, RegistryInv, AnswerInv
<1>29. CASE UNCHANGED vars
  BY <1>0, <1>29
     DEF TypeOK, FlowInv, vars, InFlight, Starting, CommandInv, RegistryInv, AnswerInv
<1> QED
  BY <1>1, <1>2, <1>3, <1>4, <1>5, <1>6, <1>7, <1>8, <1>9, <1>10, <1>11, <1>12, <1>13,
     <1>14, <1>15, <1>16, <1>17, <1>18, <1>19, <1>20, <1>21, <1>22, <1>23, <1>24,
     <1>25, <1>26, <1>27, <1>28, <1>29
     DEF Next, ReceiveLoop, Run, Adapter, CloseServer

-----------------------------------------------------------------------------
(* The theorems *)

\* The invariant holds before the first message.
LEMMA InitInv == Init => SessionInv
<1> SUFFICES ASSUME Init PROVE SessionInv
  OBVIOUS
<1>1. TypeOK
  BY RequestAssumption, QueueAssumption DEF Init, TypeOK, PcValues
<1>2. CommandInv /\ RegistryInv /\ AnswerInv /\ FlowInv
  BY RequestAssumption
     DEF Init, CommandInv, RegistryInv, AnswerInv, FlowInv, OneStart, Has, Starting, InFlight
<1> QED
  BY <1>1, <1>2 DEF SessionInv

\* SessionInv: where a session's Run is, what is queued for it, what was
\* published about it and which callbacks are under way agree in every state.
THEOREM SessionInvariant == Spec => []SessionInv
<1>1. SessionInv /\ [Next]_vars => SessionInv'
  BY TypeStep, CommandStep, RegistryStep, AnswerStep, FlowStep DEF SessionInv
<1> QED
  BY <1>1, InitInv, PTL DEF Spec

\* A full command queue holds a stop, for any capacity of two or more: a stop
\* refused because the queue is full (session.go:125) is never a lost stop.
THEOREM RefusedStopIsQueued == Spec => []FullQueueHoldsStop
<1>1. SessionInv => FullQueueHoldsStop
  <2> SUFFICES ASSUME SessionInv, NEW r \in Requests, Len(queue[r]) = QueueCap
               PROVE  Has(queue[r], "stop")
    BY DEF FullQueueHoldsStop
  <2>1. queue[r] \in Seq(Commands) /\ OneStart(queue[r])
    BY DEF SessionInv, TypeOK, CommandInv
  <2>2. DOMAIN queue[r] = 1 .. QueueCap
    BY <2>1, LenProperties
  <2>3. 1 \in DOMAIN queue[r] /\ 2 \in DOMAIN queue[r]
    BY <2>2, QueueAssumption
  <2>4. queue[r][1] \in Commands /\ queue[r][2] \in Commands
    BY <2>1, <2>3, ElementOfSeq, LenProperties
  <2>5. queue[r][1] # "start" \/ queue[r][2] # "start"
    BY <2>1, <2>3 DEF OneStart
  <2> QED
    BY <2>3, <2>4, <2>5 DEF Has, Commands
<1> QED
  BY <1>1, SessionInvariant, PTL

\* A session whose Run still works is registered under its id: stopRecording
\* and Server.Close always find it, and CloseSession (server.go:236) never
\* removes another session's entry.
THEOREM NoOrphanedSession == Spec => []RunningIsRegistered
<1>1. SessionInv => RunningIsRegistered
  BY DEF SessionInv, RegistryInv, RunningIsRegistered
<1> QED
  BY <1>1, SessionInvariant, PTL

\* Two sessions of one id never have their recorders open at once.
THEOREM ExclusiveRecording == Spec => []OneOpenRecordingPerId
<1>1. SessionInv => OneOpenRecordingPerId
  <2> SUFFICES ASSUME SessionInv,
                      NEW q \in Requests, NEW r \in Requests, IdOf[q] = IdOf[r],
                      q \in Running, r \in Running,
                      media[q] # "closed", media[r] # "closed"
               PROVE  q = r
    BY DEF OneOpenRecordingPerId
  <2>1. registry[IdOf[q]] = q
    BY DEF SessionInv, RegistryInv, Running
  <2>2. registry[IdOf[r]] = r
    BY DEF SessionInv, RegistryInv, Running
  <2> QED
    BY <2>1, <2>2
<1> QED
  BY <1>1, SessionInvariant, PTL

\* From its "ok" response to its recordingStopped, a recording is listed.
THEOREM LiveRecordingIsListed == Spec => []LiveIsListed
<1>1. SessionInv => LiveIsListed
  BY DEF SessionInv, AnswerInv, RegistryInv, LiveIsListed, Listed
<1> QED
  BY <1>1, SessionInvariant, PTL

-----------------------------------------------------------------------------
(* The refinement of ClientProtocol *)

\* The protocol and the server mean the same by a published message.
LEMMA SameHas == \A s, m : P!Has(s, m) <=> Has(s, m)
  BY DEF P!Has, Has

\* A published message is one the protocol allows.
LEMMA ProtocolStep == SessionInv /\ [Next]_vars => [P!ProtocolNext]_out
<1> SUFFICES ASSUME SessionInv, [Next]_vars PROVE P!ProtocolNext \/ UNCHANGED out
  OBVIOUS
<1> USE DEF serverVars, sessionVars, adapterVars
<1>1. ASSUME NEW r \in Requests, AnswerOK(r) PROVE P!ProtocolNext
  <2>1. ~Has(out[r], "ok") /\ ~Has(out[r], "fail") /\ registry[IdOf[r]] = r
    BY <1>1 DEF SessionInv, AnswerInv, RegistryInv, AnswerOK, Starting
  <2>2. ASSUME NEW q \in Requests, q # r, IdOf[q] = IdOf[r]
        PROVE  ~(Has(out[q], "ok") /\ ~Has(out[q], "stopped"))
    BY <2>1, <2>2 DEF SessionInv, AnswerInv, RegistryInv
  <2>3. P!Accept(r)
    BY <1>1, <2>1, <2>2, SameHas DEF P!Accept, P!Answered, P!Live, P!Publish, AnswerOK, Publish
  <2> QED
    BY <2>3 DEF P!ProtocolNext
<1>2. ASSUME NEW r \in Requests, ~Has(out[r], "ok"), ~Has(out[r], "fail"), Publish(r, "fail")
      PROVE  P!ProtocolNext
  BY <1>2, SameHas DEF P!Refuse, P!Answered, P!Publish, P!ProtocolNext, Publish
<1>3. ASSUME NEW r \in Requests, AnswerFailed(r) PROVE P!ProtocolNext
  BY <1>2, <1>3 DEF SessionInv, AnswerInv, AnswerFailed, Starting
<1>4. ASSUME NEW r \in Requests, RefuseDuplicate(r) \/ RefuseInvalid(r) PROVE P!ProtocolNext
  BY <1>2, <1>4 DEF SessionInv, AnswerInv, RefuseDuplicate, RefuseInvalid
<1>5. ASSUME NEW r \in Requests, QueueStart(r) PROVE P!ProtocolNext \/ UNCHANGED out
  BY <1>2, <1>5 DEF SessionInv, AnswerInv, QueueStart
<1>6. ASSUME NEW r \in Requests, PublishStopped(r) PROVE P!ProtocolNext \/ UNCHANGED out
  <2>1. CASE startedOK[r]
    <3>1. Has(out[r], "ok") /\ ~Has(out[r], "stopped")
      BY <1>6, <2>1 DEF SessionInv, AnswerInv, PublishStopped
    <3>2. P!Stopped(r)
      BY <1>6, <2>1, <3>1, SameHas DEF P!Stopped, P!Live, P!Publish, PublishStopped, Publish
    <3> QED
      BY <3>2 DEF P!ProtocolNext
  <2>2. CASE ~startedOK[r]
    BY <1>6, <2>2 DEF PublishStopped
  <2> QED
    BY <2>1, <2>2
<1>7. ASSUME NEW r \in Requests, NEW t \in Threads, RunFlow(r, t)
      PROVE  P!ProtocolNext \/ UNCHANGED out
  <2>1. CASE flight[r][t] = "status"
    <3>1. InFlight(r)
      BY <1>7 DEF RunFlow, InFlight
    <3>2. ~Has(out[r], "fail")
      BY <3>1 DEF SessionInv, FlowInv
    <3>3. r \in LiveKit => ~Has(out[r], "stopped")
      BY <3>1 DEF SessionInv, FlowInv, AnswerInv, RegistryInv, TypeOK
    <3>4. P!Status(r)
      BY <1>7, <2>1, <3>2, <3>3, SameHas DEF P!Status, P!Publish, RunFlow, Publish
    <3> QED
      BY <3>4 DEF P!ProtocolNext
  <2>2. CASE flight[r][t] # "status"
    BY <1>7, <2>2 DEF RunFlow
  <2> QED
    BY <2>1, <2>2
<1>8. ASSUME NEW r \in Requests,
             \/ Register(r) \/ TakeStart(r) \/ TakeStop(r)
             \/ LeaveLoop(r) \/ Connect(r) \/ ConnectFails(r)
             \/ InitSucceeds(r) \/ SubscribeFails(r) \/ FinishInitClose(r)
             \/ ResetCallbacks(r) \/ BeginClose(r) \/ FinishClose(r)
             \/ Unregister(r) \/ FinishStop(r) \/ ConnectionLost(r)
      PROVE  UNCHANGED out
  BY <1>8 DEF Register, TakeStart, TakeStop, LeaveLoop, Connect,
            ConnectFails, InitSucceeds, SubscribeFails, FinishInitClose, ResetCallbacks,
            BeginClose, FinishClose, Unregister, FinishStop, ConnectionLost
<1>9. ASSUME NEW r \in Requests, NEW t \in Threads, ReadFlowChange(r, t) \/ ReadFlowClosed(r, t)
      PROVE  UNCHANGED out
  BY <1>9 DEF ReadFlowChange, ReadFlowClosed, ReadFlow
<1>10. ASSUME NEW i \in Ids, HandleStop(i) \/ VisitSession(i) PROVE UNCHANGED out
  BY <1>10 DEF HandleStop, VisitSession
<1>11. CASE BeginShutdown \/ EndRange \/ EndWait \/ Exit \/ UNCHANGED vars
  BY <1>11 DEF BeginShutdown, EndRange, EndWait, Exit, vars
<1> QED
  BY <1>1, <1>3, <1>4, <1>5, <1>6, <1>7, <1>8, <1>9, <1>10, <1>11
     DEF Next, ReceiveLoop, Run, Adapter, CloseServer

\* Sessions and server together keep the protocol their client relies on, for
\* every mix of ids and adapters, with requests and stops at any time, lost
\* connections, failed starts and the shutdown.
THEOREM ServerImplementsProtocol == Spec => ImplementsProtocol
<1>1. Init => P!ProtocolInit
  BY DEF Init, P!ProtocolInit
<1> QED
  BY <1>1, ProtocolStep, SessionInvariant, PTL DEF Spec, ImplementsProtocol, P!Protocol
=============================================================================
