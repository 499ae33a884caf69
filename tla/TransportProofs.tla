-------------------------- MODULE TransportProofs ---------------------------
(***************************************************************************)
(* Theorems about the other two transports: the in-memory connection       *)
(* (MemoryPipe), the mock engine that is served over it, and the socket    *)
(* connection, for any number of engines, clients, senders and calls.      *)
(*                                                                         *)
(* With one receiver the in-memory connection loses no wake-up, whatever   *)
(* is cancelled and in whichever order the ends are closed.  With two      *)
(* receivers it may: two Sends leave one notification.                     *)
(***************************************************************************)
EXTENDS MemoryEngine, SocketConn, SequenceTheorems, TLAPS

(* One goroutine receives at a time, as recvMu of internal/app/conn.go     *)
(* sees to.                                                                *)
OneReceiver == \A q, r \in Receivers : q = r

(* The receiver can have missed a payload only while the notification for  *)
(* it is still in the channel.                                             *)
PipeInv == TypeOK /\ WaiterIsWoken

(* Every step keeps the types.                                             *)
LEMMA TypeStep == TypeOK /\ [Next]_vars => TypeOK'
<1> SUFFICES ASSUME TypeOK, [Next]_vars PROVE TypeOK'
  OBVIOUS
<1>1. ASSUME NEW s \in Senders, SendBegin(s) PROVE TypeOK'
  BY <1>1 DEF SendBegin, TypeOK
<1>2. ASSUME NEW s \in Senders, SendPush(s) PROVE TypeOK'
  <2>1. inbound' \in Seq(Senders)
    BY <1>2 DEF SendPush, TypeOK
  <2> QED BY <1>2, <2>1 DEF SendPush, Notified, TypeOK
<1>3. ASSUME NEW r \in Receivers, RecvCall(r) PROVE TypeOK'
  BY <1>3 DEF RecvCall, TypeOK
<1>4. ASSUME NEW r \in Receivers, RecvCheck(r) PROVE TypeOK'
  <2>1. inbound' \in Seq(Senders) /\ got' \in Senders \cup {NoPayload}
    <3>1. CASE inbound # << >>
      <4>1. Head(inbound) \in Senders /\ Tail(inbound) \in Seq(Senders)
        BY <3>1, HeadTailProperties DEF TypeOK
      <4> QED BY <1>4, <4>1 DEF RecvCheck, NextPayload, TypeOK
    <3>2. CASE inbound = << >>
      BY <1>4, <3>2 DEF RecvCheck, TypeOK
    <3> QED BY <3>1, <3>2
  <2> QED BY <1>4, <2>1 DEF RecvCheck, TypeOK
<1>5. ASSUME NEW r \in Receivers, RecvWake(r) PROVE TypeOK'
  BY <1>5 DEF RecvWake, TypeOK
<1>6. ASSUME NEW r \in Receivers, RecvCancelled(r) PROVE TypeOK'
  BY <1>6 DEF RecvCancelled, TypeOK
<1>7. ASSUME NEW e \in Ends, CloseOwn(e) \/ ClosePeer(e) PROVE TypeOK'
  <2>1. Peer(e) \in Ends
    BY DEF Ends, Peer
  <2>2. CASE CloseOwn(e)
    BY <1>7, <2>2 DEF CloseOwn, TypeOK
  <2>3. CASE ClosePeer(e)
    BY <1>7, <2>1, <2>3 DEF ClosePeer, TypeOK
  <2> QED BY <1>7, <2>2, <2>3
<1>8. CASE UNCHANGED vars
  BY <1>8 DEF vars, TypeOK
<1> QED BY <1>1, <1>2, <1>3, <1>4, <1>5, <1>6, <1>7, <1>8 DEF Next, Recv

(* Every step preserves the invariant when there is one receiver.          *)
LEMMA WakeStep ==
  ASSUME OneReceiver PROVE PipeInv /\ [Next]_vars => PipeInv'
<1> SUFFICES ASSUME PipeInv, [Next]_vars PROVE WaiterIsWoken'
  BY TypeStep DEF PipeInv
<1>1. ASSUME NEW s \in Senders, SendBegin(s) PROVE WaiterIsWoken'
  BY <1>1 DEF SendBegin, PipeInv, WaiterIsWoken
<1>2. ASSUME NEW s \in Senders, SendPush(s) PROVE WaiterIsWoken'
  BY <1>2 DEF SendPush, Notified, PipeInv, WaiterIsWoken
<1>3. ASSUME NEW r \in Receivers, RecvCall(r) PROVE WaiterIsWoken'
  BY <1>3, OneReceiver DEF OneReceiver, RecvCall, PipeInv, TypeOK, WaiterIsWoken
<1>4. ASSUME NEW r \in Receivers, RecvCheck(r) PROVE WaiterIsWoken'
  BY <1>4, OneReceiver DEF OneReceiver, RecvCheck, PipeInv, TypeOK, WaiterIsWoken
<1>5. ASSUME NEW r \in Receivers, RecvWake(r) PROVE WaiterIsWoken'
  BY <1>5, OneReceiver DEF OneReceiver, RecvWake, PipeInv, TypeOK, WaiterIsWoken
<1>6. ASSUME NEW r \in Receivers, RecvCancelled(r) PROVE WaiterIsWoken'
  BY <1>6, OneReceiver DEF OneReceiver, RecvCancelled, PipeInv, TypeOK, WaiterIsWoken
<1>7. ASSUME NEW e \in Ends, CloseOwn(e) \/ ClosePeer(e) PROVE WaiterIsWoken'
  BY <1>7 DEF CloseOwn, ClosePeer, PipeInv, WaiterIsWoken
<1>8. CASE UNCHANGED vars
  BY <1>8 DEF vars, PipeInv, WaiterIsWoken
<1> QED BY <1>1, <1>2, <1>3, <1>4, <1>5, <1>6, <1>7, <1>8 DEF Next, Recv

(* No wake-up is lost while one goroutine receives: a blocked Recv with a  *)
(* queued payload has a notification to come (memory/conn.go, Recv         *)
(* releases the mutex before it waits).                                    *)
THEOREM OneReceiverIsWoken ==
  ASSUME OneReceiver PROVE Spec => []WaiterIsWoken
<1>1. Init => PipeInv
  BY DEF Init, PipeInv, TypeOK, WaiterIsWoken
<1>2. PipeInv => WaiterIsWoken
  BY DEF PipeInv
<1>3. PipeInv /\ [Next]_vars => PipeInv'
  BY WakeStep
<1> QED BY <1>1, <1>2, <1>3, PTL DEF Spec

(* Every step of the pipe is a Put, a Get or leaves queue and result as    *)
(* they are.                                                               *)
LEMMA PipeStepIsQueueStep == [Next]_vars => [Q!Next]_<<inbound, got>>
<1> SUFFICES ASSUME [Next]_vars PROVE [Q!Next]_<<inbound, got>>
  OBVIOUS
<1>1. ASSUME NEW s \in Senders, SendPush(s) PROVE [Q!Next]_<<inbound, got>>
  BY <1>1 DEF SendPush, Q!Next, Q!Put
<1>2. ASSUME NEW r \in Receivers, RecvCheck(r) PROVE [Q!Next]_<<inbound, got>>
  BY <1>2 DEF RecvCheck, NextPayload, Q!Next, Q!Get
<1>3. CASE UNCHANGED <<inbound, got>>
  BY <1>3
<1> QED BY <1>1, <1>2, <1>3 DEF Next, vars, Recv, SendBegin, RecvCall, RecvWake, RecvCancelled,
                                CloseOwn, ClosePeer

(* The in-memory connection implements a message queue: for any number of  *)
(* senders and receivers, whatever is cancelled and whichever end closes,  *)
(* one Send is at most one Recv and payloads come out whole and in order   *)
(* (memory/conn.go, Send and Recv; transport.go, EngineConn).              *)
THEOREM PipeImplementsQueue == Spec => PipeIsQueue
<1>1. Init => Q!Init
  BY DEF Init, Q!Init
<1> QED BY <1>1, PipeStepIsQueueStep, PTL DEF Spec, PipeIsQueue, Q!Spec

-----------------------------------------------------------------------------

(* Every step of the composition is a step of Main's pipe, or leaves it    *)
(* alone (memory/conn.go is used only through Send, Recv and Close).       *)
LEMMA EngineStepIsPipeStep == [EngineNext]_allVars => [Next]_vars
<1> SUFFICES ASSUME [EngineNext]_allVars PROVE [Next]_vars
  OBVIOUS
<1>1. ASSUME NEW c \in Clients, DialLookup(c) \/ DialQueue(c) \/ ClientCloses(c)
      PROVE  [Next]_vars
  BY <1>1 DEF DialLookup, DialQueue, ClientCloses, Next, Ends
<1>2. ASSUME NEW e \in Engines, Listen(e) \/ DownFlag(e) \/ ListenerClose(e) \/ Unregister(e)
      PROVE  [Next]_vars
  BY <1>2 DEF Listen, DownFlag, ListenerClose, Unregister
<1>3. ASSUME NEW c, EngineCloses(c) PROVE [Next]_vars
  BY <1>3 DEF EngineCloses, Next, Ends
<1>4. ASSUME NEW e \in Engines, acceptLoop(e) PROVE [Next]_vars
  BY <1>3, <1>4 DEF acceptLoop, AcceptCheck, AcceptWake, Serve, Register
<1>5. ASSUME NEW e \in Engines, DownClose(e) PROVE [Next]_vars
  BY <1>3, <1>5 DEF DownClose
<1>6. ASSUME NEW e \in Engines, NEW c \in Clients, HandlerHangsUp(e, c) \/ HandlerExits(e, c)
      PROVE  [Next]_vars
  BY <1>3, <1>6 DEF HandlerHangsUp, HandlerExits
<1>7. ASSUME NEW s \in Senders, ClientSends(s) PROVE [Next]_vars
  BY <1>7 DEF ClientSends, Next
<1>8. ASSUME NEW r \in Receivers, HandlerRecvs(r) PROVE [Next]_vars
  BY <1>8 DEF HandlerRecvs, Next
<1>9. ASSUME NEW e \in Ends, CloseGoesOn(e) PROVE [Next]_vars
  BY <1>9 DEF CloseGoesOn, Next
<1>10. CASE UNCHANGED allVars
  BY <1>10 DEF allVars
<1> QED
  BY <1>1, <1>2, <1>4, <1>5, <1>6, <1>7, <1>8, <1>9, <1>10 DEF EngineNext, SetEngineDown

(* The pipe inside the composition behaves as the pipe alone.              *)
LEMMA EngineSpecIsPipeSpec == EngineSpec => Spec
<1>1. EngineInit => Init
  BY DEF EngineInit
<1> QED BY <1>1, EngineStepIsPipeStep, PTL DEF Spec, EngineSpec

(* The engine's handler is never left blocked on a queued frame: the       *)
(* composition inherits it from the pipe, whose one receiver the handler   *)
(* is (mock/serve.go, handleConn; memory/conn.go, Recv).                   *)
THEOREM HandlerIsWoken ==
  ASSUME OneReceiver PROVE EngineSpec => []WaiterIsWoken
<1> QED BY EngineSpecIsPipeSpec, OneReceiverIsWoken, PTL

(* What the handler receives is what the clients sent, in order: the       *)
(* composition inherits the refinement (mock/serve.go, handleConn).        *)
THEOREM EngineReadsQueue == EngineSpec => PipeIsQueue
BY EngineSpecIsPipeSpec, PipeImplementsQueue, PTL

-----------------------------------------------------------------------------
(* The state that closing depends on has its types.                        *)
EngineTypes ==
  /\ registry \in Engines \cup {None}
  /\ life \in [Engines -> {"new", "up", "flagged", "shut", "unregistered", "down"}]
  /\ pending \in [Engines -> Seq(Clients)]
  /\ loop \in [Engines -> LoopStates \cup Clients]
  /\ conns \in [Engines -> SUBSET Clients]
  /\ doomed \in [Engines -> SUBSET Clients]
  /\ dial \in [Clients -> {"idle", "dial", "refused", "connected"}]
  /\ via \in [Clients -> Engines \cup {None}]

(* A connection on its way to a handler is a dialed one of that engine.    *)
OnItsWay ==
  /\ \A c \in Clients : dial[c] = "dial" => via[c] \in Engines
  /\ \A e \in Engines : \A i \in 1 .. Len(pending[e]) :
       dial[pending[e][i]] = "connected" /\ via[pending[e][i]] = e
  /\ \A e \in Engines : loop[e] \in Clients =>
       dial[loop[e]] = "connected" /\ via[loop[e]] = e
  /\ \A c \in served : c \in Clients /\ dial[c] = "connected"

(* Closing one end of Main leads to closing the other.                     *)
CloseInv ==
  /\ \A x \in Ends : closer[x] # "idle" => closed[x]
  /\ closed["b"] => closed["a"] \/ closer["b"] = "own"

(* A served connection that is open is in conns while the engine is up,    *)
(* and in what SetEngineDown has still to close afterwards.                *)
ServedInv ==
  \A c \in served, e \in Engines : via[c] = e =>
    /\ life[e] \in {"new", "up"} => c \in conns[e] \/ ~IsOpen(c)
    /\ life[e] \in {"flagged", "shut", "unregistered"} => c \in doomed[e] \/ ~IsOpen(c)
    /\ life[e] = "down" => ~IsOpen(c) /\ (c = Main => closed["a"])

EngineInv == TypeOK /\ EngineTypes /\ OnItsWay /\ CloseInv /\ ServedInv

(* What a step of the pipe does to the two ends: they only close.          *)
LEMMA PipeStepCloses == [Next]_vars /\ TypeOK /\ CloseInv =>
                          /\ CloseInv'
                          /\ \A x \in Ends : closed[x] => closed'[x]
<1> SUFFICES ASSUME [Next]_vars, TypeOK, CloseInv
             PROVE  CloseInv' /\ \A x \in Ends : closed[x] => closed'[x]
  OBVIOUS
<1>1. CASE UNCHANGED <<closed, closer>>
  BY <1>1 DEF CloseInv
<1>2. ASSUME NEW x \in Ends, CloseOwn(x)
      PROVE  CloseInv' /\ \A y \in Ends : closed[y] => closed'[y]
  BY <1>2 DEF CloseOwn, CloseInv, TypeOK, Ends
<1>3. ASSUME NEW x \in Ends, ClosePeer(x)
      PROVE  CloseInv' /\ \A y \in Ends : closed[y] => closed'[y]
  BY <1>3 DEF ClosePeer, CloseInv, TypeOK, Ends, Peer
<1>4. CASE UNCHANGED vars
  BY <1>1, <1>4 DEF vars
<1> QED
  BY <1>1, <1>2, <1>3, <1>4
     DEF Next, SendBegin, SendPush, RecvCall, Recv, RecvCheck, RecvWake, RecvCancelled

(* Every step of the composition preserves the invariant.                  *)
LEMMA EngineInvStep == EngineInv /\ [EngineNext]_allVars => EngineInv'
<1> SUFFICES ASSUME EngineInv, [EngineNext]_allVars PROVE EngineInv'
  OBVIOUS
<1> DEFINE Rest == EngineTypes /\ OnItsWay /\ ServedInv
<1>1. EngineTypes /\ OnItsWay /\ ServedInv /\ CloseInv /\ TypeOK
  BY DEF EngineInv
<1>2. /\ TypeOK' /\ CloseInv'
      /\ closed["a"] => closed'["a"]
      /\ closed["b"] => closed'["b"]
  BY <1>1, EngineStepIsPipeStep, TypeStep, PipeStepCloses DEF Ends
<1>3. ASSUME UNCHANGED <<life, conns, doomed, served>>,
             \A c \in served : via'[c] = via[c] /\ (IsOpen(c)' => IsOpen(c))
      PROVE  ServedInv'
  BY <1>1, <1>2, <1>3 DEF ServedInv
<1>4. UNCHANGED live => \A c : IsOpen(c)' => IsOpen(c)
  BY <1>2 DEF IsOpen
<1>5. ASSUME NEW c, EngineCloses(c) PROVE \A d : IsOpen(d)' => IsOpen(d) /\ d # c
  BY <1>1, <1>2, <1>5 DEF EngineCloses, IsOpen, Ends, CloseOwn, TypeOK, CloseInv
<1>6. ASSUME NEW c \in Clients, DialLookup(c) PROVE Rest'
  <2>1. EngineTypes'
    BY <1>1, <1>6 DEF DialLookup, listenVars, downVars, EngineTypes
  <2>2. OnItsWay'
    BY <1>1, <1>6 DEF DialLookup, listenVars, downVars, EngineTypes, OnItsWay
  <2>3. ServedInv'
    BY <1>1, <1>3, <1>4, <1>6 DEF DialLookup, downVars, EngineTypes, OnItsWay
  <2> QED BY <2>1, <2>2, <2>3
<1>7. ASSUME NEW c \in Clients, DialQueue(c) PROVE Rest'
  <2> DEFINE l == via[c]
  <2>1. /\ dial[c] = "dial" /\ l \in Engines /\ pending[l] \in Seq(Clients)
        /\ UNCHANGED <<registry, life, doomed, loop, conns, via, served>>
    BY <1>1, <1>7 DEF DialQueue, downVars, OnItsWay, EngineTypes
  <2>2. ServedInv'
    <3>1. \A d \in served : via'[d] = via[d] /\ (IsOpen(d)' => IsOpen(d))
      BY <1>1, <1>2, <1>7 DEF DialQueue, IsOpen, OnItsWay
    <3> QED BY <1>3, <2>1, <3>1
  <2>3. CASE dial' = [dial EXCEPT ![c] = "refused"] /\ UNCHANGED pending
    <3>1. EngineTypes'
      BY <1>1, <2>1, <2>3 DEF EngineTypes
    <3>2. OnItsWay'
      BY <1>1, <2>1, <2>3 DEF EngineTypes, OnItsWay
    <3> QED BY <2>2, <3>1, <3>2
  <2>4. CASE /\ dial' = [dial EXCEPT ![c] = "connected"]
             /\ pending' = [pending EXCEPT ![l] = Append(@, c)]
    <3>1. Append(pending[l], c) \in Seq(Clients)
      BY <2>1
    <3>2. EngineTypes'
      BY <1>1, <2>1, <2>4, <3>1 DEF EngineTypes
    <3>3. \A e \in Engines : \A i \in 1 .. Len(pending'[e]) :
            \/ pending'[e][i] = c /\ e = l
            \/ i \in 1 .. Len(pending[e]) /\ pending'[e][i] = pending[e][i]
      BY <1>1, <2>1, <2>4 DEF EngineTypes
    <3>4. \A d : dial[d] = "connected" => dial'[d] = "connected"
      BY <1>1, <2>4 DEF EngineTypes
    <3>5. dial'[c] = "connected"
      BY <1>1, <2>4 DEF EngineTypes
    <3>6. \A e \in Engines : \A i \in 1 .. Len(pending'[e]) :
            dial'[pending'[e][i]] = "connected" /\ via[pending'[e][i]] = e
      BY <1>1, <3>3, <3>4, <3>5 DEF OnItsWay
    <3>7. OnItsWay'
      BY <1>1, <2>1, <2>4, <3>4, <3>6 DEF EngineTypes, OnItsWay
    <3> QED BY <2>2, <3>2, <3>7
  <2> QED BY <1>7, <2>3, <2>4 DEF DialQueue
<1>8. ASSUME NEW c \in Clients, ClientCloses(c) PROVE Rest'
  <2>1. \A d : IsOpen(d)' => IsOpen(d)
    BY <1>2, <1>8 DEF ClientCloses, IsOpen
  <2>2. EngineTypes' /\ OnItsWay'
    BY <1>1, <1>8 DEF ClientCloses, downVars, listenVars, dialVars, EngineTypes, OnItsWay
  <2> QED BY <1>3, <1>8, <2>1, <2>2 DEF ClientCloses, downVars, dialVars
<1>9. ASSUME NEW e \in Engines, Listen(e) PROVE Rest'
  <2>1. EngineTypes'
    BY <1>1, <1>9, EngineAssumption DEF Listen, dialVars, EngineTypes, LoopStates
  <2>2. OnItsWay'
    BY <1>1, <1>9, EngineAssumption DEF Listen, dialVars, EngineTypes, OnItsWay, LoopStates
  <2>3. ServedInv'
    BY <1>1, <1>2, <1>4, <1>9 DEF Listen, dialVars, EngineTypes, ServedInv
  <2> QED BY <2>1, <2>2, <2>3
<1>10. ASSUME NEW e \in Engines, AcceptCheck(e) PROVE Rest'
  <2>1. EngineTypes'
    <3>1. pending[e] # << >> => Head(pending[e]) \in Clients /\ Tail(pending[e]) \in Seq(Clients)
      BY <1>1 DEF EngineTypes
    <3>2. /\ pending' \in [Engines -> Seq(Clients)]
          /\ loop' \in [Engines -> LoopStates \cup Clients]
      BY <1>1, <1>10, <3>1 DEF AcceptCheck, EngineTypes, LoopStates
    <3> QED BY <1>1, <1>10, <3>2 DEF AcceptCheck, downVars, dialVars, EngineTypes
  <2>2. \A d \in Engines : \A i \in 1 .. Len(pending'[d]) : \E k \in 1 .. Len(pending[d]) :
          pending'[d][i] = pending[d][k]
    <3> SUFFICES ASSUME NEW d \in Engines, NEW i \in 1 .. Len(pending'[d])
                 PROVE  \E k \in 1 .. Len(pending[d]) : pending'[d][i] = pending[d][k]
      OBVIOUS
    <3>1. CASE pending'[d] = pending[d]
      BY <3>1
    <3>2. CASE pending[d] # << >> /\ pending'[d] = Tail(pending[d])
      <4>1. pending[d] \in Seq(Clients)
        BY <1>1 DEF EngineTypes
      <4>2. i + 1 \in 1 .. Len(pending[d]) /\ pending'[d][i] = pending[d][i + 1]
        BY <3>2, <4>1
      <4> QED BY <4>2
    <3> QED BY <1>1, <1>10, <3>1, <3>2 DEF AcceptCheck, EngineTypes
  <2>3. \A d \in Engines : loop'[d] \in Clients =>
          loop'[d] = loop[d] \/ (Len(pending[d]) > 0 /\ loop'[d] = pending[d][1])
    BY <1>1, <1>10, EngineAssumption DEF AcceptCheck, EngineTypes, LoopStates
  <2>4. OnItsWay'
    <3>1. \A d \in Engines : \A i \in 1 .. Len(pending'[d]) :
            dial[pending'[d][i]] = "connected" /\ via[pending'[d][i]] = d
      BY <1>1, <2>2 DEF OnItsWay
    <3>2. \A d \in Engines : pending[d] \in Seq(Clients)
      BY <1>1 DEF EngineTypes
    <3>3. \A d \in Engines : loop'[d] \in Clients =>
            dial[loop'[d]] = "connected" /\ via[loop'[d]] = d
      BY <1>1, <2>3, <3>2 DEF OnItsWay
    <3> QED BY <1>1, <1>10, <3>1, <3>3 DEF AcceptCheck, dialVars, OnItsWay
  <2>5. ServedInv'
    BY <1>3, <1>4, <1>10 DEF AcceptCheck, dialVars, downVars
  <2> QED BY <2>1, <2>4, <2>5
<1>11. ASSUME NEW e \in Engines, AcceptWake(e) PROVE Rest'
  <2>1. EngineTypes'
    BY <1>1, <1>11, EngineAssumption DEF AcceptWake, dialVars, downVars, EngineTypes, LoopStates
  <2>2. OnItsWay'
    BY <1>1, <1>11, EngineAssumption DEF AcceptWake, dialVars, downVars, EngineTypes,
                                            OnItsWay, LoopStates
  <2>3. ServedInv'
    BY <1>1, <1>3, <1>4, <1>11 DEF AcceptWake, dialVars, downVars, OnItsWay
  <2> QED BY <2>1, <2>2, <2>3
<1>12. ASSUME NEW e \in Engines, Serve(e) PROVE Rest'
  <2>1. UNCHANGED <<registry, life, doomed, pending, dial, via>>
    BY <1>12 DEF Serve, dialVars, downVars
  <2>2. CASE life[e] = "up"
    <3>1. /\ loop[e] \in Clients /\ UNCHANGED live
          /\ conns' = [conns EXCEPT ![e] = @ \cup {loop[e]}]
          /\ served' = served \cup {loop[e]}
          /\ loop' = [loop EXCEPT ![e] = "check"]
      BY <1>12, <2>2 DEF Serve, Register
    <3>2. EngineTypes'
      BY <1>1, <2>1, <3>1 DEF EngineTypes, LoopStates
    <3>3. OnItsWay'
      BY <1>1, <2>1, <3>1, EngineAssumption DEF EngineTypes, OnItsWay, LoopStates
    <3>4. dial[loop[e]] = "connected" /\ via[loop[e]] = e
      BY <1>1, <3>1 DEF OnItsWay
    <3>5. ServedInv'
      BY <1>1, <1>2, <1>4, <2>1, <2>2, <3>1, <3>4 DEF EngineTypes, ServedInv
    <3> QED BY <3>2, <3>3, <3>5
  <2>3. CASE life[e] # "up"
    <3>1. /\ EngineCloses(loop[e]) /\ loop' = [loop EXCEPT ![e] = "ended"]
          /\ UNCHANGED <<conns, served>>
      BY <1>12, <2>3 DEF Serve
    <3>2. EngineTypes'
      BY <1>1, <2>1, <3>1 DEF EngineTypes, LoopStates
    <3>3. OnItsWay'
      BY <1>1, <2>1, <3>1, EngineAssumption DEF EngineTypes, OnItsWay, LoopStates
    <3>4. ServedInv'
      BY <1>3, <1>5, <2>1, <3>1
    <3> QED BY <3>2, <3>3, <3>4
  <2> QED BY <2>2, <2>3
<1>13. ASSUME NEW e \in Engines, DownFlag(e) PROVE Rest'
  <2>1. EngineTypes'
    BY <1>1, <1>13 DEF DownFlag, listenVars, dialVars, EngineTypes
  <2>2. OnItsWay'
    BY <1>1, <1>13 DEF DownFlag, listenVars, dialVars, EngineTypes, OnItsWay
  <2>3. ServedInv'
    BY <1>1, <1>2, <1>4, <1>13 DEF DownFlag, dialVars, EngineTypes, ServedInv
  <2> QED BY <2>1, <2>2, <2>3
<1>14. ASSUME NEW e \in Engines, ListenerClose(e) \/ Unregister(e) PROVE Rest'
  <2>1. EngineTypes'
    BY <1>1, <1>14 DEF ListenerClose, Unregister, listenVars, dialVars, EngineTypes
  <2>2. OnItsWay'
    BY <1>1, <1>14 DEF ListenerClose, Unregister, listenVars, dialVars, EngineTypes, OnItsWay
  <2>3. ServedInv'
    BY <1>1, <1>2, <1>4, <1>14 DEF ListenerClose, Unregister, dialVars, EngineTypes, ServedInv
  <2> QED BY <2>1, <2>2, <2>3
<1>15. ASSUME NEW e \in Engines, DownClose(e) PROVE Rest'
  <2>1. UNCHANGED <<registry, pending, loop, conns, dial, via, served>> /\ life[e] = "unregistered"
    BY <1>15 DEF DownClose, listenVars, dialVars
  <2>2. OnItsWay'
    BY <1>1, <2>1 DEF OnItsWay
  <2>3. CASE /\ doomed[e] = {} /\ life' = [life EXCEPT ![e] = "down"]
             /\ UNCHANGED <<vars, doomed, live>>
    <3>1. closed["b"] => closed["a"]
      BY <1>1, <1>15 DEF DownClose, CloseInv
    <3>2. EngineTypes'
      BY <1>1, <2>1, <2>3 DEF EngineTypes
    <3>3. \A c : IsOpen(c)' = IsOpen(c) /\ UNCHANGED closed
      BY <2>3 DEF IsOpen, vars
    <3>4. \A c \in served : via[c] = e => ~IsOpen(c) /\ (c = Main => closed["a"])
      BY <1>1, <2>1, <2>3, <3>1 DEF ServedInv, IsOpen
    <3>5. ServedInv'
      BY <1>1, <2>1, <2>3, <3>3, <3>4 DEF EngineTypes, ServedInv
    <3> QED BY <2>2, <3>2, <3>5
  <2>4. ASSUME NEW c \in doomed[e], doomed' = [doomed EXCEPT ![e] = @ \ {c}], EngineCloses(c),
               UNCHANGED life
        PROVE  Rest'
    <3>1. EngineTypes'
      BY <1>1, <2>1, <2>4 DEF EngineTypes
    <3>2. ServedInv'
      BY <1>1, <1>2, <1>5, <2>1, <2>4 DEF EngineTypes, ServedInv
    <3> QED BY <2>2, <3>1, <3>2
  <2> QED BY <1>15, <2>3, <2>4 DEF DownClose
<1>16. ASSUME NEW e \in Engines, NEW c \in Clients, HandlerHangsUp(e, c) PROVE Rest'
  <2>1. EngineTypes' /\ OnItsWay'
    BY <1>1, <1>16 DEF HandlerHangsUp, downVars, listenVars, dialVars, EngineTypes, OnItsWay
  <2> QED BY <1>3, <1>5, <1>16, <2>1 DEF HandlerHangsUp, downVars, dialVars
<1>17. ASSUME NEW e \in Engines, NEW c \in Clients, HandlerExits(e, c) PROVE Rest'
  <2>1. EngineTypes'
    BY <1>1, <1>17 DEF HandlerExits, downVars, listenVars, dialVars, EngineTypes
  <2>2. OnItsWay'
    BY <1>1, <1>17 DEF HandlerExits, downVars, listenVars, dialVars, EngineTypes, OnItsWay
  <2>3. ServedInv'
    BY <1>1, <1>2, <1>4, <1>17 DEF HandlerExits, Between, downVars, dialVars, EngineTypes, ServedInv
  <2> QED BY <2>1, <2>2, <2>3
<1>18. ASSUME UNCHANGED engineVars PROVE Rest'
  <2>1. UNCHANGED <<registry, life, doomed, pending, loop, conns, dial, via, live, served>>
    BY <1>18 DEF engineVars, downVars, listenVars, dialVars
  <2>2. EngineTypes' /\ OnItsWay'
    BY <1>1, <2>1 DEF EngineTypes, OnItsWay
  <2> QED BY <1>3, <1>4, <2>1, <2>2
<1>19. Rest'
  <2> HIDE DEF Rest
  <2>1. ASSUME NEW c \in Clients, DialLookup(c) \/ DialQueue(c) \/ ClientCloses(c) PROVE Rest'
    BY <1>6, <1>7, <1>8, <2>1
  <2>2. ASSUME NEW e \in Engines, Listen(e) \/ acceptLoop(e) \/ DownFlag(e) \/ SetEngineDown(e)
        PROVE  Rest'
    BY <1>9, <1>10, <1>11, <1>12, <1>13, <1>14, <1>15, <2>2 DEF acceptLoop, SetEngineDown
  <2>3. ASSUME NEW e \in Engines, NEW c \in Clients, HandlerHangsUp(e, c) \/ HandlerExits(e, c)
        PROVE  Rest'
    BY <1>16, <1>17, <2>3
  <2>4. CASE \/ \E t \in Senders : ClientSends(t)
             \/ \E r \in Receivers : HandlerRecvs(r)
             \/ \E e \in Ends : CloseGoesOn(e)
             \/ UNCHANGED allVars
    <3>1. UNCHANGED engineVars
      BY <2>4 DEF ClientSends, HandlerRecvs, CloseGoesOn, allVars
    <3> QED BY <1>18, <3>1
  <2> QED BY <2>1, <2>2, <2>3, <2>4 DEF EngineNext
<1> QED BY <1>2, <1>19 DEF EngineInv

(* SetEngineDown leaves no served connection open, for any number of       *)
(* clients and engines and any order of dials, accepts, hang-ups and       *)
(* handler exits (mock/engine.go, SetEngineDown and acceptLoop).           *)
THEOREM DownEngineServesNobody == EngineSpec => []NoServedConnEscapes
<1>1. EngineInit => EngineInv
  <2> SUFFICES ASSUME EngineInit PROVE EngineInv
    OBVIOUS
  <2>1. TypeOK /\ CloseInv
    BY DEF EngineInit, Init, TypeOK, CloseInv, Ends
  <2>2. EngineTypes
    BY DEF EngineInit, EngineTypes, LoopStates
  <2>3. OnItsWay /\ ServedInv
    BY EngineAssumption DEF EngineInit, OnItsWay, ServedInv, LoopStates
  <2> QED BY <2>1, <2>2, <2>3 DEF EngineInv
<1>2. EngineInv => NoServedConnEscapes
  BY DEF EngineInv, ServedInv, NoServedConnEscapes, IsOpen
<1> QED BY <1>1, <1>2, EngineInvStep, PTL DEF EngineSpec

-----------------------------------------------------------------------------
(***************************************************************************)
(* The socket connection: the mutex, the watchdogs and the frames.         *)
(***************************************************************************)
SocketPlaces ==
  {"idle", "lock", "deadline", "unlock", "clear", "stop", "done"} \cup Framing

SocketTypeOK ==
  /\ pc \in [Calls -> SocketPlaces]
  /\ watchdog \in [Calls -> {"off", "armed", "started", "ran", "stopped"}]
  /\ mutex \in Calls \cup {NoCall}
  /\ deadline \in Calls \cup {NoCall, "past"}
  /\ moved \in Nat /\ room \in Nat
  /\ connClosed \in BOOLEAN /\ torn \in BOOLEAN

(* The mutex is held from the watchdog's start to the unlock, and by one   *)
(* call at a time.                                                         *)
Inside == {"deadline", "unlock"} \cup Framing
MutexInv == \A c \in Calls : pc[c] \in Inside <=> mutex = c

(* A call that has not armed its watchdog has none.                        *)
WatchdogInv ==
  /\ \A c \in Calls : pc[c] \in {"idle", "lock"} => watchdog[c] = "off"
  /\ WatchdogEndsWithCall

(* Between two frames a multiple of three units has moved, and within a    *)
(* frame what has moved of it comes on top.                                *)
Half == \E c \in Calls : pc[c] = "half"
Rest == \E c \in Calls : pc[c] = "payload"
FrameInv == ~torn => moved % 3 = (IF Half THEN 1 ELSE IF Rest THEN 2 ELSE 0)

(* The inductive invariant.                                                *)
SocketInv == SocketTypeOK /\ MutexInv /\ WatchdogInv /\ FrameInv

(* A fresh connection satisfies it.                                        *)
LEMMA SocketInitInv == SocketInit => SocketInv
<1> SUFFICES ASSUME SocketInit PROVE SocketInv
  OBVIOUS
<1>1. connClosed \in BOOLEAN /\ torn \in BOOLEAN
  BY Zenon DEF SocketInit
<1>2. SocketTypeOK
  BY <1>1 DEF SocketInit, SocketTypeOK, SocketPlaces, Framing
<1>3. MutexInv /\ WatchdogInv /\ FrameInv
  BY SocketAssumption
     DEF SocketInit, MutexInv, Inside, Framing, WatchdogInv, WatchdogEndsWithCall, FrameInv,
         Half, Rest
<1> QED BY <1>2, <1>3 DEF SocketInv

(* Before the mutex is taken.                                              *)
LEMMA BeginStep ==
  ASSUME SocketInv, NEW c \in Calls, Begin(c)
  PROVE  SocketInv'
<1>1. /\ pc[c] = "idle"
      /\ \E p \in {"lock", "done"} : pc' = [pc EXCEPT ![c] = p]
      /\ UNCHANGED <<watchdog, mutex, deadline, moved, room, connClosed, torn>>
  BY DEF Begin, Return, Goto
<1>2. SocketTypeOK'
  BY <1>1 DEF SocketInv, SocketTypeOK, SocketPlaces, Framing
<1>3. MutexInv' /\ WatchdogInv'
  BY <1>1 DEF SocketInv, SocketTypeOK, MutexInv, Inside, Framing, WatchdogInv, WatchdogEndsWithCall
<1>4. (Half' <=> Half) /\ (Rest' <=> Rest)
  BY <1>1 DEF SocketInv, SocketTypeOK, Half, Rest
<1> QED BY <1>1, <1>2, <1>3, <1>4 DEF SocketInv, FrameInv

(* The mutex is free, so nobody is inside; a call that finds the           *)
(* connection closed or its context done leaves without it.                *)
LEMMA LockStep ==
  ASSUME SocketInv, NEW c \in Calls, Lock(c)
  PROVE  SocketInv'
<1>1. /\ pc[c] = "lock" /\ mutex = NoCall /\ c # NoCall
      /\ \/ pc' = [pc EXCEPT ![c] = "done"] /\ UNCHANGED <<mutex, watchdog>>
         \/ /\ pc' = [pc EXCEPT ![c] = "deadline"] /\ mutex' = c
            /\ watchdog' = [watchdog EXCEPT ![c] = "armed"]
      /\ UNCHANGED <<deadline, moved, room, connClosed, torn>>
  BY SocketAssumption DEF Lock, MutexFree, Return, Goto
<1>2. SocketTypeOK'
  BY <1>1 DEF SocketInv, SocketTypeOK, SocketPlaces, Framing
<1>3. MutexInv'
  BY <1>1, SocketAssumption DEF SocketInv, SocketTypeOK, MutexInv, Inside, Framing
<1>4. WatchdogInv'
  BY <1>1 DEF SocketInv, SocketTypeOK, WatchdogInv, WatchdogEndsWithCall
<1>5. (Half' <=> Half) /\ (Rest' <=> Rest)
  BY <1>1 DEF SocketInv, SocketTypeOK, Half, Rest
<1> QED BY <1>1, <1>2, <1>3, <1>4, <1>5 DEF SocketInv, FrameInv

(* With the mutex, before and between the units of a frame.                *)
LEMMA SetDeadlineStep ==
  ASSUME SocketInv, NEW c \in Calls, SetDeadline(c)
  PROVE  SocketInv'
<1>1. /\ pc[c] = "deadline"
      /\ \E p \in {"header", "unlock"} : pc' = [pc EXCEPT ![c] = p]
      /\ deadline' \in {deadline, c}
      /\ UNCHANGED <<watchdog, mutex, moved, room, connClosed, torn>>
  BY DEF SetDeadline, Return, Goto
<1>2. SocketTypeOK'
  BY <1>1 DEF SocketInv, SocketTypeOK, SocketPlaces, Framing
<1>3. MutexInv' /\ WatchdogInv'
  BY <1>1 DEF SocketInv, SocketTypeOK, MutexInv, Inside, Framing, WatchdogInv, WatchdogEndsWithCall
<1>4. (Half' <=> Half) /\ (Rest' <=> Rest)
  BY <1>1 DEF SocketInv, SocketTypeOK, Half, Rest
<1> QED BY <1>1, <1>2, <1>3, <1>4 DEF SocketInv, FrameInv

(* Whoever moves the header finds nobody inside a frame, and whoever moves *)
(* the payload leaves nobody there.                                        *)
LEMMA MoveStep ==
  ASSUME SocketInv, NEW c \in Calls, Move(c)
  PROVE  SocketInv'
<1>1. /\ pc[c] \in Framing /\ room > 0
      /\ moved' = moved + 1 /\ room' = room - 1
      /\ \/ pc[c] = "header" /\ pc' = [pc EXCEPT ![c] = "half"]
         \/ pc[c] = "half" /\ pc' = [pc EXCEPT ![c] = "payload"]
         \/ pc[c] = "payload" /\ pc' = [pc EXCEPT ![c] = "unlock"]
      /\ UNCHANGED <<watchdog, mutex, deadline, connClosed, torn>>
  BY DEF Move, Framing, Return, Goto
<1>2. SocketTypeOK'
  BY <1>1 DEF SocketInv, SocketTypeOK, SocketPlaces, Framing
<1>3. MutexInv' /\ WatchdogInv'
  BY <1>1 DEF SocketInv, SocketTypeOK, MutexInv, Inside, Framing, WatchdogInv, WatchdogEndsWithCall
<1>4. \A d \in Calls : d # c => pc[d] \notin Framing
  BY <1>1 DEF SocketInv, MutexInv, Inside, Framing
<1>5. /\ (Half <=> pc[c] = "half") /\ (Rest <=> pc[c] = "payload")
      /\ (Half' <=> pc[c] = "header") /\ (Rest' <=> pc[c] = "half")
  BY <1>1, <1>4 DEF SocketInv, SocketTypeOK, Half, Rest, Framing
<1>6. FrameInv'
  <2>1. moved \in Nat /\ moved' = moved + 1 /\ torn' = torn
    BY <1>1 DEF SocketInv, SocketTypeOK
  <2> QED BY <1>1, <1>5, <2>1 DEF SocketInv, FrameInv
<1> QED BY <1>2, <1>3, <1>6 DEF SocketInv

(* A call that fails inside its frame tears it.                            *)
LEMMA FailsStep ==
  ASSUME SocketInv, NEW c \in Calls, MoveFails(c) \/ PeerFails(c) \/ Refuse(c)
  PROVE  SocketInv'
<1>0. PICK why : pc[c] \in Framing /\ Fails(c, why)
  BY DEF MoveFails, PeerFails, Refuse, Framing
<1>1. /\ pc[c] \in Framing
      /\ pc' = [pc EXCEPT ![c] = "unlock"]
      /\ UNCHANGED <<watchdog, mutex, deadline, moved, room, connClosed>>
  BY <1>0 DEF Fails, Return, Goto
<1>2. torn' \in BOOLEAN /\ (torn' <=> torn \/ pc[c] # "header")
  BY <1>0, Zenon DEF Fails
<1>3. SocketTypeOK'
  BY <1>1, <1>2 DEF SocketInv, SocketTypeOK, SocketPlaces, Framing
<1>4. MutexInv' /\ WatchdogInv'
  BY <1>1 DEF SocketInv, SocketTypeOK, MutexInv, Inside, Framing, WatchdogInv, WatchdogEndsWithCall
<1>5. ~torn' => (Half' <=> Half) /\ (Rest' <=> Rest)
  BY <1>1, <1>2 DEF SocketInv, SocketTypeOK, Half, Rest
<1> QED BY <1>1, <1>2, <1>3, <1>4, <1>5 DEF SocketInv, FrameInv

(* The deferred functions: unlock, clear the deadline, stop the watchdog.  *)
LEMMA DeferredStep ==
  ASSUME SocketInv, NEW c \in Calls, Unlock(c) \/ ClearDeadline(c) \/ StopWatchdog(c)
  PROVE  SocketInv'
<1>1. CASE Unlock(c)
  <2>1. /\ pc[c] = "unlock" /\ pc' = [pc EXCEPT ![c] = "clear"] /\ mutex' = NoCall
        /\ UNCHANGED <<watchdog, deadline, moved, room, connClosed, torn>>
    BY <1>1 DEF Unlock, Goto
  <2>2. SocketTypeOK'
    BY <2>1 DEF SocketInv, SocketTypeOK, SocketPlaces, Framing
  <2>3. MutexInv' /\ WatchdogInv'
    BY <2>1, SocketAssumption
       DEF SocketInv, SocketTypeOK, MutexInv, Inside, Framing, WatchdogInv, WatchdogEndsWithCall
  <2>4. (Half' <=> Half) /\ (Rest' <=> Rest)
    BY <2>1 DEF SocketInv, SocketTypeOK, Half, Rest
  <2> QED BY <2>1, <2>2, <2>3, <2>4 DEF SocketInv, FrameInv
<1>2. CASE ClearDeadline(c) \/ StopWatchdog(c)
  <2>1. /\ UNCHANGED <<mutex, moved, room, connClosed, torn>>
        /\ deadline' \in {deadline, NoCall}
        /\ \/ /\ pc[c] = "clear" /\ pc' = [pc EXCEPT ![c] = "stop"]
              /\ watchdog' = watchdog
           \/ /\ pc[c] = "stop" /\ pc' = [pc EXCEPT ![c] = "done"]
              /\ watchdog[c] # "started"
              /\ watchdog' = [watchdog EXCEPT ![c] = IF @ = "armed" THEN "stopped" ELSE @]
    BY <1>2 DEF ClearDeadline, StopWatchdog, Goto
  <2>2. SocketTypeOK'
    BY <2>1 DEF SocketInv, SocketTypeOK, SocketPlaces, Framing
  <2>3. MutexInv' /\ WatchdogInv'
    BY <2>1
       DEF SocketInv, SocketTypeOK, MutexInv, Inside, Framing, WatchdogInv, WatchdogEndsWithCall
  <2>4. (Half' <=> Half) /\ (Rest' <=> Rest)
    BY <2>1 DEF SocketInv, SocketTypeOK, Half, Rest
  <2> QED BY <2>1, <2>2, <2>3, <2>4 DEF SocketInv, FrameInv
<1> QED BY <1>1, <1>2

(* The watchdogs, the contexts, the peer and Close.                        *)
LEMMA SurroundingsStep ==
  ASSUME SocketInv,
         \/ \E c \in Calls : Watchdog(c) \/ ContextEnds(c)
         \/ PeerMoves \/ PeerGoes \/ Close \/ UNCHANGED socketVars
  PROVE  SocketInv'
<1>1. /\ UNCHANGED <<pc, mutex, moved, torn>>
      /\ \/ watchdog' = watchdog
         \/ \E c \in Calls, w \in {"started", "ran"} :
              watchdog[c] \in {"armed", "started"} /\ watchdog' = [watchdog EXCEPT ![c] = w]
      /\ deadline' \in {deadline, "past"} /\ room' \in {room, room + 1}
  BY DEF Watchdog, StartWatchdog, TripDeadline, ContextEnds, PeerMoves, PeerGoes, Close, socketVars
<1>2. connClosed' \in BOOLEAN
  BY Zenon DEF SocketInv, SocketTypeOK, Watchdog, StartWatchdog, TripDeadline, ContextEnds,
               PeerMoves, PeerGoes, Close, socketVars
<1>3. SocketTypeOK'
  BY <1>1, <1>2 DEF SocketInv, SocketTypeOK
<1>4. WatchdogInv'
  BY <1>1 DEF SocketInv, SocketTypeOK, WatchdogInv, WatchdogEndsWithCall, SocketPlaces, Framing
<1> QED BY <1>1, <1>3, <1>4 DEF SocketInv, MutexInv, FrameInv, Half, Rest

(* It holds in every state.                                                *)
LEMMA SocketInvariant == SocketSpec => []SocketInv
<1>1. SocketInv /\ [SocketNext]_socketVars => SocketInv'
  BY BeginStep, LockStep, SetDeadlineStep, MoveStep, FailsStep, DeferredStep, SurroundingsStep
     DEF SocketNext, Step
<1> QED BY <1>1, SocketInitInv, PTL DEF SocketSpec

(* For any number of calls, whichever contexts end and whenever: no call   *)
(* returns while its watchdog can still touch the socket's deadline        *)
(* (conn.go, Send and Recv: stop, or wait for the one that has started).   *)
THEOREM WatchdogsEndWithTheirCalls == SocketSpec => []WatchdogEndsWithCall
<1>1. SocketInv => WatchdogEndsWithCall
  BY DEF SocketInv, WatchdogInv
<1> QED BY <1>1, SocketInvariant, PTL

(* For any number of calls: unless a call was cut off inside its frame,    *)
(* in the header or after it, every call starts its header where a frame   *)
(* ended, however the calls and the deadlines interleave (conn.go,   *)
(* Send and Recv under sendMu and recvMu).                                 *)
THEOREM FramesStayAligned == SocketSpec => []FrameAligned
<1>1. SocketInv => FrameAligned
  <2> SUFFICES ASSUME SocketInv, ~torn, NEW c \in Calls, pc[c] = "header"
               PROVE  moved % 3 = 0
    BY DEF FrameAligned
  <2>1. ~Half /\ ~Rest
    BY DEF SocketInv, MutexInv, Inside, Framing, Half, Rest
  <2> QED BY <2>1 DEF SocketInv, FrameInv
<1> QED BY <1>1, SocketInvariant, PTL
=============================================================================
