------------------------- MODULE VerdictFlowProofs --------------------------
(***************************************************************************)
(* Session ids stay unique and the flow lock serialises the shared-memory  *)
(* transport, for every set of requests, transport, deadline and number of *)
(* crashes.  On that transport every verdict is the session's own, and a   *)
(* working engine answers every request that fits the ring.                *)
(***************************************************************************)
EXTENDS VerdictFlow, FiniteSetTheorems, TLAPS

(* Ids are odd and below the allocator's counter while in use: this is why *)
(* taking back the most recent id can never uncover one that is in use.    *)
SessionInv ==
  /\ next \in Nat /\ next % 2 = 1
  /\ pc \in [Requests -> Places] /\ sid \in [Requests -> Nat]
  /\ \A r \in Requests : InFlight(r) => sid[r] % 2 = 1 /\ sid[r] < next
  /\ UniqueSessions
  /\ OneSessionPerRing

(* A step that only moves an open session to another place.                *)
LEMMA MovePreserves ==
  ASSUME SessionInv, NEW r \in Requests, InFlight(r),
         NEW p \in Places \ {"idle", "done"}, pc' = [pc EXCEPT ![r] = p],
         UNCHANGED <<next, sid, flow, deploy>>
  PROVE  SessionInv'
<1>1. pc' \in [Requests -> Places] /\ \A s \in Requests : InFlight(s)' <=> InFlight(s)
  BY DEF SessionInv, InFlight
<1> QED BY <1>1 DEF SessionInv, UniqueSessions, OneSessionPerRing, FlowSerial, Transport

(* EndRequest, after a verdict, a failure or the end of the budget.        *)
LEMMA EndPreserves ==
  ASSUME SessionInv, NEW r \in Requests, InFlight(r), EndRequest(r), UNCHANGED deploy
  PROVE  SessionInv'
<1>1. /\ pc' \in [Requests -> Places]
      /\ ~InFlight(r)'
      /\ \A s \in Requests \ {r} : (InFlight(s)' <=> InFlight(s)) /\ sid'[s] = sid[s]
  BY DEF SessionInv, InFlight, EndRequest, Places
<1>2. sid' \in [Requests -> Nat]
  BY DEF SessionInv, EndRequest
<1>3. next' \in Nat /\ next' % 2 = 1
  BY DEF SessionInv, EndRequest, Reclaim
<1>4. \A s \in Requests : InFlight(s)' => sid'[s] % 2 = 1 /\ sid'[s] < next'
  <2> SUFFICES ASSUME NEW s \in Requests \ {r}, InFlight(s)
               PROVE  sid[s] % 2 = 1 /\ sid[s] < next'
    BY <1>1
  <2>1. sid[s] # sid[r] /\ sid[s] % 2 = 1 /\ sid[s] < next /\ sid[r] % 2 = 1 /\ sid[r] < next
    BY DEF SessionInv, UniqueSessions
  <2>2. next' = IF sid[r] + 2 = next THEN sid[r] ELSE next
    BY DEF EndRequest, Reclaim
  <2>3. sid[s] \in Nat /\ sid[r] \in Nat /\ next \in Nat /\ next % 2 = 1
    BY DEF SessionInv
  <2> QED BY <2>1, <2>2, <2>3
<1>5. UniqueSessions'
  BY <1>1 DEF SessionInv, UniqueSessions
<1>6. OneSessionPerRing'
  BY <1>1 DEF SessionInv, OneSessionPerRing, FlowSerial, Transport
<1> QED BY <1>1, <1>2, <1>3, <1>4, <1>5, <1>6 DEF SessionInv

(* A new session takes an id above all others, and the free flow lock.     *)
LEMMA BeginPreserves ==
  ASSUME SessionInv, NEW r \in Requests, Begin(r)
  PROVE  SessionInv'
<1>1. /\ pc' \in [Requests -> Places] /\ sid' \in [Requests -> Nat]
      /\ sid'[r] = next /\ ~InFlight(r)
      /\ \A s \in Requests \ {r} : (InFlight(s)' <=> InFlight(s)) /\ sid'[s] = sid[s]
  BY DEF SessionInv, InFlight, Begin, Places
<1>2. next' = next + 2 /\ next' \in Nat /\ next' % 2 = 1 /\ next % 2 = 1 /\ next \in Nat
  BY DEF SessionInv, Begin
<1>3. \A s \in Requests : InFlight(s)' => sid'[s] % 2 = 1 /\ sid'[s] < next'
  <2> SUFFICES ASSUME NEW s \in Requests, InFlight(s)'
               PROVE  sid'[s] % 2 = 1 /\ sid'[s] < next'
    OBVIOUS
  <2>1. CASE s = r
    BY <1>1, <1>2, <2>1
  <2>2. CASE s # r
    <3>1. sid'[s] = sid[s] /\ sid[s] % 2 = 1 /\ sid[s] < next /\ sid[s] \in Nat
      BY <1>1, <2>2 DEF SessionInv
    <3> QED BY <1>2, <3>1
  <2> QED BY <2>1, <2>2
<1>4. UniqueSessions'
  <2> SUFFICES ASSUME NEW s \in Requests, NEW t \in Requests, s # t,
                      InFlight(s)', InFlight(t)'
               PROVE  sid'[s] # sid'[t]
    BY DEF UniqueSessions
  <2>1. \A u \in Requests \ {r} : InFlight(u) => sid[u] < next /\ sid[u] \in Nat
    BY DEF SessionInv
  <2>2. CASE s = r
    BY <1>1, <1>2, <2>1, <2>2
  <2>3. CASE t = r
    BY <1>1, <1>2, <2>1, <2>3
  <2>4. CASE s # r /\ t # r
    BY <1>1, <2>4 DEF SessionInv, UniqueSessions
  <2> QED BY <2>2, <2>3, <2>4
<1>5. OneSessionPerRing'
  <2> SUFFICES ASSUME FlowSerial, NEW s \in Requests, InFlight(s)'
               PROVE  flow' = s
    BY DEF OneSessionPerRing, Begin, envVars, FlowSerial, Transport
  <2>1. flow = None /\ flow' = r
    BY DEF Begin, lockFlow
  <2>2. s # r => FALSE
    BY <1>1, <2>1, FlowAssumption DEF SessionInv, OneSessionPerRing
  <2> QED BY <2>1, <2>2
<1> QED BY <1>1, <1>2, <1>3, <1>4, <1>5 DEF SessionInv

(* Every step preserves the session invariant.                             *)
LEMMA SessionStep == SessionInv /\ [Next]_vars => SessionInv'
<1> SUFFICES ASSUME SessionInv, [Next]_vars PROVE SessionInv'
  OBVIOUS
<1>1. ASSUME NEW r \in Requests, Session(r) PROVE SessionInv'
  <2>1. CASE Begin(r)
    BY <2>1, BeginPreserves
  <2>2. CASE \/ RedialFails(r) \/ RewriteFails(r) \/ Cancelled(r) \/ SignalFails(r) \/ End(r)
    <3>1. EndRequest(r) /\ InFlight(r) /\ UNCHANGED deploy
      BY <2>2 DEF envVars, RedialFails, RewriteFails, Cancelled, SignalFails, End, Fail, InFlight
    <3> QED BY <3>1, EndPreserves
  <2>3. CASE \/ Snapshot(r) \/ Write(r) \/ WriteFails(r) \/ Redial(r) \/ Rewrite(r)
             \/ Signal(r) \/ Poll(r) \/ Recv(r)
    <3>1. /\ InFlight(r) /\ UNCHANGED <<next, sid, flow, deploy>>
          /\ \E p \in {"send", "write", "redial", "rewrite", "await", "lock",
                      "recv"} :
               pc' = [pc EXCEPT ![r] = p]
      BY <2>3 DEF envVars, Snapshot, Write, WriteFails, Redial, Rewrite, WriteFrame, Signal, Poll,
                  Recv, InFlight
    <3> QED BY <3>1, MovePreserves DEF Places
  <2>4. CASE RecvFails(r) \/ Timeout(r)
    <3>1. /\ InFlight(r) /\ UNCHANGED <<next, sid, flow, deploy>> /\ pc' = [pc EXCEPT ![r] = "end"]
      BY <2>4 DEF envVars, RecvFails, Timeout, GiveUp, InFlight
    <3> QED BY <3>1, MovePreserves DEF Places
  <2>5. CASE RecvFrame(r) \/ Drain(r)
    <3>1. InFlight(r) /\ UNCHANGED <<next, sid, flow, deploy>>
      BY <2>5 DEF envVars, RecvFrame, Drain, InFlight
    <3>2. \/ UNCHANGED pc
          \/ \E p \in {"end", "drain", "await"} : pc' = [pc EXCEPT ![r] = p]
      BY <2>5 DEF RecvFrame, Drain, Handle
    <3>3. CASE UNCHANGED pc
      BY <3>1, <3>3 DEF SessionInv, UniqueSessions, OneSessionPerRing, InFlight, FlowSerial,
                         Transport
    <3> QED BY <3>1, <3>2, <3>3, MovePreserves DEF Places
  <2> QED BY <1>1, <2>1, <2>2, <2>3, <2>4, <2>5 DEF Session
<1>2. CASE Engine \/ UNCHANGED vars \/ (Done /\ UNCHANGED vars)
  <2>1. UNCHANGED <<next, pc, sid, flow, deploy>>
    BY <1>2 DEF Engine, MockServe, EngineDrain, EngineCrash, EngineRestart, vars, txVars,
                envVars
  <2> QED BY <2>1 DEF SessionInv, UniqueSessions, OneSessionPerRing, InFlight, FlowSerial,
                      Transport
<1> QED BY <1>1, <1>2 DEF Next

(* For every number of concurrent requests, on every transport and through *)
(* every crash, reconnect, timeout and order of completion, two open       *)
(* sessions never share a session id (session.go, Allocate and Reclaim).   *)
THEOREM SessionsAreUnique == Spec => []UniqueSessions
<1>1. Init => SessionInv
  BY DEF Init, SessionInv, InFlight, Places, FirstSid, UniqueSessions, OneSessionPerRing
<1>2. SessionInv => UniqueSessions
  BY DEF SessionInv
<1> QED BY <1>1, <1>2, SessionStep, PTL DEF Spec

(* On the shared-memory transport no two sessions ever write frames or     *)
(* wait for a verdict at the same time, across every error path that       *)
(* releases the flow lock (conn.go, lockFlow and unlockFlow).              *)
THEOREM FlowLockExcludes == Spec => []OneSessionPerRing
<1>1. Init => SessionInv
  BY DEF Init, SessionInv, InFlight, Places, FirstSid, UniqueSessions, OneSessionPerRing
<1>2. SessionInv => OneSessionPerRing
  BY DEF SessionInv
<1> QED BY <1>1, <1>2, SessionStep, PTL DEF Spec

-----------------------------------------------------------------------------
(***************************************************************************)
(* The shared-memory protocol in the orders it is designed for (Orderly).  *)
(*                                                                         *)
(* Every session of this transport has the same id, 3: the one before has  *)
(* given it back.  What keeps their verdicts apart is only that no frame,  *)
(* doorbell or echo of one session is left when the next one begins.       *)
(***************************************************************************)
RequestKinds == {"REQUEST_START", "REQUEST_HEADER", "REQUEST_BODY", "REQUEST_END"}
RequestFrame == [kind : RequestKinds, sid : Nat, of : Requests]
VerdictFrame == [kind : {"inspect", "final"}, sid : Nat, of : Requests]

(* Nothing is under way on connection c.                                   *)
Clean(c) == up[c] = << >> /\ down[c] = << >> /\ signals[c] = << >> /\ echoes[c] = 0

(* Every frame of q belongs to session r and carries its id.               *)
AllOf(q, r) == \A i \in 1 .. Len(q) : q[i].of = r /\ q[i].sid = sid[r]

(* q ends with a frame of kind k and has no other.                         *)
EndsOnce(q, k) == q # << >> /\ \A i \in 1 .. Len(q) : q[i].kind = k <=> i = Len(q)

(* The transaction is written up to todo: the ring holds what is written.  *)
Written(r) ==
  /\ down[cur] = << >> /\ signals[cur] = << >> /\ echoes[cur] = 0
  /\ AllOf(up[cur], r)
  /\ todo[r] # << >> => \A i \in 1 .. Len(up[cur]) : up[cur][i].kind # "REQUEST_END"
  /\ todo[r] = << >> => EndsOnce(up[cur], "REQUEST_END")

(* The doorbell is rung and not yet heard.                                 *)
Rung(r) ==
  /\ down[cur] = << >> /\ signals[cur] = << sid[r] >> /\ echoes[cur] = 0
  /\ AllOf(up[cur], r) /\ EndsOnce(up[cur], "REQUEST_END")

(* The engine has answered; n echoes announce it.                          *)
Answered(r, n) ==
  /\ up[cur] = << >> /\ signals[cur] = << >> /\ echoes[cur] = n
  /\ AllOf(down[cur], r) /\ EndsOnce(down[cur], "final")

FlowTypes ==
  /\ TypeOK
  /\ todo \in [Requests -> Seq(RequestKinds)]
  /\ up \in [Conns -> Seq(RequestFrame)] /\ down \in [Conns -> Seq(VerdictFrame)]
  /\ signals \in [Conns -> Seq(Nat)] /\ echoes \in [Conns -> Nat]
  /\ crashes \in Nat

(* Only the current connection is open or was when the engine crashed.     *)
NetInv ==
  /\ cur = dialed /\ status[cur] # "closed"
  /\ \A c \in Conns \ {cur} : status[c] = "closed" /\ Clean(c)
  /\ ~engineUp => status[cur] = "dead"
  /\ Fate # "gone" /\ crashes = 0 => status[cur] = "open"

(* A session works on the current connection, and only a body that does    *)
(* not fit makes it redial.                                                *)
PlaceInv(r) ==
  /\ pc[r] \in {"write", "rewrite", "recv"} => held[r] = cur
  /\ pc[r] \in {"redial", "rewrite"} => TooLarge(r)
  /\ pc[r] \in {"write", "redial", "rewrite"} => todo[r] # << >>
  /\ pc[r] \in {"send", "write", "redial", "rewrite"} =>
       \A i \in 1 .. Len(todo[r]) : todo[r][i] = "REQUEST_END" <=> i = Len(todo[r])

(* How far the exchange is while the connection is open.                   *)
ExchangeInv(r) ==
  /\ pc[r] \in {"send", "write", "redial"} => Written(r)
  /\ pc[r] \in {"await", "lock", "recv"} => Rung(r) \/ Answered(r, 1)
  /\ pc[r] = "drain" => Answered(r, 0)
  /\ pc[r] \in {"rewrite", "end"} => Clean(cur)

(* A session that waits reads nothing but its own frames, whatever became  *)
(* of the engine.                                                          *)
WaitInv(r) == pc[r] \in {"await", "lock", "recv", "drain"} => AllOf(down[cur], r)

ResultInv(r) ==
  /\ result[r] \in {None, "failed", r}
  /\ Fate # "gone" /\ crashes = 0 /\ r \notin Oversized => result[r] # "failed"

OrderlyInv ==
  /\ FlowTypes /\ NetInv
  /\ \A r \in Requests : PlaceInv(r) /\ WaitInv(r) /\ ResultInv(r)
  /\ status[cur] = "open" => \A r \in Requests : ExchangeInv(r)
  /\ status[cur] = "open" /\ (\A r \in Requests : ~InFlight(r)) => Clean(cur)

-----------------------------------------------------------------------------
(* How many positions there are up to n.                                   *)
LEMMA CountTo == ASSUME NEW n \in Nat PROVE Cardinality(1 .. n) = n
<1>1. Cardinality(1 .. n) = IF 1 > n THEN 0 ELSE n - 1 + 1
  BY FS_Interval
<1> QED BY <1>1

(* The engine that drains a ring of one session's frames answers them all. *)
LEMMA FramesOfOne ==
  ASSUME NEW q \in Seq(RequestFrame), NEW id \in Nat, \A i \in 1 .. Len(q) : q[i].sid = id
  PROVE  FramesOf(q, id) = q
<1> DEFINE at == {i \in DOMAIN q : q[i].sid = id}
           nth(k) == CHOOSE i \in at : Cardinality({j \in at : j < i}) = k - 1
<1>1. at = 1 .. Len(q) /\ Len(q) \in Nat
  OBVIOUS
<1>2. Cardinality(at) = Len(q)
  <2> HIDE DEF at
  <2> QED BY <1>1, CountTo
<1>3. ASSUME NEW k \in 1 .. Len(q) PROVE nth(k) = k
  <2>1. ASSUME NEW i \in at PROVE Cardinality({j \in at : j < i}) = i - 1
    <3>1. {j \in at : j < i} = 1 .. (i - 1)
      BY <1>1
    <3>2. i - 1 \in Nat
      BY <1>1
    <3> HIDE DEF at
    <3> QED BY <3>1, <3>2, CountTo
  <2>2. \A i \in at : (Cardinality({j \in at : j < i}) = k - 1) <=> (i = k)
    <3> SUFFICES ASSUME NEW i \in at
                 PROVE  (Cardinality({j \in at : j < i}) = k - 1) <=> (i = k)
      OBVIOUS
    <3> HIDE DEF at
    <3>1. Cardinality({j \in at : j < i}) = i - 1
      BY <2>1
    <3> QED BY <1>1, <3>1
  <2>3. k \in at
    BY <1>1
  <2> HIDE DEF at
  <2> QED BY <2>2, <2>3
<1>4. FramesOf(q, id) = [k \in 1 .. Cardinality(at) |-> q[nth(k)]]
  BY DEF FramesOf
<1> HIDE DEF at, nth
<1>5. FramesOf(q, id) = [k \in 1 .. Len(q) |-> q[k]]
  BY <1>2, <1>3, <1>4
<1> QED BY <1>5

(* The answers to a whole transaction end with its only final verdict.     *)
LEMMA AnswersEnd ==
  ASSUME NEW q \in Seq(RequestFrame), NEW r \in Requests, AllOf(q, r),
         EndsOnce(q, "REQUEST_END"),
         NEW v, v = [i \in DOMAIN q |-> Answer(q[i])]
  PROVE  v \in Seq(VerdictFrame) /\ AllOf(v, r) /\ EndsOnce(v, "final")
<1>1. DOMAIN q = 1 .. Len(q) /\ Len(q) \in Nat /\ Len(q) # 0
  BY DEF EndsOnce
<1>2. \A i \in 1 .. Len(q) : q[i] \in RequestFrame
  OBVIOUS
<1>3. ASSUME NEW i \in 1 .. Len(q)
      PROVE  /\ Answer(q[i]) \in VerdictFrame
             /\ Answer(q[i]).of = r /\ Answer(q[i]).sid = sid[r]
             /\ Answer(q[i]).kind = "final" <=> i = Len(q)
  BY <1>2 DEF Answer, Verdict, RequestFrame, VerdictFrame, AllOf, EndsOnce, RequestKinds
<1>4. v \in Seq(VerdictFrame) /\ Len(v) = Len(q) /\ \A i \in 1 .. Len(q) : v[i] = Answer(q[i])
  BY <1>1, <1>3
<1> QED BY <1>1, <1>3, <1>4 DEF AllOf, EndsOnce

(* What a step of session r has to show when no other session is in        *)
(* flight.                                                                 *)
Preserved(r) ==
  /\ FlowTypes' /\ NetInv'
  /\ PlaceInv(r)' /\ WaitInv(r)' /\ ResultInv(r)'
  /\ status'[cur'] = "open" => ExchangeInv(r)' /\ (~InFlight(r)' => Clean(cur)')

(* A step of the only session in flight concerns nobody else.              *)
LEMMA SoloStep ==
  ASSUME OrderlyInv, NEW r \in Requests,
         \A s \in Requests \ {r} :
           ~InFlight(s) /\ pc'[s] = pc[s] /\ result'[s] = result[s],
         UNCHANGED <<crashes, deploy>>, Preserved(r)
  PROVE  OrderlyInv'
<1>1. ASSUME NEW s \in Requests \ {r}
      PROVE  /\ ~InFlight(s)' /\ PlaceInv(s)' /\ WaitInv(s)' /\ ResultInv(s)' /\ ExchangeInv(s)'
  <2>1. pc'[s] \in {"idle", "done"}
    BY DEF InFlight
  <2>2. ResultInv(s)'
    BY DEF OrderlyInv, ResultInv, Fate, Oversized
  <2> QED BY <2>1, <2>2 DEF PlaceInv, WaitInv, ExchangeInv, InFlight
<1> QED BY <1>1 DEF OrderlyInv, Preserved

(* A step that moves session r from its place to p and touches no          *)
(* connection: the facts about the connections carry over.                 *)
LEMMA MoveKeeps ==
  ASSUME OrderlyInv, NEW r \in Requests, NEW p \in Places,
         pc' = [pc EXCEPT ![r] = p],
         UNCHANGED <<sid, todo, netVars, envVars>>,
         held' \in [Requests -> Conns], result' \in [Requests -> Requests \cup {None, "failed"}],
         next' \in Nat, flow' \in Requests \cup {None}, recvMu' \in Requests \cup {None},
         ResultInv(r)',
         p \in {"write", "rewrite", "recv"} => held'[r] = cur,
         p \in {"redial", "rewrite"} => TooLarge(r),
         p \in {"write", "redial", "rewrite"} => todo[r] # << >>,
         p \in {"send", "write", "redial", "rewrite"} =>
           pc[r] \in {"send", "write", "redial", "rewrite"},
         p \in {"await", "lock", "recv", "drain"} => AllOf(down[cur], r),
         status[cur] = "open" =>
           /\ p \in {"send", "write", "redial"} => Written(r)
           /\ p \in {"await", "lock", "recv"} => Rung(r) \/ Answered(r, 1)
           /\ p = "drain" => Answered(r, 0)
           /\ p \in {"rewrite", "end", "done"} => Clean(cur),
         p # "idle"
  PROVE  Preserved(r)
<1>1. /\ UNCHANGED <<sid, todo, cur, dialed, status, up, down, signals, echoes, deploy, engineUp,
                     crashes>>
      /\ pc \in [Requests -> Places] /\ pc'[r] = p /\ pc' \in [Requests -> Places]
  BY DEF netVars, envVars, OrderlyInv, FlowTypes, TypeOK
<1>2. FlowTypes'
  BY <1>1 DEF OrderlyInv, FlowTypes, TypeOK
<1>3. NetInv'
  BY <1>1 DEF OrderlyInv, NetInv, Clean, Fate
<1>4. PlaceInv(r)'
  BY <1>1 DEF OrderlyInv, PlaceInv, TooLarge, Transport, Oversized
<1>5. WaitInv(r)'
  BY <1>1 DEF WaitInv, AllOf
<1>6. status'[cur'] = "open" => ExchangeInv(r)' /\ (~InFlight(r)' => Clean(cur)')
  <2> SUFFICES ASSUME status[cur] = "open" PROVE ExchangeInv(r)' /\ (~InFlight(r)' => Clean(cur)')
    BY <1>1
  <2>1. /\ Written(r)' <=> Written(r)
        /\ Rung(r)' <=> Rung(r)
        /\ Answered(r, 1)' <=> Answered(r, 1)
        /\ Answered(r, 0)' <=> Answered(r, 0)
        /\ Clean(cur)' <=> Clean(cur)
    BY <1>1 DEF Written, Rung, Answered, Clean, AllOf, EndsOnce
  <2>2. p \notin {"idle", "done"} => InFlight(r)'
    BY <1>1 DEF InFlight
  <2> QED BY <1>1, <2>1, <2>2 DEF ExchangeInv
<1> QED BY <1>2, <1>3, <1>4, <1>5, <1>6 DEF Preserved

(* send takes its snapshot of the current connection.                      *)
LEMMA SnapshotKeeps ==
  ASSUME OrderlyInv, NEW r \in Requests, Snapshot(r) PROVE Preserved(r)
<1>1. /\ TypeOK /\ PlaceInv(r) /\ ResultInv(r) /\ "write" \in Places
      /\ status[cur] = "open" => ExchangeInv(r)
  BY DEF OrderlyInv, FlowTypes, Places
<1>2. ResultInv(r)'
  BY <1>1 DEF Snapshot, ResultInv, envVars, Fate, Oversized
<1>3. /\ held' \in [Requests -> Conns] /\ held'[r] = cur /\ pc[r] = "send" /\ todo[r] # << >>
      /\ pc' = [pc EXCEPT ![r] = "write"]
      /\ UNCHANGED <<next, sid, todo, result, flow, recvMu, netVars, envVars>>
  BY <1>1 DEF Snapshot, TypeOK
<1> QED BY <1>1, <1>2, <1>3, MoveKeeps DEF TypeOK, ExchangeInv

(* Only a body that does not fit makes a write fail.                       *)
LEMMA WriteFailsKeeps ==
  ASSUME OrderlyInv, NEW r \in Requests, WriteFails(r), Orderly PROVE Preserved(r)
<1>1. /\ TypeOK /\ NetInv /\ PlaceInv(r) /\ ResultInv(r) /\ "redial" \in Places
      /\ status[cur] = "open" => ExchangeInv(r)
  BY DEF OrderlyInv, FlowTypes, Places
<1>2. /\ pc[r] = "write" /\ pc' = [pc EXCEPT ![r] = "redial"]
      /\ CanFail(held[r]) \/ TooLarge(r)
      /\ UNCHANGED <<next, sid, todo, held, result, flow, recvMu, netVars, envVars>>
  BY DEF WriteFails
<1>3. ResultInv(r)'
  BY <1>1, <1>2 DEF ResultInv, envVars, Fate, Oversized
<1>4. TooLarge(r) /\ todo[r] # << >>
  BY <1>1, <1>2 DEF CanFail, NetInv, PlaceInv, Orderly
<1> QED BY <1>1, <1>2, <1>3, <1>4, MoveKeeps DEF TypeOK, ExchangeInv

(* await enters its loop.                                                  *)
LEMMA PollKeeps ==
  ASSUME OrderlyInv, NEW r \in Requests, Poll(r) PROVE Preserved(r)
<1>1. /\ TypeOK /\ WaitInv(r) /\ ResultInv(r) /\ "lock" \in Places
      /\ status[cur] = "open" => ExchangeInv(r)
  BY DEF OrderlyInv, FlowTypes, Places
<1>2. /\ pc[r] = "await" /\ pc' = [pc EXCEPT ![r] = "lock"]
      /\ UNCHANGED <<next, sid, todo, held, result, flow, recvMu, netVars, envVars>>
  BY DEF Poll
<1>3. ResultInv(r)'
  BY <1>1, <1>2 DEF ResultInv, envVars, Fate, Oversized
<1> QED BY <1>1, <1>2, <1>3, MoveKeeps DEF TypeOK, ExchangeInv, WaitInv

(* recv has the lock and snapshots the connection.                         *)
LEMMA RecvKeeps ==
  ASSUME OrderlyInv, NEW r \in Requests, Recv(r) PROVE Preserved(r)
<1>1. /\ TypeOK /\ WaitInv(r) /\ ResultInv(r) /\ "recv" \in Places
      /\ status[cur] = "open" => ExchangeInv(r)
  BY DEF OrderlyInv, FlowTypes, Places
<1>2. /\ pc[r] = "lock" /\ pc' = [pc EXCEPT ![r] = "recv"] /\ recvMu' = r
      /\ held' = [held EXCEPT ![r] = cur]
      /\ UNCHANGED <<next, sid, todo, result, flow, netVars, envVars>>
  BY DEF Recv
<1>3. ResultInv(r)'
  BY <1>1, <1>2 DEF ResultInv, envVars, Fate, Oversized
<1>4. held' \in [Requests -> Conns] /\ held'[r] = cur
  BY <1>1, <1>2 DEF TypeOK
<1> QED BY <1>1, <1>2, <1>3, <1>4, MoveKeeps DEF TypeOK, ExchangeInv, WaitInv

(* Recv fails or the budget runs out: neither happens while the connection *)
(* is open, since the doorbell keeps the engine busy until the answers and *)
(* their echo are there to be read.                                        *)
LEMMA GiveUpKeeps ==
  ASSUME OrderlyInv, NEW r \in Requests, RecvFails(r) \/ Timeout(r), Orderly
  PROVE  Preserved(r)
<1>1. /\ TypeOK /\ NetInv /\ PlaceInv(r) /\ ResultInv(r) /\ "end" \in Places
      /\ status[cur] = "open" => ExchangeInv(r)
      /\ echoes \in [Conns -> Nat]
  BY DEF OrderlyInv, FlowTypes, Places
<1>2. /\ pc[r] = "recv" /\ pc' = [pc EXCEPT ![r] = "end"]
      /\ result' = [result EXCEPT ![r] = "failed"]
      /\ recvMu' = IF recvMu = r THEN None ELSE recvMu
      /\ UNCHANGED <<next, sid, todo, held, flow, netVars, envVars>>
  BY DEF RecvFails, Timeout, GiveUp, Orderly
<1>3. held[r] = cur
  BY <1>1, <1>2 DEF PlaceInv
<1>4. status[cur] # "open"
  <2> SUFFICES ASSUME status[cur] = "open" PROVE FALSE
    OBVIOUS
  <2>1. Quiescent
    BY <1>3 DEF RecvFails, Timeout, Orderly
  <2>2. engineUp /\ FlowSerial
    BY <1>1 DEF NetInv, Orderly, FlowSerial, TypeOK
  <2>3. signals[cur] = << >>
    BY <1>1, <2>1, <2>2 DEF Quiescent, EngineBusy, TypeOK
  <2>4. Answered(r, 1)
    BY <1>1, <1>2, <2>3 DEF ExchangeInv, Rung
  <2>5. Readable(held[r])
    BY <1>3, <2>2, <2>4 DEF Readable, Delivers, Answered
  <2>6. Blocked(r)
    BY <1>2, <2>1 DEF Quiescent
  <2> QED BY <1>2, <2>5, <2>6 DEF Blocked
<1>5. ResultInv(r)' /\ result' \in [Requests -> Requests \cup {None, "failed"}]
  <2>1. UNCHANGED <<deploy, crashes>> /\ result'[r] = "failed"
        /\ ~(Fate # "gone" /\ crashes = 0)
    BY <1>1, <1>2, <1>4 DEF envVars, TypeOK, NetInv
  <2>2. result' \in [Requests -> Requests \cup {None, "failed"}]
    BY <1>1, <1>2 DEF TypeOK
  <2> QED BY <2>1, <2>2 DEF ResultInv, Fate
<1> QED BY <1>1, <1>2, <1>4, <1>5, MoveKeeps DEF TypeOK

(* The end of a session, when nothing of it is left on an open connection. *)
LEMMA EndKeeps ==
  ASSUME OrderlyInv, NEW r \in Requests, SessionInv', EndRequest(r),
         UNCHANGED <<recvMu, netVars, envVars>>,
         status[cur] = "open" => Clean(cur),
         result' \in [Requests -> Requests \cup {None, "failed"}], ResultInv(r)'
  PROVE  Preserved(r)
<1>1. /\ UNCHANGED <<cur, dialed, status, up, down, signals, echoes, deploy, engineUp, crashes,
                     recvMu>>
      /\ TypeOK /\ FlowTypes /\ pc'[r] = "done" /\ pc' \in [Requests -> Places]
  BY DEF netVars, envVars, OrderlyInv, FlowTypes, TypeOK, EndRequest, Places
<1>2. FlowTypes'
  <2>1. 1 \in Conns /\ << >> \in Seq(RequestKinds)
    BY FlowAssumption DEF Conns
  <2>2. held' \in [Requests -> Conns] /\ todo' \in [Requests -> Seq(RequestKinds)]
    BY <1>1, <2>1 DEF TypeOK, FlowTypes, EndRequest
  <2>3. flow' \in Requests \cup {None}
    BY <1>1 DEF TypeOK, EndRequest, unlockFlow
  <2> QED BY <1>1, <2>2, <2>3 DEF FlowTypes, TypeOK, SessionInv
<1>3. NetInv'
  BY <1>1 DEF OrderlyInv, NetInv, Clean, Fate
<1>4. PlaceInv(r)' /\ WaitInv(r)' /\ ExchangeInv(r)'
  BY <1>1 DEF PlaceInv, WaitInv, ExchangeInv
<1>5. status'[cur'] = "open" => Clean(cur)'
  BY <1>1 DEF Clean
<1> QED BY <1>2, <1>3, <1>4, <1>5 DEF Preserved

(* Every way out of a session.  Only a session that does not fit the ring, *)
(* or one whose engine is gone, fails.                                     *)
LEMMA WaysOutKeep ==
  ASSUME OrderlyInv, NEW r \in Requests, SessionInv', Orderly,
         RedialFails(r) \/ RewriteFails(r) \/ Cancelled(r) \/ SignalFails(r) \/ End(r)
  PROVE  Preserved(r)
<1>1. /\ TypeOK /\ NetInv /\ PlaceInv(r) /\ ResultInv(r)
      /\ status[cur] = "open" => ExchangeInv(r)
  BY DEF OrderlyInv, FlowTypes
<1>2. /\ EndRequest(r) /\ UNCHANGED <<recvMu, netVars, envVars>>
      /\ UNCHANGED result \/ result' = [result EXCEPT ![r] = "failed"]
  BY DEF RedialFails, RewriteFails, Cancelled, SignalFails, End, Fail
<1>3. status[cur] = "open" => Clean(cur)
  <2> SUFFICES ASSUME status[cur] = "open" PROVE Clean(cur)
    OBVIOUS
  <2>1. pc[r] \in {"rewrite", "end"}
    BY <1>1 DEF RedialFails, RewriteFails, Cancelled, SignalFails, End, NetInv, Orderly
  <2> QED BY <1>1, <2>1 DEF ExchangeInv
<1>4. UNCHANGED <<deploy, crashes>>
  BY <1>2 DEF envVars
<1>5. ResultInv(r)' /\ result' \in [Requests -> Requests \cup {None, "failed"}]
  <2>1. CASE UNCHANGED result
    BY <1>1, <1>4, <2>1 DEF ResultInv, Fate, Oversized, TypeOK
  <2>2. CASE result' = [result EXCEPT ![r] = "failed"] /\ ~UNCHANGED result
    <3>1. RedialFails(r) \/ RewriteFails(r) \/ SignalFails(r)
      BY <2>2 DEF Cancelled, End, Orderly
    <3>2. ~(Fate # "gone" /\ crashes = 0 /\ r \notin Oversized)
      BY <1>1, <3>1 DEF RedialFails, RewriteFails, SignalFails, PlaceInv, TooLarge, NetInv
    <3>3. result' \in [Requests -> Requests \cup {None, "failed"}] /\ result'[r] = "failed"
      BY <1>1, <2>2 DEF TypeOK
    <3> QED BY <1>4, <3>2, <3>3 DEF ResultInv, Fate, Oversized
  <2> QED BY <1>2, <2>1, <2>2
<1> QED BY <1>2, <1>3, <1>5, EndKeeps

(* A session that begins finds an open connection clean.                   *)
LEMMA BeginKeeps ==
  ASSUME OrderlyInv, NEW r \in Requests, SessionInv', Begin(r), Orderly,
         \A s \in Requests : ~InFlight(s)
  PROVE  Preserved(r)
<1>1. /\ UNCHANGED <<held, result, cur, dialed, status, up, down, signals, echoes, deploy,
                     engineUp, crashes, recvMu>>
      /\ FlowTypes /\ NetInv /\ ResultInv(r) /\ PlaceInv(r)
      /\ status[cur] = "open" => Clean(cur)
  BY DEF netVars, envVars, OrderlyInv, FlowTypes, Begin
<1>2. pc' = [pc EXCEPT ![r] = "send"] /\ pc'[r] = "send"
  BY <1>1 DEF Begin, FlowTypes, TypeOK
<1>3. PICK fs \in Transactions(r) : todo' = [todo EXCEPT ![r] = fs]
  BY DEF Begin
<1>4. PICK b \in BOOLEAN : fs = RequestFrames(b)
  BY <1>3, FlowAssumption DEF Transactions, Orderly
<1>5. /\ fs \in Seq(RequestKinds) /\ fs # << >>
      /\ \A i \in 1 .. Len(fs) : fs[i] = "REQUEST_END" <=> i = Len(fs)
  <2>1. CASE b
    <3>1. fs = <<"REQUEST_START", "REQUEST_HEADER", "REQUEST_BODY", "REQUEST_END">>
      BY <1>4, <2>1 DEF RequestFrames
    <3> QED BY <3>1 DEF RequestKinds
  <2>2. CASE ~b
    <3>1. fs = <<"REQUEST_START", "REQUEST_HEADER", "REQUEST_END">>
      BY <1>4, <2>2 DEF RequestFrames
    <3> QED BY <3>1 DEF RequestKinds
  <2> QED BY <2>1, <2>2
<1>6. todo' \in [Requests -> Seq(RequestKinds)] /\ todo'[r] = fs
  BY <1>1, <1>3, <1>5 DEF FlowTypes
<1>7. FlowTypes'
  <2>1. flow' \in Requests \cup {None}
    BY <1>1 DEF Begin, FlowTypes, TypeOK
  <2> QED BY <1>1, <1>6, <2>1 DEF FlowTypes, TypeOK, SessionInv
<1>8. NetInv'
  BY <1>1 DEF NetInv, Clean, Fate
<1>9. PlaceInv(r)' /\ WaitInv(r)' /\ ResultInv(r)'
  BY <1>1, <1>2, <1>5, <1>6 DEF PlaceInv, WaitInv, ResultInv, Fate, Oversized
<1>10. status'[cur'] = "open" => ExchangeInv(r)' /\ (~InFlight(r)' => Clean(cur)')
  <2> SUFFICES ASSUME status[cur] = "open" PROVE Written(r)'
    BY <1>1, <1>2 DEF ExchangeInv, InFlight
  <2>1. /\ up'[cur'] = << >> /\ down'[cur'] = << >> /\ signals'[cur'] = << >>
        /\ echoes'[cur'] = 0 /\ todo'[r] # << >>
    BY <1>1, <1>5, <1>6 DEF Clean
  <2> QED BY <2>1 DEF Written, AllOf
<1> QED BY <1>7, <1>8, <1>9, <1>10 DEF Preserved

(* What is left of a transaction after its first frame ends like it, and   *)
(* is empty when that frame was the last.                                  *)
LEMMA RestEnds ==
  ASSUME NEW t \in Seq(RequestKinds), t # << >>,
         \A i \in 1 .. Len(t) : t[i] = "REQUEST_END" <=> i = Len(t)
  PROVE  /\ \A i \in 1 .. Len(Tail(t)) : Tail(t)[i] = "REQUEST_END" <=> i = Len(Tail(t))
         /\ Tail(t) = << >> <=> Head(t) = "REQUEST_END"
<1>1. PICK n \in Nat \ {0} : n = Len(t)
  OBVIOUS
<1>2. PICK u \in Seq(RequestKinds) : u = Tail(t)
  <2>1. Tail(t) \in Seq(RequestKinds)
    OBVIOUS
  <2> QED BY <2>1
<1>3. Len(u) = n - 1 /\ (\A i \in 1 .. n - 1 : u[i] = t[i + 1]) /\ Head(t) = t[1]
  BY <1>1, <1>2
<1>4. ASSUME NEW i \in 1 .. n - 1 PROVE u[i] = "REQUEST_END" <=> i = n - 1
  <2>1. i + 1 \in 1 .. n /\ (i + 1 = n <=> i = n - 1) /\ u[i] = t[i + 1]
    BY <1>3
  <2> QED BY <1>1, <2>1
<1>5. u = << >> <=> n = 1
  BY <1>3
<1>6. Head(t) = "REQUEST_END" <=> n = 1
  <2>1. 1 \in 1 .. n
    OBVIOUS
  <2> QED BY <1>1, <1>3, <2>1
<1> QED BY <1>2, <1>3, <1>4, <1>5, <1>6

(* A frame is appended to the ring, which need not have a reader.          *)
LEMMA WriteKeeps ==
  ASSUME OrderlyInv, NEW r \in Requests, Write(r) \/ Rewrite(r) PROVE Preserved(r)
<1>1. /\ FlowTypes /\ TypeOK /\ NetInv /\ PlaceInv(r) /\ ResultInv(r)
      /\ status[cur] = "open" => ExchangeInv(r)
  BY DEF OrderlyInv, FlowTypes
<1>2. pc[r] = "write" /\ WriteFrame(r, cur) /\ todo[r] # << >>
  BY <1>1 DEF Write, Rewrite, WriteFrame, PlaceInv
<1>3. /\ UNCHANGED <<next, sid, held, result, flow, recvMu, cur, dialed, status, down, signals,
                     echoes, deploy, engineUp, crashes>>
      /\ pc' = [pc EXCEPT ![r] = "send"] /\ todo' = [todo EXCEPT ![r] = Tail(@)]
      /\ up' = IF Arrives(cur)
               THEN [up EXCEPT ![cur] = Append(@, Frame(Head(todo[r]), r))] ELSE up
      /\ status[cur] = "open" => Arrives(cur)
  BY <1>2 DEF WriteFrame, Arrives, envVars
<1> DEFINE t == todo[r]  f == Frame(Head(t), r)
<1>4. /\ t \in Seq(RequestKinds) /\ t # << >> /\ Head(t) \in RequestKinds
      /\ Tail(t) \in Seq(RequestKinds)
  BY <1>1, <1>2 DEF FlowTypes
<1>5. /\ \A i \in 1 .. Len(Tail(t)) : Tail(t)[i] = "REQUEST_END" <=> i = Len(Tail(t))
      /\ Tail(t) = << >> <=> Head(t) = "REQUEST_END"
  <2>1. \A i \in 1 .. Len(t) : t[i] = "REQUEST_END" <=> i = Len(t)
    BY <1>1, <1>2 DEF PlaceInv
  <2> HIDE DEF t
  <2> QED BY <1>4, <2>1, RestEnds
<1>6. pc' \in [Requests -> Places] /\ pc'[r] = "send" /\ todo'[r] = Tail(t)
      /\ todo' \in [Requests -> Seq(RequestKinds)]
  BY <1>1, <1>3, <1>4 DEF FlowTypes, TypeOK, Places
<1>7. f \in RequestFrame /\ f.of = r /\ f.sid = sid[r] /\ f.kind = Head(t)
  BY <1>1, <1>4 DEF Frame, RequestFrame, TypeOK
<1> HIDE DEF t, f
<1>8. up' \in [Conns -> Seq(RequestFrame)] /\ \A c \in Conns \ {cur} : up'[c] = up[c]
  BY <1>1, <1>3, <1>7 DEF FlowTypes, TypeOK, t, f
<1>9. FlowTypes'
  BY <1>1, <1>3, <1>6, <1>8 DEF FlowTypes, TypeOK
<1>10. NetInv'
  BY <1>1, <1>3, <1>8 DEF NetInv, Clean, Fate
<1>11. PlaceInv(r)' /\ WaitInv(r)' /\ ResultInv(r)'
  <2> QED BY <1>1, <1>3, <1>5, <1>6 DEF PlaceInv, WaitInv, ResultInv, Fate, Oversized
<1>12. status'[cur'] = "open" => ExchangeInv(r)' /\ (~InFlight(r)' => Clean(cur)')
  <2> SUFFICES ASSUME status[cur] = "open" PROVE Written(r)'
    BY <1>3, <1>6 DEF ExchangeInv, InFlight
  <2>1. Written(r)
    BY <1>1, <1>2 DEF ExchangeInv
  <2>2. up'[cur] = Append(up[cur], f) /\ up[cur] \in Seq(RequestFrame)
    BY <1>1, <1>3 DEF FlowTypes, TypeOK, t, f
  <2>3. PICK q : q = up[cur]
    OBVIOUS
  <2>4. /\ q \in Seq(RequestFrame) /\ Len(q) \in Nat /\ up'[cur] = Append(q, f)
        /\ Len(Append(q, f)) = Len(q) + 1 /\ Append(q, f)[Len(q) + 1] = f
        /\ \A i \in 1 .. Len(q) : Append(q, f)[i] = q[i]
    BY <1>7, <2>2, <2>3
  <2>5. AllOf(up[cur], r)'
    BY <1>3, <1>7, <2>1, <2>3, <2>4 DEF Written, AllOf
  <2>6. \A i \in 1 .. Len(q) : q[i].kind # "REQUEST_END"
    BY <1>2, <2>1, <2>3 DEF Written
  <2>7. ASSUME Tail(t) # << >>
        PROVE  \A i \in 1 .. Len(q) + 1 : Append(q, f)[i].kind # "REQUEST_END"
    BY <1>5, <1>7, <2>4, <2>6, <2>7
  <2>8. ASSUME Tail(t) = << >>
        PROVE  /\ Append(q, f) # << >>
               /\ \A i \in 1 .. Len(q) + 1 : Append(q, f)[i].kind = "REQUEST_END" <=> i = Len(q) + 1
    BY <1>5, <1>7, <2>4, <2>6, <2>8
  <2>9. /\ down'[cur'] = << >> /\ signals'[cur'] = << >> /\ echoes'[cur'] = 0
        /\ up'[cur'] = Append(q, f) /\ todo'[r] = Tail(t)
    BY <1>3, <1>6, <2>1, <2>4 DEF Written
  <2>10. Tail(t) # << >> => \A i \in 1 .. Len(up'[cur']) : up'[cur'][i].kind # "REQUEST_END"
    BY <2>4, <2>7, <2>9
  <2>11. Tail(t) = << >> => EndsOnce(up[cur], "REQUEST_END")'
    BY <2>4, <2>8, <2>9 DEF EndsOnce
  <2> QED BY <2>5, <2>9, <2>10, <2>11 DEF Written
<1> QED BY <1>9, <1>10, <1>11, <1>12 DEF Preserved

(* reconnect leaves one open connection, on which nothing is under way.    *)
LEMMA RedialKeeps ==
  ASSUME OrderlyInv, NEW r \in Requests, Redial(r) PROVE Preserved(r)
<1>1. /\ FlowTypes /\ TypeOK /\ NetInv /\ PlaceInv(r) /\ ResultInv(r)
  BY DEF OrderlyInv, FlowTypes
<1> DEFINE d == dialed + 1
<1>2. /\ UNCHANGED <<next, sid, todo, result, flow, recvMu, deploy, engineUp, crashes>>
      /\ pc[r] = "redial" /\ pc' = [pc EXCEPT ![r] = "rewrite"] /\ engineUp
      /\ dialed' = d /\ cur' = d /\ held' = [held EXCEPT ![r] = d]
      /\ status' = [status EXCEPT ![cur] = "closed", ![d] = "open"]
      /\ up' = [up EXCEPT ![cur] = << >>] /\ down' = [down EXCEPT ![cur] = << >>]
      /\ signals' = [signals EXCEPT ![cur] = << >>] /\ echoes' = [echoes EXCEPT ![cur] = 0]
  BY DEF Redial, envVars
<1>3. d \in Conns /\ cur \in Conns /\ d # cur
  BY <1>1, FlowAssumption DEF Redial, TypeOK, NetInv, Conns
<1> HIDE DEF d
<1>4. /\ pc' \in [Requests -> Places] /\ pc'[r] = "rewrite"
      /\ held' \in [Requests -> Conns] /\ held'[r] = d
      /\ status' \in [Conns -> {"open", "dead", "closed"}]
      /\ status'[d] = "open" /\ \A c \in Conns \ {d} : status'[c] = "closed"
  BY <1>1, <1>2, <1>3 DEF TypeOK, Places, NetInv
<1>5. /\ up' \in [Conns -> Seq(RequestFrame)] /\ down' \in [Conns -> Seq(VerdictFrame)]
      /\ signals' \in [Conns -> Seq(Nat)] /\ echoes' \in [Conns -> Nat]
      /\ \A c \in Conns : /\ up'[c] = << >> /\ down'[c] = << >> /\ signals'[c] = << >>
                           /\ echoes'[c] = 0
  BY <1>1, <1>2, <1>3 DEF FlowTypes, NetInv, Clean
<1>6. FlowTypes'
  BY <1>1, <1>2, <1>3, <1>4, <1>5 DEF FlowTypes, TypeOK
<1>7. NetInv'
  BY <1>1, <1>2, <1>3, <1>4, <1>5 DEF NetInv, Clean, Fate
<1>8. PlaceInv(r)' /\ WaitInv(r)' /\ ResultInv(r)'
  BY <1>1, <1>2, <1>4 DEF PlaceInv, WaitInv, ResultInv, Fate, Oversized, TooLarge, Transport
<1>9. ExchangeInv(r)' /\ Clean(cur)'
  BY <1>2, <1>3, <1>4, <1>5 DEF ExchangeInv, Clean
<1> QED BY <1>6, <1>7, <1>8, <1>9 DEF Preserved

(* The doorbell rings when the whole transaction is in the ring.           *)
LEMMA SignalKeeps ==
  ASSUME OrderlyInv, NEW r \in Requests, Signal(r), Orderly PROVE Preserved(r)
<1>1. /\ FlowTypes /\ TypeOK /\ NetInv /\ PlaceInv(r) /\ ResultInv(r)
      /\ status[cur] = "open" => ExchangeInv(r)
  BY DEF OrderlyInv, FlowTypes
<1>2. Signals(r)
  BY DEF Signals, Orderly, FlowSerial
<1>3. /\ UNCHANGED <<next, sid, todo, held, result, flow, recvMu, cur, dialed, status, up, down,
                     echoes, deploy, engineUp, crashes>>
      /\ pc[r] = "send" /\ pc' = [pc EXCEPT ![r] = "await"] /\ todo[r] = << >>
      /\ status[cur] = "open"
      /\ signals' = [signals EXCEPT ![cur] = Append(@, sid[r])]
  BY <1>2 DEF Signal, envVars
<1>4. Written(r)
  BY <1>1, <1>3 DEF ExchangeInv
<1>5. /\ pc' \in [Requests -> Places] /\ pc'[r] = "await" /\ signals' \in [Conns -> Seq(Nat)]
      /\ signals'[cur] = << sid[r] >> /\ \A c \in Conns \ {cur} : signals'[c] = signals[c]
  <2>1. signals[cur] = << >> /\ sid[r] \in Nat /\ cur \in Conns
    BY <1>1, <1>4 DEF Written, TypeOK
  <2>2. Append(<< >>, sid[r]) = << sid[r] >> /\ << sid[r] >> \in Seq(Nat)
    BY <2>1
  <2>3. signals' = [signals EXCEPT ![cur] = << sid[r] >>]
    BY <1>3, <2>1, <2>2
  <2> QED BY <1>1, <1>3, <2>1, <2>2, <2>3 DEF FlowTypes, TypeOK, Places
<1>6. FlowTypes'
  BY <1>1, <1>3, <1>5 DEF FlowTypes, TypeOK
<1>7. NetInv'
  BY <1>1, <1>3, <1>5 DEF NetInv, Clean, Fate
<1>8. Rung(r)'
  BY <1>3, <1>4, <1>5 DEF Written, Rung, AllOf, EndsOnce
<1>9. PlaceInv(r)' /\ WaitInv(r)' /\ ResultInv(r)'
  BY <1>1, <1>3, <1>5, <1>8 DEF PlaceInv, WaitInv, ResultInv, Fate, Oversized, Rung, AllOf
<1>10. ExchangeInv(r)' /\ InFlight(r)'
  BY <1>5, <1>8 DEF ExchangeInv, InFlight
<1> QED BY <1>6, <1>7, <1>9, <1>10 DEF Preserved

(* What is left of the answers after the first: all of the session, and    *)
(* empty when that was the final verdict.                                  *)
LEMMA AnswersLeft ==
  ASSUME NEW q \in Seq(VerdictFrame), NEW r \in Requests, AllOf(q, r), q # << >>
  PROVE  /\ Head(q) \in VerdictFrame /\ Head(q).of = r /\ Head(q).sid = sid[r]
         /\ Tail(q) \in Seq(VerdictFrame) /\ AllOf(Tail(q), r)
         /\ EndsOnce(q, "final") =>
              \/ Head(q).kind = "final" /\ Tail(q) = << >>
              \/ Head(q).kind = "inspect" /\ EndsOnce(Tail(q), "final")
<1>1. PICK n \in Nat \ {0} : n = Len(q)
  OBVIOUS
<1>2. PICK u \in Seq(VerdictFrame) : u = Tail(q)
  <2>1. Tail(q) \in Seq(VerdictFrame)
    OBVIOUS
  <2> QED BY <2>1
<1>3. /\ Len(u) = n - 1 /\ (\A i \in 1 .. n - 1 : u[i] = q[i + 1] /\ i + 1 \in 1 .. n)
      /\ Head(q) = q[1] /\ q[1] \in VerdictFrame /\ 1 \in 1 .. n
  BY <1>1, <1>2
<1>4. Head(q).of = r /\ Head(q).sid = sid[r] /\ AllOf(u, r)
  BY <1>1, <1>3 DEF AllOf
<1>5. ASSUME EndsOnce(q, "final")
      PROVE  \/ Head(q).kind = "final" /\ u = << >>
             \/ Head(q).kind = "inspect" /\ EndsOnce(u, "final")
  <2>1. \A i \in 1 .. n : q[i].kind = "final" <=> i = n
    BY <1>1, <1>5 DEF EndsOnce
  <2>2. CASE n = 1
    BY <1>3, <2>1, <2>2
  <2>3. CASE n # 1
    <3>1. Head(q).kind = "inspect" /\ u # << >>
      BY <1>3, <2>1, <2>3 DEF VerdictFrame
    <3>2. ASSUME NEW i \in 1 .. n - 1 PROVE u[i].kind = "final" <=> i = n - 1
      <4>1. i + 1 \in 1 .. n /\ (i + 1 = n <=> i = n - 1) /\ u[i] = q[i + 1]
        BY <1>3
      <4> QED BY <2>1, <4>1
    <3> QED BY <1>3, <3>1, <3>2 DEF EndsOnce
  <2> QED BY <2>2, <2>3
<1> QED BY <1>2, <1>3, <1>4, <1>5

(* A session that takes a frame from the ring, with the echo or without.   *)
LEMMA TakeKeeps ==
  ASSUME OrderlyInv, NEW r \in Requests, NEW p \in {"await", "drain"},
         pc[r] \in {"recv", "drain"}, down[cur] # << >>,
         Handle(r, Head(down[cur]), p), down' = [down EXCEPT ![cur] = Tail(@)],
         echoes' \in [Conns -> Nat], \A c \in Conns \ {cur} : echoes'[c] = echoes[c],
         status[cur] = "open" => Answered(r, echoes[cur]) /\ echoes'[cur] = 0,
         recvMu' \in Requests \cup {None},
         UNCHANGED <<next, sid, todo, held, flow, cur, dialed, status, up, signals, envVars>>
  PROVE  Preserved(r)
<1>1. /\ FlowTypes /\ TypeOK /\ NetInv /\ WaitInv(r) /\ ResultInv(r) /\ cur \in Conns
      /\ UNCHANGED <<deploy, engineUp, crashes>>
  BY DEF OrderlyInv, FlowTypes, TypeOK, envVars
<1>2. PICK q \in Seq(VerdictFrame) : q = down[cur]
  BY <1>1 DEF FlowTypes
<1>3. AllOf(q, r) /\ q # << >>
  BY <1>1, <1>2 DEF WaitInv
<1> DEFINE f == Head(q)
<1>4. /\ f \in VerdictFrame /\ f.of = r /\ f.sid = sid[r]
      /\ Tail(q) \in Seq(VerdictFrame) /\ AllOf(Tail(q), r)
      /\ EndsOnce(q, "final") =>
           \/ f.kind = "final" /\ Tail(q) = << >>
           \/ f.kind = "inspect" /\ EndsOnce(Tail(q), "final")
  BY <1>3, AnswersLeft
<1> HIDE DEF f
<1>5. /\ down' \in [Conns -> Seq(VerdictFrame)] /\ down'[cur] = Tail(q)
      /\ \A c \in Conns \ {cur} : down'[c] = down[c]
  BY <1>1, <1>2, <1>4 DEF FlowTypes
<1>6. Handle(r, f, p)
  BY <1>2 DEF f
<1>7. \/ /\ f.kind = "final" /\ pc' = [pc EXCEPT ![r] = "end"]
         /\ result' = [result EXCEPT ![r] = r]
      \/ f.kind = "inspect" /\ pc' = [pc EXCEPT ![r] = "drain"] /\ result' = result
  BY <1>4, <1>6 DEF Handle, VerdictFrame
<1>8. /\ pc' \in [Requests -> Places] /\ result' \in [Requests -> Requests \cup {None, "failed"}]
      /\ \/ f.kind = "final" /\ pc'[r] = "end" /\ result'[r] = r
         \/ f.kind = "inspect" /\ pc'[r] = "drain" /\ result'[r] = result[r]
  BY <1>1, <1>7 DEF TypeOK, Places
<1>9. FlowTypes'
  BY <1>1, <1>5, <1>8 DEF FlowTypes, TypeOK
<1>10. NetInv'
  BY <1>1, <1>5 DEF NetInv, Clean, Fate
<1>11. PlaceInv(r)' /\ WaitInv(r)' /\ ResultInv(r)'
  <2>1. r # "failed"
    BY FlowAssumption
  <2>2. AllOf(down[cur], r)'
    <3>1. down'[cur'] = Tail(q) /\ sid'[r] = sid[r]
      BY <1>5
    <3> QED BY <1>4, <3>1 DEF AllOf
  <2> QED BY <1>1, <1>8, <2>1, <2>2 DEF PlaceInv, WaitInv, ResultInv, Fate, Oversized
<1>12. status'[cur'] = "open" => ExchangeInv(r)' /\ (~InFlight(r)' => Clean(cur)')
  <2> SUFFICES ASSUME status[cur] = "open" PROVE ExchangeInv(r)' /\ InFlight(r)'
    BY <1>1
  <2>1. EndsOnce(q, "final") /\ up'[cur'] = << >> /\ signals'[cur'] = << >> /\ echoes'[cur'] = 0
    BY <1>2 DEF Answered
  <2>2. CASE f.kind = "final"
    BY <1>4, <1>5, <1>8, <2>1, <2>2 DEF ExchangeInv, InFlight, Clean
  <2>3. CASE f.kind = "inspect"
    <3>1. Answered(r, 0)'
      BY <1>4, <1>5, <2>1, <2>3 DEF Answered, AllOf, EndsOnce
    <3> QED BY <1>8, <2>3, <3>1 DEF ExchangeInv, InFlight
  <2> QED BY <1>8, <2>2, <2>3
<1> QED BY <1>9, <1>10, <1>11, <1>12 DEF Preserved

(* Recv takes the echo and the first answer.                               *)
LEMMA RecvFrameKeeps ==
  ASSUME OrderlyInv, NEW r \in Requests, RecvFrame(r), Orderly PROVE Preserved(r)
<1>1. /\ FlowTypes /\ TypeOK /\ PlaceInv(r) /\ NetInv /\ WaitInv(r) /\ ResultInv(r)
      /\ status[cur] = "open" => ExchangeInv(r)
  BY DEF OrderlyInv, FlowTypes
<1>2. pc[r] = "recv" /\ held[r] = cur /\ FlowSerial /\ cur \in Conns
  BY <1>1 DEF RecvFrame, PlaceInv, Orderly, FlowSerial, TypeOK
<1>3. /\ echoes[cur] > 0 /\ echoes' = [echoes EXCEPT ![cur] = @ - 1]
      /\ UNCHANGED <<next, sid, todo, held, flow, cur, dialed, status, up, signals, envVars>>
  BY <1>2 DEF RecvFrame, Readable
<1>4. /\ echoes' \in [Conns -> Nat] /\ echoes'[cur] = echoes[cur] - 1
      /\ \A c \in Conns \ {cur} : echoes'[c] = echoes[c]
  BY <1>1, <1>2, <1>3 DEF FlowTypes
<1>5. status[cur] = "open" => Answered(r, 1)
  BY <1>1, <1>2, <1>3 DEF ExchangeInv, Rung
<1>6. CASE down[cur] = << >>
  <2>1. UNCHANGED <<pc, result, recvMu, down>> /\ UNCHANGED <<deploy, engineUp, crashes>>
    BY <1>2, <1>3, <1>6 DEF RecvFrame, envVars
  <2>2. status[cur] # "open"
    BY <1>5, <1>6 DEF Answered, EndsOnce
  <2>3. FlowTypes'
    BY <1>1, <1>3, <1>4, <2>1 DEF FlowTypes, TypeOK
  <2>4. NetInv'
    BY <1>1, <1>3, <1>4, <2>1 DEF NetInv, Clean, Fate
  <2>5. PlaceInv(r)' /\ WaitInv(r)' /\ ResultInv(r)'
    BY <1>1, <1>2, <1>3, <2>1 DEF PlaceInv, WaitInv, ResultInv, Fate, Oversized, AllOf
  <2> QED BY <1>3, <2>2, <2>3, <2>4, <2>5 DEF Preserved
<1>7. CASE down[cur] # << >>
  <2>1. /\ Handle(r, Head(down[cur]), "await") /\ recvMu' = None
        /\ down' = [down EXCEPT ![cur] = Tail(@)]
    BY <1>2, <1>7 DEF RecvFrame
  <2>2. status[cur] = "open" => Answered(r, echoes[cur]) /\ echoes'[cur] = 0
    BY <1>4, <1>5 DEF Answered
  <2> QED BY <1>2, <1>3, <1>4, <1>7, <2>1, <2>2, TakeKeeps
<1> QED BY <1>6, <1>7

(* RecvQueued takes the next answer, until the final verdict.              *)
LEMMA DrainKeeps ==
  ASSUME OrderlyInv, NEW r \in Requests, Drain(r), Orderly PROVE Preserved(r)
<1>1. /\ FlowTypes /\ TypeOK /\ NetInv /\ WaitInv(r) /\ ResultInv(r) /\ "await" \in Places
      /\ status[cur] = "open" => ExchangeInv(r)
  BY DEF OrderlyInv, FlowTypes, Places
<1>2. /\ pc[r] = "drain" /\ FlowSerial /\ status[cur] # "closed"
      /\ UNCHANGED <<next, sid, todo, held, flow, recvMu, cur, dialed, status, up, signals, echoes,
                     envVars>>
  BY <1>1 DEF Drain, NetInv, Orderly, FlowSerial
<1>3. status[cur] = "open" => Answered(r, 0)
  BY <1>1, <1>2 DEF ExchangeInv
<1>4. CASE down[cur] # << >>
  <2>1. /\ Handle(r, Head(down[cur]), "drain") /\ down' = [down EXCEPT ![cur] = Tail(@)]
    BY <1>2, <1>4 DEF Drain
  <2>2. status[cur] = "open" => Answered(r, echoes[cur]) /\ echoes'[cur] = 0
    BY <1>2, <1>3 DEF Answered
  <2>3. /\ echoes' \in [Conns -> Nat] /\ recvMu' \in Requests \cup {None}
        /\ \A c \in Conns \ {cur} : echoes'[c] = echoes[c]
    BY <1>1, <1>2 DEF FlowTypes, TypeOK
  <2> QED BY <1>2, <1>4, <2>1, <2>2, <2>3, TakeKeeps
<1>5. CASE down[cur] = << >>
  <2>1. pc' = [pc EXCEPT ![r] = "await"] /\ UNCHANGED <<result, down>>
    BY <1>2, <1>5 DEF Drain
  <2>2. status[cur] # "open"
    BY <1>3, <1>5 DEF Answered, EndsOnce
  <2>3. ResultInv(r)'
    BY <1>1, <1>2, <2>1 DEF ResultInv, envVars, Fate, Oversized
  <2>4. UNCHANGED <<sid, todo, netVars, envVars>>
    BY <1>2, <2>1 DEF netVars
  <2>5. AllOf(down[cur], r)
    BY <1>1, <1>2 DEF WaitInv
  <2> QED BY <1>1, <1>2, <2>1, <2>2, <2>3, <2>4, <2>5, MoveKeeps DEF TypeOK
<1> QED BY <1>4, <1>5

(* The engine drains the ring of the session that rang.                    *)
LEMMA EngineDrainKeeps ==
  ASSUME OrderlyInv, SessionInv, NEW c \in Conns, EngineDrain(c), Orderly
  PROVE  OrderlyInv'
<1>1. /\ FlowTypes /\ TypeOK /\ NetInv /\ cur \in Conns
      /\ \A r \in Requests : PlaceInv(r) /\ WaitInv(r) /\ ResultInv(r)
      /\ status[cur] = "open" => \A r \in Requests : ExchangeInv(r)
  BY DEF OrderlyInv, FlowTypes, TypeOK
<1>2. c = cur /\ status[cur] = "open" /\ signals[cur] # << >>
  BY <1>1 DEF EngineDrain, NetInv
<1>3. PICK r \in Requests : pc[r] \in {"await", "lock", "recv"} /\ Rung(r)
  <2>1. ~Clean(cur)
    BY <1>2 DEF Clean
  <2>2. PICK r \in Requests : InFlight(r)
    BY <1>2, <2>1 DEF OrderlyInv
  <2>3. pc[r] \in Places \ {"idle", "done"}
    BY <1>1, <2>2 DEF TypeOK, InFlight
  <2> QED BY <1>1, <1>2, <2>1, <2>3 DEF ExchangeInv, Written, Answered, Places
<1>4. \A s \in Requests \ {r} : pc[s] \in {"idle", "done"}
  BY <1>3 DEF SessionInv, OneSessionPerRing, Orderly, FlowSerial, InFlight
<1>5. PICK q \in Seq(RequestFrame) : q = up[cur]
  BY <1>1 DEF FlowTypes
<1>6. /\ AllOf(q, r) /\ EndsOnce(q, "REQUEST_END") /\ Head(signals[cur]) = sid[r]
      /\ Tail(signals[cur]) = << >> /\ sid[r] \in Nat /\ down[cur] = << >> /\ echoes[cur] = 0
  BY <1>1, <1>3, <1>5 DEF Rung, TypeOK
<1>7. FramesOf(q, sid[r]) = q
  BY <1>6, FramesOfOne DEF AllOf
<1>8. PICK v : v = [i \in DOMAIN q |-> Answer(q[i])]
  OBVIOUS
<1>9. v \in Seq(VerdictFrame) /\ AllOf(v, r) /\ EndsOnce(v, "final")
  BY <1>6, <1>8, AnswersEnd
<1>10. /\ down' = [down EXCEPT ![cur] = @ \o v] /\ up' = [up EXCEPT ![cur] = << >>]
       /\ signals' = [signals EXCEPT ![cur] = Tail(@)] /\ echoes' = [echoes EXCEPT ![cur] = @ + 1]
       /\ UNCHANGED <<next, pc, sid, todo, held, result, flow, recvMu, cur, dialed, status, deploy,
                      engineUp, crashes>>
  BY <1>2, <1>5, <1>6, <1>7, <1>8 DEF EngineDrain, txVars, envVars
<1>11. << >> \o v = v
  BY <1>9
<1>12. /\ down' = [down EXCEPT ![cur] = v] /\ signals' = [signals EXCEPT ![cur] = << >>]
       /\ echoes' = [echoes EXCEPT ![cur] = 1]
  <2>1. down' = [down EXCEPT ![cur] = v]
    BY <1>6, <1>10, <1>11
  <2>2. signals' = [signals EXCEPT ![cur] = << >>]
    BY <1>6, <1>10
  <2>3. echoes' = [echoes EXCEPT ![cur] = 1]
    BY <1>6, <1>10
  <2> QED BY <2>1, <2>2, <2>3
<1>13. /\ down' \in [Conns -> Seq(VerdictFrame)] /\ up' \in [Conns -> Seq(RequestFrame)]
       /\ signals' \in [Conns -> Seq(Nat)] /\ echoes' \in [Conns -> Nat]
       /\ down'[cur] = v /\ up'[cur] = << >> /\ signals'[cur] = << >> /\ echoes'[cur] = 1
       /\ \A d \in Conns \ {cur} : /\ down'[d] = down[d] /\ up'[d] = up[d]
                                     /\ signals'[d] = signals[d] /\ echoes'[d] = echoes[d]
  <2>1. << >> \in Seq(Nat) /\ << >> \in Seq(RequestFrame)
    OBVIOUS
  <2>2. /\ down' \in [Conns -> Seq(VerdictFrame)] /\ down'[cur] = v
        /\ \A d \in Conns \ {cur} : down'[d] = down[d]
    BY <1>1, <1>9, <1>12 DEF FlowTypes
  <2>3. /\ up' \in [Conns -> Seq(RequestFrame)] /\ up'[cur] = << >>
        /\ \A d \in Conns \ {cur} : up'[d] = up[d]
    BY <1>1, <1>10, <2>1 DEF FlowTypes
  <2>4. /\ signals' \in [Conns -> Seq(Nat)] /\ signals'[cur] = << >>
        /\ \A d \in Conns \ {cur} : signals'[d] = signals[d]
    BY <1>1, <1>12, <2>1 DEF FlowTypes
  <2>5. /\ echoes' \in [Conns -> Nat] /\ echoes'[cur] = 1
        /\ \A d \in Conns \ {cur} : echoes'[d] = echoes[d]
    BY <1>1, <1>12 DEF FlowTypes
  <2> QED BY <2>2, <2>3, <2>4, <2>5
<1>14. FlowTypes' /\ NetInv'
  <2>1. FlowTypes'
    BY <1>1, <1>10, <1>13 DEF FlowTypes, TypeOK
  <2>2. NetInv'
    BY <1>1, <1>10, <1>13 DEF NetInv, Clean, Fate
  <2> QED BY <2>1, <2>2
<1>15. Answered(r, 1)'
  <2>1. /\ down'[cur'] = v /\ up'[cur'] = << >> /\ signals'[cur'] = << >>
        /\ echoes'[cur'] = 1 /\ sid'[r] = sid[r]
    BY <1>10, <1>13
  <2> QED BY <1>9, <2>1 DEF Answered, AllOf, EndsOnce
<1>16. ASSUME NEW s \in Requests
       PROVE  PlaceInv(s)' /\ WaitInv(s)' /\ ResultInv(s)' /\ ExchangeInv(s)'
  <2>1. PlaceInv(s)' /\ ResultInv(s)'
    BY <1>1, <1>10 DEF PlaceInv, ResultInv, Fate, Oversized, TooLarge, Transport
  <2>2. CASE s = r
    <3>1. pc'[r] \in {"await", "lock", "recv"} /\ AllOf(down[cur], r)'
      BY <1>3, <1>10, <1>15 DEF Answered
    <3> QED BY <1>15, <2>1, <2>2, <3>1 DEF WaitInv, ExchangeInv
  <2>3. CASE s # r
    BY <1>4, <1>10, <2>1, <2>3 DEF WaitInv, ExchangeInv
  <2> QED BY <2>2, <2>3
<1>17. InFlight(r)'
  BY <1>3, <1>10 DEF InFlight
<1> QED BY <1>14, <1>16, <1>17 DEF OrderlyInv

(* A crash leaves what the session has not read yet, on a dead connection. *)
LEMMA CrashKeeps ==
  ASSUME OrderlyInv, EngineCrash \/ EngineRestart PROVE OrderlyInv'
<1>1. /\ FlowTypes /\ TypeOK /\ NetInv /\ cur \in Conns
      /\ \A r \in Requests : PlaceInv(r) /\ WaitInv(r) /\ ResultInv(r)
  BY DEF OrderlyInv, FlowTypes, TypeOK
<1>2. CASE EngineCrash
  <2>1. /\ UNCHANGED <<deploy, next, pc, sid, todo, held, result, flow, recvMu, cur, dialed, down,
                       echoes>>
        /\ engineUp' = FALSE /\ crashes' = crashes + 1
        /\ status' = [c \in Conns |-> IF status[c] = "open" THEN "dead" ELSE status[c]]
        /\ up' = [c \in Conns |-> IF FlowSerial THEN up[c] ELSE << >>]
        /\ signals' = [c \in Conns |-> << >>]
    BY <1>2 DEF EngineCrash, txVars
  <2>2. status' \in [Conns -> {"open", "dead", "closed"}] /\ status'[cur] = "dead"
        /\ \A c \in Conns \ {cur} : status'[c] = "closed"
    BY <1>1, <2>1 DEF TypeOK, NetInv
  <2>3. FlowTypes'
    <3>1. up' \in [Conns -> Seq(RequestFrame)] /\ signals' \in [Conns -> Seq(Nat)]
      BY <1>1, <2>1 DEF FlowTypes
    <3>2. engineUp' \in BOOLEAN
      BY <2>1, Zenon
    <3>3. crashes' \in Nat
      BY <1>1, <2>1 DEF FlowTypes
    <3> QED BY <1>1, <2>1, <2>2, <3>1, <3>2, <3>3 DEF FlowTypes, TypeOK
  <2>4. crashes' # 0
    BY <1>1, <2>1 DEF FlowTypes
  <2>5. NetInv'
    BY <1>1, <2>1, <2>2, <2>4 DEF NetInv, Clean
  <2>6. ASSUME NEW r \in Requests PROVE PlaceInv(r)' /\ WaitInv(r)' /\ ResultInv(r)'
    BY <1>1, <2>1, <2>4 DEF PlaceInv, WaitInv, ResultInv, AllOf, TooLarge, Transport, Oversized
  <2> QED BY <2>1, <2>2, <2>3, <2>5, <2>6 DEF OrderlyInv
<1>3. CASE EngineRestart
  <2>1. /\ UNCHANGED <<deploy, next, pc, sid, todo, held, result, flow, recvMu, cur, dialed, status,
                       up, down, signals, echoes, crashes>>
        /\ engineUp'
    BY <1>3 DEF EngineRestart, txVars, netVars
  <2>2. FlowTypes' /\ NetInv'
    <3>1. engineUp' \in BOOLEAN
      BY <2>1, <1>3 DEF EngineRestart
    <3>2. FlowTypes'
      BY <1>1, <2>1, <3>1 DEF FlowTypes, TypeOK
    <3>3. NetInv'
      BY <1>1, <2>1 DEF NetInv, Clean, Fate
    <3> QED BY <3>2, <3>3
  <2>3. ASSUME NEW r \in Requests
        PROVE  PlaceInv(r)' /\ WaitInv(r)' /\ ResultInv(r)'
    BY <1>1, <2>1 DEF PlaceInv, WaitInv, ResultInv, AllOf, TooLarge, Transport, Oversized, Fate
  <2>4. ASSUME NEW r \in Requests, status'[cur'] = "open" PROVE ExchangeInv(r)'
    BY <2>1, <2>4 DEF OrderlyInv, ExchangeInv, Written, Rung, Answered, Clean, AllOf, EndsOnce
  <2>5. status'[cur'] = "open" /\ (\A r \in Requests : ~InFlight(r)') => Clean(cur)'
    BY <2>1 DEF OrderlyInv, Clean, InFlight
  <2> QED BY <2>2, <2>3, <2>4, <2>5 DEF OrderlyInv
<1> QED BY <1>2, <1>3

(* Every step preserves the invariant of the orderly deployments.          *)
LEMMA OrderlyStep ==
  SessionInv /\ (Orderly => OrderlyInv) /\ [Next]_vars => (Orderly => OrderlyInv)'
<1> SUFFICES ASSUME SessionInv, Orderly => OrderlyInv, [Next]_vars, Orderly'
             PROVE  OrderlyInv'
  OBVIOUS
<1>1. UNCHANGED deploy
  BY DEF Next, Session, Begin, Snapshot, Write, WriteFails, Redial, RedialFails, Rewrite,
         RewriteFails, Cancelled, Signal, SignalFails, Poll, Recv, RecvFrame, RecvFails, Drain,
         Timeout, End, GiveUp, WriteFrame, Engine, MockServe, EngineDrain, EngineCrash,
         EngineRestart, vars, envVars
<1>2. Orderly /\ OrderlyInv /\ SessionInv'
  BY <1>1, SessionStep DEF Orderly, Transport, Deadline, Responses
<1>3. ASSUME NEW r \in Requests, Session(r) PROVE OrderlyInv'
  <2>1. Preserved(r)
    <3>1. CASE Begin(r)
      <4>1. \A s \in Requests : ~InFlight(s)
        BY <1>2, <3>1, FlowAssumption
        DEF Begin, lockFlow, SessionInv, OneSessionPerRing, FlowSerial, Orderly
      <4> QED BY <1>2, <3>1, <4>1, BeginKeeps
    <3>2. CASE RedialFails(r) \/ RewriteFails(r) \/ Cancelled(r) \/ SignalFails(r) \/ End(r)
      BY <1>2, <3>2, WaysOutKeep
    <3>3. CASE Snapshot(r) \/ WriteFails(r) \/ Poll(r) \/ Recv(r)
      BY <1>2, <3>3, SnapshotKeeps, WriteFailsKeeps, PollKeeps, RecvKeeps
    <3>4. CASE Write(r) \/ Rewrite(r)
      BY <1>2, <3>4, WriteKeeps
    <3>5. CASE Redial(r)
      BY <1>2, <3>5, RedialKeeps
    <3>6. CASE Signal(r)
      BY <1>2, <3>6, SignalKeeps
    <3>7. CASE RecvFrame(r)
      BY <1>2, <3>7, RecvFrameKeeps
    <3>8. CASE Drain(r)
      BY <1>2, <3>8, DrainKeeps
    <3>9. CASE RecvFails(r) \/ Timeout(r)
      BY <1>2, <3>9, GiveUpKeeps
    <3> QED BY <1>3, <3>1, <3>2, <3>3, <3>4, <3>5, <3>6, <3>7, <3>8, <3>9 DEF Session
  <2>2. /\ UNCHANGED crashes
        /\ \A s \in Requests \ {r} : pc'[s] = pc[s] /\ result'[s] = result[s]
    <3>1. TypeOK
      BY <1>2 DEF OrderlyInv, FlowTypes
    <3>2. CASE Begin(r) \/ Snapshot(r) \/ Write(r) \/ WriteFails(r) \/ Redial(r) \/ Rewrite(r)
      BY <3>1, <3>2 DEF TypeOK, Begin, Snapshot, Write, WriteFails, Redial, Rewrite, WriteFrame,
                        envVars
    <3>3. CASE RedialFails(r) \/ RewriteFails(r) \/ Cancelled(r) \/ SignalFails(r) \/ End(r)
      BY <3>1, <3>3 DEF TypeOK, RedialFails, RewriteFails, Cancelled, SignalFails, End, Fail,
                        EndRequest, envVars
    <3>4. CASE Signal(r) \/ Poll(r) \/ Recv(r) \/ RecvFails(r) \/ Timeout(r)
      BY <3>1, <3>4 DEF TypeOK, Signal, Poll, Recv, RecvFails, Timeout, GiveUp, envVars
    <3>5. CASE RecvFrame(r) \/ Drain(r)
      BY <3>1, <3>5 DEF TypeOK, RecvFrame, Drain, Handle, envVars
    <3> QED BY <1>3, <3>2, <3>3, <3>4, <3>5 DEF Session
  <2>3. \A s \in Requests \ {r} : ~InFlight(s)
    <3>1. InFlight(r) \/ Begin(r)
      BY <1>3 DEF Session, Snapshot, Write, WriteFails, Redial, RedialFails, Rewrite, RewriteFails,
                  Cancelled, Signal, SignalFails, Poll, Recv, RecvFrame, RecvFails, Drain, Timeout,
                  End, InFlight
    <3>2. flow \in {None, r}
      BY <1>2, <3>1 DEF Begin, lockFlow, SessionInv, OneSessionPerRing, FlowSerial, Orderly
    <3> QED BY <1>2, <3>2, FlowAssumption DEF SessionInv, OneSessionPerRing, FlowSerial, Orderly
  <2> QED BY <1>1, <1>2, <2>1, <2>2, <2>3, SoloStep
<1>4. CASE Engine
  <2>1. ASSUME NEW c \in Conns PROVE ~MockServe(c)
    BY <1>2 DEF MockServe, Orderly, FlowSerial
  <2>2. CASE \E c \in Conns : EngineDrain(c)
    BY <1>2, <2>2, EngineDrainKeeps
  <2>3. CASE EngineCrash \/ EngineRestart
    BY <1>2, <2>3, CrashKeeps
  <2> QED BY <1>4, <2>1, <2>2, <2>3 DEF Engine
<1>5. CASE UNCHANGED vars
  <2>1. UNCHANGED <<next, pc, sid, todo, held, result, flow, recvMu, cur, dialed, status, up, down,
                    signals, echoes, deploy, engineUp, crashes>>
    BY <1>5 DEF vars, txVars, netVars, envVars
  <2>2. FlowTypes' /\ NetInv'
    BY <1>2, <2>1 DEF OrderlyInv, FlowTypes, TypeOK, NetInv, Clean, Fate
  <2>3. ASSUME NEW r \in Requests PROVE PlaceInv(r)' /\ WaitInv(r)' /\ ResultInv(r)'
    BY <1>2, <2>1 DEF OrderlyInv, PlaceInv, WaitInv, ResultInv, AllOf, TooLarge, Transport,
                      Oversized, Fate
  <2>4. ASSUME NEW r \in Requests, status'[cur'] = "open" PROVE ExchangeInv(r)'
    BY <1>2, <2>1, <2>4
    DEF OrderlyInv, ExchangeInv, Written, Rung, Answered, Clean, AllOf, EndsOnce
  <2>5. status'[cur'] = "open" /\ (\A r \in Requests : ~InFlight(r)') => Clean(cur)'
    BY <1>2, <2>1 DEF OrderlyInv, Clean, InFlight
  <2> QED BY <2>2, <2>3, <2>4, <2>5 DEF OrderlyInv
<1> QED BY <1>3, <1>4, <1>5 DEF Next

(* The first connection is clean.                                          *)
LEMMA OrderlyInit == Init => SessionInv /\ (Orderly => OrderlyInv)
<1> SUFFICES ASSUME Init PROVE SessionInv /\ OrderlyInv
  OBVIOUS
<1>1. SessionInv
  BY DEF Init, SessionInv, InFlight, Places, FirstSid, UniqueSessions, OneSessionPerRing
<1>2. /\ 1 \in Conns /\ cur = 1 /\ dialed = 1
      /\ \A c \in Conns : Clean(c) /\ (c # 1 => status[c] = "closed")
      /\ status[1] = IF Fate = "gone" THEN "dead" ELSE "open"
      /\ status \in [Conns -> {"open", "dead", "closed"}]
      /\ engineUp \in BOOLEAN /\ (engineUp <=> Fate # "gone") /\ crashes = 0
  <2>1. 1 \in Conns
    BY FlowAssumption DEF Conns
  <2>2. engineUp \in BOOLEAN /\ (engineUp <=> Fate # "gone")
    <3>1. engineUp = (Fate # "gone")
      BY DEF Init
    <3> QED BY <3>1, Zenon
  <2>3. \A c \in Conns : Clean(c)
    BY DEF Init, Clean
  <2>4. /\ \A c \in Conns : c # 1 => status[c] = "closed"
        /\ status[1] = IF Fate = "gone" THEN "dead" ELSE "open"
        /\ status \in [Conns -> {"open", "dead", "closed"}]
    BY <2>1 DEF Init
  <2> QED BY <2>1, <2>2, <2>3, <2>4 DEF Init
<1>3. FlowTypes
  <2>1. << >> \in Seq(RequestKinds) /\ << >> \in Seq(RequestFrame) /\ << >> \in Seq(VerdictFrame)
        /\ << >> \in Seq(Nat)
    OBVIOUS
  <2> QED BY <1>2, <2>1 DEF Init, FlowTypes, TypeOK, Places, FirstSid
<1>4. NetInv
  BY <1>2 DEF NetInv
<1>5. ASSUME NEW r \in Requests
      PROVE  PlaceInv(r) /\ WaitInv(r) /\ ResultInv(r) /\ ExchangeInv(r)
  <2>1. pc[r] = "idle" /\ result[r] = None
    BY DEF Init
  <2>2. None # "failed"
    BY FlowAssumption
  <2> QED BY <2>1, <2>2 DEF PlaceInv, WaitInv, ResultInv, ExchangeInv
<1> QED BY <1>1, <1>2, <1>3, <1>4, <1>5 DEF OrderlyInv

(* On the shared-memory transport, for any number of requests, with and    *)
(* without bodies, fitting the ring or not, and with any crashes and       *)
(* restarts of the engine: a verdict given to a session is the engine's    *)
(* verdict on that session, although all sessions share one id (policy.go, *)
(* await; conn.go, recv and recvQueued).                                   *)
THEOREM VerdictsAreOwn == Spec => []VerdictIsOwn
<1>1. (Orderly => OrderlyInv) => VerdictIsOwn
  BY DEF OrderlyInv, ResultInv, VerdictIsOwn
<1> QED BY <1>1, SessionStep, OrderlyStep, OrderlyInit, PTL DEF Spec

(* There, no request that fits the ring is failed open while the engine    *)
(* has not crashed: its frames, its doorbell and the echo always lead to   *)
(* the verdict (policy.go, await; conn.go, signal).                        *)
THEOREM HealthyEngineIsHeard == Spec => []HealthyEngineAnswers
<1>1. (Orderly => OrderlyInv) => HealthyEngineAnswers
  BY DEF OrderlyInv, ResultInv, HealthyEngineAnswers
<1> QED BY <1>1, SessionStep, OrderlyStep, OrderlyInit, PTL DEF Spec
=============================================================================
