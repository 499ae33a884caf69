---------------------------- MODULE VerdictFlow -----------------------------
(***************************************************************************)
(* One shared engine connection (internal/app/conn.go, Conn) and the       *)
(* inspection sessions that the HTTP requests of one process run over it   *)
(* (internal/app/policy.go, FailOpenPolicy).  A session takes the flow     *)
(* lock on the shared-memory transport, allocates a session id, writes the *)
(* frames of its transaction with one redial per frame, rings the comm     *)
(* doorbell, waits for the verdict with its id until the verdict budget is *)
(* spent, and gives the id back.                                           *)
(*                                                                         *)
(* The engine of the shared-memory transport is external: it drains the    *)
(* ring when it is signalled, answers the frames of the signalled session, *)
(* drops the others and writes one echo.  On the memory and socket         *)
(* transports the engine is internal/mock, which serves frame by frame.    *)
(*                                                                         *)
(* A transport connection is a number; conn[0] of the code is number 1,    *)
(* already dialed, and every reconnect dials the next number.              *)
(***************************************************************************)
EXTENDS Integers, Sequences, FiniteSets

CONSTANTS Requests,    \* the inspection sessions
          Bodies,      \* whether a request may carry a body: subset of BOOLEAN
          Deployments, \* the transports, budgets and uses to look at
          MaxCrashes,  \* bound: engine crashes
          MaxConns,    \* bound: transport connections dialed
          MaxSid,      \* bound: session ids stay below it (uint32 in the code)
          None

ASSUME FlowAssumption ==
  /\ Bodies \subseteq BOOLEAN
  /\ Deployments \subseteq [transport : {"shm", "memory", "socket"},
                            deadline  : {"late", "any"},
                            responses : SUBSET Requests,
                            oversized : SUBSET Requests,
                            sessions  : SUBSET Requests,
                            engine    : {"stays", "crashes", "gone"},
                            ring      : Nat]
  /\ MaxCrashes \in Nat /\ MaxConns \in Nat \ {0} /\ MaxSid \in Nat
  /\ None # "failed" /\ Requests \cap {None, "failed"} = {}

VARIABLES deploy,    \* the deployment, fixed by the configuration
          next,      \* SessionAllocator.next
          pc,        \* where each session stands
          sid,       \* its session id
          todo,      \* the frames it has not written yet
          held,      \* the connection snapshot it works on
          result,    \* None, "failed", or the session whose verdict it got
          flow,      \* holder of flowMu
          recvMu,    \* holder of recvMu
          cur,       \* Conn.conn
          dialed,    \* how many connections exist
          status,    \* of each connection: "open", "dead" or "closed"
          up, down,  \* frames on their way to and from the engine
          signals, echoes,      \* the comm socket, in both directions
          engineUp, crashes

txVars == <<pc, sid, todo, held, result>>
netVars == <<cur, dialed, status, up, down, signals, echoes>>
envVars == <<deploy, engineUp, crashes>>
vars == <<next, txVars, flow, recvMu, netVars, envVars>>

Transport == deploy.transport   \* config.EngineConfig
Deadline == deploy.deadline     \* "late": the budget outlasts a working engine;
                                \* "any": it may run out at any time
Responses == deploy.responses   \* the sessions of AcquireResponseVerdict
Oversized == deploy.oversized   \* sessions whose body frame exceeds MaxWriteSize
Sessions == deploy.sessions     \* bound: the sessions that take place
Fate == deploy.engine           \* of the engine: "stays", "crashes" and comes
                                \* back, or "gone" before the first session
RingSize == deploy.ring         \* frames the ring to the engine holds (shm)

FlowSerial == Transport = "shm"
Conns == 1 .. MaxConns

Frame(kind, r) == [kind |-> kind, sid |-> sid[r], of |-> r]
Verdict(kind, f) == [kind |-> kind, sid |-> f.sid, of |-> f.of]

(* The transaction SendRequest or SendResponse plus SendResponseBody sends. *)
(* Requests always carry headers: the handler puts Host first.             *)
RequestFrames(withBody) ==
  IF withBody THEN <<"REQUEST_START", "REQUEST_HEADER", "REQUEST_BODY", "REQUEST_END">>
              ELSE <<"REQUEST_START", "REQUEST_HEADER", "REQUEST_END">>

ResponseFrames == <<"RESPONSE_CODE", "CONTENT_LENGTH", "RESPONSE_BODY">>

Transactions(r) ==
  CASE r \in Responses -> {ResponseFrames}
    [] r \in Oversized \ Responses -> {RequestFrames(TRUE)}
    [] OTHER -> {RequestFrames(b) : b \in Bodies}

TooLarge(r) == /\ Transport = "shm" /\ r \in Oversized
               /\ Head(todo[r]) \in {"REQUEST_BODY", "RESPONSE_BODY"}

-----------------------------------------------------------------------------
(***************************************************************************)
(* The session allocator.                                                  *)
(***************************************************************************)
FirstSid == 3

(* Mutant: some id is taken back although a later one than this session's  *)
(* is in use.                                                              *)
ReclaimAny(id) == IF id < next THEN next - 2 ELSE next

Reclaim(id) == IF id + 2 = next THEN id ELSE next

(***************************************************************************)
(* The flow lock, which only the shm transport needs.                      *)
(***************************************************************************)
LockOmitted == TRUE        \* mutant: sessions are not serialised
lockFlow == FlowSerial => flow = None

unlockFlow == IF FlowSerial THEN None ELSE flow

(* Reclaim and unlockFlow: EndRequest, and the error paths of SendRequest  *)
(* and SendResponse.  The session's locals are gone with it.               *)
EndRequest(r) ==
  /\ next' = Reclaim(sid[r])
  /\ flow' = unlockFlow
  /\ pc' = [pc EXCEPT ![r] = "done"]
  /\ sid' = [sid EXCEPT ![r] = 0]
  /\ todo' = [todo EXCEPT ![r] = << >>]
  /\ held' = [held EXCEPT ![r] = 1]

(* An error before the session id is returned: the policy fails open or    *)
(* returns the error.                                                      *)
Fail(r) ==
  /\ EndRequest(r)
  /\ result' = [result EXCEPT ![r] = "failed"]

-----------------------------------------------------------------------------
(***************************************************************************)
(* Writing a transaction.                                                  *)
(***************************************************************************)
Begin(r) ==
  /\ pc[r] = "idle" /\ r \in Sessions
  /\ lockFlow
  /\ next < MaxSid
  /\ flow' = IF FlowSerial THEN r ELSE flow
  /\ sid' = [sid EXCEPT ![r] = next]
  /\ next' = next + 2
  /\ \E fs \in Transactions(r) : todo' = [todo EXCEPT ![r] = fs]
  /\ pc' = [pc EXCEPT ![r] = "send"]
  /\ UNCHANGED <<held, result, recvMu, netVars, envVars>>

(* send: the connection is read under mu and used after the unlock.        *)
Snapshot(r) ==
  /\ pc[r] = "send" /\ todo[r] # << >>
  /\ held' = [held EXCEPT ![r] = cur]
  /\ pc' = [pc EXCEPT ![r] = "write"]
  /\ UNCHANGED <<next, sid, todo, result, flow, recvMu, netVars, envVars>>

(* What Send on connection c can do.  A dead peer is not noticed by a push *)
(* into shared memory, and only by the second write to a TCP socket: the   *)
(* frame is lost.                                                          *)
CanWrite(c) == status[c] = "open" \/ (status[c] = "dead" /\ Transport # "memory")
CanFail(c)  == status[c] = "closed" \/ (status[c] = "dead" /\ Transport # "shm")

(* A full ring makes Send wait: frames stay in it, also in that of a dead  *)
(* engine, until the engine drains it.                                     *)
HasRoom(c) == FlowSerial => Len(up[c]) < RingSize

Arrives(c) == status[c] = "open" \/ FlowSerial

WriteFrame(r, c) ==
  /\ CanWrite(c) /\ ~TooLarge(r) /\ HasRoom(c)
  /\ up' = IF Arrives(c) THEN [up EXCEPT ![c] = Append(@, Frame(Head(todo[r]), r))] ELSE up
  /\ todo' = [todo EXCEPT ![r] = Tail(@)]
  /\ pc' = [pc EXCEPT ![r] = "send"]
  /\ UNCHANGED <<next, sid, held, result, flow, recvMu, cur, dialed, status, down,
                 signals, echoes, envVars>>

Write(r) == pc[r] = "write" /\ WriteFrame(r, held[r])

WriteFails(r) ==
  /\ pc[r] = "write" /\ (CanFail(held[r]) \/ TooLarge(r))
  /\ pc' = [pc EXCEPT ![r] = "redial"]
  /\ UNCHANGED <<next, sid, todo, held, result, flow, recvMu, netVars, envVars>>

(* reconnect: the new connection replaces Conn.conn, which is closed.  The *)
(* dial ends whenever the engine chooses to answer the handshake.          *)
Redial(r) ==
  /\ pc[r] = "redial" /\ engineUp /\ dialed < MaxConns
  /\ dialed' = dialed + 1 /\ cur' = dialed + 1
  /\ status' = [status EXCEPT ![cur] = "closed", ![dialed + 1] = "open"]
  /\ up' = [up EXCEPT ![cur] = << >>] /\ down' = [down EXCEPT ![cur] = << >>]
  /\ signals' = [signals EXCEPT ![cur] = << >>] /\ echoes' = [echoes EXCEPT ![cur] = 0]
  /\ held' = [held EXCEPT ![r] = dialed + 1]
  /\ pc' = [pc EXCEPT ![r] = "rewrite"]
  /\ UNCHANGED <<next, sid, todo, result, flow, recvMu, envVars>>

RedialFails(r) ==
  /\ pc[r] = "redial" /\ ~engineUp
  /\ Fail(r)
  /\ UNCHANGED <<recvMu, netVars, envVars>>

Rewrite(r) == pc[r] = "rewrite" /\ WriteFrame(r, held[r])

RewriteFails(r) ==
  /\ pc[r] = "rewrite" /\ (CanFail(held[r]) \/ TooLarge(r))
  /\ Fail(r)
  /\ UNCHANGED <<recvMu, netVars, envVars>>

(* The caller's context ends: Send reports it, and so does the handshake   *)
(* of the redial that follows, or the second Send.                         *)
Cancelled(r) ==
  /\ pc[r] \in {"write", "redial", "rewrite"} /\ Deadline = "any"
  /\ Fail(r)
  /\ UNCHANGED <<recvMu, netVars, envVars>>

(* signal: only SendRequest calls it, only the shm transport has a         *)
(* doorbell.                                                               *)
Signals(r) == FlowSerial /\ r \notin Responses

Signal(r) ==
  /\ pc[r] = "send" /\ todo[r] = << >>
  /\ Signals(r) => status[cur] = "open"
  /\ signals' = IF Signals(r) THEN [signals EXCEPT ![cur] = Append(@, sid[r])] ELSE signals
  /\ pc' = [pc EXCEPT ![r] = "await"]
  /\ UNCHANGED <<next, sid, todo, held, result, flow, recvMu, cur, dialed, status, up,
                 down, echoes, envVars>>

SignalFails(r) ==
  /\ pc[r] = "send" /\ todo[r] = << >>
  /\ Signals(r) /\ status[cur] # "open"
  /\ Fail(r)
  /\ UNCHANGED <<recvMu, netVars, envVars>>

-----------------------------------------------------------------------------
(***************************************************************************)
(* Waiting for the verdict (await).                                        *)
(***************************************************************************)

(* The head of await's loop, before the deadline.                          *)
Poll(r) ==
  /\ pc[r] = "await"
  /\ pc' = [pc EXCEPT ![r] = "lock"]
  /\ UNCHANGED <<next, sid, todo, held, result, flow, recvMu, netVars, envVars>>

(* recv: the wait for recvMu heeds no deadline, and recvMu is held while   *)
(* the transport blocks.                                                   *)
Recv(r) ==
  /\ pc[r] = "lock" /\ recvMu = None
  /\ recvMu' = r
  /\ held' = [held EXCEPT ![r] = cur]
  /\ pc' = [pc EXCEPT ![r] = "recv"]
  /\ UNCHANGED <<next, sid, todo, result, flow, netVars, envVars>>

(* A connection whose local end is closed delivers nothing; a memory pair  *)
(* closes both ends at once.                                               *)
Delivers(c) == status[c] = "open" \/ (status[c] = "dead" /\ Transport # "memory")

Readable(c) == Delivers(c) /\ IF FlowSerial THEN echoes[c] > 0 ELSE down[c] # << >>

(* Mutants: an INSPECT counts as the verdict; an INSPECT is skipped        *)
(* without draining the ring.                                              *)
HandleTakesAny(r, f, other) ==
  LET mine == f.sid = sid[r]
  IN  /\ result' = IF mine THEN [result EXCEPT ![r] = f.of] ELSE result
      /\ pc' = [pc EXCEPT ![r] = IF mine THEN "end" ELSE other]

HandleNoDrain(r, f, other) ==
  LET last == f.sid = sid[r] /\ f.kind = "final"
  IN  /\ result' = IF last THEN [result EXCEPT ![r] = f.of] ELSE result
      /\ pc' = [pc EXCEPT ![r] = IF last THEN "end" ELSE other]

(* What await does with frame f: a terminal verdict with the right id is   *)
(* the result, INSPECT makes it drain the ring, and any other frame -      *)
(* another session's, or a delayed verdict - is dropped.                   *)
Handle(r, f, other) ==
  LET mine == f.sid = sid[r]
  IN  /\ result' = IF mine /\ f.kind = "final" THEN [result EXCEPT ![r] = f.of] ELSE result
      /\ pc' = [pc EXCEPT ![r] = CASE mine /\ f.kind = "final" -> "end"
                                   [] mine /\ f.kind = "inspect" -> "drain"
                                   [] OTHER -> other]

(* On shm an echo is consumed first; the ring may then turn out empty, and *)
(* Recv waits for the next echo.                                           *)
RecvFrame(r) ==
  /\ pc[r] = "recv"
  /\ Readable(held[r])
  /\ echoes' = IF FlowSerial THEN [echoes EXCEPT ![held[r]] = @ - 1] ELSE echoes
  /\ IF down[held[r]] = << >>
     THEN UNCHANGED <<pc, result, recvMu, down>>
     ELSE /\ Handle(r, Head(down[held[r]]), "await")
          /\ down' = [down EXCEPT ![held[r]] = Tail(@)]
          /\ recvMu' = None
  /\ UNCHANGED <<next, sid, todo, held, flow, cur, dialed, status, up, signals,
                 envVars>>

(* recvQueued: one already queued frame, or back to recv when the ring is  *)
(* empty or the transport has no ring.                                     *)
Drain(r) ==
  /\ pc[r] = "drain" /\ recvMu = None
  /\ IF FlowSerial /\ status[cur] # "closed" /\ down[cur] # << >>
     THEN /\ Handle(r, Head(down[cur]), "drain")
          /\ down' = [down EXCEPT ![cur] = Tail(@)]
     ELSE pc' = [pc EXCEPT ![r] = "await"] /\ UNCHANGED <<result, down>>
  /\ UNCHANGED <<next, sid, todo, held, flow, recvMu, cur, dialed, status, up, signals,
                 echoes, envVars>>

(* Mutant: await polls again after an error.                               *)
GiveUpRetries(r) ==
  /\ pc' = [pc EXCEPT ![r] = "await"]
  /\ recvMu' = IF recvMu = r THEN None ELSE recvMu
  /\ UNCHANGED <<next, sid, todo, held, result, flow, netVars, envVars>>

(* recv returns an error, and await with it.                               *)
GiveUp(r) ==
  /\ result' = [result EXCEPT ![r] = "failed"]
  /\ pc' = [pc EXCEPT ![r] = "end"]
  /\ recvMu' = IF recvMu = r THEN None ELSE recvMu
  /\ UNCHANGED <<next, sid, todo, held, flow, netVars, envVars>>

RecvFails(r) ==
  /\ pc[r] = "recv" /\ status[held[r]] # "open" /\ ~Readable(held[r])
  /\ GiveUp(r)

(* The engine has work that it has been told about.                        *)
EngineBusy == engineUp /\ \E c \in Conns : /\ status[c] = "open"
                                           /\ (IF FlowSerial THEN signals[c] ELSE up[c]) # << >>

(* Nothing but the clock can move the session: it blocks in a Recv with    *)
(* nothing to read, or behind another one that does.                       *)
Blocked(r) == \/ pc[r] = "recv" /\ status[held[r]] = "open" /\ ~Readable(held[r])
              \/ pc[r] = "lock" /\ recvMu # None

Quiescent == ~EngineBusy /\ \A r \in Requests :
               pc[r] \in {"idle", "done"} \/ Blocked(r)

(* The verdict budget is spent, at the head of await's loop or in Recv.    *)
Timeout(r) ==
  /\ pc[r] \in {"await", "recv"}
  /\ Deadline = "late" => Quiescent /\ pc[r] = "recv"
  /\ GiveUp(r)

End(r) ==
  /\ pc[r] = "end"
  /\ EndRequest(r)
  /\ UNCHANGED <<result, recvMu, netVars, envVars>>

-----------------------------------------------------------------------------
(***************************************************************************)
(* The engine.                                                             *)
(***************************************************************************)

(* internal/mock, requestFrame and responseFrame: REQUEST_START,           *)
(* REQUEST_END and RESPONSE_CODE are answered, other frames recorded.      *)
MockServe(c) ==
  /\ ~FlowSerial /\ engineUp /\ status[c] = "open" /\ up[c] # << >>
  /\ LET f == Head(up[c])
     IN  down' = IF f.kind \in {"REQUEST_START", "REQUEST_END", "RESPONSE_CODE"}
                 THEN [down EXCEPT ![c] = Append(@, Verdict("final", f))]
                 ELSE down
  /\ up' = [up EXCEPT ![c] = Tail(@)]
  /\ UNCHANGED <<next, txVars, flow, recvMu, cur, dialed, status, signals, echoes,
                 envVars>>

(* The production engine, external: one signal drains the ring.            *)
Answer(f) ==
  Verdict(IF f.kind \in {"REQUEST_END", "RESPONSE_BODY"} THEN "final" ELSE "inspect", f)

(* The frames of session id in the queue q, in their order.                *)
FramesOf(q, id) ==
  LET at == {i \in DOMAIN q : q[i].sid = id}
      nth(k) == CHOOSE i \in at : Cardinality({j \in at : j < i}) = k - 1
  IN  [k \in 1 .. Cardinality(at) |-> q[nth(k)]]

EngineDrain(c) ==
  /\ FlowSerial /\ engineUp /\ status[c] = "open" /\ signals[c] # << >>
  /\ LET own == FramesOf(up[c], Head(signals[c]))
     IN  down' = [down EXCEPT ![c] = @ \o [i \in DOMAIN own |-> Answer(own[i])]]
  /\ up' = [up EXCEPT ![c] = << >>]
  /\ signals' = [signals EXCEPT ![c] = Tail(@)]
  /\ echoes' = [echoes EXCEPT ![c] = @ + 1]
  /\ UNCHANGED <<next, txVars, flow, recvMu, cur, dialed, status, envVars>>

(* SetEngineDown of the mock; a crash of the production engine.            *)
EngineCrash ==
  /\ Fate = "crashes" /\ engineUp /\ crashes < MaxCrashes
  /\ engineUp' = FALSE /\ crashes' = crashes + 1
  /\ status' = [c \in Conns |-> IF status[c] = "open" THEN "dead" ELSE status[c]]
  /\ up' = [c \in Conns |-> IF FlowSerial THEN up[c] ELSE << >>]
  /\ signals' = [c \in Conns |-> << >>]
  /\ UNCHANGED <<deploy, next, txVars, flow, recvMu, cur, dialed, down, echoes>>

EngineRestart ==
  /\ Fate = "crashes" /\ ~engineUp /\ engineUp' = TRUE
  /\ UNCHANGED <<deploy, next, txVars, flow, recvMu, netVars, crashes>>

-----------------------------------------------------------------------------
Init ==
  /\ deploy \in Deployments
  /\ next = FirstSid
  /\ pc = [r \in Requests |-> "idle"]
  /\ sid = [r \in Requests |-> 0]
  /\ todo = [r \in Requests |-> << >>]
  /\ held = [r \in Requests |-> 1]
  /\ result = [r \in Requests |-> None]
  /\ flow = None /\ recvMu = None
  /\ cur = 1 /\ dialed = 1
  /\ status = [c \in Conns |-> IF c # 1 THEN "closed"
                           ELSE IF Fate = "gone" THEN "dead" ELSE "open"]
  /\ up = [c \in Conns |-> << >>] /\ down = [c \in Conns |-> << >>]
  /\ signals = [c \in Conns |-> << >>] /\ echoes = [c \in Conns |-> 0]
  /\ engineUp = (Fate # "gone") /\ crashes = 0

Session(r) ==
  \/ Begin(r) \/ Snapshot(r) \/ Write(r) \/ WriteFails(r)
  \/ Redial(r) \/ RedialFails(r) \/ Rewrite(r) \/ RewriteFails(r) \/ Cancelled(r)
  \/ Signal(r) \/ SignalFails(r)
  \/ Poll(r) \/ Recv(r) \/ RecvFrame(r) \/ RecvFails(r) \/ Drain(r) \/ Timeout(r) \/ End(r)

Engine == (\E c \in Conns : MockServe(c) \/ EngineDrain(c)) \/ EngineCrash \/ EngineRestart

Done == \A r \in Sessions : pc[r] = "done"

Next == (\E r \in Requests : Session(r)) \/ Engine \/ (Done /\ UNCHANGED vars)

Spec == Init /\ [][Next]_vars

(* What a session does by itself.  Its context, a request's, has no        *)
(* deadline and need not be cancelled, and a redial waits for the engine.  *)
Owed(r) ==
  \/ Begin(r) \/ Snapshot(r) \/ Write(r) \/ WriteFails(r)
  \/ RedialFails(r) \/ Rewrite(r) \/ RewriteFails(r)
  \/ Signal(r) \/ SignalFails(r)
  \/ Poll(r) \/ Recv(r) \/ RecvFrame(r) \/ RecvFails(r) \/ Drain(r) \/ Timeout(r) \/ End(r)

(* Every goroutine that can run does, and the timer of the verdict budget  *)
(* fires.  The engine is owed nothing: it may crash for good, never drain  *)
(* its ring or never answer.                                               *)
FairSpec == Spec /\ \A r \in Requests : WF_vars(Owed(r))
-----------------------------------------------------------------------------
Places == {"idle", "send", "write", "redial", "rewrite", "await", "lock", "recv",
           "drain", "end", "done"}

(* Types: the session counter never goes below zero, locks are held by     *)
(* sessions, and the current connection is one that was dialed (conn.go).  *)
TypeOK ==
  /\ next \in Nat
  /\ pc \in [Requests -> Places]
  /\ sid \in [Requests -> Nat]
  /\ held \in [Requests -> Conns]
  /\ result \in [Requests -> Requests \cup {None, "failed"}]
  /\ flow \in Requests \cup {None} /\ recvMu \in Requests \cup {None}
  /\ cur \in Conns /\ dialed \in Conns
  /\ status \in [Conns -> {"open", "dead", "closed"}]
  /\ engineUp \in BOOLEAN

InFlight(r) == pc[r] \notin {"idle", "done"}

(* Two sessions that are open at the same time never share a session id,   *)
(* although ids are handed back in any order (session.go, Reclaim): the    *)
(* engine tells sessions apart by nothing else.                            *)
UniqueSessions ==
  \A r, s \in Requests : r # s /\ InFlight(r) /\ InFlight(s) => sid[r] # sid[s]

(* On the shared-memory transport one session at a time is between its     *)
(* first frame and its verdict, across reconnects (conn.go, lockFlow).     *)
OneSessionPerRing ==
  FlowSerial => \A r \in Requests : InFlight(r) => flow = r

(* The orders of events the shared-memory protocol is designed for: the    *)
(* budget outlasts the engine's work, and sessions inspect requests, which *)
(* alone ring the doorbell.                                                *)
Orderly == Transport = "shm" /\ Deadline = "late" /\ Responses = {}

(* A session that is given a verdict is given the engine's verdict on its  *)
(* own transaction, although ids are reused, INSPECT frames and verdicts   *)
(* of failed sessions are left in the ring and the engine may crash        *)
(* (policy.go, "AcquireVerdict inspects req and returns the engine's       *)
(* verdict").                                                              *)
VerdictIsOwn == Orderly => \A r \in Requests : result[r] \in {None, "failed", r}

(* As long as the engine has not crashed, a session that fits the ring is  *)
(* never failed open: no echo, frame or verdict goes to another session or *)
(* is left unread until the budget is spent (policy.go, await).            *)
HealthyEngineAnswers ==
  Orderly /\ Fate # "gone" /\ crashes = 0 =>
    \A r \in Requests \ Oversized : result[r] # "failed"

(* Where nothing but the engine or the caller ends a session: in Send, for *)
(* room in a ring that is full (ring_linux.go:183-206), and in the         *)
(* handshake of a redial (conn.go:164).                                    *)
WaitsForEngine(r) ==
  \/ pc[r] \in {"write", "rewrite"} /\ ~HasRoom(held[r])
  \/ pc[r] = "redial" /\ engineUp

(* Behind such a session, the others wait for the flow lock.               *)
Hangs(r) == WaitsForEngine(r) \/ (pc[r] = "idle" /\ ~lockFlow /\ WaitsForEngine(flow))

(* Every request that enters the policy leaves it, whatever the engine     *)
(* does, when the budget may run out (policy.go: the wait "is bounded by   *)
(* the verdict budget"), unless it hangs for ever at a full ring, in the   *)
(* handshake with a silent engine, or behind a session that does: no lock  *)
(* is left behind, and no wait for a verdict outlasts the budget.          *)
EverySessionEnds ==
  Deadline = "any" => \A r \in Requests :
    r \in Sessions => <>(pc[r] = "done") \/ <>[]Hangs(r)
=============================================================================
