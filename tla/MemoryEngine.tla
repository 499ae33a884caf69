---------------------------- MODULE MemoryEngine ----------------------------
(***************************************************************************)
(* The mock engine (internal/mock/engine.go, serve.go) on the in-memory    *)
(* transport (internal/transport/memory): clients dial, the accept loop    *)
(* takes the dialed pairs one by one and starts a handler for each,        *)
(* SetEngineDown closes the listener and the connections it knows of, and  *)
(* a fresh engine may bind the address again.  All engines share one       *)
(* address; engine e owns listener e.                                      *)
(*                                                                         *)
(* The connection of the client Main is the pair of MemoryPipe, in the     *)
(* direction of the requests: its senders are the attachment's goroutines  *)
(* on end "a", its receiver is the engine's handler on end "b", whose      *)
(* Recv has no deadline.  Of every other connection only matters whether   *)
(* it is open.                                                             *)
(***************************************************************************)
EXTENDS MemoryPipe, FiniteSets

CONSTANTS Engines,   \* the engines that try to bind the address
          Clients,   \* Dial calls; the connection a client gets bears its name
          Main,      \* one of them
          None

LoopStates == {"check", "wait", "ended"}

ASSUME EngineAssumption == /\ Main \in Clients /\ None \notin Engines
                           /\ Clients \cap LoopStates = {}

VARIABLES registry,  \* the listener registered at the address, or None
          life,      \* of each engine: "new", "up", or how far SetEngineDown got
          shut,      \* Listener.closed, and closeCh with it
          pending,   \* Listener.pending
          bell,      \* len(Listener.notifyCh)
          loop,      \* acceptLoop: a LoopState, or a connection it has
                     \* accepted and not registered yet
          conns,     \* Engine.conns
          doomed,    \* the connections SetEngineDown still has to close
          dial,      \* of each client: where its Dial stands
          via,       \* the listener it looked up
          live,      \* the other connections that are open
          served     \* the connections that were given a handler

dialVars == <<dial, via>>
downVars == <<life, doomed>>
listenVars == <<shut, pending, bell, loop>>
engineVars == <<registry, downVars, listenVars, conns, dialVars, live, served>>
allVars == <<vars, engineVars>>

-----------------------------------------------------------------------------
(* Dial reads the registry under its own mutex.                            *)
DialLookup(c) ==
  /\ dial[c] = "idle"
  /\ via' = [via EXCEPT ![c] = registry]
  /\ dial' = [dial EXCEPT ![c] = IF registry = None THEN "refused" ELSE "dial"]
  /\ UNCHANGED <<vars, registry, downVars, listenVars, conns, live, served>>

BellSilent(l) == bell   \* mutant: Accept is not notified
BellRung(l) == [bell EXCEPT ![l] = 1]

(* Listener.dial.                                                          *)
DialQueue(c) ==
  /\ dial[c] = "dial"
  /\ LET l == via[c]
     IN  IF shut[l]
         THEN /\ dial' = [dial EXCEPT ![c] = "refused"]
              /\ UNCHANGED <<pending, bell, live>>
         ELSE /\ dial' = [dial EXCEPT ![c] = "connected"]
              /\ pending' = [pending EXCEPT ![l] = Append(@, c)]
              /\ bell' = BellRung(l)
              /\ live' = live \cup ({c} \ {Main})
  /\ UNCHANGED <<vars, registry, downVars, shut, loop, conns, via, served>>

-----------------------------------------------------------------------------
(* New: Listen, then go acceptLoop.                                        *)
Listen(e) ==
  /\ life[e] = "new" /\ registry = None
  /\ registry' = e
  /\ life' = [life EXCEPT ![e] = "up"]
  /\ loop' = [loop EXCEPT ![e] = "check"]
  /\ UNCHANGED <<vars, doomed, shut, pending, bell, conns, dialVars, live, served>>

(* Accept, under the listener's mutex.                                     *)
AcceptCheck(e) ==
  /\ loop[e] = "check"
  /\ \/ /\ shut[e]
        /\ loop' = [loop EXCEPT ![e] = "ended"] /\ UNCHANGED pending
     \/ /\ ~shut[e] /\ pending[e] # << >>
        /\ loop' = [loop EXCEPT ![e] = Head(pending[e])]
        /\ pending' = [pending EXCEPT ![e] = Tail(@)]
     \/ /\ ~shut[e] /\ pending[e] = << >>
        /\ loop' = [loop EXCEPT ![e] = "wait"] /\ UNCHANGED pending
  /\ UNCHANGED <<vars, registry, downVars, shut, bell, conns, dialVars, live, served>>

AcceptWake(e) ==
  /\ loop[e] = "wait"
  /\ \/ shut[e] /\ UNCHANGED bell
     \/ bell[e] = 1 /\ bell' = [bell EXCEPT ![e] = 0]
  /\ loop' = [loop EXCEPT ![e] = "check"]
  /\ UNCHANGED <<vars, registry, downVars, shut, pending, conns, dialVars, live, served>>

(* The engine calls Close on its end of c.  Main's takes a second step,    *)
(* ClosePeer; a later Close finds both ends marked.                        *)
EngineCloses(c) ==
  \/ c = Main /\ CloseOwn("b") /\ UNCHANGED live
  \/ c = Main /\ closer["b"] = "both" /\ UNCHANGED <<vars, live>>
  \/ c # Main /\ live' = live \ {c} /\ UNCHANGED vars

Register(e) ==
  /\ conns' = [conns EXCEPT ![e] = @ \cup {loop[e]}]
  /\ served' = served \cup {loop[e]}
  /\ loop' = [loop EXCEPT ![e] = "check"]
  /\ UNCHANGED <<vars, live>>

(* Mutant: the accept loop does not look whether the engine is down.       *)
ServeUnchecked(e) ==
  /\ loop[e] \in Clients /\ Register(e)
  /\ UNCHANGED <<registry, downVars, shut, pending, bell, dialVars>>

(* acceptLoop, under the engine's mutex: a connection accepted while       *)
(* SetEngineDown runs is closed here.                                      *)
Serve(e) ==
  /\ loop[e] \in Clients
  /\ IF life[e] = "up" THEN Register(e)
     ELSE /\ EngineCloses(loop[e])
          /\ loop' = [loop EXCEPT ![e] = "ended"]
          /\ UNCHANGED <<conns, served>>
  /\ UNCHANGED <<registry, downVars, shut, pending, bell, dialVars>>

(* handleConn outside Recv: between two frames.                            *)
Between(e, c) == c \in conns[e] /\ (c = Main => \A r \in Receivers : rpc[r] = "idle")
IsOpen(c) == IF c = Main THEN ~closed["b"] ELSE c \in live

(* handleConn takes the next frame.                                        *)
HandlerRecvs(r) ==
  /\ \/ /\ RecvCall(r)
        /\ \E e \in Engines : Between(e, Main) /\ IsOpen(Main)
     \/ Recv(r)
  /\ UNCHANGED engineVars

(* SetFlakyAfter: the handler closes the connection in place of a verdict, *)
(* having received a request.                                              *)
HandlerHangsUp(e, c) ==
  /\ Between(e, c) /\ IsOpen(c) /\ (c = Main => got # NoPayload)
  /\ EngineCloses(c)
  /\ UNCHANGED <<registry, downVars, listenVars, conns, dialVars, served>>

(* Recv on a closed end fails at once, and the handler leaves.             *)
HandlerExits(e, c) ==
  /\ Between(e, c) /\ ~IsOpen(c)
  /\ conns' = [conns EXCEPT ![e] = @ \ {c}]
  /\ UNCHANGED <<vars, registry, downVars, listenVars, dialVars, live, served>>

(* SetEngineDown: the flag and a snapshot of the connections under the     *)
(* engine's mutex, then the listener, then the connections one by one.     *)
DownFlag(e) ==
  /\ life[e] = "up"
  /\ life' = [life EXCEPT ![e] = "flagged"]
  /\ doomed' = [doomed EXCEPT ![e] = conns[e]]
  /\ UNCHANGED <<vars, registry, listenVars, conns, dialVars, live, served>>

ListenerClose(e) ==
  /\ life[e] = "flagged"
  /\ shut' = [shut EXCEPT ![e] = TRUE]
  /\ life' = [life EXCEPT ![e] = "shut"]
  /\ UNCHANGED <<vars, registry, doomed, pending, bell, loop, conns, dialVars, live, served>>

Unregister(e) ==
  /\ life[e] = "shut"
  /\ registry' = (IF registry = e THEN None ELSE registry)
  /\ life' = [life EXCEPT ![e] = "unregistered"]
  /\ UNCHANGED <<vars, doomed, listenVars, conns, dialVars, live, served>>

DownClose(e) ==
  /\ life[e] = "unregistered" /\ closer["b"] # "own"   \* inside no Close
  /\ \/ /\ doomed[e] = {} /\ life' = [life EXCEPT ![e] = "down"]
        /\ UNCHANGED <<vars, doomed, live>>
     \/ \E c \in doomed[e] : /\ doomed' = [doomed EXCEPT ![e] = @ \ {c}]
                             /\ EngineCloses(c) /\ UNCHANGED life
  /\ UNCHANGED <<registry, listenVars, conns, dialVars, served>>

-----------------------------------------------------------------------------
(* A client closes its connection, and with it both ends.                  *)
ClientCloses(c) ==
  /\ dial[c] = "connected" /\ (c # Main => c \in live)
  /\ IF c = Main THEN CloseOwn("a") /\ UNCHANGED live
                 ELSE live' = live \ {c} /\ UNCHANGED vars
  /\ UNCHANGED <<registry, downVars, listenVars, conns, dialVars, served>>

(* The attachment's goroutines send on Main once it is connected.          *)
ClientSends(s) ==
  /\ dial[Main] = "connected" /\ (SendBegin(s) \/ SendPush(s))
  /\ UNCHANGED engineVars
CloseGoesOn(e) == ClosePeer(e) /\ UNCHANGED engineVars

EngineInit ==
  /\ Init
  /\ registry = None
  /\ life = [e \in Engines |-> "new"]
  /\ shut = [e \in Engines |-> FALSE]
  /\ pending = [e \in Engines |-> << >>]
  /\ bell = [e \in Engines |-> 0]
  /\ loop = [e \in Engines |-> "ended"]
  /\ conns = [e \in Engines |-> {}] /\ doomed = [e \in Engines |-> {}]
  /\ dial = [c \in Clients |-> "idle"] /\ via = [c \in Clients |-> None]
  /\ live = {} /\ served = {}

acceptLoop(e) == AcceptCheck(e) \/ AcceptWake(e) \/ Serve(e)
SetEngineDown(e) == ListenerClose(e) \/ Unregister(e) \/ DownClose(e)

EngineNext ==
  \/ \E c \in Clients : DialLookup(c) \/ DialQueue(c) \/ ClientCloses(c)
  \/ \E e \in Engines : \/ Listen(e) \/ acceptLoop(e) \/ DownFlag(e) \/ SetEngineDown(e)
                        \/ \E c \in Clients : HandlerHangsUp(e, c) \/ HandlerExits(e, c)
  \/ \E s \in Senders : ClientSends(s)
  \/ \E r \in Receivers : HandlerRecvs(r)
  \/ \E e \in Ends : CloseGoesOn(e)

(* Goroutines that can run do; nobody is obliged to dial, to send, to hang *)
(* up, to cancel or to take an engine down.                                *)
EngineSpec ==
  /\ EngineInit /\ [][EngineNext]_allVars
  /\ \A c \in Clients : WF_allVars(DialQueue(c))
  /\ \A e \in Engines : WF_allVars(acceptLoop(e)) /\ WF_allVars(SetEngineDown(e))
  /\ \A s \in Senders : WF_allVars(SendPush(s) /\ UNCHANGED engineVars)
  /\ \A r \in Receivers : WF_allVars(HandlerRecvs(r))
  /\ \A e \in Ends : WF_allVars(CloseGoesOn(e))
-----------------------------------------------------------------------------
(* SetEngineDown leaves no served connection open, not even one that the   *)
(* accept loop was holding while it ran (engine.go, acceptLoop).           *)
NoServedConnEscapes ==
  \A e \in Engines : life[e] = "down" =>
    \A c \in served : via[c] = e =>
      IF c = Main THEN closed["a"] /\ closed["b"] ELSE c \notin live

(* A dialed connection is accepted, or its listener is closed (memory.go,  *)
(* "the listener's next Accept returns the engine-side end").              *)
DialedIsAccepted ==
  \A c \in Clients :
    dial[c] = "connected" ~>
      (c \in served \/ \E e \in Engines : via[c] = e /\ shut[e])
=============================================================================
