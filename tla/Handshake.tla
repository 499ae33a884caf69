------------------------------ MODULE Handshake -----------------------------
(***************************************************************************)
(* Establishing an engine connection (internal/app/dialer.go,              *)
(* dialer_linux.go and handshake.go, on the transports' Dial, Send and     *)
(* Recv).  A Dial connects to the registration socket, sends the           *)
(* registration frame, reads the verdict path and closes that connection   *)
(* whatever happened; it then does the same with the comm frame and its    *)
(* ack on a connection it keeps, and on the shared-memory transport opens  *)
(* the rings.  Meanwhile the engine may crash, restart, hang up or stay    *)
(* silent, and the caller's context may end.                               *)
(*                                                                         *)
(* A dial has one exchange open at a time, so the engine's end is kept per *)
(* dial: the frame it has to serve and the reply under way.                *)
(***************************************************************************)
EXTENDS Integers

CONSTANTS Dials,       \* Dial calls
          Timed,       \* the ones whose context has a deadline: Start, Provision
          MayCancel,   \* the ones whose caller may cancel: a request's
          Transports,  \* the transports that may be configured
          Replies,     \* what the engine may reply: "good", "bad" (a truncated
                       \* path, an ack of another value) or "empty"
          MaxCrashes,  \* bound: engine crashes
          None

ASSUME HandshakeAssumption ==
  /\ Timed \subseteq Dials /\ MayCancel \subseteq Dials \ Timed
  /\ Transports \subseteq {"shm", "memory", "socket"}
  /\ Replies \subseteq {"good", "bad", "empty"}
  /\ MaxCrashes \in Nat

VARIABLES transport,   \* the configured one
          pc,       \* "idle", "dial", "send", "sent", "recv", "ring", "ready",
                    \* "failed", or "noring": OpenRing failed
          phase,    \* 1: registration, 2: communication
          conn,     \* per dial and phase: "none", "open" or "closed"
          inbox,    \* the frame the engine has not served: None, 1 or 2
          reply,    \* None or what the engine replied
          peer,     \* the engine holds its end of the dial's connection
          served,   \* history: the phases whose frames the engine answered
          ended,    \* the contexts that are done
          up, silent, crashes

dialVars == <<pc, phase, conn>>
wireVars == <<inbox, reply, peer, served>>
engVars == <<up, silent, crashes, transport>>
vars == <<dialVars, wireVars, ended, engVars>>

Phases == {1, 2}
Goto(d, place) == pc' = [pc EXCEPT ![d] = place]
SetConn(d, st) == conn' = [conn EXCEPT ![d][phase[d]] = st]

-----------------------------------------------------------------------------
Start(d) ==
  /\ pc[d] = "idle" /\ Goto(d, "dial")
  /\ UNCHANGED <<phase, conn, wireVars, ended, engVars>>

(* The transport's Dial.  Only the shm one takes the context.              *)
Dial(d) ==
  /\ pc[d] = "dial"
  /\ IF up /\ ~(transport = "shm" /\ d \in ended)
     THEN /\ SetConn(d, "open") /\ Goto(d, "send")
          /\ peer' = [peer EXCEPT ![d] = TRUE]
          /\ inbox' = [inbox EXCEPT ![d] = None] /\ reply' = [reply EXCEPT ![d] = None]
     ELSE Goto(d, "failed") /\ UNCHANGED <<conn, peer, inbox, reply>>
  /\ UNCHANGED <<phase, served, ended, engVars>>

(* Mutant: the error path returns before the close.                        *)
FailOpen(d) == UNCHANGED conn /\ Goto(d, "failed")

(* An error in register or sendComm: the dialer closes the connection.     *)
Fail(d) == SetConn(d, "closed") /\ Goto(d, "failed")

(* registrationFrame or commFrame.  A done context is noticed first; a     *)
(* dead peer always on a memory pair, perhaps not on a socket.             *)
Send(d) ==
  /\ pc[d] = "send"
  /\ \/ /\ d \notin ended /\ (peer[d] \/ transport # "memory")
        /\ inbox' = IF peer[d] THEN [inbox EXCEPT ![d] = phase[d]] ELSE inbox
        /\ Goto(d, "sent") /\ UNCHANGED conn
     \/ /\ (d \in ended \/ ~peer[d])
        /\ Fail(d) /\ UNCHANGED inbox
  /\ UNCHANGED <<phase, reply, peer, served, ended, engVars>>

(* Recv begins: the sockets look at the context before they block, the     *)
(* memory pair looks at its queue first.                                   *)
Wait(d) ==
  /\ pc[d] = "sent"
  /\ IF d \in ended /\ transport # "memory"
     THEN Fail(d) ELSE Goto(d, "recv") /\ UNCHANGED conn
  /\ UNCHANGED <<phase, wireVars, ended, engVars>>

(* What follows a good reply: sig.Close and the second phase, or the       *)
(* connection is kept.                                                     *)
NextPhaseKeepsSig(d) ==   \* mutant: the registration connection stays open
  /\ phase' = [phase EXCEPT ![d] = 2] /\ Goto(d, "dial") /\ UNCHANGED conn

NextPhase(d) ==
  /\ phase' = [phase EXCEPT ![d] = 2] /\ Goto(d, "dial") /\ SetConn(d, "closed")

Established(d) ==
  /\ Goto(d, IF transport = "shm" THEN "ring" ELSE "ready") /\ UNCHANGED <<phase, conn>>

(* Mutant: any reply will do, even none.                                   *)
AnyReply(d) == TRUE

(* A reply can be read: closing one end of a memory pair closes both.      *)
HasReply(d) == reply[d] # None /\ (peer[d] \/ transport # "memory")

(* recvSignalPath and recvAck.  The latter takes any byte for an ack.      *)
Recv(d) ==
  /\ pc[d] = "recv" /\ HasReply(d)
  /\ \/ phase[d] = 1 /\ reply[d] \notin {"bad", "empty"} /\ NextPhase(d)
     \/ phase[d] = 2 /\ reply[d] # "empty" /\ Established(d)
     \/ reply[d] \in (IF phase[d] = 1 THEN {"bad", "empty"} ELSE {"empty"})
        /\ Fail(d) /\ UNCHANGED phase
  /\ UNCHANGED <<wireVars, ended, engVars>>

(* Whether the end of the context ends a blocked Recv: unixConn only puts  *)
(* a deadline on the socket.                                               *)
DeadlineIgnored(d) == FALSE   \* mutant
ContextHeeded(d) == d \in ended /\ (transport # "shm" \/ d \in Timed)

RecvFails(d) ==
  /\ pc[d] = "recv"
  /\ ContextHeeded(d) \/ (~peer[d] /\ ~HasReply(d))
  /\ Fail(d)
  /\ UNCHANGED <<phase, wireVars, ended, engVars>>

(* OpenRing: the context, then the two queue files.  None of its error     *)
(* paths, nor shmDialer's, closes the comm connection.                     *)
OpenRing(d) ==
  /\ pc[d] = "ring"
  /\ \/ d \notin ended /\ Goto(d, "ready")
     \/ Goto(d, "noring")
  /\ UNCHANGED <<phase, conn, wireVars, ended, engVars>>

ContextEnds(d) ==
  /\ d \in (Timed \cup MayCancel) \ ended /\ pc[d] # "idle"
  /\ ended' = ended \cup {d}
  /\ UNCHANGED <<dialVars, wireVars, engVars>>

-----------------------------------------------------------------------------
(* The engine: internal/mock's dispatch, and what the production engine    *)
(* may do to a handshake.                                                  *)
Serve(d) ==
  /\ up /\ ~silent /\ peer[d] /\ inbox[d] # None /\ conn[d][phase[d]] = "open"
  /\ \E r \in Replies : reply' = [reply EXCEPT ![d] = r]
  /\ served' = [served EXCEPT ![d] = @ \cup {inbox[d]}]
  /\ inbox' = [inbox EXCEPT ![d] = None]
  /\ UNCHANGED <<dialVars, peer, ended, engVars>>

(* It rejects the unique id: the socket is closed without an ack.          *)
HangUp(d) ==
  /\ up /\ peer[d] /\ pc[d] \in {"sent", "recv"} /\ "bad" \in Replies
  /\ peer' = [peer EXCEPT ![d] = FALSE] /\ inbox' = [inbox EXCEPT ![d] = None]
  /\ UNCHANGED <<dialVars, reply, served, ended, engVars>>

EngineCrash ==
  /\ up /\ crashes < MaxCrashes
  /\ up' = FALSE /\ crashes' = crashes + 1
  /\ peer' = [d \in Dials |-> FALSE] /\ inbox' = [d \in Dials |-> None]
  /\ UNCHANGED <<dialVars, reply, served, ended, silent, transport>>

EngineRestart ==
  /\ ~up /\ up' = TRUE /\ silent' = FALSE
  /\ UNCHANGED <<dialVars, wireVars, ended, crashes, transport>>

EngineFallsSilent ==
  /\ up /\ ~silent /\ silent' = TRUE
  /\ UNCHANGED <<dialVars, wireVars, ended, up, crashes, transport>>

-----------------------------------------------------------------------------
Init ==
  /\ pc = [d \in Dials |-> "idle"] /\ phase = [d \in Dials |-> 1]
  /\ conn = [d \in Dials |-> [p \in Phases |-> "none"]]
  /\ inbox = [d \in Dials |-> None] /\ reply = [d \in Dials |-> None]
  /\ peer = [d \in Dials |-> FALSE] /\ served = [d \in Dials |-> {}]
  /\ transport \in Transports
  /\ ended = {} /\ up = TRUE /\ silent = FALSE /\ crashes = 0

Step(d) == Dial(d) \/ Send(d) \/ Wait(d) \/ Recv(d) \/ RecvFails(d) \/ OpenRing(d)

Next == \/ \E d \in Dials : Start(d) \/ Step(d) \/ ContextEnds(d) \/ Serve(d) \/ HangUp(d)
        \/ EngineCrash \/ EngineRestart \/ EngineFallsSilent

Spec == Init /\ [][Next]_vars

(* The dialing goroutine runs, and a deadline passes.  Nothing is owed by  *)
(* the engine, and nobody has to cancel.                                   *)
FairSpec == /\ Spec
            /\ \A d \in Dials : WF_vars(Step(d))
            /\ \A d \in Timed : WF_vars(ContextEnds(d))
-----------------------------------------------------------------------------
(* A Dial that fails in the handshake, wherever the engine or the context  *)
(* left it, keeps no connection open, and none keeps the registration one  *)
(* beyond its phase (dialer.go: "registration socket is one-shot").        *)
NothingLeftBehind ==
  \A d \in Dials : /\ pc[d] = "failed" => \A p \in Phases : conn[d][p] # "open"
                   /\ phase[d] = 2 => conn[d][1] = "closed"

(* A connection that Dial returned has been through both phases, however   *)
(* often the engine went down in between (dialer.go, Dialer: "The returned *)
(* connection has completed the two-phase registration handshake").        *)
ReadyIsHandshaked ==
  \A d \in Dials : pc[d] = "ready" => conn[d][2] = "open" /\ served[d] = Phases

(* A Dial whose context has a deadline or is cancelled ends, with a silent *)
(* engine too (docs/integration.md: registration_timeout_ms "Bounds the    *)
(* registration handshake").  The exception is a cancelled one on the      *)
(* shared-memory transport: unixConn.Recv heeds deadlines only.            *)
DialEnds ==
  \A d \in Dials :
    pc[d] # "idle" /\ (d \in Timed \/ (d \in ended /\ transport # "shm"))
      ~> pc[d] \in {"ready", "failed", "noring"}
=============================================================================
