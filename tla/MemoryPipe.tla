----------------------------- MODULE MemoryPipe -----------------------------
(***************************************************************************)
(* One direction of an in-memory connection (internal/transport/memory/    *)
(* conn.go, Conn): senders call Send on end "a", receivers call Recv on    *)
(* end "b", and either end may be closed.  The critical sections of the    *)
(* two mutexes are the steps.  A Recv that finds the queue empty releases  *)
(* the mutex before it blocks, so what wakes it is the one-place channel   *)
(* notifyCh, or closeCh.                                                   *)
(***************************************************************************)
EXTENDS Integers, Sequences

CONSTANTS Senders,     \* Send calls on end "a"; each sends itself
          Receivers,   \* goroutines that call Recv on end "b"
          MayCancel,   \* the callers, of either kind, whose context may end
          NoPayload

ASSUME PipeAssumption == /\ NoPayload \notin Senders
                         /\ Senders \cap Receivers = {}

Ends == {"a", "b"}
Peer(e) == IF e = "a" THEN "b" ELSE "a"

VARIABLES inbound,   \* Conn.inbound of end "b"
          notify,    \* len(notifyCh) of end "b"
          closed,    \* Conn.closed of each end, and closeCh with it
          spc,       \* where each Send stands, or how it ended
          rpc,       \* "idle", or where the receiver's Recv stands
          got,       \* the payload the last successful Recv returned
          closer     \* per end: how far its Close got

vars == <<inbound, notify, closed, spc, rpc, got, closer>>

-----------------------------------------------------------------------------
(* Send looks at its own end and at its context, then locks the peer.      *)
SendBegin(s) ==
  /\ spc[s] = "idle"
  /\ \/ ~closed["a"] /\ spc' = [spc EXCEPT ![s] = "push"]
     \/ closed["a"] /\ spc' = [spc EXCEPT ![s] = "closed"]
     \/ ~closed["a"] /\ s \in MayCancel /\ spc' = [spc EXCEPT ![s] = "cancelled"]
  /\ UNCHANGED <<inbound, notify, closed, rpc, got, closer>>

NotNotified == notify   \* mutant

(* The non-blocking send on notifyCh.                                      *)
Notified == 1

SendPush(s) ==
  /\ spc[s] = "push"
  /\ IF closed["b"]
     THEN spc' = [spc EXCEPT ![s] = "closed"] /\ UNCHANGED <<inbound, notify>>
     ELSE /\ spc' = [spc EXCEPT ![s] = "sent"]
          /\ inbound' = Append(inbound, s)
          /\ notify' = Notified
  /\ UNCHANGED <<closed, rpc, got, closer>>

RecvCall(r) ==
  /\ rpc[r] = "idle"
  /\ rpc' = [rpc EXCEPT ![r] = "check"]
  /\ UNCHANGED <<inbound, notify, closed, spc, got, closer>>

NewestPayload == inbound[Len(inbound)]   \* mutant: wrong end of the queue
NextPayload == Head(inbound)

(* The head of Recv's loop, under the mutex.                               *)
RecvCheck(r) ==
  /\ rpc[r] = "check"
  /\ \/ /\ closed["b"]
        /\ rpc' = [rpc EXCEPT ![r] = "idle"] /\ UNCHANGED <<inbound, got>>
     \/ /\ ~closed["b"] /\ inbound # << >>
        /\ got' = NextPayload /\ inbound' = Tail(inbound)
        /\ rpc' = [rpc EXCEPT ![r] = "idle"]
     \/ /\ ~closed["b"] /\ inbound = << >>
        /\ rpc' = [rpc EXCEPT ![r] = "wait"] /\ UNCHANGED <<inbound, got>>
  /\ UNCHANGED <<notify, closed, spc, closer>>

CloseIgnored == FALSE   \* mutant: Recv does not watch closeCh
CloseSeen == closed["b"]

(* The select: closeCh, notifyCh, or the context.                          *)
RecvWake(r) ==
  /\ rpc[r] = "wait"
  /\ \/ /\ CloseSeen
        /\ rpc' = [rpc EXCEPT ![r] = "check"] /\ UNCHANGED notify
     \/ /\ notify = 1
        /\ notify' = 0 /\ rpc' = [rpc EXCEPT ![r] = "check"]
  /\ UNCHANGED <<inbound, closed, spc, got, closer>>

RecvCancelled(r) ==
  /\ rpc[r] = "wait" /\ r \in MayCancel
  /\ rpc' = [rpc EXCEPT ![r] = "idle"]
  /\ UNCHANGED <<inbound, notify, closed, spc, got, closer>>

(* Close marks its own end, then the peer.                                 *)
CloseOwn(e) ==
  /\ closer[e] = "idle"
  /\ closed' = [closed EXCEPT ![e] = TRUE]
  /\ closer' = [closer EXCEPT ![e] = "own"]
  /\ UNCHANGED <<inbound, notify, spc, rpc, got>>

ClosePeer(e) ==
  /\ closer[e] = "own"
  /\ closed' = [closed EXCEPT ![Peer(e)] = TRUE]
  /\ closer' = [closer EXCEPT ![e] = "both"]
  /\ UNCHANGED <<inbound, notify, spc, rpc, got>>

-----------------------------------------------------------------------------
Init ==
  /\ inbound = << >> /\ notify = 0
  /\ closed = [e \in Ends |-> FALSE]
  /\ spc = [s \in Senders |-> "idle"]
  /\ rpc = [r \in Receivers |-> "idle"]
  /\ got = NoPayload
  /\ closer = [e \in Ends |-> "idle"]

Recv(r) == RecvCheck(r) \/ RecvWake(r)

Next == \/ \E s \in Senders : SendBegin(s) \/ SendPush(s)
        \/ \E r \in Receivers : RecvCall(r) \/ Recv(r) \/ RecvCancelled(r)
        \/ \E e \in Ends : CloseOwn(e) \/ ClosePeer(e)

Spec == Init /\ [][Next]_vars

(* A goroutine inside Send, Recv or Close keeps running; nobody is obliged *)
(* to call one or to cancel it.                                            *)
FairSpec == /\ Spec
            /\ \A s \in Senders : WF_vars(SendPush(s))
            /\ \A r \in Receivers : WF_vars(Recv(r))
            /\ \A e \in Ends : WF_vars(ClosePeer(e))
-----------------------------------------------------------------------------
(* Types: notifyCh holds at most one notification and the queue holds      *)
(* payloads (memory/conn.go).                                              *)
TypeOK ==
  /\ inbound \in Seq(Senders)
  /\ notify \in {0, 1}
  /\ closed \in [Ends -> BOOLEAN]
  /\ spc \in [Senders -> {"idle", "push", "sent", "closed", "cancelled"}]
  /\ rpc \in [Receivers -> {"idle", "check", "wait"}]
  /\ got \in Senders \cup {NoPayload}
  /\ closer \in [Ends -> {"idle", "own", "both"}]

(* No lost wake-up: while a payload is queued, a blocked Recv has a        *)
(* notification to come, or another Recv is about to look at the queue     *)
(* (conn.go, notifyCh: "signals that inbound is non-empty").               *)
WaiterIsWoken ==
  \A r \in Receivers : rpc[r] = "wait" /\ inbound # << >> =>
    notify = 1 \/ \E q \in Receivers : rpc[q] = "check"

(* A Recv with a payload to return, or on a connection that was closed by  *)
(* either end, returns (transport.go, EngineConn.Recv).                    *)
RecvReturns ==
  \A r \in Receivers :
    (rpc[r] # "idle" /\ (inbound # << >> \/ closed["a"])) ~> rpc[r] = "idle"

(* One Send is exactly one Recv, in the order of the Sends                 *)
(* (transport.go, EngineConn).                                             *)
Q == INSTANCE MessageQueue WITH queue <- inbound, Payload <- Senders
PipeIsQueue == Q!Spec
=============================================================================
