------------------------------ MODULE RingConn ------------------------------
(***************************************************************************)
(* The shared-memory connection as its users see it (internal/transport/   *)
(* linux/ring_linux.go, ringConn): one mutex, the comm socket that carries *)
(* the doorbell one way and the 4-byte verdict-ready echo the other way,   *)
(* and the two mapped rings, here a count of queued messages each.  The    *)
(* ring's own geometry is in RingQueue, the policy on top in VerdictFlow.  *)
(*                                                                         *)
(* The comm socket is a byte stream: what one read returns may be part of  *)
(* an echo or several (unix_linux.go, Recv and coalesce).                  *)
(***************************************************************************)
EXTENDS Integers, FiniteSets

CONSTANTS Senders,     \* callers of Send followed by Signal
          Receivers,   \* callers of Recv, then RecvQueued
          RingSize,    \* messages the write ring holds
          Echo,        \* bytes of an echo (4 in the code)
          MayEnd,      \* the callers whose context may end
          None

ASSUME RingConnAssumption ==
  /\ RingSize \in Nat \ {0} /\ Echo \in Nat \ {0}
  /\ MayEnd \subseteq Senders \cup Receivers
  /\ Senders \cap Receivers = {} /\ None \notin Senders \cup Receivers

VARIABLES pc,        \* where each caller stands
          outcome,   \* None, "ok", "empty", "closed", "ctx" or "dead"
          ended,     \* the contexts that are done
          mu,        \* holder of ringConn.mu
          closed,    \* ringConn.closed, and closeCh with it
          mapped,    \* the rings are mapped
          closer,    \* where Close stands
          writeQ, readQ,        \* messages in the two rings
          signals,   \* doorbells on the comm socket
          echoBytes, \* bytes of echoes on the comm socket
          echoBuf,   \* bytes read beyond one echo
          commUp,    \* the engine's end of the comm socket
          echoes, eaten   \* history: echoes written, and consumed by a Recv

callVars == <<pc, outcome>>
ringVars == <<mapped, writeQ, readQ>>
commVars == <<signals, echoBytes, commUp, echoes>>
connVars == <<callVars, ended, mu, closed, closer, ringVars, commVars, echoBuf, eaten>>

Goto(x, place) == pc' = [pc EXCEPT ![x] = place]
Return(x, what) == /\ outcome' = [outcome EXCEPT ![x] = what]
                   /\ Goto(x, "done")

-----------------------------------------------------------------------------
(***************************************************************************)
(* Send: one push under the mutex; a full ring is polled.                  *)
(***************************************************************************)
Full == writeQ = RingSize

Send(s) ==
  /\ pc[s] = "idle" /\ mu = None
  /\ \/ closed /\ Return(s, "closed") /\ UNCHANGED writeQ
     \/ /\ ~closed /\ ~Full
        /\ writeQ' = writeQ + 1 /\ Goto(s, "signal") /\ UNCHANGED outcome
     \/ ~closed /\ Full /\ Goto(s, "wait") /\ UNCHANGED <<outcome, writeQ>>
  /\ UNCHANGED <<ended, mu, closed, closer, mapped, readQ, commVars, echoBuf, eaten>>

(* wait: the poll timer, closeCh or the context; closed wins over a done   *)
(* context.                                                                *)
Wait(x) ==
  /\ pc[x] = "wait"
  /\ \/ ~closed /\ x \notin ended /\ Goto(x, "idle") /\ UNCHANGED outcome
     \/ closed /\ Return(x, "closed")
     \/ x \in ended /\ ~closed /\ mu = None /\ Return(x, "ctx")
  /\ UNCHANGED <<ended, mu, closed, closer, ringVars, commVars, echoBuf, eaten>>

(* Signal: a 4-byte write, under the mutex.  It finds room on the socket:  *)
(* an engine that does not read stops the senders at the ring first.       *)
Signal(s) ==
  /\ pc[s] = "signal" /\ mu = None
  /\ CASE closed -> Return(s, "closed") /\ UNCHANGED signals
       [] ~closed /\ s \in ended -> Return(s, "ctx") /\ UNCHANGED signals
       [] ~closed /\ s \notin ended /\ ~commUp -> Return(s, "dead") /\ UNCHANGED signals
       [] OTHER -> Return(s, "ok") /\ signals' = signals + 1
  /\ UNCHANGED <<ended, mu, closed, closer, ringVars, echoBytes, commUp, echoes, echoBuf,
                 eaten>>

-----------------------------------------------------------------------------
(***************************************************************************)
(* Recv: the mutex is kept while recvEcho blocks on the comm socket.       *)
(***************************************************************************)
RecvLock(r) ==
  /\ pc[r] = "idle" /\ mu = None
  /\ \/ closed /\ Return(r, "closed") /\ UNCHANGED mu
     \/ ~closed /\ mu' = r /\ Goto(r, "echo") /\ UNCHANGED outcome
  /\ UNCHANGED <<ended, closed, closer, ringVars, commVars, echoBuf, eaten>>

(* recvEcho: read until one whole echo is buffered, then consume that.     *)
ReadComm(r) ==
  /\ pc[r] = "echo" /\ echoBuf < Echo /\ echoBytes > 0
  /\ \E n \in 1 .. echoBytes : echoBuf' = echoBuf + n /\ echoBytes' = echoBytes - n
  /\ UNCHANGED <<callVars, ended, mu, closed, closer, ringVars, signals, commUp, echoes,
                 eaten>>

LeftoverLost == 0   \* mutant: what was read beyond the echo is dropped
Leftover == echoBuf - Echo

EatEcho(r) ==
  /\ pc[r] = "echo" /\ echoBuf >= Echo
  /\ echoBuf' = Leftover /\ eaten' = eaten + 1
  /\ Goto(r, "pop")
  /\ UNCHANGED <<outcome, ended, mu, closed, closer, ringVars, commVars>>

(* Mutant: the deadline is not put on the comm socket.                     *)
ReadCommForEver(r) ==
  /\ pc[r] = "echo" /\ echoBuf < Echo
  /\ ~commUp /\ echoBytes = 0 /\ Return(r, "dead")
  /\ mu' = None
  /\ UNCHANGED <<ended, closed, closer, ringVars, commVars, echoBuf, eaten>>

(* The comm socket's read fails: its deadline passes while it blocks, or   *)
(* was past when Recv was called, whatever is on the socket then; or the   *)
(* engine is gone and its last echo has been read.                         *)
ReadCommFails(r) ==
  /\ pc[r] = "echo" /\ echoBuf < Echo
  /\ \/ r \in ended /\ Return(r, "ctx")
     \/ ~commUp /\ echoBytes = 0 /\ Return(r, "dead")
  /\ mu' = None
  /\ UNCHANGED <<ended, closed, closer, ringVars, commVars, echoBuf, eaten>>

(* peek, copy and pop; an empty ring sends Recv back to wait for an echo.  *)
Pop(r) ==
  /\ pc[r] = "pop"
  /\ IF readQ > 0 THEN readQ' = readQ - 1 /\ Goto(r, "queued")
                  ELSE Goto(r, "wait") /\ UNCHANGED readQ
  /\ mu' = None
  /\ UNCHANGED <<outcome, ended, closed, closer, mapped, writeQ, commVars, echoBuf, eaten>>

(* RecvQueued, until the ring is empty.                                    *)
RecvQueued(r) ==
  /\ pc[r] = "queued" /\ mu = None
  /\ CASE closed -> Return(r, "closed") /\ UNCHANGED readQ
       [] ~closed /\ readQ > 0 -> readQ' = readQ - 1 /\ UNCHANGED callVars
       [] OTHER -> Return(r, "empty") /\ UNCHANGED readQ
  /\ UNCHANGED <<ended, mu, closed, closer, mapped, writeQ, commVars, echoBuf, eaten>>

-----------------------------------------------------------------------------
(***************************************************************************)
(* Close: the flag under the mutex; socket and mappings after the unlock.  *)
(***************************************************************************)
CloseCall ==
  /\ closer = "idle" /\ closer' = "lock"
  /\ UNCHANGED <<callVars, ended, mu, closed, ringVars, commVars, echoBuf, eaten>>

(* Mutant: the flag is set without the mutex.                              *)
CloseUnlocked ==
  /\ closer = "lock"
  /\ closed' = TRUE /\ closer' = "unmap"
  /\ UNCHANGED <<callVars, ended, mu, ringVars, commVars, echoBuf, eaten>>

CloseFlag ==
  /\ closer = "lock" /\ mu = None
  /\ closed' = TRUE /\ closer' = "unmap"
  /\ UNCHANGED <<callVars, ended, mu, ringVars, commVars, echoBuf, eaten>>

CloseUnmap ==
  /\ closer = "unmap"
  /\ mapped' = FALSE /\ closer' = "done"
  /\ UNCHANGED <<callVars, ended, mu, closed, writeQ, readQ, commVars, echoBuf, eaten>>

-----------------------------------------------------------------------------
(* The engine, external: a signal drains the write ring, and is answered   *)
(* by one verdict frame per drained message and one echo.                  *)
EngineServes ==
  /\ commUp /\ signals > 0
  /\ signals' = signals - 1
  /\ readQ' = readQ + writeQ /\ writeQ' = 0
  /\ echoBytes' = echoBytes + Echo /\ echoes' = echoes + 1
  /\ UNCHANGED <<callVars, ended, mu, closed, closer, mapped, commUp, echoBuf, eaten>>

EngineDies ==
  /\ commUp /\ commUp' = FALSE
  /\ UNCHANGED <<callVars, ended, mu, closed, closer, ringVars, signals, echoBytes, echoes,
                 echoBuf, eaten>>

ContextEnds(x) ==
  /\ x \in MayEnd \ ended
  /\ ended' = ended \cup {x}
  /\ UNCHANGED <<callVars, mu, closed, closer, ringVars, commVars, echoBuf, eaten>>

-----------------------------------------------------------------------------
Callers == Senders \cup Receivers

ConnInit ==
  /\ pc = [x \in Callers |-> "idle"] /\ outcome = [x \in Callers |-> None]
  /\ ended = {} /\ mu = None /\ closed = FALSE /\ mapped = TRUE /\ closer = "idle"
  /\ writeQ = 0 /\ readQ = 0
  /\ signals = 0 /\ echoBytes = 0 /\ commUp = TRUE /\ echoes = 0
  /\ echoBuf = 0 /\ eaten = 0

SendStep(s) == Send(s) \/ Wait(s) \/ Signal(s)
RecvStep(r) == \/ RecvLock(r) \/ ReadComm(r) \/ EatEcho(r) \/ ReadCommFails(r)
               \/ Pop(r) \/ RecvQueued(r) \/ Wait(r)
CloseStep == CloseFlag \/ CloseUnmap

ConnNext ==
  \/ \E s \in Senders : SendStep(s)
  \/ \E r \in Receivers : RecvStep(r)
  \/ \E x \in Callers : ContextEnds(x)
  \/ CloseCall \/ CloseStep \/ EngineServes \/ EngineDies

ConnSpec == ConnInit /\ [][ConnNext]_connVars

(* Goroutines run, and sync.Mutex starves nobody.  Nothing obliges the     *)
(* engine to answer or a context to end.                                   *)
FairSpec == /\ ConnSpec
            /\ \A s \in Senders : SF_connVars(SendStep(s))
            /\ \A r \in Receivers : SF_connVars(RecvStep(r))
            /\ SF_connVars(CloseStep)

(* Recv runs under the deadline of FailOpenPolicy.await.  Send and Signal  *)
(* run under the request's own context, which has none: it may end, and    *)
(* nothing says that it will.                                              *)
DeadlineSpec == FairSpec /\ \A r \in Receivers : WF_connVars(ContextEnds(r))
-----------------------------------------------------------------------------
(* However the stream cuts the echoes up, each one is consumed exactly     *)
(* once, and no Recv goes to the ring on less than a whole one             *)
(* (ring_linux.go, echoBuf).                                               *)
EchoConsumedOnce ==
  /\ echoes * Echo = eaten * Echo + echoBuf + echoBytes
  /\ Cardinality({r \in Receivers : pc[r] = "pop"}) <= eaten

(* The rings are not touched after they are unmapped, although Close       *)
(* unmaps them outside the mutex (ring_linux.go, Close).                   *)
NoUseAfterUnmap == [][(writeQ' # writeQ \/ readQ' # readQ) =>
                        mapped \/ signals' < signals]_connVars

(* A full ring that nobody drains: the sender looks at it again at each    *)
(* poll (ring_linux.go, Send).                                             *)
Polls(s) == Full /\ pc[s] \in {"idle", "wait"}

(* A Recv leaves when its deadline passes, a Send leaves unless it polls a *)
(* ring that stays full, and neither keeps Close from its turn             *)
(* (ring_linux.go, Recv, Send and Close).                                  *)
DeadlineEndsAll == /\ \A r \in Receivers : <>(pc[r] = "done")
                   /\ \A s \in Senders : <>(pc[s] = "done") \/ <>[]Polls(s)
                   /\ closer = "lock" ~> closer = "done"
=============================================================================
