----------------------------- MODULE SocketConn -----------------------------
(***************************************************************************)
(* One direction of a TCP connection (internal/transport/socket/conn.go,   *)
(* with frame.go).  Send and Recv are the same algorithm with write and    *)
(* read exchanged, on a mutex and a socket deadline of their own, so a     *)
(* call here is either kind.  It checks the connection and its context,    *)
(* locks, arms a watchdog on its context, sets the socket deadline if its  *)
(* context has one, and moves a frame: a header, then a payload.  Three    *)
(* units stand for a frame: the header in two, for it may be cut inside    *)
(* too, and the payload.                                                   *)
(*                                                                         *)
(* Its deferred functions run last in, first out: unlock, clear the        *)
(* deadline, stop the watchdog or wait for it.                             *)
(***************************************************************************)
EXTENDS Integers, Sequences, FiniteSets

CONSTANTS Calls,      \* Send (or Recv) calls on the connection
          Timed,      \* the ones whose context has a deadline
          MayEnd,     \* the ones whose context may end
          NoCall

ASSUME SocketAssumption ==
  /\ Timed \subseteq Calls /\ MayEnd \subseteq Calls
  /\ NoCall \notin Calls

VARIABLES pc,        \* where each call stands
          outcome,   \* NoCall, "ok", "closed", "ctx", "timeout", "gone" or "size"
          ended,     \* the contexts that are done
          watchdog,  \* "off", "armed", "started", "ran" or "stopped"
          mutex,     \* holder of sendMu (recvMu)
          deadline,  \* of the socket: NoCall, "past", or that of a call's context
          moved,     \* units of frames moved so far
          room,      \* units the peer lets through: buffer space, or data sent
          connClosed,
          torn,      \* history: a call failed inside its frame
          way,       \* the direction, "send" or "recv"
          peerGone   \* the peer has closed the connection

peer == <<way, peerGone>>
socketVars == <<pc, outcome, ended, watchdog, mutex, deadline, moved, room, connClosed, torn,
                peer>>

Goto(c, place) == pc' = [pc EXCEPT ![c] = place]
Return(c, what, place) == /\ outcome' = [outcome EXCEPT ![c] = what]
                          /\ Goto(c, place)

-----------------------------------------------------------------------------
Begin(c) ==
  /\ pc[c] = "idle"
  /\ CASE connClosed -> Return(c, "closed", "done")
       [] ~connClosed /\ c \in ended -> Return(c, "ctx", "done")
       [] OTHER -> Goto(c, "lock") /\ UNCHANGED outcome
  /\ UNCHANGED <<ended, watchdog, mutex, deadline, moved, room, connClosed, torn, peer>>

MutexIgnored == TRUE   \* mutant: the mutex is not taken
MutexFree == mutex = NoCall

(* With the mutex, both checks again; then context.AfterFunc, which starts *)
(* the watchdog at once if the context has ended in between.               *)
Lock(c) ==
  /\ pc[c] = "lock" /\ MutexFree
  /\ CASE connClosed -> Return(c, "closed", "done") /\ UNCHANGED <<mutex, watchdog>>
       [] ~connClosed /\ c \in ended -> Return(c, "ctx", "done") /\ UNCHANGED <<mutex, watchdog>>
       [] OTHER -> /\ Goto(c, "deadline") /\ mutex' = c
                   /\ watchdog' = [watchdog EXCEPT ![c] = "armed"]
                   /\ UNCHANGED outcome
  /\ UNCHANGED <<ended, deadline, moved, room, connClosed, torn, peer>>

SetDeadline(c) ==
  /\ pc[c] = "deadline"
  /\ CASE c \in Timed /\ connClosed -> Return(c, "closed", "unlock") /\ UNCHANGED deadline
       [] c \in Timed /\ ~connClosed -> Goto(c, "header") /\ deadline' = c /\ UNCHANGED outcome
       [] OTHER -> Goto(c, "header") /\ UNCHANGED <<deadline, outcome>>
  /\ UNCHANGED <<ended, watchdog, mutex, moved, room, connClosed, torn, peer>>

(* writeFrame and readFrame move the header and the payload one after the  *)
(* other.  A socket whose deadline is over moves nothing.                  *)
Over == deadline = "past" \/ (deadline \in Calls /\ deadline \in ended)

Framing == {"header", "half", "payload"}

Move(c) ==
  /\ pc[c] \in Framing
  /\ ~connClosed /\ ~Over /\ room > 0
  /\ moved' = moved + 1 /\ room' = room - 1
  /\ CASE pc[c] = "header" -> Goto(c, "half") /\ UNCHANGED outcome
       [] pc[c] = "half" -> Goto(c, "payload") /\ UNCHANGED outcome
       [] pc[c] = "payload" -> Return(c, "ok", "unlock")
  /\ UNCHANGED <<ended, watchdog, mutex, deadline, connClosed, torn, peer>>

BrokenByDeadline == Over   \* mutant: Close leaves the socket open
Broken == connClosed \/ Over

(* The error paths: closed wins, and the peer's EOF counts as closed, then *)
(* the context.                                                            *)
ErrorOf(c, why) == CASE connClosed \/ why = "eof" -> "closed"
                     [] ~connClosed /\ why # "eof" /\ c \in ended -> "ctx"
                     [] OTHER -> why

Fails(c, why) ==
  /\ Return(c, ErrorOf(c, why), "unlock")
  /\ torn' = (torn \/ pc[c] # "header")
  /\ UNCHANGED <<ended, watchdog, mutex, deadline, moved, room, connClosed, peer>>

MoveFails(c) == pc[c] \in Framing /\ Broken /\ Fails(c, "timeout")

(* The peer has gone.  A read ends when what it sent is used up, with an   *)
(* EOF at the start of the header or of the payload.                       *)
PeerFails(c) ==
  /\ pc[c] \in Framing /\ peerGone
  /\ \/ way = "send" /\ Fails(c, "gone")
     \/ way = "recv" /\ room = 0 /\ pc[c] # "half" /\ Fails(c, "eof")
     \/ way = "recv" /\ room = 0 /\ pc[c] # "header" /\ Fails(c, "gone")

(* A frame over maxFrameSize: not written, or not read beyond its header.  *)
Refuse(c) ==
  /\ pc[c] = (IF way = "send" THEN "header" ELSE "payload")
  /\ Fails(c, "size")

Unlock(c) ==
  /\ pc[c] = "unlock"
  /\ mutex' = NoCall /\ Goto(c, "clear")
  /\ UNCHANGED <<outcome, ended, watchdog, deadline, moved, room, connClosed, torn, peer>>

ClearDeadline(c) ==
  /\ pc[c] = "clear"
  /\ deadline' = NoCall /\ Goto(c, "stop")
  /\ UNCHANGED <<outcome, ended, watchdog, mutex, moved, room, connClosed, torn, peer>>

(* Mutant: the call does not wait for a watchdog that has started.         *)
StopWithoutWait(c) ==
  /\ pc[c] = "stop"
  /\ watchdog' = [watchdog EXCEPT ![c] = IF @ = "armed" THEN "stopped" ELSE @]
  /\ Goto(c, "done")
  /\ UNCHANGED <<outcome, ended, mutex, deadline, moved, room, connClosed, torn, peer>>

StopWatchdog(c) ==
  /\ pc[c] = "stop" /\ watchdog[c] # "started"
  /\ watchdog' = [watchdog EXCEPT ![c] = IF @ = "armed" THEN "stopped" ELSE @]
  /\ Goto(c, "done")
  /\ UNCHANGED <<outcome, ended, mutex, deadline, moved, room, connClosed, torn, peer>>

-----------------------------------------------------------------------------
ContextEnds(c) ==
  /\ c \in MayEnd \ ended
  /\ ended' = ended \cup {c}
  /\ UNCHANGED <<pc, outcome, watchdog, mutex, deadline, moved, room, connClosed, torn, peer>>

(* The runtime starts the goroutine of an AfterFunc whose context is done. *)
StartWatchdog(c) ==
  /\ c \in ended /\ watchdog[c] = "armed"
  /\ watchdog' = [watchdog EXCEPT ![c] = "started"]
  /\ UNCHANGED <<pc, outcome, ended, mutex, deadline, moved, room, connClosed, torn, peer>>

TripDeadline(c) ==
  /\ watchdog[c] = "started"
  /\ deadline' = "past"
  /\ watchdog' = [watchdog EXCEPT ![c] = "ran"]
  /\ UNCHANGED <<pc, outcome, ended, mutex, moved, room, connClosed, torn, peer>>

(* The peer reads, or sends, one more unit.                                *)
PeerMoves ==
  /\ ~peerGone
  /\ room < 2 /\ moved + room < 3 * Cardinality(Calls)   \* bounds: a frame for each call
  /\ room' = room + 1
  /\ UNCHANGED <<pc, outcome, ended, watchdog, mutex, deadline, moved, connClosed, torn, peer>>

PeerGoes ==
  /\ ~peerGone /\ peerGone' = TRUE
  /\ UNCHANGED <<pc, outcome, ended, watchdog, mutex, deadline, moved, room, connClosed, torn,
                 way>>

Close ==
  /\ ~connClosed /\ connClosed' = TRUE
  /\ UNCHANGED <<pc, outcome, ended, watchdog, mutex, deadline, moved, room, torn, peer>>

-----------------------------------------------------------------------------
SocketInit ==
  /\ pc = [c \in Calls |-> "idle"]
  /\ outcome = [c \in Calls |-> NoCall]
  /\ ended = {}
  /\ watchdog = [c \in Calls |-> "off"]
  /\ mutex = NoCall /\ deadline = NoCall
  /\ moved = 0 /\ room = 0
  /\ connClosed = FALSE /\ torn = FALSE
  /\ way \in {"send", "recv"} /\ peerGone = FALSE

Step(c) == \/ Begin(c) \/ Lock(c) \/ SetDeadline(c) \/ Move(c) \/ MoveFails(c)
           \/ PeerFails(c) \/ Refuse(c) \/ Unlock(c) \/ ClearDeadline(c) \/ StopWatchdog(c)

Watchdog(c) == StartWatchdog(c) \/ TripDeadline(c)

SocketNext ==
  \/ \E c \in Calls : Step(c) \/ Watchdog(c) \/ ContextEnds(c)
  \/ PeerMoves \/ PeerGoes \/ Close

SocketSpec == SocketInit /\ [][SocketNext]_socketVars

(* Goroutines run and the mutex is fair (sync.Mutex does not starve).  The *)
(* peer is owed nothing, and no context need end.                          *)
FairSocketSpec ==
  SocketSpec /\ \A c \in Calls : SF_socketVars(Step(c)) /\ WF_socketVars(Watchdog(c))
-----------------------------------------------------------------------------
(* A watchdog never outlives its call (conn.go: "it can never touch the    *)
(* shared write deadline after this Send has finished").                   *)
WatchdogEndsWithCall ==
  \A c \in Calls : pc[c] = "done" => watchdog[c] \notin {"armed", "started"}

(* Closing the connection ends every call, wherever it blocks (conn.go,    *)
(* Close).                                                                 *)
CloseUnblocks == connClosed ~> \A c \in Calls : pc[c] \in {"idle", "done"}

(* "one Send writes one frame, which the peer's Recv reads back as exactly *)
(* one payload" (conn.go): every frame starts where the previous one       *)
(* ended, also after calls whose contexts ended while they waited, as long *)
(* as no call was cut off inside its frame.                                *)
FrameAligned == ~torn => \A c \in Calls : pc[c] = "header" => moved % 3 = 0
=============================================================================
