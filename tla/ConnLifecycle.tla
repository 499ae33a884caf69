---------------------------- MODULE ConnLifecycle ---------------------------
(***************************************************************************)
(* The life of the shared connection object (internal/app/conn.go, Conn,   *)
(* with keepalive.go): the keep-alive goroutine on its own socket and its  *)
(* back-off, the redials of senders that found the connection dead, and    *)
(* Close, which waits for the keep-alive goroutine and then closes both    *)
(* transport connections.  A transport connection is a number in order of  *)
(* dialing; number 1 is the one newConn was given.                         *)
(*                                                                         *)
(* Time passes in units; a step of the loop that nothing holds up takes    *)
(* less than one.                                                          *)
(***************************************************************************)
EXTENDS Integers, FiniteSets

CONSTANTS Redialers,    \* calls of reconnect
          Closers,      \* calls of Close
          Min, Max,     \* reconnect_backoff_min_ms and _max_ms
          Interval,     \* keep_alive_interval_ms
          Expiry,       \* how long the engine keeps a silent registration
          MaxAttempts,  \* bound: failed keep-alives in a row
          MaxDials,     \* bound: connections dialed
          MaxOutages,   \* bound: engine crashes
          None

ASSUME LifecycleAssumption ==
  /\ Min \in Nat \ {0} /\ Max \in Nat \ {0}
  /\ Interval \in Nat \ {0} /\ Expiry \in Nat \ {0}
  /\ MaxAttempts \in Nat /\ MaxDials \in Nat /\ MaxOutages \in Nat
  /\ None \notin Nat

VARIABLES conn,      \* Conn.conn
          closed,    \* Conn.closed
          stop,      \* the stop channel is closed
          kaConn,    \* Conn.kaConn
          loop,      \* where keepAliveLoop stands
          attempt,   \* its failures in a row
          delay,     \* what is left of its back-off
          due,       \* time to the ticker's next tick
          ticked,    \* a tick is in the ticker's channel
          silence,   \* time since the engine last heard of this worker
          closer,    \* where each Close stands
          redial,    \* where each reconnect stands
          fresh,     \* the connection it dialed
          open,      \* connections this process has open
          dead,      \* connections whose engine end is gone
          dials, engineUp, hung, outages

loopVars == <<loop, attempt, delay>>
time == <<due, ticked, silence>>
engVars == <<engineUp, hung, outages>>
vars == <<conn, closed, stop, kaConn, loopVars, closer, redial, fresh, open, dead, dials,
          time, engVars>>

(* backoffDelay: double while below max.  The overflow guard of the code   *)
(* needs a maximum beyond 2^62 ns.                                         *)
Doubled[n \in Nat] == IF n = 0 THEN Min
                      ELSE IF Doubled[n - 1] < Max THEN 2 * Doubled[n - 1]
                                                   ELSE Doubled[n - 1]
backoffDelay(n) == IF Doubled[n] > Max THEN Max ELSE Doubled[n]

-----------------------------------------------------------------------------
(***************************************************************************)
(* keepAliveLoop and keepAliveSend.                                        *)
(***************************************************************************)

PeriodAfterBackoff == Interval + Min   \* mutant: every round waits a back-off
Period == Interval

(* The select may take the tick although stop is closed too.  The bounds   *)
(* leave the redialers their dials.                                        *)
MayTick ==
  /\ loop = "wait" /\ ticked /\ attempt < MaxAttempts
  /\ kaConn # None \/ dials + Cardinality({r \in Redialers : redial[r] = "idle"}) < MaxDials

Tick ==
  /\ MayTick
  /\ loop' = "lookup" /\ ticked' = FALSE
  /\ UNCHANGED <<conn, closed, stop, kaConn, attempt, delay, closer, redial, fresh, open,
                 dead, dials, due, silence, engVars>>

(* The ticker drops a tick that finds the last one still in its channel.   *)
TimePasses ==
  /\ \/ loop = "wait" /\ ~MayTick
     \/ loop = "send" /\ hung
     \/ loop = "backoff" /\ delay > 0
  /\ due' = IF due = 1 THEN Period ELSE due - 1
  /\ ticked' = (ticked \/ due = 1)
  /\ delay' = IF delay > 0 THEN delay - 1 ELSE 0
  /\ silence' = IF silence < Expiry THEN silence + 1 ELSE silence
  /\ UNCHANGED <<conn, closed, stop, kaConn, loop, attempt, closer, redial, fresh, open,
                 dead, dials, engVars>>

Failed == /\ attempt' = attempt + 1
          /\ delay' = backoffDelay(attempt + 1)
          /\ loop' = "backoff"

(* The socket is dialed on first use; a dial does not wait for the engine. *)
KeepAliveDial ==
  /\ loop = "lookup"
  /\ IF kaConn # None
     THEN loop' = "send" /\ UNCHANGED <<kaConn, attempt, delay, open, dials>>
     ELSE IF engineUp
     THEN /\ dials' = dials + 1
          /\ kaConn' = dials + 1 /\ open' = open \cup {dials + 1}
          /\ loop' = "send" /\ UNCHANGED <<attempt, delay>>
     ELSE Failed /\ UNCHANGED <<kaConn, open, dials>>
  /\ UNCHANGED <<conn, closed, stop, closer, redial, fresh, dead, time, engVars>>

(* Mutant: the socket that failed is forgotten, not closed.                *)
KeepAliveForgets ==
  /\ loop = "send" /\ ~hung
  /\ \/ loop' = "wait" /\ attempt' = 0 /\ UNCHANGED <<kaConn, delay>>
     \/ kaConn \in dead /\ Failed /\ kaConn' = None
  /\ silence' = IF kaConn \in dead THEN silence ELSE 0
  /\ UNCHANGED <<conn, closed, stop, closer, redial, fresh, open, dead, dials, due, ticked,
                 engVars>>

(* A failed send drops the socket, so that the next tick dials again.  TCP *)
(* takes a write after its peer is gone; a peer that reads no more blocks  *)
(* the send, whose context has no end.                                     *)
KeepAliveSend ==
  /\ loop = "send" /\ ~hung
  /\ \/ loop' = "wait" /\ attempt' = 0 /\ UNCHANGED <<kaConn, delay, open>>
     \/ kaConn \in dead /\ Failed /\ kaConn' = None /\ open' = open \ {kaConn}
  /\ silence' = IF kaConn \in dead THEN silence ELSE 0
  /\ UNCHANGED <<conn, closed, stop, closer, redial, fresh, dead, dials, due, ticked, engVars>>

BackoffOver ==
  /\ loop = "backoff" /\ delay = 0 /\ loop' = "wait"
  /\ UNCHANGED <<conn, closed, stop, kaConn, attempt, delay, closer, redial, fresh, open,
                 dead, dials, time, engVars>>

LoopStops ==
  /\ loop \in {"wait", "backoff"} /\ stop
  /\ loop' = "stopped"
  /\ UNCHANGED <<conn, closed, stop, kaConn, attempt, delay, closer, redial, fresh, open,
                 dead, dials, time, engVars>>

-----------------------------------------------------------------------------
(***************************************************************************)
(* reconnect: the dial, which registers the worker, runs without a lock,   *)
(* the exchange under mu.                                                  *)
(***************************************************************************)
Redial(r) ==
  /\ redial[r] = "idle" /\ ~hung /\ engineUp
  /\ dials' = dials + 1 /\ open' = open \cup {dials + 1}
  /\ fresh' = [fresh EXCEPT ![r] = dials + 1]
  /\ redial' = [redial EXCEPT ![r] = "exchange"]
  /\ silence' = 0
  /\ UNCHANGED <<conn, closed, stop, kaConn, loopVars, closer, dead, due, ticked, engVars>>

(* The engine is down, or the caller's context ends in the handshake.      *)
RedialFails(r) ==
  /\ redial[r] = "idle" /\ (~engineUp \/ hung)
  /\ redial' = [redial EXCEPT ![r] = "failed"]
  /\ UNCHANGED <<conn, closed, stop, kaConn, loopVars, closer, fresh, open, dead, dials,
                 time, engVars>>

(* Mutant: the exchange does not look whether Close has run.               *)
ExchangeUnchecked(r) ==
  /\ redial[r] = "exchange"
  /\ conn' = fresh[r] /\ open' = open \ {conn}
  /\ redial' = [redial EXCEPT ![r] = "done"]
  /\ UNCHANGED <<closed, stop, kaConn, loopVars, closer, fresh, dead, dials, time, engVars>>

Exchange(r) ==
  /\ redial[r] = "exchange"
  /\ IF closed
     THEN /\ open' = open \ {fresh[r]} /\ UNCHANGED conn
          /\ redial' = [redial EXCEPT ![r] = "failed"]
     ELSE /\ conn' = fresh[r] /\ open' = open \ {conn}
          /\ redial' = [redial EXCEPT ![r] = "done"]
  /\ UNCHANGED <<closed, stop, kaConn, loopVars, closer, fresh, dead, dials, time, engVars>>

-----------------------------------------------------------------------------
(***************************************************************************)
(* Close.                                                                  *)
(***************************************************************************)
(* Mutant: the keep-alive loop is not told to stop.                        *)
CloseWithoutStop(k) ==
  /\ closer[k] = "idle"
  /\ closer' = [closer EXCEPT ![k] = "wait"]
  /\ UNCHANGED <<conn, closed, stop, kaConn, loopVars, redial, fresh, open, dead, dials,
                 time, engVars>>

CloseStop(k) ==
  /\ closer[k] = "idle"
  /\ stop' = TRUE
  /\ closer' = [closer EXCEPT ![k] = "wait"]
  /\ UNCHANGED <<conn, closed, kaConn, loopVars, redial, fresh, open, dead, dials, time, engVars>>

CloseTeardown(k) ==
  /\ closer[k] = "wait" /\ loop = "stopped"
  /\ closed' = TRUE
  /\ open' = IF closed THEN open ELSE open \ {conn, kaConn}
  /\ kaConn' = IF closed THEN kaConn ELSE None
  /\ closer' = [closer EXCEPT ![k] = "done"]
  /\ UNCHANGED <<conn, stop, loopVars, redial, fresh, dead, dials, time, engVars>>

-----------------------------------------------------------------------------
EngineCrash ==
  /\ engineUp /\ outages < MaxOutages
  /\ engineUp' = FALSE /\ outages' = outages + 1
  /\ dead' = dead \cup open
  /\ UNCHANGED <<conn, closed, stop, kaConn, loopVars, closer, redial, fresh, open, dials,
                 time, hung>>

EngineRestart ==
  /\ ~engineUp /\ engineUp' = TRUE
  /\ UNCHANGED <<conn, closed, stop, kaConn, loopVars, closer, redial, fresh, open, dead,
                 dials, time, hung, outages>>

(* The engine stays, with its sockets, and reads nothing more: their       *)
(* buffers fill up.                                                        *)
EngineHangs ==
  /\ engineUp /\ ~hung /\ hung' = TRUE
  /\ UNCHANGED <<conn, closed, stop, kaConn, loopVars, closer, redial, fresh, open, dead,
                 dials, time, engineUp, outages>>

-----------------------------------------------------------------------------
Init ==
  /\ conn = 1 /\ open = {1} /\ dead = {} /\ dials = 1
  /\ closed = FALSE /\ stop = FALSE /\ kaConn = None
  /\ loop = "wait" /\ attempt = 0 /\ delay = 0
  /\ due = Period /\ ticked = FALSE /\ silence = 0
  /\ closer = [k \in Closers |-> "idle"]
  /\ redial = [r \in Redialers |-> "idle"]
  /\ fresh = [r \in Redialers |-> None]
  /\ engineUp = TRUE /\ hung = FALSE /\ outages = 0

keepAliveLoop == Tick \/ KeepAliveDial \/ KeepAliveSend \/ BackoffOver \/ LoopStops
reconnect(r) == Redial(r) \/ RedialFails(r) \/ Exchange(r)

Next == \/ keepAliveLoop \/ TimePasses
        \/ \E r \in Redialers : reconnect(r)
        \/ \E k \in Closers : CloseStop(k) \/ CloseTeardown(k)
        \/ EngineCrash \/ EngineRestart \/ EngineHangs

Spec == Init /\ [][Next]_vars

(* The goroutines run.  LoopStops is strongly fair: Go's select does not   *)
(* pass over a ready channel for ever.                                     *)
FairSpec == /\ Spec
            /\ WF_vars(keepAliveLoop) /\ SF_vars(LoopStops)
            /\ \A k \in Closers : WF_vars(CloseTeardown(k))
            /\ \A r \in Redialers : WF_vars(Exchange(r))
-----------------------------------------------------------------------------
(* With an interval below the engine's expiry, a worker that keeps its     *)
(* connection to a working engine is never forgotten, whatever its         *)
(* redialers do (engine.go: "the interval must stay below that expiry      *)
(* window"); nothing makes a configured interval, or the default, do so.   *)
RegistrationKept ==
  Interval < Expiry /\ outages = 0 /\ ~hung /\ ~stop => silence < Expiry

(* Once Close has returned, every connection of the object is closed: also *)
(* one that a redial obtained meanwhile, once that redial is over, and the *)
(* keep-alive socket.                                                      *)
NothingLeftOpen ==
  (\E k \in Closers : closer[k] = "done") /\ (\A r \in Redialers : redial[r] # "exchange")
    => open = {}

(* Until then each connection is accounted for, and the current one is     *)
(* open at this end: redials that cross close the loser, not the winner.   *)
OpenIsOwned ==
  /\ open = ({conn, kaConn} \cap open) \cup
            {fresh[r] : r \in {q \in Redialers : redial[q] = "exchange"}}
  /\ ~closed => conn \in open /\ (kaConn # None => kaConn \in open)

(* Close returns (conn.go: "Close stops the keep-alive loop and closes the *)
(* underlying conn and the keep-alive socket"), unless the engine hangs:   *)
(* a keep-alive Send blocked on it has no deadline, and Close waits for    *)
(* the loop.                                                               *)
CloseReturns == \A k \in Closers : closer[k] = "wait" ~> (closer[k] = "done" \/ hung)
=============================================================================
