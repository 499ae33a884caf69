------------------------- MODULE ConnLifecycleProofs ------------------------
(***************************************************************************)
(* The connection object loses no transport connection, for any number of  *)
(* redials and closes that cross and any sequence of engine failures, and  *)
(* its keep-alive is on time for every interval below the expiry.          *)
(***************************************************************************)
EXTENDS ConnLifecycle, FiniteSetTheorems, TLAPS

Exchanging == {r \in Redialers : redial[r] = "exchange"}

(* The connections that redials hold and have not handed over.             *)
Fresh == {fresh[r] : r \in Exchanging}

TypeOK ==
  /\ conn \in Nat /\ kaConn \in Nat \cup {None} /\ dials \in Nat
  /\ redial \in [Redialers -> {"idle", "exchange", "failed", "done"}]
  /\ fresh \in [Redialers -> Nat \cup {None}]
  /\ closer \in [Closers -> {"idle", "wait", "done"}]
  /\ loop \in {"wait", "lookup", "send", "backoff", "stopped"}

(* Connections are numbered as they are dialed, so that a new one is       *)
(* nobody's; no two owners share one.                                      *)
Distinct ==
  /\ conn <= dials /\ conn \notin Fresh
  /\ kaConn # None => kaConn <= dials /\ kaConn # conn /\ kaConn \notin Fresh
  /\ \A r \in Exchanging : fresh[r] \in Nat /\ fresh[r] <= dials
  /\ \A q, r \in Exchanging : fresh[q] = fresh[r] => q = r

(* What is open, before and after the teardown, which comes after the end  *)
(* of the keep-alive loop.                                                 *)
Owned ==
  /\ ~closed => open = ({conn} \cup ({kaConn} \ {None})) \cup Fresh
  /\ closed => open = Fresh /\ kaConn = None /\ loop = "stopped"
  /\ (\E k \in Closers : closer[k] = "done") => closed

OwnInv == TypeOK /\ Distinct /\ Owned

(* The keep-alive loop gets a connection, uses it and drops it.            *)
LEMMA KeepAliveStep ==
  ASSUME OwnInv, KeepAliveDial \/ KeepAliveSend
  PROVE  OwnInv'
<1>1. TypeOK /\ Distinct /\ Owned /\ None \notin Nat
  BY LifecycleAssumption DEF OwnInv
<1>2. /\ ~closed /\ UNCHANGED <<conn, closed, closer, redial, fresh>>
      /\ loop' \in {"send", "wait", "backoff"}
  BY <1>1 DEF KeepAliveDial, KeepAliveSend, Owned, Failed
<1>3. Fresh' = Fresh /\ Exchanging' = Exchanging
  BY <1>2 DEF Fresh, Exchanging
<1>4. open = ({conn} \cup ({kaConn} \ {None})) \cup Fresh
  BY <1>1, <1>2 DEF Owned
<1>5. CASE UNCHANGED <<kaConn, open, dials>>
  BY <1>1, <1>2, <1>3, <1>5 DEF OwnInv, TypeOK, Distinct, Owned
<1>6. CASE /\ kaConn = None /\ dials' = dials + 1 /\ kaConn' = dials + 1
           /\ open' = open \cup {dials + 1}
  <2>1. TypeOK'
    BY <1>1, <1>2, <1>6 DEF TypeOK
  <2>2. \A x \in Fresh : x \in Nat /\ x <= dials
    BY <1>1 DEF Distinct, Fresh
  <2>3. Distinct'
    BY <1>1, <1>2, <1>3, <1>6, <2>2 DEF Distinct, TypeOK
  <2>4. open' = ({conn} \cup ({kaConn'} \ {None})) \cup Fresh
    BY <1>1, <1>4, <1>6 DEF TypeOK
  <2>5. Owned'
    BY <1>1, <1>2, <1>3, <2>4 DEF Owned
  <2> QED BY <2>1, <2>3, <2>5 DEF OwnInv
<1>7. CASE kaConn' = None /\ open' = open \ {kaConn} /\ UNCHANGED dials
  <2>1. TypeOK'
    BY <1>1, <1>2, <1>7 DEF TypeOK
  <2>2. Distinct'
    BY <1>1, <1>2, <1>3, <1>7 DEF Distinct
  <2>3. None \notin Fresh
    BY <1>1 DEF Distinct, Fresh
  <2>4. open' = ({conn} \cup ({kaConn'} \ {None})) \cup Fresh
    BY <1>1, <1>4, <1>7, <2>3 DEF TypeOK, Distinct
  <2>5. Owned'
    BY <1>1, <1>2, <1>3, <2>4 DEF Owned
  <2> QED BY <2>1, <2>2, <2>5 DEF OwnInv
<1> QED BY <1>5, <1>6, <1>7 DEF KeepAliveDial, KeepAliveSend, Failed

(* A redial owns what it dialed.                                           *)
LEMMA RedialStep ==
  ASSUME OwnInv, NEW r \in Redialers, Redial(r)
  PROVE  OwnInv'
<1>1. TypeOK /\ Distinct /\ Owned /\ None \notin Nat
  BY LifecycleAssumption DEF OwnInv
<1>2. /\ UNCHANGED <<conn, closed, closer, kaConn, loop>> /\ redial[r] = "idle"
      /\ dials' = dials + 1 /\ open' = open \cup {dials + 1}
      /\ fresh' = [fresh EXCEPT ![r] = dials + 1]
      /\ redial' = [redial EXCEPT ![r] = "exchange"]
  BY DEF Redial, loopVars
<1>3. TypeOK'
  BY <1>1, <1>2 DEF TypeOK
<1>4. /\ r \notin Exchanging /\ Exchanging' = Exchanging \cup {r}
      /\ fresh'[r] = dials + 1 /\ \A q \in Exchanging : fresh'[q] = fresh[q]
  BY <1>1, <1>2 DEF TypeOK, Exchanging
<1>5. Fresh' = Fresh \cup {dials + 1}
  BY <1>4 DEF Fresh
<1>6. dials + 1 \in Nat /\ dials \in Nat /\ conn \in Nat /\ kaConn \in Nat \cup {None}
  BY <1>1 DEF TypeOK
<1>7. Distinct'
  BY <1>1, <1>2, <1>4, <1>5, <1>6 DEF Distinct
<1>8. Owned'
  BY <1>1, <1>2, <1>5 DEF Owned
<1> QED BY <1>3, <1>7, <1>8 DEF OwnInv

(* The exchange hands the connection over, or closes it after a Close.     *)
LEMMA ExchangeStep ==
  ASSUME OwnInv, NEW r \in Redialers, Exchange(r)
  PROVE  OwnInv'
<1>1. TypeOK /\ Distinct /\ Owned /\ None \notin Nat
  BY LifecycleAssumption DEF OwnInv
<1>2. /\ UNCHANGED <<closed, closer, kaConn, loop, dials, fresh>> /\ redial[r] = "exchange"
      /\ \E p \in {"failed", "done"} : redial' = [redial EXCEPT ![r] = p]
  BY DEF Exchange, loopVars
<1>3. /\ r \in Exchanging /\ Exchanging' = Exchanging \ {r}
      /\ fresh[r] \in Fresh /\ fresh[r] \in Nat /\ fresh[r] <= dials
  BY <1>1, <1>2 DEF TypeOK, Exchanging, Fresh, Distinct
<1>4. Fresh' = Fresh \ {fresh[r]}
  <2>1. Fresh' = {fresh[q] : q \in Exchanging \ {r}}
    BY <1>2, <1>3 DEF Fresh
  <2> QED BY <1>1, <1>3, <2>1 DEF Fresh, Distinct
<1>5. CASE closed
  <2>1. open' = open \ {fresh[r]} /\ UNCHANGED conn
    BY <1>5 DEF Exchange
  <2>2. TypeOK'
    BY <1>1, <1>2, <2>1 DEF TypeOK
  <2>3. Distinct'
    BY <1>1, <1>2, <1>3, <1>4, <2>1 DEF Distinct
  <2>4. Owned'
    BY <1>1, <1>2, <1>4, <1>5, <2>1 DEF Owned
  <2> QED BY <2>2, <2>3, <2>4 DEF OwnInv
<1>6. CASE ~closed
  <2>1. open' = open \ {conn} /\ conn' = fresh[r]
    BY <1>6 DEF Exchange
  <2>2. TypeOK'
    BY <1>1, <1>2, <1>3, <2>1 DEF TypeOK
  <2>3. Distinct'
    BY <1>1, <1>2, <1>3, <1>4, <2>1 DEF Distinct
  <2>4. open' = ({conn'} \cup ({kaConn} \ {None})) \cup Fresh'
    BY <1>1, <1>3, <1>4, <1>6, <2>1 DEF Owned, Distinct
  <2>5. Owned'
    BY <1>1, <1>2, <1>6, <2>4 DEF Owned
  <2> QED BY <2>2, <2>3, <2>5 DEF OwnInv
<1> QED BY <1>5, <1>6

(* The teardown closes all but what redials still hold.                    *)
LEMMA TeardownStep ==
  ASSUME OwnInv, NEW k \in Closers, CloseTeardown(k)
  PROVE  OwnInv'
<1>1. TypeOK /\ Distinct /\ Owned /\ None \notin Nat
  BY LifecycleAssumption DEF OwnInv
<1>2. /\ UNCHANGED <<conn, loop, dials, redial, fresh>> /\ loop = "stopped" /\ closed'
      /\ closer' = [closer EXCEPT ![k] = "done"] /\ kaConn' = IF closed THEN kaConn ELSE None
      /\ open' = IF closed THEN open ELSE open \ {conn, kaConn}
  BY DEF CloseTeardown, loopVars
<1>3. Fresh' = Fresh /\ Exchanging' = Exchanging /\ None \notin Fresh
  BY <1>1, <1>2 DEF Fresh, Exchanging, Distinct
<1>4. open' = Fresh /\ kaConn' = None
  <2>1. CASE closed
    BY <1>1, <1>2, <2>1 DEF Owned
  <2>2. CASE ~closed
    BY <1>1, <1>2, <1>3, <2>2 DEF Owned, Distinct
  <2> QED BY <2>1, <2>2
<1>5. TypeOK'
  BY <1>1, <1>2, <1>4 DEF TypeOK
<1>6. Distinct'
  BY <1>1, <1>2, <1>3, <1>4 DEF Distinct
<1>7. Owned'
  BY <1>2, <1>3, <1>4 DEF Owned
<1> QED BY <1>5, <1>6, <1>7 DEF OwnInv

(* The other steps own and close nothing.                                  *)
LEMMA BystanderStep ==
  ASSUME OwnInv,
         \/ Tick \/ TimePasses \/ BackoffOver \/ LoopStops
         \/ \E r \in Redialers : RedialFails(r)
         \/ \E k \in Closers : CloseStop(k)
         \/ EngineCrash \/ EngineRestart \/ EngineHangs \/ UNCHANGED vars
  PROVE  OwnInv'
<1>1. TypeOK /\ Distinct /\ Owned
  BY DEF OwnInv
<1>2. UNCHANGED <<conn, closed, kaConn, dials, open, fresh>>
  BY DEF Tick, TimePasses, BackoffOver, LoopStops, RedialFails, CloseStop, EngineCrash,
         EngineRestart, EngineHangs, vars
<1>3. /\ loop' \in {"wait", "lookup", "send", "backoff", "stopped"}
      /\ loop = "stopped" => loop' = "stopped"
  BY <1>1 DEF TypeOK, Tick, MayTick, TimePasses, BackoffOver, LoopStops, RedialFails, CloseStop,
              EngineCrash, EngineRestart, EngineHangs, vars, loopVars
<1>4. /\ redial' \in [Redialers -> {"idle", "exchange", "failed", "done"}]
      /\ \A r \in Redialers : redial'[r] = "exchange" <=> redial[r] = "exchange"
  <2>1. CASE UNCHANGED redial
    BY <1>1, <2>1 DEF TypeOK
  <2>2. ASSUME NEW r \in Redialers, RedialFails(r)
        PROVE  /\ redial' \in [Redialers -> {"idle", "exchange", "failed", "done"}]
               /\ \A q \in Redialers : redial'[q] = "exchange" <=> redial[q] = "exchange"
    BY <1>1, <2>2 DEF TypeOK, RedialFails
  <2> QED BY <2>1, <2>2 DEF Tick, TimePasses, BackoffOver, LoopStops, CloseStop, EngineCrash,
                            EngineRestart, EngineHangs, vars
<1>5. /\ closer' \in [Closers -> {"idle", "wait", "done"}]
      /\ \A k \in Closers : closer'[k] = "done" => closer[k] = "done"
  <2>1. CASE UNCHANGED closer
    BY <1>1, <2>1 DEF TypeOK
  <2>2. ASSUME NEW k \in Closers, CloseStop(k)
        PROVE  /\ closer' \in [Closers -> {"idle", "wait", "done"}]
               /\ \A j \in Closers : closer'[j] = "done" => closer[j] = "done"
    BY <1>1, <2>2 DEF TypeOK, CloseStop
  <2> QED BY <2>1, <2>2 DEF Tick, TimePasses, BackoffOver, LoopStops, RedialFails, EngineCrash,
                            EngineRestart, EngineHangs, vars
<1>6. Exchanging' = Exchanging /\ Fresh' = Fresh
  BY <1>2, <1>4 DEF Exchanging, Fresh
<1>7. TypeOK' /\ Distinct' /\ Owned'
  BY <1>1, <1>2, <1>3, <1>4, <1>5, <1>6 DEF TypeOK, Distinct, Owned
<1> QED BY <1>7 DEF OwnInv

(* OwnInv is an invariant of the connection object.                        *)
LEMMA OwnInvariant == Spec => []OwnInv
<1>1. Init => OwnInv
  <2> SUFFICES ASSUME Init PROVE OwnInv
    OBVIOUS
  <2>1. ~closed /\ kaConn = None /\ open = {1} /\ conn = 1 /\ dials = 1 /\ loop = "wait"
    BY Zenon DEF Init
  <2>2. TypeOK
    BY <2>1 DEF Init, TypeOK
  <2>3. Exchanging = {} /\ Fresh = {}
    BY DEF Init, Exchanging, Fresh
  <2>4. \A k \in Closers : closer[k] = "idle"
    BY DEF Init
  <2> QED BY <2>1, <2>2, <2>3, <2>4 DEF OwnInv, Distinct, Owned
<1>2. OwnInv /\ [Next]_vars => OwnInv'
  BY KeepAliveStep, RedialStep, ExchangeStep, TeardownStep, BystanderStep
     DEF Next, keepAliveLoop, reconnect
<1> QED BY <1>1, <1>2, PTL DEF Spec

(* For any number of redials that cross each other, the keep-alive loop    *)
(* and a Close: every open connection has an owner, and until the teardown *)
(* the current one is open (conn.go, reconnect and Close).                 *)
THEOREM ConnectionsAreOwned == Spec => []OpenIsOwned
<1>1. OwnInv => OpenIsOwned
  <2> SUFFICES ASSUME OwnInv PROVE OpenIsOwned
    OBVIOUS
  <2>1. Distinct /\ Owned /\ None \notin Nat /\ None \notin Fresh
    BY LifecycleAssumption DEF OwnInv, Distinct, Fresh
  <2>2. open = ({conn, kaConn} \cap open) \cup Fresh
    BY <2>1 DEF Owned
  <2>3. ~closed => conn \in open /\ (kaConn # None => kaConn \in open)
    BY <2>1 DEF Owned
  <2> QED BY <2>2, <2>3 DEF OpenIsOwned, Fresh, Exchanging
<1> QED BY <1>1, OwnInvariant, PTL

(* For any number of redials and closes: once a Close has returned and the *)
(* redials are over, no connection of the object is open (conn.go, Close   *)
(* and reconnect).                                                         *)
THEOREM CloseLeavesNothingOpen == Spec => []NothingLeftOpen
<1>1. OwnInv => NothingLeftOpen
  BY DEF OwnInv, Owned, NothingLeftOpen, Fresh, Exchanging
<1> QED BY <1>1, OwnInvariant, PTL

-----------------------------------------------------------------------------
(* The bounds of the model leave every redial its dial and the loop its    *)
(* tick, so that none of them holds up a keep-alive.                       *)
BoundsSuffice ==
  /\ IsFiniteSet(Redialers)
  /\ MaxAttempts > 0 /\ MaxDials > Cardinality(Redialers) + 1

(* The condition of RegistrationKept.                                      *)
Healthy == Interval < Expiry /\ outages = 0 /\ ~hung /\ ~stop

Idle == {r \in Redialers : redial[r] = "idle"}

(* While the engine is well nothing fails, and the first keep-alive is     *)
(* sure of its dial.                                                       *)
NoFailure ==
  /\ engineUp /\ dead = {} /\ attempt = 0 /\ loop \in {"wait", "lookup", "send"}
  /\ kaConn = None => dials + Cardinality(Idle) <= 1 + Cardinality(Redialers)

(* The engine was heard of within the present period of the ticker.        *)
OnTime ==
  /\ due \in 1 .. Interval /\ silence \in Nat /\ silence <= Interval
  /\ ticked \/ loop # "wait" => due = Interval
  /\ loop = "wait" /\ ~ticked => silence + due <= Interval

KeptInv == outages \in Nat /\ (Healthy => NoFailure /\ OnTime)

(* Health is not regained.                                                 *)
LEMMA HealthyBefore ==
  ASSUME outages \in Nat, [Next]_vars
  PROVE  outages' \in Nat /\ (Healthy' => Healthy)
<1>1. outages' \in Nat /\ outages' >= outages /\ (hung => hung') /\ (stop => stop')
  <2>1. CASE UNCHANGED <<outages, hung, stop>>
    BY <2>1
  <2>2. CASE EngineCrash
    BY <2>2 DEF EngineCrash
  <2>3. CASE EngineHangs
    BY <2>3 DEF EngineHangs
  <2>4. ASSUME NEW k \in Closers, CloseStop(k)
        PROVE  outages' \in Nat /\ outages' >= outages /\ (hung => hung') /\ (stop => stop')
    BY <2>4 DEF CloseStop, engVars
  <2> QED BY <2>1, <2>2, <2>3, <2>4
          DEF Next, keepAliveLoop, reconnect, Tick, TimePasses, KeepAliveDial, KeepAliveSend,
              BackoffOver, LoopStops, Redial, RedialFails, Exchange, CloseTeardown,
              EngineRestart, vars, engVars
<1> QED BY <1>1 DEF Healthy

(* Every step of a healthy object keeps it on time.                        *)
LEMMA KeptStep ==
  ASSUME BoundsSuffice, TypeOK, Healthy, NoFailure, OnTime, Healthy', [Next]_vars
  PROVE  NoFailure' /\ OnTime'
<1>1. /\ Interval \in Nat \ {0} /\ None \notin Nat /\ dials \in Nat
      /\ Cardinality(Redialers) \in Nat
      /\ MaxAttempts \in Nat /\ MaxDials \in Nat /\ IsFiniteSet(Redialers)
      /\ kaConn \in Nat \cup {None}
  BY LifecycleAssumption, FS_CardinalityType DEF BoundsSuffice, TypeOK
<1>2. /\ engineUp /\ dead = {} /\ attempt = 0 /\ loop \in {"wait", "lookup", "send"}
      /\ due \in 1 .. Interval /\ silence \in Nat /\ silence <= Interval /\ ~hung /\ ~stop
  BY DEF NoFailure, OnTime, Healthy
<1>3. IsFiniteSet(Idle) /\ Cardinality(Idle) \in Nat
  <2>1. Idle \subseteq Redialers
    BY DEF Idle
  <2> QED BY <1>1, <2>1, FS_Subset, FS_CardinalityType
<1>4. ASSUME UNCHANGED redial PROVE Idle' = Idle
  BY <1>4 DEF Idle
<1>5. CASE Tick
  <2>1. /\ UNCHANGED <<kaConn, attempt, dead, dials, due, silence, redial, engineUp>>
        /\ loop = "wait" /\ ticked /\ loop' = "lookup" /\ ~ticked'
    BY <1>5 DEF Tick, MayTick, engVars
  <2> QED BY <1>2, <1>4, <2>1 DEF NoFailure, OnTime
<1>6. CASE TimePasses
  <2>1. loop = "wait" /\ ~MayTick
    BY <1>2, <1>6 DEF TimePasses
  <2>2. ~ticked
    <3>1. kaConn = None => dials + Cardinality(Idle) < MaxDials
      BY <1>1, <1>3 DEF BoundsSuffice, NoFailure
    <3> QED BY <1>1, <1>2, <2>1, <3>1 DEF MayTick, Idle, BoundsSuffice
  <2>3. silence + due <= Interval
    BY <2>1, <2>2 DEF OnTime
  <2>4. /\ due' = IF due = 1 THEN Interval ELSE due - 1
        /\ ticked' <=> due = 1
        /\ silence' \in {silence, silence + 1}
        /\ UNCHANGED <<kaConn, loop, attempt, dead, dials, redial, engineUp>>
    BY <1>6, <2>2 DEF TimePasses, Period, engVars
  <2>5. NoFailure'
    BY <1>2, <1>4, <2>4 DEF NoFailure
  <2>6. due' \in 1 .. Interval /\ silence' \in Nat /\ silence' <= Interval
    BY <1>1, <1>2, <2>3, <2>4
  <2>7. CASE due = 1
    BY <1>1, <2>1, <2>4, <2>5, <2>6, <2>7 DEF OnTime
  <2>8. CASE due # 1
    <3>1. due' = due - 1 /\ ~ticked'
      BY <2>4, <2>8
    <3>2. silence' + due' <= Interval
      <4>1. CASE silence' = silence
        BY <1>1, <1>2, <2>3, <3>1, <4>1
      <4>2. CASE silence' = silence + 1
        BY <1>1, <1>2, <2>3, <3>1, <4>2
      <4> QED BY <2>4, <4>1, <4>2
    <3> QED BY <2>1, <2>4, <2>5, <2>6, <3>1, <3>2 DEF OnTime
  <2> QED BY <2>7, <2>8
<1>7. CASE KeepAliveDial
  <2>1. /\ loop = "lookup" /\ loop' = "send"
        /\ UNCHANGED <<attempt, dead, due, ticked, silence, redial, engineUp>>
    BY <1>2, <1>7 DEF KeepAliveDial, engVars, time
  <2>2. kaConn' # None
    BY <1>1, <1>2, <1>7 DEF KeepAliveDial
  <2> QED BY <1>2, <2>1, <2>2 DEF NoFailure, OnTime
<1>8. CASE KeepAliveSend
  <2>1. /\ loop = "send" /\ loop' = "wait" /\ attempt' = 0 /\ silence' = 0
        /\ UNCHANGED <<kaConn, dead, dials, due, ticked, redial, engineUp>>
    BY <1>2, <1>8 DEF KeepAliveSend, engVars
  <2> QED BY <1>1, <1>2, <1>4, <2>1 DEF NoFailure, OnTime
<1>9. ASSUME NEW r \in Redialers, Redial(r) PROVE NoFailure' /\ OnTime'
  <2>1. /\ redial[r] = "idle" /\ redial' = [redial EXCEPT ![r] = "exchange"]
        /\ dials' = dials + 1 /\ silence' = 0
        /\ UNCHANGED <<kaConn, loop, attempt, dead, due, ticked, engineUp>>
    BY <1>9 DEF Redial, loopVars, engVars
  <2>2. Idle' = Idle \ {r} /\ r \in Idle
    BY <2>1 DEF Idle, TypeOK
  <2>3. Cardinality(Idle') = Cardinality(Idle) - 1
    BY <1>3, <2>2, FS_RemoveElement
  <2>4. NoFailure'
    BY <1>1, <1>2, <1>3, <2>1, <2>3 DEF NoFailure
  <2>5. OnTime'
    BY <1>1, <1>2, <2>1 DEF OnTime
  <2> QED BY <2>4, <2>5
<1>10. ASSUME NEW r \in Redialers, Exchange(r) PROVE NoFailure' /\ OnTime'
  <2>1. /\ redial[r] = "exchange"
        /\ \E p \in {"failed", "done"} : redial' = [redial EXCEPT ![r] = p]
        /\ UNCHANGED <<kaConn, loop, attempt, dead, dials, due, ticked, silence, engineUp>>
    BY <1>10 DEF Exchange, loopVars, engVars, time
  <2>2. Idle' = Idle
    BY <2>1 DEF Idle, TypeOK
  <2> QED BY <2>1, <2>2 DEF NoFailure, OnTime
<1>11. CASE UNCHANGED vars
  <2>1. UNCHANGED <<kaConn, loop, attempt, dead, dials, due, ticked, silence, redial, engineUp>>
    BY <1>11 DEF vars, loopVars, engVars, time
  <2> QED BY <1>4, <2>1 DEF NoFailure, OnTime
<1>12. /\ ~BackoffOver /\ ~LoopStops /\ ~EngineRestart /\ ~EngineHangs /\ ~EngineCrash
       /\ \A r \in Redialers : ~RedialFails(r)
       /\ \A k \in Closers : ~CloseStop(k) /\ ~CloseTeardown(k)
  <2>1. ~EngineCrash
    BY DEF EngineCrash, Healthy
  <2> QED BY <1>2, <2>1 DEF BackoffOver, LoopStops, EngineRestart, EngineHangs, RedialFails,
                            CloseStop, CloseTeardown, Healthy
<1> QED BY <1>5, <1>6, <1>7, <1>8, <1>9, <1>10, <1>11, <1>12 DEF Next, keepAliveLoop, reconnect

(* For every interval below the expiry, and any number of redials: a       *)
(* worker that keeps its connection to a working engine is not forgotten,  *)
(* because each tick finds the loop waiting and its keep-alive goes out    *)
(* before the next (keepalive.go, keepAliveLoop and keepAliveSend).        *)
THEOREM WorkerIsRemembered ==
  ASSUME BoundsSuffice PROVE Spec => []RegistrationKept
<1>1. Init => KeptInv
  <2> SUFFICES ASSUME Init PROVE KeptInv
    OBVIOUS
  <2>1. engineUp /\ ~ticked /\ outages = 0
    BY Zenon DEF Init
  <2>2. /\ dead = {} /\ attempt = 0 /\ loop = "wait" /\ dials = 1 /\ due = Interval /\ silence = 0
        /\ Interval \in Nat \ {0}
    BY LifecycleAssumption DEF Init, Period
  <2>3. Idle = Redialers /\ Cardinality(Redialers) \in Nat
    BY FS_CardinalityType, BoundsSuffice DEF Init, Idle, BoundsSuffice
  <2>4. NoFailure
    BY <2>1, <2>2, <2>3 DEF NoFailure
  <2>5. OnTime
    BY <2>1, <2>2 DEF OnTime
  <2> QED BY <2>1, <2>4, <2>5 DEF KeptInv
<1>2. OwnInv /\ KeptInv /\ [Next]_vars => KeptInv'
  BY HealthyBefore, KeptStep, BoundsSuffice DEF KeptInv, OwnInv
<1>3. KeptInv => RegistrationKept
  <2> SUFFICES ASSUME KeptInv, Healthy PROVE silence < Expiry
    BY DEF RegistrationKept, Healthy
  <2> QED BY LifecycleAssumption DEF KeptInv, OnTime, Healthy
<1> QED BY <1>1, <1>2, <1>3, OwnInvariant, PTL DEF Spec
=============================================================================
