--------------------------- MODULE HandshakeProofs --------------------------
(***************************************************************************)
(* The two-phase handshake keeps its books for any number of dials, any    *)
(* set of transports, and an engine that crashes, restarts, hangs up or    *)
(* stays silent as often as it likes.                                      *)
(***************************************************************************)
EXTENDS Handshake, TLAPS

Places == {"idle", "dial", "send", "sent", "recv", "ring", "ready", "failed", "noring"}

TypeOK ==
  /\ pc \in [Dials -> Places]
  /\ phase \in [Dials -> Phases]
  /\ conn \in [Dials -> [Phases -> {"none", "open", "closed"}]]
  /\ inbox \in [Dials -> Phases \cup {None}]
  /\ reply \in [Dials -> Replies \cup {None}]
  /\ served \in [Dials -> SUBSET Phases]

(* The connections a dial has, by where it stands.                         *)
ConnInv(d) ==
  /\ pc[d] \in {"idle", "dial"} => conn[d][phase[d]] = "none"
  /\ pc[d] \in {"send", "sent", "recv", "ring", "ready", "noring"} =>
       conn[d][phase[d]] = "open"
  /\ pc[d] = "failed" => conn[d][phase[d]] # "open"
  /\ phase[d] = 1 => conn[d][2] = "none"
  /\ phase[d] = 2 => conn[d][1] = "closed"

(* What the engine has answered: a reply that the dial can read is one to  *)
(* the frame of its present phase, and the phases behind it were answered. *)
ServedInv(d) ==
  /\ conn[d][phase[d]] = "open" =>
       /\ inbox[d] \in {phase[d], None}
       /\ reply[d] # None => phase[d] \in served[d]
  /\ phase[d] = 2 => 1 \in served[d]
  /\ pc[d] \in {"ring", "ready", "noring"} => phase[d] = 2 /\ 2 \in served[d]

DialInv(d) == ConnInv(d) /\ ServedInv(d)

HandshakeInv == TypeOK /\ \A d \in Dials : DialInv(d)

(* A dial that does not move keeps its books, also when a crash empties    *)
(* what the engine had to serve.                                           *)
LEMMA OtherDial ==
  ASSUME NEW d, DialInv(d),
         pc'[d] = pc[d], phase'[d] = phase[d], conn'[d] = conn[d], reply'[d] = reply[d],
         served'[d] = served[d], inbox'[d] \in {inbox[d], None}
  PROVE  DialInv(d)'
BY DEF DialInv, ConnInv, ServedInv

(* What SetConn does, read pointwise.                                      *)
LEMMA SetConnIs ==
  ASSUME TypeOK, NEW d \in Dials, NEW st \in {"none", "open", "closed"}, SetConn(d, st)
  PROVE  /\ conn' \in [Dials -> [Phases -> {"none", "open", "closed"}]]
         /\ conn'[d][phase[d]] = st
         /\ \A p \in Phases : p # phase[d] => conn'[d][p] = conn[d][p]
         /\ \A e \in Dials : e # d => conn'[e] = conn[e]
<1>1. phase[d] \in Phases /\ conn[d] \in [Phases -> {"none", "open", "closed"}]
  BY DEF TypeOK
<1>2. conn' = [conn EXCEPT ![d] = [conn[d] EXCEPT ![phase[d]] = st]]
  BY DEF SetConn, TypeOK
<1> QED BY <1>1, <1>2 DEF TypeOK

(* A step of one dial that keeps the engine's books.                       *)
LEMMA DialMoves ==
  ASSUME HandshakeInv, NEW d \in Dials, NEW p \in Places, Goto(d, p), UNCHANGED wireVars,
         \/ UNCHANGED <<phase, conn>>
         \/ SetConn(d, "closed") /\ UNCHANGED phase
         \/ SetConn(d, "closed") /\ phase' = [phase EXCEPT ![d] = 2],
         DialInv(d)'
  PROVE  HandshakeInv'
<1>1. TypeOK /\ \A e \in Dials : DialInv(e)
  BY DEF HandshakeInv
<1>2. UNCHANGED <<inbox, reply, served>>
  BY DEF wireVars
<1>3. pc' \in [Dials -> Places] /\ \A e \in Dials : e # d => pc'[e] = pc[e]
  BY <1>1 DEF Goto, TypeOK
<1>4. phase' \in [Dials -> Phases] /\ \A e \in Dials : e # d => phase'[e] = phase[e]
  BY <1>1 DEF TypeOK, Phases
<1>5. conn' \in [Dials -> [Phases -> {"none", "open", "closed"}]]
      /\ \A e \in Dials : e # d => conn'[e] = conn[e]
  BY <1>1, SetConnIs DEF TypeOK
<1>6. TypeOK'
  BY <1>1, <1>2, <1>3, <1>4, <1>5 DEF TypeOK
<1>7. \A e \in Dials : e # d => DialInv(e)'
  BY <1>1, <1>2, <1>3, <1>4, <1>5, OtherDial
<1> QED BY <1>6, <1>7 DEF HandshakeInv

(* An error closes the connection of the present phase.                    *)
LEMMA FailStep ==
  ASSUME HandshakeInv, NEW d \in Dials, Fail(d), UNCHANGED <<phase, wireVars>>
  PROVE  HandshakeInv'
<1>1. TypeOK /\ DialInv(d) /\ Goto(d, "failed") /\ SetConn(d, "closed") /\ phase[d] \in {1, 2}
  BY DEF HandshakeInv, Fail, TypeOK, Phases
<1>2. /\ conn'[d][phase[d]] = "closed"
      /\ \A p \in Phases : p # phase[d] => conn'[d][p] = conn[d][p]
  BY <1>1, SetConnIs
<1>3. pc'[d] = "failed" /\ UNCHANGED <<phase, inbox, reply, served>>
  BY <1>1 DEF Goto, TypeOK, wireVars
<1>4. DialInv(d)'
  BY <1>1, <1>2, <1>3 DEF DialInv, ConnInv, ServedInv, Phases
<1> QED BY <1>1, <1>4, DialMoves DEF Places

(* Start, Dial, Send and Wait.                                             *)
LEMMA StartStep ==
  ASSUME HandshakeInv, NEW d \in Dials, Start(d) PROVE HandshakeInv'
<1>1. /\ TypeOK /\ DialInv(d) /\ pc[d] = "idle" /\ Goto(d, "dial")
      /\ UNCHANGED <<phase, conn, wireVars>>
  BY DEF HandshakeInv, Start
<1>2. pc'[d] = "dial" /\ UNCHANGED <<phase, conn, inbox, reply, served>>
  BY <1>1 DEF Goto, TypeOK, wireVars
<1>3. DialInv(d)'
  BY <1>1, <1>2 DEF DialInv, ConnInv, ServedInv
<1> QED BY <1>1, <1>3, DialMoves DEF Places

LEMMA DialStep ==
  ASSUME HandshakeInv, NEW d \in Dials, Dial(d) PROVE HandshakeInv'
<1>1. /\ TypeOK /\ pc[d] = "dial" /\ phase[d] \in Phases
      /\ \A e \in Dials : DialInv(e)
  BY DEF HandshakeInv, Dial, TypeOK
<1>2. CASE Goto(d, "failed") /\ UNCHANGED <<conn, peer, inbox, reply>>
  <2>1. UNCHANGED <<phase, conn, inbox, reply, served, wireVars>>
    BY <1>2 DEF Dial, wireVars
  <2>2. pc'[d] = "failed"
    BY <1>1, <1>2 DEF Goto, TypeOK
  <2>3. DialInv(d)'
    BY <1>1, <2>1, <2>2 DEF DialInv, ConnInv, ServedInv
  <2> QED BY <1>2, <2>1, <2>3, DialMoves DEF Places
<1>3. CASE /\ SetConn(d, "open") /\ Goto(d, "send")
           /\ inbox' = [inbox EXCEPT ![d] = None] /\ reply' = [reply EXCEPT ![d] = None]
  <2>1. UNCHANGED <<phase, served>>
    BY DEF Dial
  <2>2. /\ pc' \in [Dials -> Places] /\ inbox' \in [Dials -> Phases \cup {None}]
        /\ reply' \in [Dials -> Replies \cup {None}]
    BY <1>1, <1>3 DEF Goto, TypeOK, Places
  <2>3. /\ conn' \in [Dials -> [Phases -> {"none", "open", "closed"}]]
        /\ conn'[d][phase[d]] = "open"
        /\ \A q \in Phases : q # phase[d] => conn'[d][q] = conn[d][q]
        /\ \A e \in Dials : e # d => conn'[e] = conn[e]
    BY <1>1, <1>3, SetConnIs
  <2>4. pc'[d] = "send" /\ inbox'[d] = None /\ reply'[d] = None
    BY <1>1, <1>3 DEF Goto, TypeOK
  <2>5. \A e \in Dials : e # d =>
          pc'[e] = pc[e] /\ inbox'[e] = inbox[e] /\ reply'[e] = reply[e]
    BY <1>1, <1>3 DEF Goto, TypeOK
  <2>6. TypeOK'
    BY <1>1, <2>1, <2>2, <2>3 DEF TypeOK
  <2>7. DialInv(d)'
    BY <1>1, <2>1, <2>3, <2>4 DEF DialInv, ConnInv, ServedInv, Phases
  <2>8. \A e \in Dials : e # d => DialInv(e)'
    BY <1>1, <2>1, <2>3, <2>5, OtherDial
  <2> QED BY <2>6, <2>7, <2>8 DEF HandshakeInv
<1> QED BY <1>2, <1>3 DEF Dial

LEMMA SendStep ==
  ASSUME HandshakeInv, NEW d \in Dials, Send(d) PROVE HandshakeInv'
<1>1. TypeOK /\ pc[d] = "send" /\ phase[d] \in Phases /\ \A e \in Dials : DialInv(e)
  BY DEF HandshakeInv, Send, TypeOK
<1>2. CASE Fail(d) /\ UNCHANGED inbox
  <2>1. UNCHANGED <<phase, wireVars>>
    BY <1>2 DEF Send, wireVars
  <2> QED BY <1>2, <2>1, FailStep
<1>3. CASE /\ inbox' = IF peer[d] THEN [inbox EXCEPT ![d] = phase[d]] ELSE inbox
           /\ Goto(d, "sent") /\ UNCHANGED conn
  <2>1. UNCHANGED <<phase, conn, reply, served>>
    BY <1>3 DEF Send
  <2>2. pc' \in [Dials -> Places] /\ inbox' \in [Dials -> Phases \cup {None}]
    BY <1>1, <1>3 DEF Goto, TypeOK, Places
  <2>3. pc'[d] = "sent" /\ inbox'[d] \in {inbox[d], phase[d]}
    BY <1>1, <1>3 DEF Goto, TypeOK
  <2>4. \A e \in Dials : e # d => pc'[e] = pc[e] /\ inbox'[e] = inbox[e]
    BY <1>1, <1>3 DEF Goto, TypeOK
  <2>5. TypeOK'
    BY <1>1, <2>1, <2>2 DEF TypeOK
  <2>6. DialInv(d)'
    BY <1>1, <2>1, <2>3 DEF DialInv, ConnInv, ServedInv
  <2>7. \A e \in Dials : e # d => DialInv(e)'
    BY <1>1, <2>1, <2>4, OtherDial
  <2> QED BY <2>5, <2>6, <2>7 DEF HandshakeInv
<1> QED BY <1>2, <1>3 DEF Send

LEMMA WaitStep ==
  ASSUME HandshakeInv, NEW d \in Dials, Wait(d) PROVE HandshakeInv'
<1>1. TypeOK /\ DialInv(d) /\ pc[d] = "sent" /\ UNCHANGED <<phase, wireVars>>
  BY DEF HandshakeInv, Wait
<1>2. CASE Goto(d, "recv") /\ UNCHANGED conn
  <2>1. pc'[d] = "recv" /\ UNCHANGED <<phase, conn, inbox, reply, served>>
    BY <1>1, <1>2 DEF Goto, TypeOK, wireVars
  <2>2. DialInv(d)'
    BY <1>1, <2>1 DEF DialInv, ConnInv, ServedInv
  <2> QED BY <1>1, <1>2, <2>2, DialMoves DEF Places
<1> QED BY <1>1, <1>2, FailStep DEF Wait

(* A good reply ends the phase that the engine answered.                   *)
LEMMA RecvStep ==
  ASSUME HandshakeInv, NEW d \in Dials, Recv(d) PROVE HandshakeInv'
<1>1. /\ TypeOK /\ DialInv(d) /\ pc[d] = "recv" /\ reply[d] # None /\ phase[d] \in {1, 2}
      /\ UNCHANGED <<wireVars, inbox, reply, served>>
  BY DEF HandshakeInv, Recv, HasReply, TypeOK, Phases, wireVars
<1>2. phase[d] \in served[d] /\ conn[d][phase[d]] = "open"
  BY <1>1 DEF DialInv, ConnInv, ServedInv
<1>3. CASE phase[d] = 1 /\ NextPhase(d)
  <2>1. Goto(d, "dial") /\ SetConn(d, "closed") /\ phase' = [phase EXCEPT ![d] = 2]
    BY <1>3 DEF NextPhase
  <2>2. pc'[d] = "dial" /\ phase'[d] = 2
    BY <1>1, <2>1 DEF Goto, TypeOK
  <2>3. conn'[d][1] = "closed" /\ conn'[d][2] = conn[d][2]
    BY <1>1, <1>3, <2>1, SetConnIs DEF Phases
  <2>4. DialInv(d)'
    BY <1>1, <1>2, <1>3, <2>2, <2>3 DEF DialInv, ConnInv, ServedInv
  <2> QED BY <1>1, <2>1, <2>4, DialMoves DEF Places
<1>4. CASE phase[d] = 2 /\ Established(d)
  <2>1. PICK p \in {"ring", "ready"} : Goto(d, p) /\ UNCHANGED <<phase, conn>>
    BY <1>4 DEF Established
  <2>2. pc'[d] = p
    BY <1>1, <2>1 DEF Goto, TypeOK
  <2>3. DialInv(d)'
    BY <1>1, <1>2, <1>4, <2>1, <2>2 DEF DialInv, ConnInv, ServedInv
  <2> QED BY <1>1, <2>1, <2>3, DialMoves DEF Places
<1>5. CASE Fail(d) /\ UNCHANGED phase
  BY <1>1, <1>5, FailStep
<1> QED BY <1>3, <1>4, <1>5 DEF Recv

LEMMA OpenRingStep ==
  ASSUME HandshakeInv, NEW d \in Dials, OpenRing(d) PROVE HandshakeInv'
<1>1. /\ TypeOK /\ DialInv(d) /\ pc[d] = "ring"
      /\ UNCHANGED <<phase, conn, wireVars, inbox, reply, served>>
  BY DEF HandshakeInv, OpenRing, wireVars
<1>2. PICK p \in {"ready", "noring"} : Goto(d, p)
  BY DEF OpenRing
<1>3. pc'[d] = p
  BY <1>1, <1>2 DEF Goto, TypeOK
<1>4. DialInv(d)'
  BY <1>1, <1>3 DEF DialInv, ConnInv, ServedInv
<1> QED BY <1>1, <1>2, <1>4, DialMoves DEF Places

(* The engine serves the frame of the phase whose connection is open.      *)
LEMMA ServeStep ==
  ASSUME HandshakeInv, NEW d \in Dials, Serve(d) PROVE HandshakeInv'
<1>1. /\ TypeOK /\ (\A e \in Dials : DialInv(e)) /\ inbox[d] # None
      /\ conn[d][phase[d]] = "open" /\ UNCHANGED <<pc, phase, conn>>
      /\ served' = [served EXCEPT ![d] = @ \cup {inbox[d]}]
      /\ inbox' = [inbox EXCEPT ![d] = None]
  BY DEF HandshakeInv, Serve, dialVars
<1>2. PICK r \in Replies : reply' = [reply EXCEPT ![d] = r]
  BY DEF Serve
<1>3. inbox[d] = phase[d] /\ phase[d] \in Phases
  BY <1>1 DEF DialInv, ServedInv, TypeOK
<1>4. TypeOK'
  BY <1>1, <1>2, <1>3 DEF TypeOK
<1>5. served'[d] = served[d] \cup {phase[d]} /\ inbox'[d] = None
  BY <1>1, <1>3 DEF TypeOK
<1>6. \A e \in Dials : e # d =>
        served'[e] = served[e] /\ inbox'[e] = inbox[e] /\ reply'[e] = reply[e]
  BY <1>1, <1>2 DEF TypeOK
<1>7. DialInv(d)'
  BY <1>1, <1>5 DEF DialInv, ConnInv, ServedInv
<1>8. \A e \in Dials : e # d => DialInv(e)'
  BY <1>1, <1>6, OtherDial
<1> QED BY <1>4, <1>7, <1>8 DEF HandshakeInv

(* Hanging up, crashes, restarts, silence and contexts.                    *)
LEMMA EngineStep ==
  ASSUME HandshakeInv,
         \/ \E d \in Dials : HangUp(d) \/ ContextEnds(d)
         \/ EngineCrash \/ EngineRestart \/ EngineFallsSilent \/ UNCHANGED vars
  PROVE  HandshakeInv'
<1>1. TypeOK /\ \A e \in Dials : DialInv(e)
  BY DEF HandshakeInv
<1>2. UNCHANGED <<pc, phase, conn, reply, served>>
  BY DEF HangUp, ContextEnds, EngineCrash, EngineRestart, EngineFallsSilent, vars, dialVars,
         wireVars
<1>3. /\ inbox' \in [Dials -> Phases \cup {None}]
      /\ \A e \in Dials : inbox'[e] \in {inbox[e], None}
  BY <1>1 DEF TypeOK, HangUp, ContextEnds, EngineCrash, EngineRestart, EngineFallsSilent, vars,
              wireVars
<1>4. TypeOK'
  BY <1>1, <1>2, <1>3 DEF TypeOK
<1>5. \A e \in Dials : DialInv(e)'
  BY <1>1, <1>2, <1>3, OtherDial
<1> QED BY <1>4, <1>5 DEF HandshakeInv

(* HandshakeInv is an invariant of the handshake.                          *)
LEMMA HandshakeInvariant == Spec => []HandshakeInv
<1>1. Init => HandshakeInv
  <2> SUFFICES ASSUME Init PROVE HandshakeInv
    OBVIOUS
  <2>1. TypeOK
    BY DEF Init, TypeOK, Places, Phases
  <2>2. \A d \in Dials : /\ pc[d] = "idle" /\ phase[d] = 1 /\ reply[d] = None
                         /\ conn[d][1] = "none" /\ conn[d][2] = "none"
    BY DEF Init, Phases
  <2> QED BY <2>1, <2>2 DEF HandshakeInv, DialInv, ConnInv, ServedInv
<1>2. HandshakeInv /\ [Next]_vars => HandshakeInv'
  <2> SUFFICES ASSUME HandshakeInv, [Next]_vars PROVE HandshakeInv'
    OBVIOUS
  <2>1. ASSUME NEW d \in Dials, RecvFails(d) PROVE HandshakeInv'
    BY <2>1, FailStep DEF RecvFails
  <2> QED BY <2>1, StartStep, DialStep, SendStep, WaitStep, RecvStep, OpenRingStep, ServeStep,
             EngineStep DEF Next, Step
<1> QED BY <1>1, <1>2, PTL DEF Spec

(* For every number of dials, transports and engine failures: a Dial that  *)
(* fails in the handshake keeps no connection open, and none keeps the     *)
(* registration one beyond its phase (dialer.go and handshake.go,          *)
(* register and sendComm).                                                 *)
THEOREM FailedDialLeavesNothing == Spec => []NothingLeftBehind
<1>1. HandshakeInv => NothingLeftBehind
  BY DEF HandshakeInv, TypeOK, DialInv, ConnInv, NothingLeftBehind, Phases
<1> QED BY <1>1, HandshakeInvariant, PTL

(* For every number of dials, transports and engine failures: the          *)
(* connection that Dial returns is open, and the engine has answered both  *)
(* of its frames, never one twice for the other (dialer.go, Dialer).       *)
THEOREM ReadyDialIsHandshaked == Spec => []ReadyIsHandshaked
<1>1. HandshakeInv => ReadyIsHandshaked
  <2> SUFFICES ASSUME HandshakeInv, NEW d \in Dials, pc[d] = "ready"
               PROVE  conn[d][2] = "open" /\ served[d] = Phases
    BY DEF ReadyIsHandshaked
  <2>1. DialInv(d) /\ served[d] \subseteq Phases
    BY DEF HandshakeInv, TypeOK
  <2> QED BY <2>1 DEF DialInv, ConnInv, ServedInv, Phases
<1> QED BY <1>1, HandshakeInvariant, PTL
=============================================================================
