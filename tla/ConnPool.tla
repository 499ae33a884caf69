------------------------------ MODULE ConnPool ------------------------------
(***************************************************************************)
(* The reference-counted pool of engine connections (internal/app/pool.go) *)
(* and its users: a request, which acquires the connection for one verdict *)
(* (policy.go, AcquireVerdict); a handler, which holds a reference from    *)
(* Provision to Cleanup (internal/handler/handler.go); an application,     *)
(* from Start to Stop and Cleanup (internal/app/app.go).                   *)
(*                                                                         *)
(* Addresses do not interact, so there is one.  A poolEntry is an object:  *)
(* users keep pointers to one that has left the map.  Entry names are used *)
(* again once nothing refers to the object (garbage collection).           *)
(***************************************************************************)
EXTENDS Integers, FiniteSets

CONSTANTS Requests, Handlers, Apps,
          Entries,       \* names for poolEntry objects
          EngineFails,   \* whether dialing may fail because of the engine
          MayCancel,     \* the requests whose context may be cancelled
          None

Users == Requests \cup Handlers \cup Apps

(* Provision and Start acquire with a timeout (registration_timeout); a    *)
(* request acquires with its own context, which has no deadline.           *)
Timed == Handlers \cup Apps

ASSUME PoolAssumption ==
  /\ IsFiniteSet(Users)
  /\ Requests \cap (Handlers \cup Apps) = {} /\ Handlers \cap Apps = {}
  /\ MayCancel \subseteq Requests
  /\ EngineFails \in BOOLEAN
  /\ None \notin Entries

VARIABLES entry,      \* Pool.entries[addr], or None
          refs,       \* poolEntry.refs
          ready,      \* whether poolEntry.ready is closed
          conn,       \* of each entry: "nil", "open" or "closed"
          pc,         \* where each user stands
          at,         \* the poolEntry it got, dials, waits for or closes
          cancelled,  \* the users in Acquire whose context is done
          stray       \* history: a Release without a reference to give back

vars == <<entry, refs, ready, conn, pc, at, cancelled, stray>>

Move(u, place, e) == pc' = [pc EXCEPT ![u] = place] /\ at' = [at EXCEPT ![u] = e]

(* An object nothing refers to any more.                                   *)
Unused(e) == /\ entry # e /\ conn[e] # "open"
             /\ \A u \in Users : at[u] # e

-----------------------------------------------------------------------------
(* The context is forgotten when Acquire returns.                          *)
Return(u, place, e) == Move(u, place, e) /\ cancelled' = cancelled \ {u}

(* Acquire, first user: the entry is in the map before the dial.           *)
AcquireFirst(u) ==
  /\ pc[u] = "out" /\ entry = None
  /\ \E e \in Entries : Unused(e)
  /\ LET e == CHOOSE e \in Entries : Unused(e)
     IN  /\ entry' = e
         /\ refs' = [refs EXCEPT ![e] = 1]
         /\ ready' = [ready EXCEPT ![e] = FALSE]
         /\ conn' = [conn EXCEPT ![e] = "nil"]
         /\ Move(u, "dialing", e)
  /\ UNCHANGED <<cancelled, stray>>

(* Acquire, later user: the reference is counted before the wait.          *)
AcquireShared(u) ==
  /\ pc[u] = "out" /\ entry # None
  /\ refs' = [refs EXCEPT ![entry] = @ + 1]
  /\ Move(u, "waiting", entry)
  /\ UNCHANGED <<entry, ready, conn, cancelled, stray>>

(* Mutant: nobody closes ready.                                            *)
DialOkSilently(u) ==
  /\ pc[u] = "dialing"
  /\ conn' = [conn EXCEPT ![at[u]] = "open"]
  /\ Return(u, "in", at[u])
  /\ UNCHANGED <<entry, refs, ready, stray>>

DialOk(u) ==
  /\ pc[u] = "dialing"
  /\ conn' = [conn EXCEPT ![at[u]] = "open"]
  /\ ready' = [ready EXCEPT ![at[u]] = TRUE]
  /\ Return(u, "in", at[u])
  /\ UNCHANGED <<entry, refs, stray>>

(* Where an Acquire that returns an error leaves its caller: a request is  *)
(* done; Provision and Start return without a reference, and Cleanup or    *)
(* Stop still follows (Caddy cleans up a failed Provision as well).        *)
AfterError(u) == IF u \in Requests THEN "out" ELSE "in"

(* The map entry of the address is deleted, whichever object it is.        *)
DialFails(u) ==
  /\ pc[u] = "dialing" /\ (EngineFails \/ u \in cancelled)
  /\ entry' = None
  /\ ready' = [ready EXCEPT ![at[u]] = TRUE]
  /\ Return(u, AfterError(u), None)
  /\ UNCHANGED <<refs, conn, stray>>

(* The wait ends: the entry holds a connection or the dial error.          *)
WaitEnds(u) ==
  /\ pc[u] = "waiting" /\ ready[at[u]]
  /\ IF conn[at[u]] = "nil" THEN Return(u, AfterError(u), None) ELSE Return(u, "in", at[u])
  /\ UNCHANGED <<entry, refs, ready, conn, stray>>

DropTwo(e) == refs[e] - 2   \* mutant: the reference is given back twice

(* entry.refs--, in Acquire's error path and in Release.                   *)
DropRef(e) == refs[e] - 1

(* The waiter's context is done first, or select prefers it.               *)
WaitCancelled(u) ==
  /\ pc[u] = "waiting" /\ u \in cancelled
  /\ refs' = [refs EXCEPT ![at[u]] = DropRef(at[u])]
  /\ Return(u, AfterError(u), None)
  /\ UNCHANGED <<entry, ready, conn, stray>>

-----------------------------------------------------------------------------
NeverClosed(e) == FALSE   \* mutant: the last Release does not close

HasTransport(e) == conn[e] # "nil"

(* Release goes by address: it acts on the entry that is in the map now.   *)
(* The connection is closed after the lock is released.                    *)
Release(u, after, closing) ==
  /\ IF entry = None
     THEN Move(u, after, None) /\ UNCHANGED <<entry, refs>>
     ELSE /\ refs' = [refs EXCEPT ![entry] = DropRef(entry)]
          /\ IF DropRef(entry) > 0
             THEN Move(u, after, None) /\ UNCHANGED entry
             ELSE /\ entry' = None
                  /\ IF HasTransport(entry)
                     THEN Move(u, closing, entry)
                     ELSE Move(u, after, None)
  /\ stray' = (stray \/ at[u] = None)
  /\ UNCHANGED <<ready, conn, cancelled>>

(* Requests come and go; a handler or an application is an instance that   *)
(* Caddy provisions, starts and cleans up once.                            *)
Left(u) == IF u \in Requests THEN "out" ELSE "gone"

ReleaseLast(u) ==
  /\ pc[u] = IF u \in Apps THEN "stopped" ELSE "in"
  /\ Release(u, Left(u), "closing")

(* App.Stop; App.Cleanup calls Stop again.                                 *)
Stop(u) ==
  /\ pc[u] = "in" /\ u \in Apps
  /\ Release(u, "stopped", "stopping")

(* Conn.Close returns.                                                     *)
CloseConn(u) ==
  /\ pc[u] \in {"closing", "stopping"}
  /\ conn' = [conn EXCEPT ![at[u]] = "closed"]
  /\ Move(u, IF pc[u] = "closing" THEN Left(u) ELSE "stopped", None)
  /\ UNCHANGED <<entry, refs, ready, cancelled, stray>>

(* The client of a request goes away, or the registration timeout runs out.*)
Cancel(u) ==
  /\ u \in MayCancel \cup Timed /\ u \notin cancelled /\ pc[u] \in {"dialing", "waiting"}
  /\ cancelled' = cancelled \cup {u}
  /\ UNCHANGED <<entry, refs, ready, conn, pc, at, stray>>

-----------------------------------------------------------------------------
Init ==
  /\ entry = None
  /\ refs = [e \in Entries |-> 0]
  /\ ready = [e \in Entries |-> FALSE]
  /\ conn = [e \in Entries |-> "nil"]
  /\ pc = [u \in Users |-> "out"]
  /\ at = [u \in Users |-> None]
  /\ cancelled = {} /\ stray = FALSE

Acquire(u) == AcquireFirst(u) \/ AcquireShared(u)

DialEnds(u) == DialOk(u) \/ DialFails(u)

WaitIsOver(u) == WaitEnds(u) \/ WaitCancelled(u)

(* The steps of an operation that has begun.                               *)
Proceed(u) == DialEnds(u) \/ WaitIsOver(u) \/ CloseConn(u)

Leave(u) == ReleaseLast(u) \/ Stop(u)

Next == \E u \in Users : Acquire(u) \/ Proceed(u) \/ Leave(u) \/ Cancel(u)

Spec == Init /\ [][Next]_vars

(* What gets a user with a timeout out of Acquire.                         *)
InTime(u) == WaitIsOver(u) \/ DialEnds(u) \/ Cancel(u)

(* A goroutine whose wait is over runs.  A timeout runs out, and a dial    *)
(* that has one ends (with a connection or an error).  The dial of a       *)
(* request has none and hangs for as long as the engine is silent; nobody  *)
(* has to acquire or release, and Conn.Close need not return.              *)
FairSpec ==
  /\ Spec
  /\ \A u \in Requests : WF_vars(WaitIsOver(u))
  /\ \A u \in Timed : WF_vars(InTime(u))

-----------------------------------------------------------------------------
Places == {"out", "dialing", "waiting", "in", "stopped", "closing", "stopping", "gone"}

(* Types: every user is at a place the pool knows, and points to an entry  *)
(* object or to none (pool.go).                                            *)
TypeOK ==
  /\ entry \in Entries \cup {None}
  /\ refs \in [Entries -> Int]
  /\ ready \in [Entries -> BOOLEAN]
  /\ conn \in [Entries -> {"nil", "open", "closed"}]
  /\ pc \in [Users -> Places]
  /\ at \in [Users -> Entries \cup {None}]
  /\ cancelled \subseteq Users /\ stray \in BOOLEAN

HasConn(u) == pc[u] = "in" /\ at[u] # None

(* As long as every Release gives back a reference that was obtained, the  *)
(* connection a user acquired is not closed under it, and all users share  *)
(* the one the next user will get (app.go, Stop: "Other users of the same  *)
(* engine address keep their references"; pool.go: "Concurrent acquirers   *)
(* share the same connection").                                            *)
InUseIsOpen ==
  ~stray => \A u \in Users : HasConn(u) => at[u] = entry /\ conn[at[u]] = "open"

(* An open connection can be found by the next Acquire, or somebody is     *)
(* closing it: none is lost, whatever dials fail and waits are cancelled   *)
(* (pool.go: "The last Release closes the connection and removes the       *)
(* entry").                                                                *)
NoOrphan ==
  ~stray => \A e \in Entries : conn[e] = "open" =>
    entry = e \/ \E u \in Users : pc[u] \in {"closing", "stopping"} /\ at[u] = e

Acquiring(u) == pc[u] \in {"dialing", "waiting"}

(* The dial that u waits for is one that nothing has to end: a request's.  *)
MayHang(u) == \E v \in Requests : pc[v] = "dialing" /\ at[v] = at[u]

(* Every Acquire with a timeout returns; and a request waits in one for    *)
(* ever only in one way: its own context lives on, and the dial it shares, *)
(* that of another request, never ends (policy.go:66, pool.go:53).  So     *)
(* whoever dials wakes the waiters, also when the dial fails, the dialing  *)
(* request is cancelled or others release what they do not have (pool.go,  *)
(* Acquire).                                                               *)
AcquireReturns ==
  /\ \A u \in Timed : Acquiring(u) ~> ~Acquiring(u)
  /\ \A u \in Requests :
       pc[u] = "waiting" ~> pc[u] # "waiting" \/ (MayHang(u) /\ u \notin cancelled)
=============================================================================
