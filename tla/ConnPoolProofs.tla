--------------------------- MODULE ConnPoolProofs ---------------------------
(***************************************************************************)
(* The pool never closes a connection under a user, for every number of    *)
(* requests, handlers and applications and every interleaving of failing   *)
(* dials, cancellations and releases, as long as every release has an      *)
(* acquisition behind it.                                                  *)
(***************************************************************************)
EXTENDS ConnPool, FiniteSetTheorems, TLAPS

(* The users an entry's reference count stands for.                        *)
Counted(e) == {u \in Users : pc[u] \in {"dialing", "waiting", "in"} /\ at[u] = e}

(* Where a user can be, given the entry it points to.                      *)
UserInv(u) ==
  /\ pc[u] \in {"dialing", "waiting", "closing", "stopping"} => at[u] \in Entries
  /\ pc[u] \in {"out", "stopped", "gone"} => at[u] = None
  /\ pc[u] = "dialing" => at[u] = entry /\ ~ready[entry] /\ conn[entry] = "nil"
  /\ pc[u] = "waiting" => at[u] = entry \/ (ready[at[u]] /\ conn[at[u]] = "nil")
  /\ pc[u] = "in" /\ at[u] # None => at[u] = entry /\ ready[entry]
  /\ pc[u] \in {"closing", "stopping"} => at[u] # entry /\ conn[at[u]] # "nil"

(* One user dials at a time; the entry in the map counts its users and,    *)
(* once ready, holds an open connection.                                   *)
PoolInv ==
  /\ TypeOK
  /\ \A u \in Users : UserInv(u)
  /\ \A u, v \in Users : pc[u] = "dialing" /\ pc[v] = "dialing" => u = v
  /\ entry # None => /\ refs[entry] = Cardinality(Counted(entry))
                     /\ ready[entry] => conn[entry] = "open"

(* The users of an entry are finitely many.                                *)
LEMMA CountedFinite == \A e : IsFiniteSet(Counted(e)) /\ Cardinality(Counted(e)) \in Nat
<1>1. \A e : Counted(e) \subseteq Users
  BY DEF Counted
<1> QED BY <1>1, FS_Subset, FS_CardinalityType, PoolAssumption

(* Every step of Acquire preserves the invariant.                          *)
LEMMA AcquireFirstStep ==
  ASSUME PoolInv, NEW u \in Users, AcquireFirst(u)
  PROVE  PoolInv'
<1>1. PICK e \in Entries :
        /\ Unused(e) /\ entry' = e
        /\ refs' = [refs EXCEPT ![e] = 1]
        /\ ready' = [ready EXCEPT ![e] = FALSE]
        /\ conn' = [conn EXCEPT ![e] = "nil"]
        /\ Move(u, "dialing", e)
  BY DEF AcquireFirst
<1>2. TypeOK /\ entry = None /\ pc[u] = "out" /\ e # None /\ UNCHANGED <<cancelled, stray>>
  BY PoolAssumption DEF PoolInv, AcquireFirst
<1>3. TypeOK'
  BY <1>1, <1>2 DEF TypeOK, Move, Places
<1>4. pc'[u] = "dialing" /\ at'[u] = e
      /\ \A v \in Users \ {u} : pc'[v] = pc[v] /\ at'[v] = at[v] /\ at[v] # e
  BY <1>1, <1>2 DEF Move, TypeOK, Unused
<1>5. \A v \in Users : UserInv(v) /\ pc[v] # "dialing" /\ (pc[v] = "in" => at[v] = None)
  BY <1>2, PoolAssumption DEF PoolInv, UserInv
<1>6. \A v \in Users : UserInv(v)'
  <2> SUFFICES ASSUME NEW v \in Users PROVE UserInv(v)'
    OBVIOUS
  <2>1. CASE v = u
    BY <1>1, <1>2, <1>4, <2>1 DEF UserInv, TypeOK
  <2>2. CASE v # u
    <3>1. at[v] \in Entries => ready'[at[v]] = ready[at[v]] /\ conn'[at[v]] = conn[at[v]]
      BY <1>1, <1>2, <1>4, <2>2 DEF TypeOK
    <3> QED BY <1>1, <1>2, <1>4, <1>5, <2>2, <3>1, PoolAssumption DEF UserInv
  <2> QED BY <2>1, <2>2
<1>7. \A v, w \in Users : pc'[v] = "dialing" /\ pc'[w] = "dialing" => v = w
  BY <1>4, <1>5
<1>8. Counted(e)' = {u}
  BY <1>4 DEF Counted
<1>9. refs'[e] = Cardinality(Counted(e)') /\ ~ready'[e]
  BY <1>1, <1>2, <1>8, FS_Singleton DEF TypeOK
<1> QED BY <1>1, <1>2, <1>3, <1>6, <1>7, <1>9 DEF PoolInv

(* A later user is counted in the entry it waits for.                      *)
LEMMA AcquireSharedStep ==
  ASSUME PoolInv, NEW u \in Users, AcquireShared(u)
  PROVE  PoolInv'
<1>1. /\ TypeOK /\ entry \in Entries /\ pc[u] = "out" /\ at[u] = None /\ None \notin Entries
      /\ refs' = [refs EXCEPT ![entry] = @ + 1]
      /\ Move(u, "waiting", entry)
      /\ UNCHANGED <<entry, ready, conn, cancelled, stray>>
  BY PoolAssumption DEF PoolInv, UserInv, AcquireShared, TypeOK
<1>2. TypeOK'
  BY <1>1 DEF TypeOK, Move, Places
<1>3. pc'[u] = "waiting" /\ at'[u] = entry
      /\ \A v \in Users \ {u} : pc'[v] = pc[v] /\ at'[v] = at[v]
  BY <1>1 DEF Move, TypeOK
<1>4. \A v \in Users : UserInv(v)'
  <2> SUFFICES ASSUME NEW v \in Users PROVE UserInv(v)'
    OBVIOUS
  <2>1. UserInv(v)
    BY DEF PoolInv
  <2>2. CASE v = u
    BY <1>1, <1>3, <2>1, <2>2 DEF UserInv
  <2>3. CASE v # u
    BY <1>1, <1>3, <2>1, <2>3 DEF UserInv
  <2> QED BY <2>2, <2>3
<1>5. \A v, w \in Users : pc'[v] = "dialing" /\ pc'[w] = "dialing" => v = w
  BY <1>3 DEF PoolInv
<1>6. Counted(entry)' = Counted(entry) \cup {u} /\ u \notin Counted(entry)
  BY <1>1, <1>3 DEF Counted
<1>7. Cardinality(Counted(entry) \cup {u}) = Cardinality(Counted(entry)) + 1
  BY <1>6, CountedFinite, FS_AddElement
<1>8. refs'[entry] = Cardinality(Counted(entry)')
  BY <1>1, <1>6, <1>7 DEF PoolInv, TypeOK
<1> QED BY <1>1, <1>2, <1>4, <1>5, <1>8 DEF PoolInv

(* A successful dial turns its user into the first holder.                 *)
LEMMA DialOkStep ==
  ASSUME PoolInv, NEW u \in Users, DialOk(u)
  PROVE  PoolInv'
<1>1. /\ TypeOK /\ entry \in Entries /\ pc[u] = "dialing" /\ at[u] = entry /\ None \notin Entries
      /\ conn' = [conn EXCEPT ![entry] = "open"]
      /\ ready' = [ready EXCEPT ![entry] = TRUE]
      /\ Move(u, "in", entry)
      /\ cancelled' = cancelled \ {u}
      /\ UNCHANGED <<entry, refs, stray>>
  BY PoolAssumption DEF PoolInv, UserInv, DialOk, Return, TypeOK
<1>2. TypeOK'
  BY <1>1 DEF TypeOK, Move, Places
<1>3. pc'[u] = "in" /\ at'[u] = entry
      /\ \A v \in Users \ {u} : pc'[v] = pc[v] /\ at'[v] = at[v] /\ pc[v] # "dialing"
  BY <1>1 DEF Move, TypeOK, PoolInv
<1>4. /\ ready'[entry] /\ conn'[entry] = "open"
      /\ \A e \in Entries \ {entry} : ready'[e] = ready[e] /\ conn'[e] = conn[e]
  BY <1>1 DEF TypeOK
<1>5. \A v \in Users : UserInv(v)'
  <2> SUFFICES ASSUME NEW v \in Users PROVE UserInv(v)'
    OBVIOUS
  <2>1. UserInv(v)
    BY DEF PoolInv
  <2>2. CASE v = u
    BY <1>1, <1>3, <1>4, <2>1, <2>2 DEF UserInv
  <2>3. CASE v # u
    BY <1>1, <1>3, <1>4, <2>1, <2>3 DEF UserInv
  <2> QED BY <2>2, <2>3
<1>6. Counted(entry)' = Counted(entry)
  BY <1>1, <1>3 DEF Counted
<1> QED BY <1>1, <1>2, <1>3, <1>4, <1>5, <1>6 DEF PoolInv

(* A failed dial leaves only users that will fail as well.                 *)
LEMMA DialFailsStep ==
  ASSUME PoolInv, NEW u \in Users, DialFails(u)
  PROVE  PoolInv'
<1>1. /\ TypeOK /\ entry \in Entries /\ pc[u] = "dialing" /\ at[u] = entry /\ None \notin Entries
      /\ conn[entry] = "nil"
      /\ entry' = None
      /\ ready' = [ready EXCEPT ![entry] = TRUE]
      /\ Move(u, AfterError(u), None)
      /\ AfterError(u) \in {"out", "in"}
      /\ cancelled' = cancelled \ {u}
      /\ UNCHANGED <<refs, conn, stray>>
  BY PoolAssumption DEF PoolInv, UserInv, DialFails, Return, TypeOK, AfterError
<1>2. TypeOK'
  BY <1>1 DEF TypeOK, Move, Places
<1>3. pc'[u] \in {"out", "in"} /\ at'[u] = None
      /\ \A v \in Users \ {u} : pc'[v] = pc[v] /\ at'[v] = at[v] /\ pc[v] # "dialing"
  BY <1>1 DEF Move, TypeOK, PoolInv
<1>4. ready'[entry] /\ \A e \in Entries \ {entry} : ready'[e] = ready[e]
  BY <1>1 DEF TypeOK
<1>5. \A v \in Users : pc[v] = "in" => at[v] = None
  BY <1>1 DEF PoolInv, UserInv
<1>6. \A v \in Users : UserInv(v)'
  <2> SUFFICES ASSUME NEW v \in Users PROVE UserInv(v)'
    OBVIOUS
  <2>1. UserInv(v)
    BY DEF PoolInv
  <2>2. CASE v = u
    BY <1>1, <1>3, <1>4, <1>5, <2>1, <2>2 DEF UserInv
  <2>3. CASE v # u
    BY <1>1, <1>3, <1>4, <1>5, <2>1, <2>3 DEF UserInv
  <2> QED BY <2>2, <2>3
<1> QED BY <1>1, <1>2, <1>3, <1>6 DEF PoolInv

(* A woken user holds the connection, or fails with its dialer.            *)
LEMMA WaitEndsStep ==
  ASSUME PoolInv, NEW u \in Users, WaitEnds(u)
  PROVE  PoolInv'
<1>1. /\ TypeOK /\ pc[u] = "waiting" /\ at[u] \in Entries /\ ready[at[u]] /\ None \notin Entries
      /\ cancelled' = cancelled \ {u}
      /\ UNCHANGED <<entry, refs, ready, conn, stray>>
  BY PoolAssumption DEF PoolInv, UserInv, WaitEnds, Return
<1>2. CASE conn[at[u]] # "nil"
  <2>1. at[u] = entry /\ Move(u, "in", entry)
    BY <1>1, <1>2 DEF WaitEnds, Return, PoolInv, UserInv
  <2>2. TypeOK'
    BY <1>1, <2>1 DEF TypeOK, Move, Places
  <2>3. pc'[u] = "in" /\ at'[u] = entry
        /\ \A v \in Users \ {u} : pc'[v] = pc[v] /\ at'[v] = at[v]
    BY <1>1, <2>1 DEF Move, TypeOK
  <2>4. \A v \in Users : UserInv(v)'
    <3> SUFFICES ASSUME NEW v \in Users PROVE UserInv(v)'
      OBVIOUS
    <3>1. UserInv(v)
      BY DEF PoolInv
    <3>2. CASE v = u
      BY <1>1, <2>1, <2>3, <3>2 DEF UserInv
    <3>3. CASE v # u
      BY <1>1, <2>3, <3>1, <3>3 DEF UserInv
    <3> QED BY <3>2, <3>3
  <2>5. Counted(entry)' = Counted(entry)
    BY <1>1, <2>1, <2>3 DEF Counted
  <2> QED BY <1>1, <2>2, <2>3, <2>4, <2>5 DEF PoolInv
<1>3. CASE conn[at[u]] = "nil"
  <2>1. at[u] # entry
    BY <1>1, <1>3 DEF PoolInv
  <2>2. Move(u, AfterError(u), None) /\ AfterError(u) \in {"out", "in"}
    BY <1>3 DEF WaitEnds, Return, AfterError
  <2>3. TypeOK'
    BY <1>1, <2>2 DEF TypeOK, Move, Places
  <2>4. pc'[u] \in {"out", "in"} /\ at'[u] = None
        /\ \A v \in Users \ {u} : pc'[v] = pc[v] /\ at'[v] = at[v]
    BY <1>1, <2>2 DEF Move, TypeOK
  <2>5. \A v \in Users : UserInv(v)'
    <3> SUFFICES ASSUME NEW v \in Users PROVE UserInv(v)'
      OBVIOUS
    <3>1. UserInv(v)
      BY DEF PoolInv
    <3>2. CASE v = u
      BY <1>1, <2>4, <3>2 DEF UserInv
    <3>3. CASE v # u
      BY <1>1, <2>4, <3>1, <3>3 DEF UserInv
    <3> QED BY <3>2, <3>3
  <2>6. entry # None => Counted(entry)' = Counted(entry)
    BY <1>1, <2>1, <2>4 DEF Counted
  <2> QED BY <1>1, <2>3, <2>4, <2>5, <2>6 DEF PoolInv
<1> QED BY <1>2, <1>3

(* A cancelled wait gives its reference back.                              *)
LEMMA WaitCancelledStep ==
  ASSUME PoolInv, NEW u \in Users, WaitCancelled(u)
  PROVE  PoolInv'
<1>1. /\ TypeOK /\ pc[u] = "waiting" /\ at[u] \in Entries /\ None \notin Entries
      /\ refs' = [refs EXCEPT ![at[u]] = @ - 1]
      /\ Move(u, AfterError(u), None) /\ AfterError(u) \in {"out", "in"}
      /\ cancelled' = cancelled \ {u}
      /\ UNCHANGED <<entry, ready, conn, stray>>
  BY PoolAssumption DEF PoolInv, UserInv, WaitCancelled, Return, DropRef, AfterError
<1>2. TypeOK'
  BY <1>1 DEF TypeOK, Move, Places
<1>3. pc'[u] \in {"out", "in"} /\ at'[u] = None
      /\ \A v \in Users \ {u} : pc'[v] = pc[v] /\ at'[v] = at[v]
  BY <1>1 DEF Move, TypeOK
<1>4. \A v \in Users : UserInv(v)'
  <2> SUFFICES ASSUME NEW v \in Users PROVE UserInv(v)'
    OBVIOUS
  <2>1. UserInv(v)
    BY DEF PoolInv
  <2>2. CASE v = u
    BY <1>1, <1>3, <2>1, <2>2 DEF UserInv
  <2>3. CASE v # u
    BY <1>1, <1>3, <2>1, <2>3 DEF UserInv
  <2> QED BY <2>2, <2>3
<1>5. entry # None => refs'[entry] = Cardinality(Counted(entry)')
  <2> SUFFICES ASSUME entry # None PROVE refs'[entry] = Cardinality(Counted(entry)')
    OBVIOUS
  <2>1. CASE at[u] = entry
    <3>1. Counted(entry)' = Counted(entry) \ {u} /\ u \in Counted(entry)
      BY <1>1, <1>3, <2>1 DEF Counted
    <3>2. Cardinality(Counted(entry) \ {u}) = Cardinality(Counted(entry)) - 1
      BY <3>1, CountedFinite, FS_RemoveElement
    <3> QED BY <1>1, <2>1, <3>1, <3>2 DEF PoolInv, TypeOK
  <2>2. CASE at[u] # entry
    <3>1. Counted(entry)' = Counted(entry)
      BY <1>1, <1>3, <2>2 DEF Counted
    <3>2. refs'[entry] = refs[entry]
      BY <1>1, <2>2 DEF TypeOK
    <3> QED BY <3>1, <3>2 DEF PoolInv
  <2> QED BY <2>1, <2>2
<1> QED BY <1>1, <1>2, <1>3, <1>4, <1>5 DEF PoolInv

(* The last release finds no other user counted, so nobody is left with    *)
(* the connection it goes on to close.                                     *)
LEMMA ReleaseStep ==
  ASSUME PoolInv, NEW u \in Users, pc[u] = "in", at[u] # None,
         NEW after \in {"out", "gone", "stopped"}, NEW closing \in {"closing", "stopping"},
         Release(u, after, closing)
  PROVE  PoolInv'
<1>1. /\ TypeOK /\ at[u] = entry /\ entry \in Entries /\ None \notin Entries
      /\ conn[entry] = "open"
      /\ refs' = [refs EXCEPT ![entry] = @ - 1]
      /\ stray' = stray
      /\ UNCHANGED <<ready, conn, cancelled>>
  BY PoolAssumption DEF PoolInv, UserInv, Release, DropRef, HasTransport, TypeOK
<1>2. u \in Counted(entry) /\ refs[entry] = Cardinality(Counted(entry))
  BY <1>1 DEF Counted, PoolInv
<1>3. CASE refs[entry] - 1 > 0
  <2>1. Move(u, after, None) /\ entry' = entry
    BY <1>1, <1>3 DEF Release, DropRef, HasTransport
  <2>2. TypeOK'
    BY <1>1, <2>1 DEF TypeOK, Move, Places
  <2>3. pc'[u] = after /\ at'[u] = None
        /\ \A v \in Users \ {u} : pc'[v] = pc[v] /\ at'[v] = at[v]
    BY <1>1, <2>1 DEF Move, TypeOK
  <2>4. \A v \in Users : UserInv(v)'
    <3> SUFFICES ASSUME NEW v \in Users PROVE UserInv(v)'
      OBVIOUS
    <3>1. UserInv(v)
      BY DEF PoolInv
    <3>2. CASE v = u
      BY <1>1, <2>3, <3>2 DEF UserInv
    <3>3. CASE v # u
      BY <1>1, <2>1, <2>3, <3>1, <3>3 DEF UserInv
    <3> QED BY <3>2, <3>3
  <2>5. Counted(entry)' = Counted(entry) \ {u}
    BY <1>1, <2>1, <2>3 DEF Counted
  <2>6. Cardinality(Counted(entry) \ {u}) = Cardinality(Counted(entry)) - 1
    BY <1>2, CountedFinite, FS_RemoveElement
  <2>7. refs'[entry] = Cardinality(Counted(entry)')
    BY <1>1, <1>2, <2>5, <2>6 DEF TypeOK
  <2> QED BY <1>1, <2>1, <2>2, <2>3, <2>4, <2>7 DEF PoolInv
<1>4. CASE ~(refs[entry] - 1 > 0)
  <2>1. Move(u, closing, entry) /\ entry' = None
    BY <1>1, <1>4 DEF Release, DropRef, HasTransport
  <2>2. TypeOK'
    BY <1>1, <2>1 DEF TypeOK, Move, Places
  <2>3. pc'[u] = closing /\ at'[u] = entry
        /\ \A v \in Users \ {u} : pc'[v] = pc[v] /\ at'[v] = at[v]
    BY <1>1, <2>1 DEF Move, TypeOK
  <2>4. Counted(entry) \ {u} = {}
    <3>1. Cardinality(Counted(entry) \ {u}) = Cardinality(Counted(entry)) - 1
          /\ IsFiniteSet(Counted(entry) \ {u})
      BY <1>2, CountedFinite, FS_RemoveElement
    <3>2. Cardinality(Counted(entry) \ {u}) \in Nat
      BY <3>1, FS_CardinalityType
    <3>3. Cardinality(Counted(entry) \ {u}) = 0
      BY <1>1, <1>2, <1>4, <3>1, <3>2 DEF TypeOK
    <3> QED BY <3>1, <3>3, FS_EmptySet
  <2>5. \A v \in Users \ {u} : pc[v] \in {"dialing", "waiting", "in"} => at[v] # entry
    BY <2>4 DEF Counted
  <2>6. \A v \in Users : UserInv(v)'
    <3> SUFFICES ASSUME NEW v \in Users PROVE UserInv(v)'
      OBVIOUS
    <3>1. UserInv(v)
      BY DEF PoolInv
    <3>2. CASE v = u
      BY <1>1, <2>1, <2>3, <3>2 DEF UserInv
    <3>3. CASE v # u
      BY <1>1, <2>1, <2>3, <2>5, <3>1, <3>3 DEF UserInv
    <3> QED BY <3>2, <3>3
  <2> QED BY <1>1, <2>1, <2>2, <2>3, <2>6 DEF PoolInv
<1> QED BY <1>3, <1>4

(* A closed connection is nobody's.                                        *)
LEMMA CloseStep ==
  ASSUME PoolInv, NEW u \in Users, CloseConn(u)
  PROVE  PoolInv'
<1>0. DEFINE p == IF pc[u] = "closing" THEN Left(u) ELSE "stopped"
<1>1. /\ TypeOK /\ pc[u] \in {"closing", "stopping"} /\ at[u] \in Entries /\ at[u] # entry
      /\ None \notin Entries
      /\ conn[at[u]] # "nil"
      /\ conn' = [conn EXCEPT ![at[u]] = "closed"]
      /\ Move(u, p, None) /\ p \in {"out", "gone", "stopped"}
      /\ UNCHANGED <<entry, refs, ready, cancelled, stray>>
  BY PoolAssumption DEF PoolInv, UserInv, CloseConn, Left
<1> HIDE DEF p
<1>2. TypeOK'
  BY <1>1 DEF TypeOK, Move, Places
<1>3. pc'[u] = p /\ at'[u] = None
      /\ \A v \in Users \ {u} : pc'[v] = pc[v] /\ at'[v] = at[v]
  BY <1>1 DEF Move, TypeOK
<1>4. conn'[at[u]] = "closed" /\ \A e \in Entries \ {at[u]} : conn'[e] = conn[e]
  BY <1>1 DEF TypeOK
<1>5. \A v \in Users : UserInv(v)'
  <2> SUFFICES ASSUME NEW v \in Users PROVE UserInv(v)'
    OBVIOUS
  <2>1. UserInv(v)
    BY DEF PoolInv
  <2>2. CASE v = u
    BY <1>1, <1>3, <2>2 DEF UserInv
  <2>3. CASE v # u
    BY <1>1, <1>3, <1>4, <2>1, <2>3 DEF UserInv
  <2> QED BY <2>2, <2>3
<1>6. entry # None => /\ entry \in Entries /\ Counted(entry)' = Counted(entry)
                      /\ conn'[entry] = conn[entry]
  BY <1>1, <1>3, <1>4 DEF Counted, TypeOK
<1> QED BY <1>1, <1>2, <1>3, <1>5, <1>6 DEF PoolInv

(* Every step of every user preserves the invariant, or is a stray release. *)
LEMMA PoolStep ==
  ASSUME PoolInv, [Next]_vars, ~stray'
  PROVE  PoolInv'
<1>1. CASE Next
  <2>1. PICK u \in Users : Acquire(u) \/ Proceed(u) \/ Leave(u) \/ Cancel(u)
    BY <1>1 DEF Next
  <2>2. CASE Acquire(u)
    BY <2>2, AcquireFirstStep, AcquireSharedStep DEF Acquire
  <2>3. CASE Proceed(u)
    BY <2>3, DialOkStep, DialFailsStep, WaitEndsStep, WaitCancelledStep, CloseStep
       DEF Proceed, DialEnds, WaitIsOver
  <2>4. CASE Leave(u)
    <3>1. CASE ReleaseLast(u)
      <4>1. at[u] # None /\ pc[u] \in {"in", "stopped"} /\ Release(u, Left(u), "closing")
        BY <3>1 DEF ReleaseLast, Release
      <4>2. pc[u] = "in" /\ Left(u) \in {"out", "gone"}
        BY <4>1 DEF PoolInv, UserInv, Left
      <4> QED BY <4>1, <4>2, ReleaseStep
    <3>2. CASE Stop(u)
      <4>1. at[u] # None /\ pc[u] = "in" /\ Release(u, "stopped", "stopping")
        BY <3>2 DEF Stop, Release
      <4> QED BY <4>1, ReleaseStep
    <3> QED BY <2>4, <3>1, <3>2 DEF Leave
  <2>5. CASE Cancel(u)
    <3>1. cancelled' = cancelled \cup {u} /\ UNCHANGED <<entry, refs, ready, conn, pc, at, stray>>
      BY <2>5 DEF Cancel
    <3>2. TypeOK' /\ (\A v \in Users : UserInv(v)') /\ \A e : Counted(e)' = Counted(e)
      BY <3>1 DEF PoolInv, TypeOK, UserInv, Counted
    <3> QED BY <3>1, <3>2 DEF PoolInv
  <2> QED BY <2>1, <2>2, <2>3, <2>4, <2>5
<1>2. CASE UNCHANGED vars
  <2>1. TypeOK' /\ (\A v \in Users : UserInv(v)') /\ \A e : Counted(e)' = Counted(e)
    BY <1>2 DEF vars, PoolInv, TypeOK, UserInv, Counted
  <2> QED BY <1>2, <2>1 DEF vars, PoolInv
<1> QED BY <1>1, <1>2

(* A stray release is remembered.                                          *)
LEMMA StrayStays == stray /\ [Next]_vars => stray'
BY DEF Next, vars, Acquire, AcquireFirst, AcquireShared, Proceed, DialEnds, DialOk, DialFails,
       WaitIsOver, WaitEnds, WaitCancelled, CloseConn, Leave, ReleaseLast, Stop, Release, Cancel

(* PoolInv holds until a user releases what it never obtained.             *)
LEMMA PoolInvariant == Spec => [](~stray => PoolInv)
<1> DEFINE Inv == ~stray => PoolInv
<1>1. Init => Inv
  <2> SUFFICES ASSUME Init PROVE PoolInv
    OBVIOUS
  <2>1. TypeOK
    <3>1. stray \in BOOLEAN
      BY Zenon DEF Init
    <3>2. /\ entry \in Entries \cup {None} /\ refs \in [Entries -> Int]
          /\ conn \in [Entries -> {"nil", "open", "closed"}]
          /\ pc \in [Users -> Places] /\ at \in [Users -> Entries \cup {None}]
          /\ cancelled \subseteq Users
      BY DEF Init, Places
    <3>3. ready \in [Entries -> BOOLEAN]
      BY Zenon DEF Init
    <3> QED BY <3>1, <3>2, <3>3 DEF TypeOK
  <2>2. \A u \in Users : pc[u] = "out" /\ at[u] = None
    BY DEF Init
  <2>3. \A u \in Users : UserInv(u)
    BY <2>2 DEF UserInv
  <2> QED BY <2>1, <2>2, <2>3 DEF Init, PoolInv
<1>2. Inv /\ [Next]_vars => Inv'
  BY PoolStep, StrayStays
<1> QED BY <1>1, <1>2, PTL DEF Spec

(* For every number of requests, handlers and applications, and every      *)
(* interleaving of Acquire, failing dials, cancelled waits, Release and    *)
(* Close: until a user releases what it never obtained, no user's          *)
(* connection is closed under it, and all users hold the one in the map    *)
(* (pool.go, Acquire and Release).                                         *)
THEOREM UsersKeepTheirConn == Spec => []InUseIsOpen
<1>1. (~stray => PoolInv) => InUseIsOpen
  <2> SUFFICES ASSUME PoolInv, NEW u \in Users, HasConn(u)
               PROVE  at[u] = entry /\ conn[at[u]] = "open"
    BY DEF InUseIsOpen
  <2> QED BY PoolAssumption DEF PoolInv, UserInv, HasConn, TypeOK
<1> QED BY <1>1, PoolInvariant, PTL

(* An open connection outside the map is being closed: only DialOk opens   *)
(* one, that of the entry in the map; DialFails takes an entry out of the  *)
(* map before it has one, and Release hands the open one to its closer.    *)
Closers == {"closing", "stopping"}

Held(e) == entry = e \/ \E u \in Users : pc[u] \in Closers /\ at[u] = e

OrphanInv == \A e \in Entries : conn[e] = "open" => Held(e)

(* A step that leaves the connections and the map alone and moves a user   *)
(* that closes nothing keeps every connection held.                        *)
LEMMA HeldByOthers ==
  ASSUME PoolInv, OrphanInv, NEW u \in Users, pc[u] \notin Closers,
         UNCHANGED entry,
         NEW p \in Places, NEW x \in Entries \cup {None}, Move(u, p, x)
  PROVE  \A e \in Entries : conn[e] = "open" => Held(e)'
<1>1. \A v \in Users : pc[v] \in Closers => pc'[v] = pc[v] /\ at'[v] = at[v]
  BY DEF Move, PoolInv, TypeOK
<1> QED BY <1>1 DEF OrphanInv, Held

(* Every step but a stray release keeps every open connection held.        *)
LEMMA OrphanStep ==
  ASSUME PoolInv, OrphanInv, [Next]_vars, ~stray'
  PROVE  OrphanInv'
<1>0. TypeOK /\ (\A u \in Users : UserInv(u)) /\ None \notin Entries
  BY PoolAssumption DEF PoolInv
<1>1. ASSUME NEW u \in Users, AcquireFirst(u) PROVE OrphanInv'
  <2>1. PICK e \in Entries : /\ conn' = [conn EXCEPT ![e] = "nil"]
                             /\ Move(u, "dialing", e)
    BY <1>1 DEF AcquireFirst
  <2>2. pc[u] = "out" /\ entry = None
    BY <1>1 DEF AcquireFirst
  <2>3. \A f \in Entries : conn'[f] = "open" => conn[f] = "open"
    BY <1>0, <2>1 DEF TypeOK
  <2>4. \A v \in Users : pc[v] \in Closers => pc'[v] = pc[v] /\ at'[v] = at[v]
    BY <1>0, <2>1, <2>2 DEF Move, TypeOK, Closers
  <2> QED BY <1>0, <2>2, <2>3, <2>4 DEF OrphanInv, Held
<1>2. ASSUME NEW u \in Users, AcquireShared(u) PROVE OrphanInv'
  <2>1. /\ Move(u, "waiting", entry) /\ UNCHANGED <<entry, conn>>
        /\ entry \in Entries \cup {None} /\ pc[u] \notin Closers /\ "waiting" \in Places
    BY <1>0, <1>2 DEF AcquireShared, TypeOK, Closers, Places
  <2> QED BY <2>1, HeldByOthers DEF OrphanInv
<1>3. ASSUME NEW u \in Users, DialOk(u) PROVE OrphanInv'
  <2>1. /\ Move(u, "in", entry) /\ UNCHANGED entry /\ entry \in Entries
        /\ conn' = [conn EXCEPT ![entry] = "open"]
        /\ pc[u] \notin Closers /\ "in" \in Places
    BY <1>0, <1>3 DEF DialOk, Return, UserInv, Closers, Places
  <2>2. \A e \in Entries : conn[e] = "open" => Held(e)'
    BY <2>1, HeldByOthers
  <2>3. \A e \in Entries : conn'[e] = "open" => e = entry \/ conn[e] = "open"
    BY <1>0, <2>1 DEF TypeOK
  <2>4. Held(entry)'
    BY <2>1 DEF Held
  <2> QED BY <2>1, <2>2, <2>3, <2>4 DEF OrphanInv
<1>4. ASSUME NEW u \in Users, DialFails(u) PROVE OrphanInv'
  <2>1. /\ pc[u] = "dialing" /\ conn[entry] = "nil" /\ conn' = conn
        /\ Move(u, AfterError(u), None)
    BY <1>0, <1>4 DEF DialFails, Return, UserInv
  <2>2. \A v \in Users : pc[v] \in Closers => pc'[v] = pc[v] /\ at'[v] = at[v]
    BY <1>0, <2>1 DEF Move, TypeOK, Closers
  <2> QED BY <2>1, <2>2 DEF OrphanInv, Held
<1>5. ASSUME NEW u \in Users, WaitEnds(u) \/ WaitCancelled(u) PROVE OrphanInv'
  <2>1. PICK p \in Places, x \in Entries \cup {None} : Move(u, p, x)
    <3>1. AfterError(u) \in Places /\ "in" \in Places /\ at[u] \in Entries \cup {None}
      BY <1>0 DEF AfterError, Places, TypeOK
    <3> QED BY <1>5, <3>1 DEF WaitEnds, WaitCancelled, Return
  <2>2. UNCHANGED <<entry, conn>> /\ pc[u] \notin Closers
    BY <1>5 DEF WaitEnds, WaitCancelled, Closers
  <2> QED BY <2>1, <2>2, HeldByOthers DEF OrphanInv
<1>6. ASSUME NEW u \in Users, NEW p \in Places, NEW q \in Closers, Release(u, p, q),
             pc[u] \notin Closers
      PROVE  OrphanInv'
  <2>1. at[u] \in Entries /\ conn' = conn
    BY <1>0, <1>6 DEF Release, TypeOK
  <2>2. \A v \in Users : pc[v] \in Closers => v # u
    BY <1>6
  <2>3. ASSUME NEW r \in Places, NEW x \in Entries \cup {None}, Move(u, r, x), UNCHANGED entry
        PROVE  OrphanInv'
    BY <1>6, <2>1, <2>3, HeldByOthers DEF OrphanInv
  <2>4. CASE UNCHANGED entry
    BY <1>0, <1>6, <2>3, <2>4 DEF Release, Places, Closers
  <2>5. CASE entry' # entry
    <3>1. entry' = None /\ (conn[entry] = "open" => Move(u, q, entry))
          /\ (Move(u, q, entry) \/ Move(u, p, None))
      BY <1>6, <2>5 DEF Release, HasTransport
    <3>2. \A v \in Users : pc[v] \in Closers => pc'[v] = pc[v] /\ at'[v] = at[v]
      BY <1>0, <2>2, <3>1 DEF Move, TypeOK
    <3>3. conn[entry] = "open" => pc'[u] = q /\ at'[u] = entry
      BY <1>0, <3>1 DEF Move, TypeOK
    <3> QED BY <1>6, <2>1, <3>2, <3>3 DEF OrphanInv, Held
  <2> QED BY <2>4, <2>5
<1>7. ASSUME NEW u \in Users, CloseConn(u) PROVE OrphanInv'
  <2>1. /\ at[u] \in Entries /\ conn' = [conn EXCEPT ![at[u]] = "closed"] /\ entry' = entry
        /\ \E p : Move(u, p, None)
    BY <1>0, <1>7 DEF CloseConn, UserInv
  <2>2. \A v \in Users : v # u => pc'[v] = pc[v] /\ at'[v] = at[v]
    BY <1>0, <2>1 DEF Move, TypeOK
  <2>3. \A e \in Entries : conn'[e] = "open" => e # at[u] /\ conn[e] = "open"
    BY <1>0, <2>1 DEF TypeOK
  <2> QED BY <2>1, <2>2, <2>3 DEF OrphanInv, Held
<1>8. ASSUME UNCHANGED <<entry, conn, pc, at>> PROVE OrphanInv'
  BY <1>8 DEF OrphanInv, Held
<1>9. ASSUME NEW u \in Users, Leave(u) PROVE OrphanInv'
  <2>1. pc[u] \notin Closers /\ Left(u) \in Places /\ "stopped" \in Places
        /\ "closing" \in Closers /\ "stopping" \in Closers
    BY <1>9 DEF Leave, ReleaseLast, Stop, Left, Places, Closers
  <2>2. Release(u, Left(u), "closing") \/ Release(u, "stopped", "stopping")
    BY <1>9 DEF Leave, ReleaseLast, Stop
  <2> QED BY <1>6, <2>1, <2>2
<1> QED BY <1>1, <1>2, <1>3, <1>4, <1>5, <1>7, <1>8, <1>9
        DEF Next, Acquire, Proceed, DialEnds, WaitIsOver, Cancel, vars

(* For every number of users and entries and every interleaving: until a   *)
(* user releases what it never obtained, no open connection is lost.  The  *)
(* next Acquire finds it in the map, or somebody is closing it, whatever   *)
(* dials fail and waits are cancelled (pool.go, Acquire and Release).      *)
THEOREM NoConnIsLost == Spec => []NoOrphan
<1> DEFINE Inv == ~stray => PoolInv
           OInv == ~stray => OrphanInv
<1>1. Init => OInv
  BY DEF Init, OrphanInv
<1>2. Inv /\ OInv /\ [Next]_vars => OInv'
  BY OrphanStep, StrayStays
<1>3. OInv => NoOrphan
  BY DEF OrphanInv, Held, Closers, NoOrphan
<1> HIDE DEF Inv, OInv
<1>4. Spec => []Inv
  BY PoolInvariant DEF Inv
<1> QED BY <1>1, <1>2, <1>3, <1>4, PTL DEF Spec
=============================================================================
