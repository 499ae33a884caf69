--------------------------- MODULE MCVerdictFlow ----------------------------
(***************************************************************************)
(* Instances of VerdictFlow: the shared-memory transport with a sufficient *)
(* budget and room for everything, and with an arbitrary budget and a ring *)
(* that fills up; concurrent sessions of both kinds on the socket and      *)
(* memory transports; and three sessions at once with no engine left:      *)
(* three is what it takes to reuse an id while another is out.             *)
(***************************************************************************)
EXTENDS VerdictFlow

CONSTANTS r1, r2, r3

(* Room for all the frames of a run, or for less than two transactions.    *)
Ample == 20
Tight == 4

Deploy(t, d, rs, os, ss, e, size) ==
  [transport |-> t, deadline |-> d, responses |-> rs, oversized |-> os,
   sessions |-> ss, engine |-> e, ring |-> size]

MCDeployments == {Deploy("shm", "late", {}, {}, {r1, r2}, "crashes", Ample),
                  Deploy("shm", "late", {}, {r1}, {r1, r2}, "crashes", Ample),
                  Deploy("shm", "any", {r2}, {}, {r1, r2}, "crashes", Tight),
                  Deploy("socket", "any", {r2}, {}, {r1, r2}, "crashes", Ample),
                  Deploy("memory", "late", {}, {}, {r1, r2}, "crashes", Ample),
                  Deploy("memory", "any", {r3}, {}, {r1, r2, r3}, "gone", Ample),
                  Deploy("socket", "any", {}, {}, {r1, r2, r3}, "gone", Ample)}
=============================================================================
