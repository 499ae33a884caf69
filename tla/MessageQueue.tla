---------------------------- MODULE MessageQueue ----------------------------
(***************************************************************************)
(* What a one-way queue of the transport promises its users: messages come *)
(* out whole, once, in the order in which they went in                     *)
(* (internal/transport/linux/ring_linux.go, ringConn: "One Send becomes    *)
(* exactly one Recv unit on the peer").                                    *)
(***************************************************************************)
EXTENDS Sequences

CONSTANTS Payload,    \* what a message can be
          NoPayload   \* "nothing received yet"

VARIABLES queue,  \* the accepted messages that were not received yet
          got     \* the message the last Recv returned

Init == queue = << >> /\ got = NoPayload

Put == \E p \in Payload : queue' = Append(queue, p) /\ UNCHANGED got

Get == queue # << >> /\ got' = Head(queue) /\ queue' = Tail(queue)

Next == Put \/ Get

Spec == Init /\ [][Next]_<<queue, got>>
=============================================================================
