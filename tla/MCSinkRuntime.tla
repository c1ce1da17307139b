--------------------------- MODULE MCSinkRuntime ---------------------------
(***************************************************************************)
(* SinkRuntime with a source that offers a PPS range or its Fixed contract  *)
(* alone, and one operation of each kind.                                   *)
(***************************************************************************)
EXTENDS SinkRuntime

MCOffers == {1..1, 1..3}
MCOps == {[kind |-> "Contract", want |-> 3, steady |-> TRUE],
          [kind |-> "Contract", want |-> 1, steady |-> FALSE],
          [kind |-> "Idle", want |-> None, steady |-> FALSE],
          [kind |-> "Refresh", want |-> None, steady |-> FALSE]}
====
