------------------------------ MODULE MCClear -------------------------------
(***************************************************************************)
(* The log, with a note of whether a block was put since the device was    *)
(* last cleared.                                                           *)
(***************************************************************************)
EXTENDS LogProperties

VARIABLE used

MCInit == Init /\ used = TRUE

MCNext ==
  /\ Next
  /\ used' = \/ used /\ ~(pc' = "returned" /\ op'.kind = "clear" /\ ret' = "ok")
             \/ pc' = "put_hint"

MCSpec == MCInit /\ [][MCNext]_<<vars, used>>

(* "This invalidates all hint blocks, effectively making all entries       *)
(* unreachable": a read after a clear, with no write between them, prints  *)
(* nothing (clear_dev).                                                    *)
ClearedIsUnreachable == op.kind = "read" /\ ~used => out = <<>>

=============================================================================
