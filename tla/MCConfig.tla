------------------------------ MODULE MCConfig ------------------------------
(* Config for TLC: words of 4 bits, and at most 9 where the code says 1000000. *)
EXTENDS Config

Num(n) == [num |-> n, junk |-> FALSE]
MCTexts == {Num(n) : n \in {-1, 0, 1, 4, 5, 9, 10, 17}} \cup {[num |-> 3, junk |-> TRUE]}
MCAddresses == {[addr |-> "a", valid |-> TRUE], [addr |-> "", valid |-> FALSE]}

Set(key, text) == [kind |-> "setting", key |-> key, text |-> text]
Comment == [kind |-> "comment"]

MCFiles == [
  sizes   |-> <<Comment, Set("max_request_bytes", Num(16)),
                Set("max_bulk_bytes", Num(0)), Set("max_bulk_bytes", Num(3)),
                Set("read_timeout_ms", Num(0))>>,
  wraps   |-> <<Set("max_array_elements", Num(-16)), Set("max_bulk_bytes", Num(-15))>>,
  workers |-> <<Set("workers", Num(0)), Set("workers", Num(2)),
                Set("listen", [addr |-> "b", valid |-> TRUE])>>,
  zero    |-> <<Set("max_pipeline_commands_per_read", Num(0))>>,
  unknown |-> <<Set("worker", Num(1))>>,
  broken  |-> <<Set("backend_conns_per_worker", Num(2)), [kind |-> "no equals sign"]>>,
  empty   |-> <<>>]
=============================================================================
