-------------------------- MODULE MCRequestReader ---------------------------
(* RequestReader for TLC. *)
EXTENDS RequestReader

\* A value of l bytes with k elements, and a frame made of such values.
Value(l, k, type) == [len |-> l, kids |-> k, type |-> type, text |-> "ok", ok |-> TRUE]
Total(f, n) == LET sum[i \in 0 .. n] == IF i = 0 THEN 0 ELSE sum[i - 1] + f[i] IN sum[n]
Frame(v) ==
  [k \in DOMAIN v |->
     [end  |-> Total([i \in DOMAIN v |-> v[i].len], k),
      need |-> 1 + Total([i \in DOMAIN v |-> v[i].kids], k),
      type |-> v[k].type, ok |-> v[k].ok, text |-> v[k].text]]

Bulk == Value(3, 0, "bulk")
Good == Frame(<<Value(3, 1, "array"), Bulk>>)
Long == Frame(<<Value(3, 2, "array"), Bulk, Bulk>>)
No   == Frame(<<Value(3, 1, "array"), [Bulk EXCEPT !.text = "refused"]>>)
Frames == {
  Good, Long, No,
  Frame(<<Value(4, 0, "other")>>),
  Frame(<<Value(3, 1, "array"), [Bulk EXCEPT !.ok = FALSE]>>)}

\* Commands that make the scratch array grow, a nested array, and a malformed value
\* behind an array that announces more than ever comes.
Five   == Frame(<<Value(3, 5, "array"), Bulk, Bulk, Bulk, Bulk, Bulk>>)
Nested == Frame(<<Value(3, 2, "array"), Value(3, 1, "array"), Bulk, Bulk>>)
Lies   == Frame(<<Value(3, 9, "array"), Bulk, [Bulk EXCEPT !.ok = FALSE]>>)

MCScripts == {<<Five, Good>>, <<Good, Five>>, <<Long, Nested>>, <<Five, Lies>>, <<Lies>>} \cup
             UNION {[1 .. n -> Frames] : n \in 1 .. 2} \cup
             {<<f, g, h>> : f \in {Good, Long}, g \in {Good, No}, h \in Frames}
=============================================================================
