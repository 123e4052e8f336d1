--------------------------- MODULE MCBatchFormer ---------------------------
(* Instances of BatchFormer for TLC. *)
EXTENDS BatchFormer

\* A hard cap no item of the instance reaches.
NoCap == 99
Clip(c, cap) == [cost |-> c, alone |-> FALSE, cap |-> cap, req |-> c]
Long == [cost |-> 2, alone |-> TRUE, cap |-> NoCap, req |-> 0]
\* Three costs under and at the cost cap, one item with a hard cap of its own,
\* long audio, and a request of three items.
Part(c) == [Clip(c, NoCap) EXCEPT !.req = 9]
SmallCalls == {<<Clip(1, 2)>>, <<Clip(2, NoCap)>>, <<Clip(3, NoCap)>>, <<Long>>,
               <<Part(1), Part(2), Part(1)>>}
\* Caps that shrink and grow while items wait; a request of up to three items
\* may be kept whole.
SmallConfigs == {[cost |-> 3, requests |-> 2, requestItems |-> 0],
                 [cost |-> 4, requests |-> 1, requestItems |-> 3]}
=============================================================================
