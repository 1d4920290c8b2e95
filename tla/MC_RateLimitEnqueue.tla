------------------------ MODULE MC_RateLimitEnqueue ------------------------
(* Two objects, two requests, two workers.  o1 maps to r1; o2 maps to r1   *)
(* and r2, so an Update from o1 to o2 lists r1 twice before r2, and an     *)
(* Update of o2 onto itself lists both twice.                              *)
EXTENDS RateLimitEnqueue

MC_Objects == {"o1", "o2"}
MC_Requests == {"r1", "r2"}
MC_MapFunc == [o \in MC_Objects |-> IF o = "o1" THEN <<"r1">> ELSE <<"r1", "r2">>]
MC_Workers == {"w1", "w2"}
=============================================================================
