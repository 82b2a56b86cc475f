------------------------- MODULE MCProviderBreaker -------------------------
(* ProviderBreaker for TLC: two providers, which the callers prefer in       *)
(* different orders.                                                         *)
EXTENDS ProviderBreaker

CONSTANTS p1, p2, c1, c2, c3

TwoProviders == {p1, p2}
ThreeCalls   == {c1, c2, c3}
Chains == [c \in ThreeCalls |-> IF c = c3 THEN <<p2, p1>> ELSE <<p1, p2>>]
OneStreams == {c1}
=============================================================================
