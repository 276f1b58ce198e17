------------------------ MODULE MCSubscriptionMirror -------------------------
(* The mirror for TLC: workers are interchangeable.                        *)
EXTENDS SubscriptionMirror, TLC

CONSTANTS w1, w2

Interchangeable == Permutations({w1, w2})
=============================================================================
