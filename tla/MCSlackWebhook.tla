--------------------------- MODULE MCSlackWebhook ---------------------------
(* Instances of SlackWebhook for TLC: one event with an id, one without.   *)
EXTENDS SlackWebhook, TLC

CONSTANTS e1, e2, h1, h2

TwoEvents   == {e1, e2}
SecondEvent == {e2}
OneEvent    == {e1}
NoneOfThem  == {}
TwoHandlers == {h1, h2}
HandlersSymmetry == Permutations(TwoHandlers)
=============================================================================
