------------------------------- MODULE MCProbe -------------------------------
(***************************************************************************)
(* Instances of module Probe.                                              *)
(***************************************************************************)
EXTENDS Probe

CONSTANTS p1, p2

TwoProbes == {p1, p2}
OneDisabled == {p2}

Answer(status, code, says) ==
  [status |-> status, code |-> code, nested |-> FALSE, json |-> TRUE, says |-> says]

(* One answer of every kind the probe tells apart. *)
SomeAnswers ==
  { Answer(200, "none", {}), Answer(401, "none", {}),
    Answer(401, "invalid_grant", {}), Answer(429, "none", {}),
    Answer(429, "exhausted", {"quota"}), Answer(403, "denied", {"account"}),
    Answer(403, "other", {"safety", "account"}), Answer(500, "none", {"credential"}) }
=============================================================================
