----------------------------- MODULE MCConversion -----------------------------
(***************************************************************************)
(* An instance of Conversion for TLC: one good metric of every type rule,   *)
(* each field at fault once, and the defaults.                              *)
(***************************************************************************)
EXTENDS Conversion

Good == [form |-> "dict", time |-> "number", namespace |-> "dotted",
         dimensions |-> "some", unit |-> "gauge", words |-> {},
         numeric |-> TRUE]

MCMetric ==
  {Good,
   [Good EXCEPT !.unit = "rate", !.words = {"count"}],
   [Good EXCEPT !.unit = "count", !.words = {"rate"}, !.time = "absent"],
   [Good EXCEPT !.unit = "other", !.words = {"rate", "count"}],
   [Good EXCEPT !.unit = "other", !.words = {"count"}, !.dimensions = "none"],
   [Good EXCEPT !.unit = "other", !.namespace = "absent"],
   [Good EXCEPT !.unit = "other", !.numeric = FALSE, !.namespace = "plain"],
   [Good EXCEPT !.form = "malformed"],
   [Good EXCEPT !.form = "malformed", !.time = "bad"],
   [Good EXCEPT !.time = "bad"],
   [Good EXCEPT !.namespace = "bad"],
   [Good EXCEPT !.dimensions = "bad"]}
=============================================================================
