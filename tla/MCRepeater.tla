----------------------------- MODULE MCRepeater -----------------------------
(* A finite instance of Repeater for TLC. *)
EXTENDS Repeater

\* One line of each type.
MCLine ==
  {[name |-> "a", value |-> 1, numeric |-> TRUE, signed |-> FALSE,
    type |-> t, inverse |-> 1, rateAfterBar |-> FALSE] : t \in {"c", "ms", "g", "s"}}

MCPercentiles == {90}
=============================================================================
