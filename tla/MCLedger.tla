------------------------------ MODULE MCLedger ------------------------------
(* Finite instances of Ledger for TLC. *)
EXTENDS Ledger

L(name, value, type) ==
  [name |-> name, value |-> value, numeric |-> TRUE, signed |-> FALSE,
   type |-> type, inverse |-> 1, rateAfterBar |-> FALSE]

\* Every type, a second name, bad values, sampling in both formats, signs.
MCLine ==
  { L("a", -1, "ms"),
    L("a", 0, "ms"),
    L("a", 5, "ms"),
    [L("a", 2, "ms") EXCEPT !.inverse = 2, !.rateAfterBar = TRUE],
    L("a", 2, "c"),
    [L("a", 1, "c") EXCEPT !.inverse = 4, !.rateAfterBar = TRUE],
    [L("a", 1, "c") EXCEPT !.inverse = 3],
    L("b", 5, "other"),
    [L("b", 0, "other") EXCEPT !.numeric = FALSE],
    [L("a", 0, "g") EXCEPT !.numeric = FALSE],
    L("a", 4, "g"),
    [L("a", -1, "g") EXCEPT !.signed = TRUE],
    [L("b", 2, "g") EXCEPT !.signed = TRUE],
    [L("b", 7, "s") EXCEPT !.numeric = FALSE],
    L("b", 1, "") }

MCPercentiles == {-50, 10, 35, 90, 100}
=============================================================================
