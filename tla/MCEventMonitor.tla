--------------------------- MODULE MCEventMonitor ---------------------------
(***************************************************************************)
(* Instances of EventMonitor for TLC.                                      *)
(***************************************************************************)
EXTENDS EventMonitor, TLC, SequencesExt

CONSTANTS m1, m2, w1, w2     \* model values: data markets and workers

\* Contents of a new block.
AtMostOneEvent == SeqOf({m1}, 1)
UpToTwoEvents == {<<>>, <<m2, m1>>}

\* DATA_MARKET_ADDRESSES
Checksummed == {Hex(m1)}

AnyWorker == Permutations({w1, w2})
=============================================================================
