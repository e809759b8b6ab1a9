------------------------- MODULE MCEnvelopeManager --------------------------
EXTENDS EnvelopeManager, TLC
CONSTANTS e1, e2
MCContent ==
  (e1 :> <<NewItem("Transaction", 1), NewItem("Attachment", 2), NewItem("Session", 3)>>)
  @@ (e2 :> <<NewItem("MetricBuckets", 5), NewItem("Minidump", 4)>>)
=============================================================================
