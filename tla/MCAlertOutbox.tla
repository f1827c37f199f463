---------------------------- MODULE MCAlertOutbox ----------------------------
EXTENDS AlertOutbox
CONSTANTS k1, k2, k3
Sold == [price |-> 10, form |-> "sold", seller |-> 1]
Start(linked, used, edited) ==
  [linked |-> linked, enabled |-> ~linked, threshold |-> 50, rise |-> 100, offer |-> Sold, used |-> used, edited |-> edited]
\* The supplier alone with an edit, the card alone with an edit, and the card
\* for long enough to rise twice within a band.
MCStarts == {Start(TRUE, 1, 0), Start(FALSE, 1, 0), Start(FALSE, 0, 1)}
=============================================================================
