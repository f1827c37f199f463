---------------------------- MODULE MCOrderIntake ----------------------------
EXTENDS OrderIntake
\* Right after an order is placed its list entry has neither its id nor a title.
MCAnswers == {Bare}

\* Bound: one call of a person and one mishap, or a second call in place of the
\* mishap once a manual stage has been cleared.
FewTroubles == calls = 2 => mishaps = 0 /\ \E o \in Orders : crm[o].keys # {}
=============================================================================
