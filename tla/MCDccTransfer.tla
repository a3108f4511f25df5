--------------------------- MODULE MCDccTransfer ---------------------------
(* TLC instances of DccTransfer: a file of several chunks and a rest.      *)
EXTENDS DccTransfer

\* Active and passive transfers, with whatever can go wrong.
Active == [passive |-> FALSE, exists |-> FALSE, lingers |-> TRUE,
           slow |-> TRUE, reliable |-> FALSE]
PassiveMode == [Active EXCEPT !.passive = TRUE, !.lingers = FALSE]
Reliable == [PassiveMode EXCEPT !.slow = FALSE, !.reliable = TRUE]
Replacing == [Active EXCEPT !.lingers = FALSE, !.slow = FALSE, !.exists = TRUE]

AllSetups == {Active, PassiveMode, Reliable, Replacing}
OnlyActive == {Active}
=============================================================================
