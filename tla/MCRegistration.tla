--------------------------- MODULE MCRegistration ---------------------------
(* TLC instances of Registration: networks of which each raises another    *)
(* question.                                                               *)
EXTENDS Registration

Plain == [offered |-> {"base"}, later |-> {}, sasl |-> FALSE, soju |-> FALSE,
          split |-> FALSE, renames |-> 0, others |-> 0, drops |-> 0]
WithSasl == [Plain EXCEPT !.offered = {"base", "sasl"}, !.sasl = TRUE]

\* Split ACKs, CAP NEW and CAP DEL, refusals and a lost link.
Negotiating == [WithSasl EXCEPT !.later = {"networks"}, !.soju = TRUE,
                                !.split = TRUE, !.drops = 1]
\* Occupied nicks and renamed strangers.
Crowded == [WithSasl EXCEPT !.others = 2]
\* A soju bouncer without SASL.
Bouncer == [Plain EXCEPT !.offered = {"base", "sasl", "networks"}, !.soju = TRUE,
                         !.split = TRUE, !.renames = 1, !.drops = 1]
\* Capabilities announced after CAP LS, and perhaps before 001.
Late == [Plain EXCEPT !.later = {"sasl"}, !.sasl = TRUE]
LateAny == [WithSasl EXCEPT !.later = {"networks"}, !.soju = TRUE]

AllNetworks == {Negotiating, Crowded, Bouncer, Late, LateAny}
=============================================================================
