----------------------------- MODULE MCCompose -----------------------------
(* A small instance of Compose for TLC: a channel with two nicks, a query,  *)
(* and the server's own buffer.                                             *)
EXTENDS Compose

MCTyped == {"jo", ":sm", ":us:", "/query"}
MCFinished == [c \in {"joe", "jon"} |-> IF c = "joe" THEN "joe:" ELSE "jon:"]
MCPartial == [c \in {":sm"} |-> "smile"]
MCComplete == [c \in {":us:"} |-> "flag"]
MCWords == MCTyped \cup {"joe", "jon", "joe:", "jon:", "smile", "flag"}
MCCandidates ==
  [b \in Buffers |-> [w \in MCWords |->
     IF w = "jo" /\ b = "chan" THEN <<"joe", "jon">>
     ELSE IF w = "jo" /\ b = "pal" THEN <<"joe">> ELSE <<>>]]
MCWidths ==
  [w \in MCWords |-> IF w = "smile" THEN <<4>>
                     ELSE IF w = "flag" THEN <<4, 4>>
                     ELSE IF w \in {"joe", "jon"} THEN <<1, 2, 1>>
                     ELSE IF w \in {"joe:", "jon:"} THEN <<1, 2, 1, 1, 1>>
                     ELSE <<1, 1>>]
=============================================================================
