--------------------------- MODULE MCEscalation ---------------------------
(* Instances of Escalation for TLC: one trip with its supervisor's phone.   *)
EXTENDS Escalation, TLC

CONSTANTS m, b, s1, s2, u1, w1, w2

MCBusOf     == [t \in {m} |-> b]
MCShift     == [t \in {m} |-> "morning"]
MCRosterBus == [s \in Students |-> b]
=============================================================================
