----------------------------- MODULE MCDateUtil -----------------------------
(* Instances of DateUtil for TLC: a minute of two seconds, an hour of two  *)
(* minutes.                                                                *)
EXTENDS DateUtil

MCInstants == -9..9
MCSummer == -3..3
MCOffsets == {-6, -4, -2, 0, 2, 4, 6, 10}
=============================================================================
