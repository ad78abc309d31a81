----------------------------- MODULE MCApplyWait -----------------------------
\* Every interval around the 120 s floor and the switch to growing pauses at
\* 3/4 * n / 5 > 120, then intervals up to a day.
EXTENDS ApplyWait

MCFileIntervals == 0..130 \cup 780..1000 \cup {1500 + 37 * k : k \in 0..60} \cup {86399, 86400}
=============================================================================
