--------------------------- MODULE MCFrequencyPlan ---------------------------
\* FrequencyPlan for TLC: a few grid steps around 171 MHz, where the band of
\* the tuner changes; 125 units are half a step of the grid.
EXTENDS FrequencyPlan

MCStarts == {683875, 684000}
MCStops == {684000 + 125 * k : k \in {0, 3, 4, 6, 9}}
MCEdges == {684000 + 125 * k : k \in -2 .. 10}
MCSweeps == {{}, {[at |-> 684125, amp |-> 2], [at |-> 684250, amp |-> 1],
                  [at |-> 684500, amp |-> 1]}}
=============================================================================
