---------------------------- MODULE MCAdvantages ----------------------------
EXTENDS Advantages

\* Two responses to one prompt around the only response to another.
MCUid == <<1, 2, 1>>
MCEstimators == PerResponse \cup PerToken \cup {"gae", "reinforce_plus_plus"}
\* Values that no wrong sum is likely to hit.
MCValue(i, c)   == (7 * i + 5 * c * c) % 11
MCPenalty(i, c) == (i + c) % 2
MCEnergy(i, c)  == (i + 2 * c) % 3
=============================================================================
