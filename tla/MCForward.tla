------------------------------- MODULE MCForward ------------------------------
EXTENDS Forward, TLC

\* Two writes to one item; a plain write and behind it one to a plain and a noisy item; one
\* request that writes two items a summarise group may name.
WriteWrite == <<{"a"}, {"a"}>>
WriteBoth == <<{"a"}, {"a", "n"}>>
NoisyWrites == <<{"n", "m"}>>
===============================================================================
