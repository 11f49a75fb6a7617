----------------------------- MODULE MC_Queues -----------------------------
EXTENDS Queues, TLC

CONSTANTS l1, l2, l3, l4, rx, tx

\* The lcores are interchangeable model values, and so are the directions:
\* get_queue_id() treats every lcore and both directions alike.
MCSymmetry == Permutations(Lcores) \cup Permutations({rx, tx})

====
