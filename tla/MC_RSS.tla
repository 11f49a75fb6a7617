------------------------------- MODULE MC_RSS -------------------------------
EXTENDS RSS

\* Queue lists of one to three queues.
MCQueueLists == UNION {[1..k -> 0..2] : k \in 1..3}

\* RETA sizes from the invalid 0 to one past the maximum.
MCSizes == 0..(ETH_RSS_RETA_SIZE_512 + 1)

\* The errors the error paths name.
MCDriverErrs == {ENOTSUP, EINVAL}

\* Those and an error the driver passes on unnamed (-EIO).
MCDriverErrsEIO == {ENOTSUP, EINVAL, -5}

====
