------------------------------- MODULE MCNode -------------------------------
EXTENDS NodePrograms

CONSTANTS p, m   \* a pixel and a marker of the sender

\* Resets in the first files of a chip, one of them the row a file ends with.
FileResets == [master |-> {1, 2, 4, 5}, slave |-> {3, 4}]

\* Up to three events over four epochs of two counts, so that the number of the
\* reset rows wraps; id 2 is a pixel of the slave chip only.
ThreeEvents ==
    {s \in UNION {[1 .. n -> [t : {0, 3, 4, 9, 13}, id : {0, 2, 5, 6}]] : n \in 1 .. 3} :
        \A i \in DOMAIN s, k \in DOMAIN s : i < k => s[i].t =< s[k].t}
=============================================================================
