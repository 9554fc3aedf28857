------------------------------ MODULE MCSweep ------------------------------
(*
  The sweep programs on two nodes: rounds of two units with one fault, two campaigns of
  masks, and a plan for six locations. The bounds of each machine are in the cfg.
*)
EXTENDS SweepPrograms

\* Two campaigns of masks, of two rounds and of one.
Campaigns == <<{1, 2}, {3}>>

\* Six locations, two of them on the master chip; location 5 counts nothing.
Rates == [p \in 0 .. 5 |-> IF p = 5 THEN 0 ELSE 1 + (p % 2)]

\* Ranges with an overlap and one that runs backwards; pairs with a repeat and
\* pairs with a master-chip pixel at one node only.
Listed ==
    {<<"pixels", <<<<4, 4>>, <<2, 5>>>>>>, <<"pixels", <<<<3, 1>>, <<3, 3>>>>>>,
     <<"pixels", <<<<0, 6>>>>>>,
     <<"pairs", <<<<3, 1>>, <<1, 3>>, <<2, 2>>>>>>, <<"pairs", <<<<4, 3>>, <<4, 3>>>>>>,
     <<"pairs", <<<<3, 0>>, <<3, 4>>, <<0, 3>>, <<5, 5>>>>>>}
SomeRequests ==
    {[kind |-> l[1], items |-> l[2], range |-> r, exclude |-> x, group |-> g, joint |-> b,
      order |-> o, centre |-> 2, dummy |-> d, rules |-> t] :
        l \in Listed, r \in {<<0, 9>>, <<1, 4>>}, x \in {{}, {2}}, g \in 1 .. 2,
        b \in BOOLEAN, o \in {"given", "asc", "desc", "centre"},
        d \in {<<"auto", {}>>, <<"none", {}>>, <<"given", {0}>>, <<"given", {3, 1}>>},
        t \in {<<>>, <<<<2, 3, 7>>, <<0, 5, 2>>>>, <<<<0, 3, 5>>>>}}
=============================================================================
