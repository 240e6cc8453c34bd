------------------------------- MODULE MCConfig -------------------------------
(* Section and key names that can make the same full key in three ways,    *)
(* and a value on each side of every decision of the parsers.              *)
EXTENDS Config

MCSections == {<<"a">>, <<"a", "b">>}
MCKeys == {<<"k">>, <<"b", "k">>}
Number(n) == [word |-> "number", n |-> n]
MCValues == {Number(n) : n \in {-1, 1, IntMax + 1}}
               \cup {[word |-> w, n |-> 0] : w \in {"off", "text"}}

MCLines ==
    {[kind |-> "skip"], [kind |-> "malformed"]}
        \cup [kind : {"section"}, name : MCSections]
        \cup [kind : {"pair"}, key : MCKeys, value : MCValues]

MCIntMin == -8
=============================================================================
