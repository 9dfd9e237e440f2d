----------------------------- MODULE MCWGetopt -----------------------------
(* Tables of options and the argument vectors of a few elements each, to scan. *)
EXTENDS ScannedArgv

MCChars == {"-", "=", ":", "a", "l", "n", "o", "p", "u", "w", "x"}
MCShortOpts == [char \in {"a", "o", "p"} |->
                  CASE char = "a" -> "no" [] char = "o" -> "required"
                    [] char = "p" -> "optional"]
MCLongTable == <<[name |-> <<"a", "l">>, takes |-> "no", val |-> "l"],
                 [name |-> <<"a", "l", "l">>, takes |-> "no", val |-> "n"],
                 [name |-> <<"o", "u">>, takes |-> "required", val |-> "u"],
                 [name |-> <<"l", "o">>, takes |-> "optional", val |-> "w"]>>

Operand == <<"w">>
FlagA == <<"-", "a">>
NeedsNext == <<"-", "a", "o">>
Short2 == {<<"-">>, <<"-", "x">>, <<"-", "o", "a">>, <<"-", "p">>,
           <<"-", "p", "a">>, <<"-", "x", "a">>, <<"-", "a", "x">>,
           <<"-", ":">>, <<"-", ":", "a">>, <<"-", "a", ":">>}
Long == {<<"-", "-", "a", "l">>, <<"-", "-", "a">>, <<"-", "-", "o">>,
         <<"-", "-", "o", "u", "=", "w">>, <<"-", "-", "a", "l", "=", "w">>,
         <<"-", "-", "x">>, <<"-", "l">>, <<"-", "-", "l", "o", "=">>}
Basic == {Operand, FlagA, NeedsNext, DashDash}

Program == <<"w", "w">>
MCArgvs == {<<Program>> \o e : e \in BoundedSeq(Basic \cup Short2 \cup Long, 3)
                                    \cup BoundedSeq(Basic, 5)}
=============================================================================
