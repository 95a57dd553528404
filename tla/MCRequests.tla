---------------------------- MODULE MCRequests ----------------------------
(* A media directory with plain, hidden, dotted, padded and blank names, a *)
(* subdirectory and links of every kind; lines that are right and wrong.   *)
EXTENDS RequestsInvariant

MCRoot == << <<"srv">>, <<"media">> >>

In(name) == Append(MCRoot, name)

Sub   == Append(In(<<"dir">>), <<"e">>)
Other == << <<"srv">>, <<"x">> >>

MCFiles == {In(<<"a">>), In(<<"a", Blank, "b">>), In(<<Blank, "p">>),
            In(<<".", "h">>), In(<<"..", "d">>), Sub, Other}

Gone == In(<<"gone">>)

MCLinks == [p \in {Gone, In(<<"in">>), In(<<"out">>)} |->
    IF p = Gone THEN In(<<"nothing">>)
    ELSE IF p = In(<<"in">>) THEN Sub ELSE Other]

MCDirs == {<<>>, << <<"srv">> >>, MCRoot, In(<<"dir">>)}

MCOrder == << <<Blank, "p">>, <<"..", "d">>, <<".", "h">>, <<"a">>,
              <<"a", Blank, "b">>, <<"dir">>, <<"gone">>, <<"in">>, <<"out">> >>

MCSizeOf == [p \in MCFiles |-> IF p = In(<<"a">>) THEN <<"1", "0">>
                               ELSE IF p = Sub THEN <<"7">> ELSE <<"2">>]

Everything == MCFiles \cup DOMAIN MCLinks

\* With the link to nothing, and without it.
MCTrees    == {Everything, Everything \ {Gone}}
CleanTrees == {Everything \ {Gone}}

Gets == {<<"a">>, <<"a", Blank, "b", Blank>>, <<Blank, "p">>, <<".", "h">>,
         <<"..", "d">>, <<"dir", "/", "e">>, <<"dir", "/", "..", "/", "a">>,
         <<"..", "/", "x">>, <<"..", "/", "media", "/", "a">>, <<"out">>,
         <<"in">>, <<"gone">>, <<"dir">>, <<".">>, <<>>, <<"a", NUL>>,
         <<"/", "srv", "/", "media", "/", "a">>, <<"a", Blank, "b">>,
         <<"a", "/">>, <<"a", "/", "..", "/", "in">>,
         <<"nodir", "/", "..", "/", "out">>}

MCLines == {<<"GET", Blank>> \o name : name \in Gets}
           \cup {<<"LIST">>, <<Blank, "get", Blank, Blank, "a", Blank>>,
                 <<"exit">>, <<"brew">>, <<Blank>>, <<>>}

OnlyList == {<<"LIST">>}
============================================================================
