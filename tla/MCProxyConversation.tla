------------------------- MODULE MCProxyConversation -------------------------
EXTENDS ProxyConversation

MCIds == {<<"id", 1>>, <<"id", 2>>}

Silent == [reasoning |-> <<>>, content |-> <<>>, called |-> FALSE, tools |-> <<>>,
           finish |-> "none"]

Text(s)   == [Silent EXCEPT !.content = s]
Thinks(s) == [Silent EXCEPT !.reasoning = s]
Tools(d)  == [Silent EXCEPT !.called = TRUE, !.tools = d]
Tool(i, id, name, args) == [index |-> i, id |-> id, name |-> name, args |-> args]

\* Pieces of text that cut the tags in two or not, and stick to what is near.
MCTexts == {<<"<th">>, <<"ink>">>, <<" ", "<th", "ink>", "b">>, <<"a", "</th">>,
            <<"</th", "ink>", " ", "a">>, <<" ">>, <<"a">>}

\* Calls that come whole, with the name later, with no id at all or an empty
\* one, in pieces; and a list of none.
MCTools == {<<Tool(0, <<"id", 1>>, "none", <<>>)>>,
            <<Tool(0, <<"id", 1>>, "exec", <<"x">>)>>,
            <<Tool(0, <<>>, "read", <<"x">>)>>,
            <<Tool(0, Blank, "none", <<"y">>), Tool(1, <<"id", 2>>, "read", <<"x">>)>>,
            <<Tool(1, <<>>, "read", <<>>)>>, <<>>}

MCChunks == {Text(s) : s \in MCTexts} \union {Thinks(<<"r">>)}
            \union {Tools(d) : d \in MCTools}
            \union {[Text(<<"a">>) EXCEPT !.called = TRUE, !.finish = "length",
                                          !.tools = <<Tool(0, <<"id", 1>>, "read", <<>>)>>]}
=============================================================================
