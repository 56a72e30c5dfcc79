------------------------------ MODULE MCAdapters ------------------------------
EXTENDS Adapters

Answer(kinds, reason) == [content |-> [i \in 1..Len(kinds) |-> Block(kinds[i], i)], stop |-> reason]
MCCanned ==
    { Answer(<<>>, "stop"), Answer(<<"thinking", "text">>, "stop"), Answer(<<"text", "toolCall">>, "toolUse"), Answer(<<"text">>, "aborted") }
=============================================================================
