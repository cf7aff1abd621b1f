---------------------------- MODULE MCProviderStream ----------------------------
EXTENDS ProviderStream
Line(sort, text, calls, fin) == [sort |-> sort, text |-> text, calls |-> calls, fin |-> fin]
Call(id, name) == [id |-> id, name |-> name]
LineDef == {
    Line("data", "b", <<Call("c1", "f")>>, ""),
    Line("data", "", <<Call("none", "f"), Call("none", "g")>>, ""),
    Line("data", "a", <<>>, "MAX_TOKENS"),
    Line("data", "b", <<Call("c1", "f"), Call("c1", "f")>>, "STOP"),
    Line("junk", "", <<>>, ""),
    Line("bare", "", <<>>, ""),
    Line("done", "", <<>>, "")}
=============================================================================
