---------------------------- MODULE MCFallbackChain ----------------------------
EXTENDS FallbackChain
SeedDef == <<"a", "b", "c">>
PresetDef == {<<"c", "b", "a">>}
=============================================================================
