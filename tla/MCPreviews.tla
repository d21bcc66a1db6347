----------------------------- MODULE MCPreviews -----------------------------
EXTENDS Previews

MCCommitsOf == [r \in Request |-> IF r = 1 THEN {1} ELSE {1, 2}]
MCOrigins   == {<<"own", "full">>, <<"none", "build">>}
=============================================================================
