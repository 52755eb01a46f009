--------------------------- MODULE MCProgramTexts ---------------------------
EXTENDS AstPrinter
x == <<"x">>
Palette(names, literals, operators, signs, wrappers, statements, open, wide, max) ==
    [names |-> names, literals |-> literals, operators |-> operators, signs |-> signs,
     wrappers |-> wrappers, statements |-> statements, open |-> open, wide |-> wide, max |-> max]
Just == {"expression statement"}

\* One operator of each level, and those that share a first character.
MCOperators == Palette({x}, {<<"1">>},
    {<<"or">>, <<"and">>, <<"=", "=">>, <<">">>, <<">", "=">>, <<"-">>, <<"*">>},
    {<<"!">>, <<"-">>}, {}, Just, 3, 2, 5)
\* Calls, members and anonymous methods, among operators and assignments.
MCMembers == Palette({x}, {}, {<<"=", "=">>}, {<<"-">>},
    {"assignment", "get", "set", "call"}, Just, 3, 2, 5)
MCMethods == Palette({x}, {}, {}, {}, {"call", "anonymous method"},
    {"expression statement", "var", "block"}, 2, 2, 5)
\* Statements, one inside the other and one after the other.
MCControlFlow == Palette({x}, {}, {}, {}, {},
    {"expression statement", "if", "loop", "block"}, 1, 2, 6)
MCForLoops == Palette({x}, {}, {}, {}, {"assignment"}, {"expression statement", "var", "for"}, 2, 2, 6)
MCDeclarations == Palette({x}, {}, {}, {}, {}, {"return", "block", "function", "class"}, 1, 3, 5)
\* Names that begin with, or are, the letters of some rule.
MCWords == Palette({<<"true", "x">>, <<"return", "x">>, <<"for", "x">>, <<"or", "x">>, <<"if">>},
    {<<"'s'">>}, {<<"or">>, <<"+">>}, {<<"!">>}, {"get", "assignment"},
    {"expression statement", "return"}, 2, 2, 3)
\* Gets and sets, typed parameters, a type with the name the dump gives to none.
MCPrinted == Palette({x, <<"any">>}, {}, {}, {}, {"get", "set"},
    {"expression statement", "var", "block", "function"}, 2, 1, 4)
\* An int and a float, floats that print alike, strings with and without a line break.
MCLiterals == Palette({x}, {<<"2">>, <<"2", ".", "0">>, <<"1", ".", "5">>, <<"'s'">>, <<Broken>>},
    {}, {}, {"call"}, Just, 3, 2, 5)
\* A four-bit int, a float of two significant bits and one fractional bit.
MCFloats == {0, 1, 2, 3, 4, 6, 8, 12, 16, 24} \cup {-f : f \in {1, 2, 3, 4, 6, 8, 12, 16, 24}}
\* One significant decimal digit: 1.5 is printed as 1 or as 2.
MCPrintable == MCFloats \ {3, -3}

MCPalettes == {MCOperators, MCMembers, MCMethods, MCControlFlow, MCForLoops, MCDeclarations,
               MCWords, MCPrinted, MCLiterals}

\* The names of test/unit_tests/grammar.cpp: with a digit, or with a keyword in them.
MCTestNames == {Palette({<<"a">>, <<"_a">>, <<"a", "1">>, <<"true", "_i">>, <<"false", "_i">>,
    <<"null", "_i">>, <<"var", "_i">>, <<"if", "_i">>, <<"else", "_i">>, <<"while", "_i">>,
    <<"for", "_i">>, <<"or", "_i">>, <<"and", "_i">>}, {}, {}, {}, {}, Just, 1, 1, 1)}
============================================================================
