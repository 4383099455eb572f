----------------------------- MODULE MCJsonText -----------------------------
EXTENDS JsonGrammar

E == <<"C3", "A9">>
G == <<"F0", "9D", "84", "9E">>
MCMultiByte == {E, G}
MCEscaped == [h \in {"0000", "001F", "00E9"} |->
                 CASE h = "0000" -> <<"nul">> [] h = "001F" -> <<"^">> [] h = "00E9" -> E]

In(symbols, inside, length, flags) ==
    [symbols |-> symbols, inside |-> inside \cup {Quote}, length |-> length, flags |-> flags]

\* Each kind of text on its own: what lies outside strings, what lies inside, how
\* long the text may be, and the flags of the load and of the dump.
InArrays == In({"[", "]", ",", "true", "newline"}, {}, 7, {"compact"})
InNested == In({"[", "]"}, {}, 8, {"indent"})
InObjects(flags) == In({"{", "}", Quote, ":", ",", "true"}, {"e"}, 12, flags)
InStrings == In({Quote, "^"}, {Backslash, "n", "e", "newline"}, 6, {"any"})
InTwoBytes(flags) == In({Quote, "C3"}, {"C3", "A9", "e"}, 6, {"any"} \cup flags)
InFourBytes(flags) == In({Quote}, {"F0", "9D", "84", "9E"}, 6, {"any"} \cup flags)
InSurrogates == In({Quote}, {Backslash, "u", High, Low, "00E9", "e"}, 8, {"any", "ascii"})
InNul(flags) == In({Quote, "{", "}", ":", "true"}, {Backslash, "u", "0000", "001F"}, 8,
                   {"any"} \cup flags)
InNumbers(flags) == In({"-", "0", "1", ".", "e", " "}, {}, 5, {"any"} \cup flags)
InPrefixes == In({"0", "1", "[", "]", "true", "newline"}, {}, 4, {"any", "noeof"})

MCInputs ==
    {InArrays, InNested, InObjects({"dup", "indent"}), InObjects({"sort"}), InStrings,
     InTwoBytes({}), InTwoBytes({"ascii"}), InFourBytes({}), InFourBytes({"ascii"}),
     InSurrogates, InNul({"nul"}), InNul({}),
     InNumbers({}), InNumbers({"real"}), InPrefixes}
=============================================================================
