----------------------------- MODULE MCClipText -----------------------------
EXTENDS ClipText

MCChars == {"a", "b", " ", "\n", "]", "1"}
MCNewLine == "\n"
MCSpaces == {" ", "\n"}
MCDocuments ==
  BoundedSeq({"a", "b", " ", "\n"}, 5)
    \union {<<"a", " ", "\n", "b", "]">>, <<"1", "]", "a", "b", "a", "b">>,
            <<"\n", "\n", "a", "1", "]", "\n">>,
            <<"a", "b", "a", "b", " ", "\n", "a", "b", "a", "b">>}
=============================================================================
