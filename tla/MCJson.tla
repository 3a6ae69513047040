------------------------------- MODULE MCJson -------------------------------
(* Two assignments below the root and one level down, and every text of a  *)
(* few characters of one of four kinds: numbers, strings, lists, objects.  *)
EXTENDS Json

Str(s) == [t |-> "String", d |-> <<>>, s |-> s]
Num(d) == [t |-> "Number", d |-> d, s |-> <<>>]
Million == <<"1", "0", "0", "0", "0", "0", "0">>
Nan == <<"n", "a", "n">>
SomeScalars == {[t |-> "True", d |-> <<>>, s |-> <<>>], Str(<<Quote, "01", "hi">>), Str(<<"LF", Backslash>>),
                Num(Million), Num(Nan)}
SomeVectors == {<<>>, <<Num(<<"1">>), Str(<<"a">>)>>}
I(i) == [index |-> i]
K(k) == [key |-> k]
SomePaths == {<<>>, <<I(0)>>, <<I(1)>>, <<K(<<"a">>)>>, <<K(<<Quote>>)>>, <<I(0), I(1)>>, <<I(0), K(<<"a">>)>>,
              <<K(<<"a">>), K(<<"b">>)>>, <<K(<<"a">>), I(0)>>}
ShortForms == [d \in {Million} |-> <<"1", "e", "+", "0", "6">>]
NanTexts == {Nan}

Tokens(ts, n) == {FlattenSeq(s) : s \in BoundedSeq(ts, n)}
Chars(cs, n) == BoundedSeq(cs, n)
SomeTexts ==
  Chars({"-", "0", "1", ".", "e", "+"}, 5)
  \cup {<<Quote>> \o s : s \in Chars({Quote, Backslash, "u", "n"}, 4)}
  \cup {<<Quote, Backslash, "u", "0", "8", "0">> \o s : s \in Chars({Quote, "f", "g"}, 2)}
  \cup Tokens({<<"[">>, <<"]">>, <<",">>, <<"1">>, <<" ">>}, 5)
  \cup Tokens({<<"{">>, <<"}">>, <<":">>, <<",">>, <<Quote, "a", Quote>>, <<"n", "u", "l", "l">>}, 5)
  \cup {<<"{">> \o s \o <<"}">> : s \in Tokens({<<Quote, "a", Quote, ":">>, <<"t", "r", "u", "e">>, <<",">>, <<" ">>}, 5)}
  \cup {<<"[">> \o [i \in 1 .. 2 * n - 1 |-> IF i % 2 = 1 THEN "1" ELSE ","] \o <<"]">> : n \in 1 .. 10}
  \cup {<<"f", "a", "l", "s", "e">>, <<"f", "a">>, <<"t", "r">>, <<"1", "LF">>, <<"1", " ", "1">>}
=============================================================================
