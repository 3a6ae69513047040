------------------------------ MODULE MCRouter ------------------------------
(* Two rules that overlap in every way the trie distinguishes, and *)
(* every url of up to four characters.                                     *)
EXTENDS Router

SomeRules == {
  <<"/">>, <<"/", "a">>, <<"/", "a", "/">>, <<"/", "a", "a", "1">>, <<"/", "<int>">>,
  <<"/", "<str>", "/">>, <<"/", "<path>">>, <<"/", "<uint>", "/", "<string>">>,
  <<"/", "<double>", "<path>">>, <<"a", "<int>", "<int>">>, <<"<int>">>, <<"/", "<other>">>}
SomeSignatures == {<<>>, <<"INT">>, <<"STRING">>, <<"UINT", "STRING">>, <<"DOUBLE", "STRING">>, <<"INT", "INT">>}
SomeUrls == {<<"/">> \o s : s \in BoundedSeq({"/", "a", "1", "-", "."}, 3)}
            \cup {<<"a", "-", "1", "+", "1">>, <<"1">>}
=============================================================================
