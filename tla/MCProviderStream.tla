-------------------------- MODULE MCProviderStream --------------------------
(* Values for the constants of ProviderStream.  A suffix of a text can be   *)
(* two beginnings of the credential, and two occurrences of it can overlap. *)
EXTENDS ProviderStream

MCSecret == <<"a", "a", "b", "a">>
MCDeltas == {Text("answer", <<"a", "a">>), Text("reasoning", <<"b", "a">>),
             Text("answer", <<"a", "b", "a">>)}

\* Reasoning that the credential may begin with, and an answer.
MCChannels == {Text("reasoning", <<"a">>), Text("answer", <<"b">>)}
=============================================================================
