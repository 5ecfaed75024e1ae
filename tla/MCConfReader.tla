---------------------------- MODULE MCConfReader ----------------------------
\* ConfReader on four files of at most two lines. The folder "d" holds a and b;
\* "gone" does not exist. postgresql.conf may include any of them and itself.
EXTENDS ConfReader

L(word, value) == [word |-> word, value |-> value]
Upto2(lines) == {<<>>} \cup {<<l>> : l \in lines} \cup {<<l, m>> : l, m \in lines}

MCFolder == [folder \in {"d"} |-> <<"a", "b">>]
ConfLines == {L("port", 1), L("port", 65536), L("other", 0), L("include", "a"),
              L("include", "conf"), L("includeIfExists", "b"),
              L("includeDir", "d"), L("includeDir", "gone")}
ALines == {L("port", 65535), L("port", 0), L("include", "b"), L("include", "a"),
           L("includeDir", "d"), L("syntaxError", 0)}
MCDisks ==
  {[conf |-> conf, auto |-> auto, a |-> a, b |-> b] :
     conf \in Upto2(ConfLines) \cup {Missing},
     auto \in {Missing, <<L("port", 2)>>, <<L("include", "a")>>},
     a \in Upto2(ALines) \cup {Missing},
     b \in {Missing, <<L("port", 3)>>, <<L("include", "a")>>, <<L("includeIfExists", "auto")>>}}
=============================================================================
