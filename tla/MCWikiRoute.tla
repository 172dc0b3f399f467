---------------------------- MODULE MCWikiRoute ----------------------------
(***************************************************************************)
(* WikiRoute with two topics of one leaf, a third whose title differs from *)
(* its directory, and a path that is too short to be a topic.              *)
(***************************************************************************)
EXTENDS WikiRoute

Rag  == <<"ai", "llm", "rag">>
Rags == <<"ai", "agent", "rag">>
Quic == <<"os", "net", "quic">>
Net  == <<"os", "net">>

MCTopics == {Rag, Rags, Quic, Net}

MCTitle == [t \in MCTopics |-> CASE t = Quic -> "http3" [] t = Net -> "net" [] OTHER -> "rag"]

MCAlike == {<<"quic", "quicgo">>, <<"quicgo", "quic">>}

\* An empty data/gh, all of the topics, and what an edit leaves of them.
MCCatalogs == {{}, MCTopics, {Rags, Quic}}

\* A sentinel, a topic, its leaf under another type, a title, and a path like
\* a topic's with the tag alone.
MCAiPaths == {<<"inbox">>, Rag, <<"ai", "misc", "rag">>, <<"os", "h", "http3">>,
              <<"os", "quicgo">>}
=============================================================================
