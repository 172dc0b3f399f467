----------------------------- MODULE TopicPath -----------------------------
(***************************************************************************)
(* How a topic path that the AI made up is mapped to one of the topics     *)
(* (internal/docs/wiki/classify/classifier.go).                            *)
(*                                                                         *)
(* A path is the sequence of its segments; a topic of the wiki has three:  *)
(* tag, type and leaf.  Segments are compared as the code compares them,   *)
(* without case, stars and notes in parentheses.  A path that leaves the   *)
(* wiki is in no catalog, and is treated as any other unknown path.        *)
(***************************************************************************)
EXTENDS Naturals, Sequences, FiniteSets

CONSTANTS
  Topics,  \* the paths the topics in data/gh ever have
  Title,   \* Title[t]: the title of topic t
  Alike    \* pairs of different leaves that leafKeysSimilar accepts

ASSUME TopicPathAssumption ==
  /\ IsFiniteSet(Topics)
  /\ Topics \subseteq Seq(STRING) \ {<<>>}
  /\ Title \in [Topics -> STRING]
  /\ Alike \subseteq STRING \X STRING

\* The path "", which also says that there is none.
NoPath == <<>>

\* What the AI answers when it has no topic.
Sentinels == {NoPath, <<"none">>, <<"inbox">>}

\* ValidateTopicPathDepth
Deep(topics) == {t \in topics : Len(t) = 3}

SimilarLeaf(a, b) == "" \notin {a, b} /\ (a = b \/ <<a, b>> \in Alike)

\* collectFuzzyTopicHits: the topics whose leaf is like that of path, or,
\* where the caller knows it, whose title is.
Hits(path, topics, titled) ==
  LET leaf == path[Len(path)]
  IN {t \in Deep(topics) :
        SimilarLeaf(t[3], leaf) \/ (titled /\ SimilarLeaf(Title[t], leaf))}

SameTag(path, hits) == {t \in hits : t[1] = path[1]}

SameTagType(path, hits) == {t \in SameTag(path, hits) : t[2] = path[2]}

\* pickUniqueHit
Unique(hits) ==
  IF Cardinality(hits) = 1 THEN CHOOSE t \in hits : TRUE ELSE NoPath

\* disambiguateFuzzyHits: the only hit, or the only one of the same tag and
\* type, or the only one of the same tag.
Disambiguated(path, hits) ==
  IF Unique(hits) # NoPath THEN Unique(hits)
  ELSE IF Len(path) >= 3 /\ Unique(SameTagType(path, hits)) # NoPath
  THEN Unique(SameTagType(path, hits))
  ELSE IF Len(path) >= 2 THEN Unique(SameTag(path, hits)) ELSE NoPath

FuzzyMatch(path, topics, titled) ==
  Disambiguated(path, Hits(path, topics, titled))

\* resolveWritableTopicPath
WritableTopic(path, topics) ==
  IF path \in Sentinels THEN NoPath
  ELSE IF path \in Deep(topics) THEN path
  ELSE FuzzyMatch(path, topics, TRUE)

\* ResolveTopicPathAmong, which knows the paths only
ResolvedAmong(path, topics) ==
  IF path = NoPath THEN NoPath
  ELSE IF path \in topics THEN path
  ELSE FuzzyMatch(path, topics, FALSE)
=============================================================================
