------------------------------ MODULE MCTools ------------------------------
(***************************************************************************)
(* An instance of Tools for TLC.                                           *)
(***************************************************************************)
EXTENDS Tools, TLC

CONSTANTS p1, p2

-----------------------------------------------------------------------------
(* xzb: two trades, a payment by WeChat without a number and one by        *)
(* Alipay; two versions of the rules file, the second of which leaves a    *)
(* category out of the budget.                                             *)

MCTrade ==
  1 :> [source |-> "wechat", numbered |-> FALSE, inOut |-> "out", remark |-> "none", price |-> 2]
  @@ 2 :> [source |-> "alipay", numbered |-> TRUE, inOut |-> "out", remark |-> "text", price |-> 3]

Is(f, v) == [field |-> f, values |-> {v}]

MCRuleSets ==
  LET other == [name |-> "other", included |-> TRUE]
      food  == [name |-> "food", any |-> {Is("trade", 1), Is("trade", 2)}, all |-> {}]
      back  == [name |-> "back", any |-> {}, all |-> {Is("trade", 1), Is("state", "part")}]
      off   == [name |-> "off", included |-> FALSE, any |-> {Is("category", "food")}, all |-> {}]
  IN  {[categories |-> <<food>>, budget |-> <<>>, default |-> other],
       [categories |-> <<back, food>>, budget |-> <<off>>, default |-> other]}

-----------------------------------------------------------------------------
(* images: one topic in a container; extra directories beside it, in it    *)
(* and around one.                                                         *)

D(names) == [n \in DOMAIN names |-> <<names[n], 0>>]
F(where, chain) == [dir |-> D(where), base |-> <<"a", chain>>, id |-> <<where, chain>>]

MCExpected == {D(<<"k", "x">>)}
MCDirs     == MCExpected \cup {D(<<"k">>), D(<<"k", "y">>), D(<<"z">>), D(<<"z", "w">>)}
MCImages   == {F(<<>>, <<>>), F(<<"k">>, <<>>), F(<<"k", "x">>, <<>>),
               F(<<"k", "x">>, <<"1">>), F(<<"k", "x">>, <<"1", "1">>),
               F(<<"z", "w">>, <<"1">>),
               [dir |-> <<<<"../temp", 1>>>>, base |-> <<"a", <<>>>>, id |-> <<<<"../temp">>, <<>>>>]}

-----------------------------------------------------------------------------
(* data: namesakes with and without a URL, an item without a usable name,  *)
(* and a list of authors the check accepts.                                *)

MCItems ==
  {"name" :> "n" @@ "author" :> "a" @@ "url" :> "u",
   "name" :> "n" @@ "author" :> "a",
   "name" :> "null" @@ "url" :> "u",
   "name" :> "n" @@ "author" :> "list" @@ "sub" :> <<"score" :> "bad">>}

-----------------------------------------------------------------------------
(* audit: what may be written. *)

MCTexts == {{}, {"malformed"}}

-----------------------------------------------------------------------------
(* content: every kind of site, feeds of up to three items.                *)

FeedItem(own, says, tag, link) == [own |-> own, says |-> says, tag |-> tag, link |-> link]

MCFeeds ==
  LET items == {FeedItem(TRUE, FALSE, "none", "none"), FeedItem(TRUE, TRUE, "short", "long"),
                FeedItem(FALSE, TRUE, "long", "none"), FeedItem(FALSE, FALSE, "none", "long")}
  IN  UNION {[1..n -> items] : n \in 0..3}

Sym == Permutations({p1, p2})
=============================================================================
