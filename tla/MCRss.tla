-------------------------------- MODULE MCRss --------------------------------
(***************************************************************************)
(* An instance of Rss for TLC.                                             *)
(***************************************************************************)
EXTENDS Rss, TLC

CONSTANTS p1, p2

-----------------------------------------------------------------------------
(* send: two feeds of one host, one of them in two categories, so that one *)
(* URL can fail twice in a run and both categories write the maps; a       *)
(* timeout, a gateway that blocks and says so, and a page that is gone.    *)

MCUrls        == {"u1", "u2"}
MCUrlOrder    == <<"u1", "u2">>
MCHostOf      == [u \in MCUrls |-> "host"]
MCCategories  == << {"u1", "u2"}, {"u2"} >>
MCFacts       == [slow    |-> {"deadline", "urlTimeout", "txtTimeout"},
                  blocked |-> {"risk", "s5xx"},
                  gone    |-> {"s4xx", "txt4xx"}]
MCErrors      == DOMAIN MCFacts

-----------------------------------------------------------------------------
(* hunt: two providers that find the same two sources of one domain, and a *)
(* blocked one, in different orders; one score on another scale, one below *)
(* zero, and the rest not given.                                           *)

MCSources        == {"s1", "s2", "bad"}
MCDomainOf       == [s1 |-> "dom", s2 |-> "dom", bad |-> "badDom"]
MCTraits         == [s1 |-> {"domain"}, s2 |-> {"repository", "domain"}, bad |-> {}]
MCWeight         == [exa |-> 100, tavily |-> 0, source |-> 100, repo |-> 70, newsletter |-> 0,
                     author |-> 0, unknown |-> 0]
MCRawScore       == [exa    |-> [s1 |-> 250, s2 |-> 90, bad |-> 0],
                     tavily |-> [s1 |-> 0, s2 |-> 0, bad |-> -5]]
MCHuntCategories == <<"cat">>
MCProviders      == <<"exa", "tavily">>

-----------------------------------------------------------------------------
(* trns: two processes; an episode of Xiaoyuzhou, one with a JSON          *)
(* transcript and one without either.                                      *)

Json == [type |-> "json", named |-> TRUE, extension |-> "other", data |-> "json"]
Html == [type |-> "html", named |-> TRUE, extension |-> "html", data |-> "html"]

MCEpisodes == << [media |-> TRUE, audio |-> TRUE, eid |-> TRUE, links |-> <<>>],
                 [media |-> TRUE, audio |-> FALSE, eid |-> FALSE, links |-> <<Html, Json>>],
                 [media |-> TRUE, audio |-> FALSE, eid |-> FALSE, links |-> <<>>] >>

Sym == Permutations({p1, p2})
=============================================================================
