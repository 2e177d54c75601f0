------------------------------ MODULE MCCrawl ------------------------------
(* Five pages. The host may refuse u1, u3 and u5, and refuses u2 to HTTP and *)
(* to the browser alike; robots.txt keeps u4 out.                            *)
EXTENDS Crawl

CONSTANTS u1, u2, u3, u4, u5

MCLinks == (u1 :> <<u2, u1, u3>>) @@ (u2 :> <<u3, u4>>) @@ (u3 :> <<u4, u5>>)
           @@ (u4 :> <<>>) @@ (u5 :> <<u1>>)
MCBatch == <<u1, u2, u3, u5>>
MCSeeds == <<u1, u2>>
Answers(http, browser) == [http |-> http, browser |-> browser]

MCSite == (u1 :> Answers({"page", "wall"}, {"page"}))
          @@ (u2 :> Answers({"refused"}, {"wall", "nothing"}))
          @@ (u3 :> Answers({"refused", "doc", "thin"}, {"page", "nothing"}))
          @@ (u4 :> Answers({"page"}, {"page"}))
          @@ (u5 :> Answers({"dead", "refused"}, {"unparsable", "wall"}))
=============================================================================
