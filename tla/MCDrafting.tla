----------------------------- MODULE MCDrafting ----------------------------
(* An instance of Drafting.                                                  *)
EXTENDS Drafting

CONSTANTS a, b

TwoSources == {a, b}

Study(list, low, vouched, bound, analytic, numbered) ==
    [shortlist |-> list, low |-> low, vouched |-> vouched, known |-> TRUE,
     bound |-> bound, analytic |-> analytic, numbered |-> numbered, repairs |-> numbered]

\* The best source is of low relevance, and the reranker vouches for it or not;
\* the default policy, a soft one and none; both ways to cite; nothing to cite;
\* a topic without keywords.
SomeStudies ==
    {Study(<<a, b>>, {a}, {}, "strict", "soft", FALSE),
     Study(<<a, b>>, {a}, {a}, "strict", "soft", TRUE),
     [Study(<<a>>, {}, {}, "soft", "strict", FALSE) EXCEPT !.known = FALSE],
     Study(<<a>>, {}, {}, "off", "off", TRUE),
     Study(<<>>, {}, {}, "strict", "soft", FALSE)}
=============================================================================
