---------------------------- MODULE MCManuscript ---------------------------
(* An instance of Manuscript.                                                *)
EXTENDS Manuscript

\* Both rewrite modes, with and without the mathematical mode; a run without a
\* baseline, whose loops are skipped; a run of stubs.
SomeModes ==
    [holistic : {TRUE}, mathematical : BOOLEAN, baseline : {TRUE}, stub : {FALSE}]
        \cup [holistic : {FALSE}, mathematical : {TRUE}, baseline : {TRUE}, stub : {FALSE}]
        \cup [holistic : {TRUE}, mathematical : {TRUE}, baseline : {FALSE}, stub : {FALSE}]
        \cup [holistic : {TRUE}, mathematical : {FALSE}, baseline : {FALSE}, stub : {TRUE}]

TwoDims == {"compliance", "novelty"}
=============================================================================
