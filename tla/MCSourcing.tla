---------------------------- MODULE MCSourcing ----------------------------
(* Three records of two works and one the mining adds; a paper of the user's   *)
(* own and one under the id of a record.                                       *)
EXTENDS Sourcing

Rec(client, work, fit, verified, venue, author, nr) ==
    [client |-> client, work |-> work, fit |-> fit, verified |-> verified, allowed |-> TRUE,
     venue |-> venue, author |-> author, year |-> 10 * nr, access |-> "open", text |-> FALSE,
     hits |-> FALSE, nr |-> nr]

\* Three good records, of which two share their venue and two their author; the
\* last names the kernel's material.
Rich == [a |-> Rec("open", "w1", "strong", TRUE, "v1", "x", 1),
         b |-> Rec("open", "w2", "strong", TRUE, "v1", "y", 2),
         c |-> Rec("canon", "w3", "strong", TRUE, "v2", "y", 3)]
Named == [Rich EXCEPT !.c.hits = TRUE]

\* Little fits, one record is not verified, one is a duplicate.
Poor == [a |-> Rec("open", "w1", "none", TRUE, "v1", "x", 1),
         b |-> Rec("open", "w2", "rescue", FALSE, "v2", "y", 2),
         c |-> Rec("shadow", "w1", "strong", TRUE, "v2", "z", 3)]

BothLibraries == {Named, Poor}
===========================================================================
