----------------------------- MODULE MCUpgrade -----------------------------
(* An image of two sectors, answers that are something else, an image that  *)
(* is followed by more, and a length that no area holds.                    *)
EXTENDS Upgrade

MCImage == [k \in 1..L |-> k]

MCReplies == {
    [len |-> L,  body |-> MCImage],
    [len |-> L,  body |-> Append(MCImage, X)],
    [len |-> 1,  body |-> <<X>>],
    [len |-> 0,  body |-> <<>>],
    [len |-> (NSEC + 2) * SEC, body |-> <<X>>]}
=============================================================================
