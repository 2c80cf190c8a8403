------------------------- MODULE MCIdentitySignals -------------------------
(* Instances of IdentitySignals for TLC.                                    *)
EXTENDS IdentitySignals

CONSTANTS register, directory, parent

\* Two sources name the parent: an attempt meets what it raised itself.
MCFilings == {<< <<register, parent>>, <<directory, parent>> >>}
=============================================================================
