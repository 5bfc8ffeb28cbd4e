--------------------------- MODULE MCGitHubPages ----------------------------
(***************************************************************************)
(* Three pages of two, lists of up to seven elements, one more than the    *)
(* pages hold, and a spare element.                                        *)
(***************************************************************************)
EXTENDS GitHubPages

MCThings     == 1..8
MCBeginnings == {[k \in 1..n |-> k] : n \in 0..7}
=============================================================================
