---------------------------- MODULE MCWhiteboard ----------------------------
(***************************************************************************)
(* Instances of Whiteboard for TLC: one seeded text, at the place where    *)
(* the pointer starts.                                                     *)
(***************************************************************************)
EXTENDS Whiteboard

CONSTANT SeedIds

MCSeeds == [k \in SeedIds |-> [kind |-> "text", x |-> 0, text |-> NoText]]

Cast(peers, pages, canvases, ins, oth, lost) ==
    [peers |-> peers, pages |-> pages, canvases |-> canvases,
     inputs |-> ins, others |-> oth, drops |-> lost]

\* One page on its own, and with a socket that fails; two workers with two edits,
\* and with a socket that fails; three workers that seed the board; a page whose
\* shapes another peer edits, and one that is dragging while the other seeds.
MCCasts == { Cast({1}, {1}, {1}, 4, 0, 0), Cast({1}, {1}, {}, 5, 0, 0),
             Cast({1}, {1}, {1}, 2, 0, 1),
             Cast({1, 2}, {}, {}, 0, 2, 0), Cast({1, 2}, {}, {}, 0, 1, 1),
             Cast({1, 2, 3}, {}, {}, 0, 0, 0),
             Cast({1, 2}, {1}, {}, 1, 1, 0), Cast({1, 2}, {1}, {}, 2, 0, 0) }
=============================================================================
