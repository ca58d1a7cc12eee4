---------------------------- MODULE MCSearchTree ----------------------------
(* SearchTree on a small tree. *)
EXTENDS SearchTree, TLC

CONSTANTS top, reply, tbWin, oldDraw

\* The root's only move leads to reply, which has two: tbWin is a tablebase win,
\* oldDraw may have visits as a two-fold draw of an earlier search.
TreeNodes == {top, reply, tbWin, oldDraw}
TreeParent == (reply :> top) @@ (tbWin :> reply) @@ (oldDraw :> reply)
TreeAbove == (top :> {}) @@ (reply :> {top})
             @@ (tbWin :> {reply, top}) @@ (oldDraw :> {reply, top})
OnlyTbWin == {tbWin}
OnlyOldDraw == {oldDraw}

WorkerSymmetry == Permutations(Workers)
=============================================================================
