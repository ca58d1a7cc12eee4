------------------------------ MODULE MCBounds ------------------------------
(* Bounds on a tree of eleven positions, searched from its start or below. *)
EXTENDS Bounds, TLC

\* 2 has the moves 4 and 5, with the leaves 6, 7 (a repetition that hides a win)
\* and 8, 9.  3 is a draw by rule with moves left.
TreeNodes == 1 .. 11
TreeParent == 2 :> 1 @@ 3 :> 1 @@ 4 :> 2 @@ 5 :> 2 @@ 6 :> 4 @@ 7 :> 4 @@ 8 :> 5
              @@ 9 :> 5 @@ 10 :> 3 @@ 11 :> 10
TreeAbove ==
    1 :> {} @@ 2 :> {1} @@ 3 :> {1} @@ 4 :> {1, 2} @@ 5 :> {1, 2} @@ 6 :> {1, 2, 4}
    @@ 7 :> {1, 2, 4} @@ 8 :> {1, 2, 5} @@ 9 :> {1, 2, 5} @@ 10 :> {1, 3}
    @@ 11 :> {1, 3, 10}
TreeValue == <<0, 0, 0, -1, 0, 0, 1, -1, 0, 1, -1>>
TreeGameOver == {3, 6, 8, 9, 11}
TreeTwoFold == {7}

=============================================================================
