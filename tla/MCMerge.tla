------------------------------- MODULE MCMerge -------------------------------
(* Small instances of Merge: the ancestor has the first of two rows.  What  *)
(* ours does to a row meets everything theirs does: it leaves alone,        *)
(* changes or deletes the first, and adds the second or not; theirs as      *)
(* well, in the same column, alike or not, or in the other column.          *)
EXTENDS Merge

Old == <<0, 0>>

SmallBases == {<<Old, NoRow>>}
SmallOurs == {<<r, s>> : r \in {Old, NoRow, <<1, 0>>}, s \in {NoRow, <<1, 0>>}}
SmallTheirs == {<<r, s>> : r \in {Old, NoRow, <<1, 0>>, <<2, 0>>, <<0, 1>>},
                           s \in {NoRow, <<1, 0>>, <<2, 0>>}}

NewRows == {<<2, 2>>, NoRow}
=============================================================================
