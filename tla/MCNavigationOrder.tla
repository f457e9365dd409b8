--------------------------- MODULE MCNavigationOrder ---------------------------
(* A group and a feed of the same id, and a second release that drops a feed  *)
(* of the first, adds one and turns two feeds into a group.                   *)
EXTENDS NavigationOrder, TLC

Stream(id, group) == [id |-> id, kind |-> "stream", group |-> group]
Ranked(id) == [id |-> id, kind |-> "ranked", group |-> ""]

MCReleases ==
  << [feeds |-> <<Stream("a", ""), Stream("b", "a"), Stream("c", "a"), Ranked("r")>>,
      groups |-> {"a"}],
     [feeds |-> <<Stream("d", ""), Stream("b", "a"), Stream("c", "a"), Ranked("r")>>,
      groups |-> {"a"}] >>

ClientSymmetry == Permutations(Client)
=============================================================================
