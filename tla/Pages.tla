--------------------------------- MODULE Pages ---------------------------------
(***************************************************************************)
(* A page of a list that is ordered by id, latest first, as the            *)
(* repositories ask the database for it (orderBy desc, take).              *)
(***************************************************************************)
EXTENDS Naturals, FiniteSets

Before(ids, i)       == {j \in ids : j > i}
Older(ids, cursor)   == {i \in ids : cursor # 0 => i < cursor}
LatestOf(ids, limit) == {i \in ids : Cardinality(Before(ids, i)) < limit}
=============================================================================
