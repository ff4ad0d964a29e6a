--------------------------- MODULE MCSqliteInstall ---------------------------
(* SqliteInstall for TLC: the three tables of the code, in main()'s order.  *)
EXTENDS SqliteInstall, TLC

MCSchema == <<"posts", "terms", "post_terms">>
MCTable == {"posts", "terms", "post_terms"}
WorkerSymmetry == Permutations(Worker)
=============================================================================
