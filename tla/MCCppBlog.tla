------------------------------ MODULE MCCppBlog ------------------------------
(* CppBlog for TLC: the three tables of the code, in main()'s order.        *)
EXTENDS CppBlog, TLC

MCSchema == <<"posts", "terms", "post_terms">>
MCTable == {"posts", "terms", "post_terms"}
WorkerSymmetry == Permutations(Worker)
=============================================================================
