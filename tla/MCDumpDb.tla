------------------------------- MODULE MCDumpDb -------------------------------
(* DumpDb for TLC: the values are in MCDumpDb.cfg.                          *)
EXTENDS DumpDb

(* Every database of at most two tables, with one row in all and a trigger  *)
(* of the view at most; the triggers of tables come with the commits.       *)
MCStored ==
    {d \in [tables : UNION {[1..n -> Table] : n \in 0..2},
            rows : [Table -> {<<>>} \cup {<<r>> : r \in Row}],
            triggers : {<<>>} \cup {<<t>> : t \in View}] :
        Consistent(d) /\ Cardinality({t \in Table : d.rows[t] # <<>>}) <= 1}
=============================================================================
