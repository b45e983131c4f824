------------------------------- MODULE MCAskQuery -------------------------------
(* A small instance of AskQuery: two requests at a time for one question   *)
(* over two tables.                                                        *)
EXTENDS AskQuery

CONSTANTS t1, t2, w1, w2, q1

MCTables == {t1, t2}
MCTasks == {w1, w2}
MCQuestions == {q1}

Text(seen, reads) == [seen |-> seen, reads |-> reads]

(* One text of each sort: no tables; FROM t1; FROM t1 JOIN t2; FROM t1, t2; *)
(* FROM "t1"; a wrong column of t2; and one that is no SELECT.              *)
MCSql == {Text({}, {}), Text({t1}, {t1}), Text({t1, t2}, {t1, t2}),
          Text({t1}, {t1, t2}), Text({}, {t1}), Text({t2}, {t2, Wrong}),
          Text({Bad}, {})}
=============================================================================
