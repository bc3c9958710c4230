-------------------------- MODULE MCNotebookClient --------------------------
(* NotebookClient on small instances *)
EXTENDS NotebookClient, TLC

CONSTANTS c1, c2, a

OneCell == <<a>>
FirstCell == {<<c1, 1>>}

Plain == [op |-> "ix", kinds |-> <<>>, cells |-> <<>>, of |-> NoJob, form |-> "json", wait |-> TRUE, timed |-> FALSE]
Ix(kinds) == [Plain EXCEPT !.kinds = kinds]
Exec(cells) == [Plain EXCEPT !.op = "exec", !.cells = cells, !.form = "brief"]
Op(op) == [Plain EXCEPT !.op = op]

Watch == [Ix(<<"code">>) EXCEPT !.form = "watch"]
Batch == Ix(<<"code", "code">>)
BriefBatch == [Ix(<<"markdown", "code">>) EXCEPT !.form = "brief", !.timed = TRUE]
NoWait == [Ix(<<"code">>) EXCEPT !.form = "brief", !.wait = FALSE]
Await == [Op("await") EXCEPT !.of = <<c1, 1>>, !.timed = TRUE]

Together(worker, other) == {(c1 :> w) @@ (c2 :> o) : w \in worker, o \in other}

(* What one client runs, and another meanwhile *)
TheCommands ==
  Together({Watch, Batch, BriefBatch, NoWait, Exec(<<a>>), Op("run-all")},
           {[Exec(<<a>>) EXCEPT !.wait = FALSE], Op("restart"), Op("stop"), Await,
            [Op("delete") EXCEPT !.cells = <<a>>], [Op("delete") EXCEPT !.cells = <<<<c1, 1>>>>]})
  \cup Together({Batch, BriefBatch, NoWait}, {Exec(<<<<c1, 1>>>>)})
  \cup Together({NoWait}, {[Await EXCEPT !.form = "watch"]})
  \cup Together({BriefBatch, NoWait, Exec(<<a>>), Op("run-all")}, {Op("restart-run-all")})

=============================================================================
