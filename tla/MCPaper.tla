------------------------------ MODULE MCPaper ------------------------------
EXTENDS PaperLoop

\* run_grid.py and run_paper_loops.py on the same grid deployment.
MCServed == [s \in {"run_grid", "run_paper_loops"} |->
               IF s = "run_grid" THEN <<"grid">> ELSE <<"grid", "lp">>]
=============================================================================
