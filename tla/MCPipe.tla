------------------------------- MODULE MCPipe -------------------------------
EXTENDS Pipe
CONSTANTS a1, a2, a3, a4

\* A upipe between two and between four applications, and a bipipe between two
MCParties == {[bi |-> FALSE, readers |-> {a1},    writers |-> {a2}],
              [bi |-> FALSE, readers |-> {a1, a3}, writers |-> {a2, a4}],
              [bi |-> TRUE,  readers |-> {a1, a2}, writers |-> {a1, a2}]}
=============================================================================
