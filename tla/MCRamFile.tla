----------------------------- MODULE MCRamFile ------------------------------
(* Files of up to three blocks of two bytes *)
EXTENDS RamFile, TLC
CONSTANTS f, g

\* an interesting file, and one that competes with it for memory
MCBuffers == f :> {<< 1 >>, << 1, 13, 10 >>} @@ g :> {<< 1 >>}
MCCounts == {-1, 2, LMAX}
MCSeeks == {<< 0, 0 >>, << 1, 0 >>, << -1, 1 >>, << 1, 2 >>, << 0, 3 >>}
Flags(m, creat, trunc, excl) == [m |-> m, creat |-> creat, trunc |-> trunc, excl |-> excl]
MCOpenModes == {Flags("r", FALSE, FALSE, FALSE), Flags("w", TRUE, TRUE, FALSE),
                Flags("rw", TRUE, FALSE, FALSE), Flags("rw", TRUE, FALSE, TRUE)}

\* no action looks at the last reply
View == << data, chain, st_size, st_blocks, refcnt, mode, fpos >>
Symm == Permutations(Blk)
=============================================================================
