----------------------------- MODULE MCDosPath -----------------------------
(* Two processes, one in the TOS and one in the MiNT domain, on a small disk *)
EXTENDS DosPath, TLC

MCName == {"a", "A", "b", "f", "l"}
MCLower == [n \in MCName |-> IF n = "A" THEN "a" ELSE n]
MCDomain == "p" :> "mint" @@ "q" :> "tos"
MCMakeDirs == {<<"\\", "A">>, <<"b">>}
MCOpens == {<< <<"\\", "a", "f">>, "trunc">>, << <<"l", "f">>, "excl">>, << <<"\\", "A", "f">>, "open">>}
MCRenames == {<< <<"\\", "a", "b">>, <<"\\", "b">> >>, << <<"\\", "a">>, <<"\\", "a", "b", "a">> >>}
MCLinks == {<< <<"\\", "l">>, <<"a">> >>}
MCDirPaths == {<<"\\">>, <<"\\", "A">>, <<"l", "b">>, <<"..">>}
MCDeepPaths == {<<"\\", "a">>, <<"\\", "a", "b", "f">>}
MCReadPaths == {<<"l">>}
MCFilePaths == {<<"\\", "a", "f">>}

\* What the properties speak of: TLC goes on from careful states only, and still
\* checks the steps that leave them
Careful == careful
=============================================================================
