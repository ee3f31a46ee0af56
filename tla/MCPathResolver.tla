--------------------------- MODULE MCPathResolver ---------------------------
EXTENDS PathResolver

Abs(ps) == [abs |-> TRUE, parts |-> ps, slash |-> FALSE]
Rel(ps) == [abs |-> FALSE, parts |-> ps, slash |-> FALSE]

To(a, ps, sl) == [abs |-> a, parts |-> ps, slash |-> sl]

\* K5 is the host path of the guest's /c; K6 asks for a directory where there is a file.
MCTargetOf == [K1 |-> To(TRUE, <<"c">>, FALSE), K2 |-> To(FALSE, <<"c">>, FALSE),
               K3 |-> To(FALSE, <<"..", "..", "c">>, FALSE), K4 |-> To(TRUE, <<"m">>, TRUE),
               K5 |-> To(TRUE, <<"r", "c">>, FALSE), K6 |-> To(TRUE, <<"m", ".", "r">>, TRUE)]

MCEdits == {Abs(<<"a">>), Abs(<<"a", "a">>), Abs(<<"m", "a">>), Rel(<<"c">>)}

MCPaths == {Abs(<<"a">>), Abs(<<"c">>), Abs(<<"a", "a">>),
            Abs(<<"a", "a", "c">>), Abs(<<"m", "r", "a">>), Abs(<<"m", "c", "a">>),
            Abs(<<"p", "self", "cwd", "a">>), Abs(<<"p", "self", "fd">>),
            Abs(<<"p", "thread-self", "..">>), Abs(<<"p", "mounts">>), Abs(<<"a", ".">>),
            [Abs(<<"p", "self", "fd">>) EXCEPT !.slash = TRUE],
            Rel(<<"..", "a">>), Rel(<<"c">>), [Abs(<<"a">>) EXCEPT !.slash = TRUE]}

=============================================================================
