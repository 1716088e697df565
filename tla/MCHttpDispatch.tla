--------------------------- MODULE MCHttpDispatch ---------------------------
(* An instance of HttpDispatch for TLC.                                    *)
EXTENDS HttpDispatch

\* Exact routes and wildcards that overlap, that differ in case only, and with
\* a character that means something in a regular expression.
RoutePatterns ==
    { <<"/", "a">>, <<"/", "A">>, <<"/", "*">>, <<"/", "a", "?">>,
      <<"/", "*", ".", "?">>, <<"/", "A", "*">> }

\* /, /a, /A?k=a, /a.b?k=a&b&k=b, /aab?k=a=b&=a&
RequestTargets ==
    { <<"/">>, <<"/", "a">>, <<"/", "A", "?", "k", "=", "a">>,
      <<"/", "a", ".", "b", "?", "k", "=", "a", "&", "b", "&", "k", "=", "b">>,
      <<"/", "a", "a", "b", "?", "k", "=", "a", "=", "b", "&", "=", "a", "&">> }

StaticFiles == { <<"/">>, <<"/", "a", ".", "b">> }
=============================================================================
