------------------------------ MODULE MCFetch ------------------------------
(* The instance of WebFetch.                                               *)
EXTENDS WebFetch

\* A literal that is global and one that is for benchmarks; what a lookup may give.
MCScoped == ("ip" :> "global") @@ ("bench" :> "benchmarking")
MCLookups == {<<>>, <<"global">>, <<"global", "private">>, <<"benchmarking">>, <<"unclassified">>}
=============================================================================
