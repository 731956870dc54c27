------------------------- MODULE MCRequestHandling -------------------------
\* Instances of RequestHandling and FetchRequests for TLC.
EXTENDS FetchRequests

\* A source may fail in either way.
AnyFailure == {"passthrough", "errorWith"}

=============================================================================
