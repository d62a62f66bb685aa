--------------------------- MODULE MCProxyRequests ---------------------------
\* Instances of ProxyRequests for TLC.
EXTENDS ProxyRequests, TLC

CONSTANTS r1, r2, r3, m1, m2, gone

\* Each module in a bucket of its own.
OwnBuckets == [m \in Modules |-> IF m = m1 THEN 1 ELSE 2]

\* Routes with two modules in either order, with one that is not loaded, and with one.
CrossedChains == [r \in Requests |-> CASE r = r1 -> <<m1, m2>> [] r = r2 -> <<m2, gone, m1>> [] OTHER -> <<m1>>]

\* One is forwarded, one gets a file of the proxy and one the page of an error.
Backends == [r \in Requests |-> CASE r = r1 -> "service" [] r = r2 -> "static" [] OTHER -> "500"]

=============================================================================
