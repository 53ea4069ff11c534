-------------------------- MODULE MCZeroTrustFilter --------------------------
(***************************************************************************)
(* Small instances of ZeroTrustFilter for TLC: the requests that may       *)
(* arrive.  They differ in what the filter branches on: client, path,      *)
(* body, token and whether an address is known.                            *)
(***************************************************************************)
EXTENDS ZeroTrustFilter

Arrival(forwardedFor, remote, path, mayHaveBody, tokenValid, subject) ==
  [forwardedFor |-> forwardedFor, remote |-> remote, path |-> path,
   mayHaveBody |-> mayHaveBody, tokenValid |-> tokenValid, subject |-> subject]

CONSTANTS ip1, ip2, alice, login, orders

\* Each side of every branch: a public high-risk POST through a proxy, an
\* authenticated read of the same address, a read without a token, and an
\* authenticated write without subject or address.
MixedInputs ==
  {Arrival(ip1, ip2, login, TRUE, FALSE, None),
   Arrival(None, ip1, orders, FALSE, TRUE, alice),
   Arrival(None, ip2, orders, FALSE, FALSE, None),
   Arrival(None, None, orders, TRUE, TRUE, None)}

\* One client that keeps asking for one ordinary endpoint.
BurstInputs == {Arrival(None, ip1, orders, FALSE, TRUE, None)}
=============================================================================
