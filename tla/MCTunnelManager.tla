-------------------------- MODULE MCTunnelManager --------------------------
(* Constant values for model-checking TunnelManager. *)
EXTENDS TunnelManager, TLC

CONSTANTS a, b, r1, r2, r3, t1, t2, t3

MCOrder == (a :> 1) @@ (b :> 2)

Wg(first, all, port, dns) ==
  [endpoint |-> TRUE, first |-> first, all |-> all, port |-> port, dns |-> dns]

\* Two connections with ports, routes and DNS of their own; a config where b's
\* port and first peer collide with a's; one without b; one
\* whose b has no endpoint.
BothConfigs ==
  LET wa == Wg({r1}, {r1}, 1, {"servers"})
      wb == Wg({r2}, {r2}, 2, {"search"})
  IN  { (a :> wa) @@ (b :> wb),
        (a :> wa) @@ (b :> [wb EXCEPT !.port = 1, !.first = {r1}, !.all = {r1, r2}]),
        (a :> wa),
        (a :> wa) @@ (b :> [wb EXCEPT !.endpoint = FALSE]) }

\* Destinations never move between the connections, only a sets DNS, and its
\* port is the kernel's choice; b has a fixed port.
TeardownConfigs ==
  LET wa == Wg({r1}, {r1, r3}, 0, Field)
      wb == Wg({r2}, {r2}, 2, {})
  IN  { (a :> wa) @@ (b :> wb),
        (a :> [wa EXCEPT !.dns = {"search"}]) @@ (b :> [wb EXCEPT !.endpoint = FALSE]) }

\* Both set DNS.
StackedDnsConfigs ==
  {(a :> Wg({r1}, {r1}, 0, {"servers"})) @@ (b :> Wg({r2}, {r2}, 0, {"servers"}))}

TunSymmetry == Permutations({t1, t2, t3})
=============================================================================
