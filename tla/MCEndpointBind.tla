--------------------------- MODULE MCEndpointBind ---------------------------
(* An instance of EndpointBind for TLC. *)
EXTENDS EndpointBind, TLC

CONSTANTS k1, k2, i1, i2, r1, r2

PublicKeys == (k1 :> i1) @@ (k2 :> i2)

N0Lookups ==
  {[role |-> "publish", via |-> "pkarr"], [role |-> "resolve", via |-> "pkarr"],
   [role |-> "resolve", via |-> "dns"]}

\* The defaults; relays of one's own; nothing that needs a network beyond the
\* local one; options that do not parse; a key that is too short.
SomeOptions ==
  LET d == BindOptions({}) IN
    {d,
     [d EXCEPT !.relay_mode = {[mode |-> "custom", urls |-> {Show(r2)}]}],
     [d EXCEPT !.relay_mode = {[mode |-> "disabled", urls |-> {}]},
               !.address_lookup = FALSE, !.warm_up_online = FALSE],
     [d EXCEPT !.external_addrs = {Show(Malformed)}],
     BindOptions({Raw(31, Malformed)})}
=============================================================================
