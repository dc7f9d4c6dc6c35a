--------------------------- MODULE MCHotspotScreen ---------------------------
EXTENDS HotspotScreen

\* Two hotspots; the first has vlans of both kinds.
MCInterfaces == 1 :> [kind |-> "int", addr |-> 1] @@ 2 :> [kind |-> "ext", addr |-> 1]
                @@ 3 :> [kind |-> "ext", addr |-> 2]
=============================================================================
