--------------------------- MODULE MCRegionDrawer ---------------------------
(***************************************************************************)
(* RegionDrawer with two providers and two regions.  One region has a      *)
(* resource of every kind: an instance in a subnet of a VPC, its volume,   *)
(* its group, the NAT gateway the VPC routes to, and an address.  Nothing  *)
(* is tagged with a project and the address is idle; or the instance is,   *)
(* and has the address; or the VPC is, and the gateway has the address.    *)
(* The other region is not in the inventory.  Three moves open a drawer on *)
(* a node, do something in it, and close it; or choose a provider, leave   *)
(* and return.                                                             *)
(***************************************************************************)
EXTENDS RegionDrawer

CONSTANTS i, v, s, n, e, w, g,    \* resources
          r1, r2, P

MCRes == {i, v, s, n, e, w, g}

MCKind == [x \in MCRes |->
             CASE x = i -> "instances" [] x = v -> "vpcs" [] x = s -> "subnet"
               [] x = n -> "nat_gateways" [] x = e -> "eips" [] x = w -> "volumes"
               [] OTHER -> "security_groups"]

Wiring == {<<i, v>>, <<i, s>>, <<i, w>>, <<i, g>>, <<v, n>>, <<s, v>>, <<n, v>>,
           <<n, s>>, <<w, i>>, <<g, v>>, <<g, i>>}

Tagged(tagged) == [x \in MCRes |-> IF x \in tagged THEN P ELSE None]

Nothing == [in |-> {}, tag |-> [x \in MCRes |-> None], refs |-> {}]

Holding(tagged, address) ==
    [r \in {r1, r2} |->
        IF r = r1 THEN [in |-> MCRes, tag |-> Tagged(tagged), refs |-> Wiring \cup address]
        ELSE Nothing]

MCContents == {Holding({}, {}), Holding({i}, {<<e, i>>}), Holding({v}, {<<e, n>>})}

MCProviderIds == <<"aws", "gcp">>

MCLink == {To("none"), To("clouds"), To("usecases"), ToCases("gcp"), ToCases(Stranger),
           ToRegion(r1, None), ToRegion(r1, s), ToRegion(r1, w), ToRegion(r2, i)}
=============================================================================
