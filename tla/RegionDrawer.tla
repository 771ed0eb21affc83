----------------------------- MODULE RegionDrawer ---------------------------
(***************************************************************************)
(* The hash routes of app/static/app.js and what follows them: the page,   *)
(* the provider selected on the Use cases page, and the drawer of one      *)
(* region with its sections, cross-links, project filter and deep links,   *)
(* opened from a region's tile, a link, or a node of a topology drawing.   *)
(*                                                                         *)
(* The browser calls onRoute() some time after the hash has changed, with  *)
(* the hash as it is by then.  A render that finds the region's inventory  *)
(* consumes the flash: its row is there ("hit") or not, because it is not  *)
(* in the region ("absent"), because the project filter hides it           *)
(* ("filtered"), or for no such reason ("miss").                           *)
(*                                                                         *)
(* render() rebuilds the page on every answer, poll and job tick, and what *)
(* had the focus is gone from it: only a tile of the rail has it back, and *)
(* a node of the drawing for the 2.5 seconds after its drawer was closed.  *)
(*                                                                         *)
(* One provider has inventories and the use case whose drawing is clicked; *)
(* its card stays unfolded and its drawing the same.                       *)
(* Bounds: MaxMoves operator's moves, two hash changes not yet handled.    *)
(***************************************************************************)
EXTENDS Naturals, Sequences, SequencesExt

CONSTANTS Res, Kind,        \* resources, and what each is
          Region, Contents, \* the regions, and what they may hold
          Project,
          ProviderIds,      \* panelProviders(), in order
          HasCases,         \* providers with a use case
          Home,             \* the provider of the use case that is drawn
          Stranger,         \* an id in a URL that no provider has
          Link,             \* the hashes that are followed from outside
          None, MaxMoves

Section == {"instances", "vpcs", "nat_gateways", "eips", "volumes", "security_groups"}
Provider == ToSet(ProviderIds)

\* What has the focus if no node of the drawing has: the view, something in
\* the drawer, a region's tile, a tile of the rail, or nothing on the page.
Spot == {"view", "drawer", "tile", "rail", "lost"}

ASSUME DrawerAssumption ==
    /\ Res \cap Spot = {}
    /\ Kind \in [Res -> Section \cup {"subnet"}]
    /\ None \notin Res \cup Region \cup Project \cup Provider \cup {"untagged"}
    /\ ProviderIds \in Seq(Provider)
    /\ HasCases \subseteq Provider /\ Home \in Provider /\ Stranger \notin Provider
    /\ MaxMoves \in Nat

\* In an inventory a subnet is an entry of its VPC (aws.py:529).
ASSUME ContentsAssumption ==
    \A c \in Contents : \A r \in Region :
        /\ c[r].in \subseteq Res
        /\ \A x \in c[r].in : Kind[x] = "subnet" =>
              \E y \in c[r].in : Kind[y] = "vpcs" /\ <<x, y>> \in c[r].refs

VARIABLES
    content,    \* what the inventory has of each region
    loaded,     \* it has arrived
    cases,      \* state.usecases has arrived
    stored,     \* localStorage, which may be blocked
    hash,       \* location.hash
    events,     \* hash changes not yet handled
    authed, route,
    openRegion, \* state.openRegion
    drawer,     \* state.drawer
    back,       \* state.drawerReturn, drawerReturnFocus
    uc,         \* state.ucProvider, ucProviderAuto
    focus,      \* what has the keyboard focus
    refocus,    \* the drawing's t.refocus, until t.refocusUntil
    flashed,    \* what came of the last flash
    moves,
    origin,     \* history: the node whose drawer is open, or was just closed
    chosen      \* history: the provider last clicked on the rail

worldVars == <<content, loaded, cases>>
vars == <<worldVars, stored, hash, events, authed, route, openRegion, drawer, back, uc,
          focus, refocus, flashed, moves, origin, chosen>>

Hash == [page : {"none", "login", "clouds", "usecases"}, provider : Provider \cup {Stranger, None},
         region : Region \cup {None}, res : Res \cup {None}]
To(page) == [page |-> page, provider |-> None, region |-> None, res |-> None]
ToRegion(r, x) == [To("clouds") EXCEPT !.region = r, !.res = x]
ToCases(p) == [To("usecases") EXCEPT !.provider = p]

\* A resource is asked for in a region (app.js:296).
ASSUME LinkAssumption == Link \subseteq {h \in Hash : h.region = None => h.res = None}

\* What regionFromHash() reads, the part of the hash the drawer mirrors.
Open == [region : Region \cup {None}, res : Res \cup {None}]
Closed == [region |-> None, res |-> None]
RegionFromHash(h) == [region |-> h.region, res |-> h.res]

Drawer == [sections : [Section -> {"default", "open", "shut"}], inst : SUBSET Res,
           project : Project \cup {"untagged", None}, flash : Res \cup {None}]
FreshDrawer == [sections |-> [s \in Section |-> "default"], inst |-> {}, project |-> None,
                flash |-> None]

NoBack == [hash |-> To("none"), node |-> None]

TypeOK ==
    /\ content \in Contents
    /\ loaded \in BOOLEAN /\ cases \in BOOLEAN
    /\ stored \in [blocked : BOOLEAN, id : Provider \cup {None}]
    /\ hash \in Hash /\ events \in 0..2
    /\ authed \in BOOLEAN /\ route \in {"login", "clouds", "usecases"}
    /\ openRegion \in Open
    /\ drawer \in Drawer
    /\ back \in [hash : Hash, node : Res \cup {None}]
    /\ uc \in [id : Provider \cup {None}, auto : BOOLEAN]
    /\ focus \in Spot \cup Res /\ refocus \in Res \cup {None}
    /\ flashed \in {"none", "hit", "absent", "filtered", "miss"}
    /\ moves \in 0..MaxMoves
    /\ origin \in [node : Res \cup {None}, id : Provider \cup {None}, closing : BOOLEAN]
    /\ chosen \in Provider \cup {None}

NoOrigin == [node |-> None, id |-> None, closing |-> FALSE]

\* boot() with a session, at some hash: onRoute() is to come.
Init ==
    /\ content \in Contents
    /\ loaded = FALSE /\ cases = FALSE
    /\ stored \in [blocked : BOOLEAN, id : {None}]
    /\ hash \in Link /\ events = 1
    /\ authed = TRUE /\ route = "clouds"
    /\ openRegion = Closed /\ drawer = FreshDrawer /\ back = NoBack
    /\ uc = [id |-> None, auto |-> TRUE]
    /\ focus = "view" /\ refocus = None /\ flashed = "none" /\ moves = 0
    /\ origin = NoOrigin /\ chosen = None

-----------------------------------------------------------------------------
(* The drawer's sections: what is in the region, which rows are on screen. *)

Of(c, sec) == {x \in c.in : Kind[x] = sec}
Refs(c, x) == {y \in Res : <<x, y>> \in c.refs}

\* effectiveProjects(): the resource's own tag, else those of what it hangs on.
Own(c, x) == IF c.tag[x] = None THEN {} ELSE {c.tag[x]}
Hosts(c, x) == {y \in Refs(c, x) \cap c.in :
                  \/ Kind[y] = "instances" /\ Kind[x] \in {"eips", "volumes", "security_groups"}
                  \/ Kind[y] = "nat_gateways" /\ Kind[x] = "eips"}
EffectiveProjects(c, x) ==
    IF Own(c, x) # {} THEN Own(c, x) ELSE UNION {Own(c, y) : y \in Hosts(c, x)}

MatchesProject(c, x, project) ==
    CASE project = None -> TRUE
      [] project = "untagged" -> EffectiveProjects(c, x) = {}
      [] OTHER -> project \in EffectiveProjects(c, x)

\* renderProjectFilter(): the chips there are.
Chips(c) ==
    LET counted == {x \in c.in : Kind[x] # "subnet"}
    IN  {None} \cup UNION {EffectiveProjects(c, x) : x \in counted}
        \cup (IF \E x \in counted : EffectiveProjects(c, x) = {} THEN {"untagged"} ELSE {})

Items(d, c, sec) == {x \in Of(c, sec) : MatchesProject(c, x, d.project)}

\* A section the operator has not touched is open when it has something.
SectionOpen(d, c, sec) ==
    \/ d.sections[sec] = "open"
    \/ d.sections[sec] = "default" /\ Items(d, c, sec) # {}

Rows(d, c) == UNION {Items(d, c, sec) : sec \in {s \in Section : SectionOpen(d, c, s)}}

\* The elements with a data-res-id: the rows, and the subnets in a VPC's row.
Shown(d, c) ==
    Rows(d, c) \cup {y \in c.in : Kind[y] = "subnet" /\ Refs(c, y) \cap Rows(d, c) # {}}

\* The cross-links of a row; those of an instance when it is unfolded.
LinksOf(d, c, x) == IF Kind[x] = "instances" /\ x \notin d.inst THEN {} ELSE Refs(c, x)
Links(d, c) == UNION {LinksOf(d, c, x) : x \in Rows(d, c)}

\* Mutant: a subnet is looked for in a section of its own.
SectionOfKind(x) == Kind[x]

SectionOf(x) == IF Kind[x] = "subnet" THEN "vpcs" ELSE Kind[x]

IsEmptyRegion(c) == \A x \in c.in : Kind[x] = "security_groups"

Unfold(d, x) == IF SectionOf(x) \in Section
                THEN [d EXCEPT !.sections[SectionOf(x)] = "open"] ELSE d

\* applyDrawerFocus(): a filter must not hide the target.
ApplyDrawerFocus(d, x) ==
    [Unfold(d, x) EXCEPT !.inst = IF Kind[x] = "instances" THEN @ \cup {x} ELSE @,
                         !.project = None, !.flash = x]

Outcome(d, c) ==
    LET x == d.flash IN
    IF x \in Shown(d, c) THEN "hit"
    ELSE IF x \notin c.in THEN "absent"
    ELSE IF d.project # None THEN "filtered" ELSE "miss"

\* renderDrawerRoot(): the flash waits for the region's inventory.
RenderDrawer(d, o, there) ==
    IF o.region # None /\ there /\ d.flash # None
    THEN /\ flashed' = Outcome(d, content[o.region])
         /\ drawer' = [d EXCEPT !.flash = None]
    ELSE drawer' = d /\ UNCHANGED flashed

Render(d) == RenderDrawer(d, openRegion, loaded)

-----------------------------------------------------------------------------
(* The provider of the Use cases page.                                     *)

First(S) == ProviderIds[CHOOSE i \in DOMAIN ProviderIds :
                          /\ ProviderIds[i] \in S
                          /\ \A k \in 1..(i - 1) : ProviderIds[k] \notin S]

\* resolveUcProvider(): the URL, the memory, the first with a use case, the first.
ResolveUcProvider(h, there) ==
    IF h.provider \in Provider THEN [id |-> h.provider, auto |-> FALSE]
    ELSE IF stored.id \in Provider THEN [id |-> stored.id, auto |-> FALSE]
    ELSE [id |-> First(IF there /\ HasCases # {} THEN HasCases ELSE Provider), auto |-> TRUE]

-----------------------------------------------------------------------------
(* onRoute() *)

\* location.hash = h: an event, if that is a change.
SetHash(h) == /\ hash' = h
              /\ h # hash => events < 2
              /\ events' = IF h # hash THEN events + 1 ELSE events

Rest == UNCHANGED <<worldVars, stored, authed, moves, chosen>>

\* No session: to the sign-in; a session: away from it.
Redirect(h) ==
    /\ events > 0
    /\ hash' = h /\ UNCHANGED events
    /\ UNCHANGED <<route, openRegion, drawer, back, uc, focus, refocus, flashed, origin>>
    /\ Rest

ToSignIn == ~authed /\ hash.page # "login" /\ Redirect(To("login"))
ToClouds == authed /\ hash.page \in {"none", "login"} /\ Redirect(To("clouds"))

\* render() and the timer of the drawing: a node that is to have the focus
\* again gets it, whatever has it; else what had it may be gone.
Redrawn(page, id, again) == again # None /\ page = "usecases" /\ id = Home

Rebuilt(page, id, again) ==
    IF Redrawn(page, id, again) THEN again
    ELSE IF focus \in Res \cup {"tile"} THEN "lost" ELSE focus

\* After a close the opener has the focus again: the node, if the drawing is
\* there, or the tile; a change of page moves it to the view.
FocusAfter(next, page, id, again) ==
    IF next # Closed THEN IF next.region # openRegion.region THEN "drawer" ELSE focus
    ELSE IF Redrawn(page, id, again) THEN again
    ELSE IF openRegion # Closed THEN IF page = "clouds" /\ loaded THEN "tile" ELSE "view"
    ELSE IF page # route THEN "view" ELSE Rebuilt(page, id, again)

\* The window in which the node has the focus back begins with a close.
RefocusAfter(next) ==
    IF next = Closed /\ openRegion # Closed /\ back.node # None THEN back.node ELSE refocus

\* Mutant: the page is chosen, the hash is left as it is.
FollowAsIs ==
    LET page == IF ~authed THEN "login"
                ELSE IF hash.page = "usecases" THEN "usecases" ELSE "clouds"
        sel  == IF page = "usecases" THEN ResolveUcProvider(hash, cases) ELSE uc
        next == IF page = "clouds" THEN RegionFromHash(hash) ELSE Closed
        d    == IF openRegion # Closed /\ next.region # openRegion.region
                THEN FreshDrawer ELSE drawer
    IN  /\ events > 0
        /\ authed => hash.page \in {"clouds", "usecases"}
        /\ ~authed => hash.page = "login"
        /\ events' = events - 1 /\ hash' = hash
        /\ route' = page /\ uc' = sel /\ openRegion' = next
        /\ RenderDrawer(IF next.res # None /\ next # openRegion
                        THEN ApplyDrawerFocus(d, next.res) ELSE d, next, loaded)
        /\ back' = IF next = Closed THEN NoBack ELSE back
        /\ refocus' = RefocusAfter(next)
        /\ focus' = FocusAfter(next, page, sel.id, RefocusAfter(next))
        /\ UNCHANGED origin /\ Rest

\* The page, its provider (the hash is made to name it), the drawer.
Follow ==
    LET page == IF ~authed THEN "login"
                ELSE IF hash.page = "usecases" THEN "usecases" ELSE "clouds"
        sel  == IF page = "usecases" THEN ResolveUcProvider(hash, cases) ELSE uc
        next == IF page = "clouds" THEN RegionFromHash(hash) ELSE Closed
        d    == IF openRegion # Closed /\ next.region # openRegion.region
                THEN FreshDrawer ELSE drawer
    IN  /\ events > 0
        /\ authed => hash.page \in {"clouds", "usecases"}
        /\ ~authed => hash.page = "login"
        /\ events' = events - 1
        /\ hash' = IF page = "usecases" THEN ToCases(sel.id) ELSE hash
        /\ route' = page /\ uc' = sel /\ openRegion' = next
        /\ RenderDrawer(IF next.res # None /\ next # openRegion
                        THEN ApplyDrawerFocus(d, next.res) ELSE d, next, loaded)
        /\ back' = IF next = Closed THEN NoBack ELSE back
        /\ refocus' = RefocusAfter(next)
        /\ focus' = FocusAfter(next, page, sel.id, RefocusAfter(next))
        /\ UNCHANGED origin /\ Rest

OnRoute == ToSignIn \/ ToClouds \/ Follow

-----------------------------------------------------------------------------
(* The operator.                                                           *)

Moves == moves < MaxMoves /\ moves' = moves + 1
Elsewhere ==
    UNCHANGED <<worldVars, stored, authed, route, openRegion, uc, focus, refocus, chosen>>
Stay == UNCHANGED <<hash, events, back>> /\ Elsewhere

\* The links of the top bar and their keys, an address typed or kept, the
\* browser's Back: not the drawer's own close.
Visit(h) ==
    /\ authed /\ h # hash /\ Moves
    /\ SetHash(h)
    /\ origin' = NoOrigin
    /\ UNCHANGED <<drawer, back, flashed>> /\ Elsewhere

\* Mutant: a tile takes the focus by another name.
OpenTileFocus(r) ==
    /\ route = "clouds" /\ openRegion = Closed /\ loaded /\ ~IsEmptyRegion(content[r])
    /\ Moves
    /\ SetHash(ToRegion(r, None))
    /\ origin' = [NoOrigin EXCEPT !.node = r]
    /\ UNCHANGED <<drawer, back, flashed>> /\ Elsewhere

\* The tile of a region that is not empty.
OpenTile(r) ==
    /\ route = "clouds" /\ openRegion = Closed /\ loaded /\ ~IsEmptyRegion(content[r])
    /\ Moves
    /\ SetHash(ToRegion(r, None))
    /\ origin' = NoOrigin
    /\ UNCHANGED <<drawer, back, flashed>> /\ Elsewhere

\* The nodes of the deployed drawing that something is opened for.
CanOpenTopoNode(r, x) ==
    x \in content[r].in /\ Kind[x] \in {"instances", "subnet", "vpcs", "nat_gateways", "eips"}

\* openTopoNode() and openResourceDrawer().
OpenTopoNode(r, x) ==
    /\ back' = [hash |-> ToCases(uc.id), node |-> x]
    /\ SetHash(ToRegion(r, x))
    /\ origin' = [node |-> x, id |-> uc.id, closing |-> FALSE]

\* A click on a node, or Enter.
ClickNode(r, x) ==
    /\ route = "usecases" /\ uc.id = Home /\ cases /\ Moves
    /\ CanOpenTopoNode(r, x) /\ OpenTopoNode(r, x)
    /\ UNCHANGED <<drawer, flashed>> /\ Elsewhere

\* closeRegionDrawer(): its button, Escape, the backdrop.
CloseRegionDrawer ==
    /\ openRegion # Closed /\ Moves
    /\ SetHash(IF back = NoBack THEN To("clouds") ELSE back.hash)
    /\ origin' = [origin EXCEPT !.closing = origin.node # None]
    /\ UNCHANGED <<drawer, back, flashed>> /\ Elsewhere

InDrawer == openRegion # Closed /\ loaded
Here == content[openRegion.region]

\* link(): opens the section and flashes the resource.
FollowLink(x) ==
    /\ InDrawer /\ x \in Links(drawer, Here) /\ Moves
    /\ Render([Unfold(drawer, x) EXCEPT !.flash = x])
    /\ UNCHANGED origin /\ Stay

PickProject(project) ==
    /\ InDrawer /\ project \in Chips(Here) /\ Moves
    /\ Render([drawer EXCEPT !.project = project])
    /\ UNCHANGED origin /\ Stay

ToggleSection(sec) ==
    /\ InDrawer /\ Moves
    /\ Render([drawer EXCEPT !.sections[sec] =
                 IF SectionOpen(drawer, Here, sec) THEN "shut" ELSE "open"])
    /\ UNCHANGED origin /\ Stay

ToggleInstance(x) ==
    /\ InDrawer /\ x \in Rows(drawer, Here) /\ Kind[x] = "instances" /\ Moves
    /\ Render([drawer EXCEPT !.inst = IF x \in @ THEN @ \ {x} ELSE @ \cup {x}])
    /\ UNCHANGED origin /\ Stay

Remember(p) == stored' = IF stored.blocked THEN stored ELSE [stored EXCEPT !.id = p]

\* renderProviderRail(): "one tile per registered provider, always all of them".
Tiles == Provider

\* Mutant: a click on the rail is not remembered.
SelectUcProviderOnly(p) ==
    /\ route = "usecases" /\ p \in Tiles \ {uc.id} /\ Moves
    /\ SetHash(ToCases(p))
    /\ focus' = "rail" /\ origin' = NoOrigin /\ chosen' = p
    /\ UNCHANGED <<worldVars, stored, authed, route, openRegion, uc, drawer, back, flashed>>
    /\ UNCHANGED refocus

\* selectUcProvider(): a click on the rail (an arrow key handles its event at
\* once).
SelectUcProvider(p) ==
    /\ route = "usecases" /\ p \in Tiles \ {uc.id} /\ Moves
    /\ Remember(p)
    /\ SetHash(ToCases(p))
    /\ focus' = "rail" /\ origin' = NoOrigin /\ chosen' = p
    /\ UNCHANGED <<worldVars, authed, route, openRegion, uc, drawer, back, flashed, refocus>>

SignIn ==
    /\ ~authed /\ route = "login" /\ Moves
    /\ authed' = TRUE
    /\ SetHash(To("clouds"))
    /\ UNCHANGED <<worldVars, stored, route, openRegion, drawer, back, uc, focus, flashed>>
    /\ UNCHANGED <<refocus, origin, chosen>>

-----------------------------------------------------------------------------
(* What arrives, and what it does to the page.                             *)

\* loadInventory() renders the Clouds page.
InventoryArrives ==
    /\ ~loaded /\ route # "login"
    /\ loaded' = TRUE
    /\ RenderDrawer(drawer, openRegion, TRUE)
    /\ focus' = IF route = "clouds" THEN Rebuilt(route, uc.id, refocus) ELSE focus
    /\ UNCHANGED <<content, cases, stored, authed, route, uc, refocus, moves, origin, chosen>>
    /\ UNCHANGED <<hash, events, back, openRegion>>

\* loadUsecases(), asked on entering the page and every 15 seconds on it: a
\* default that was computed is resolved again, now that the list is there,
\* and put into the hash without an event; the page is rendered.
UsecasesArrive ==
    LET id == ResolveUcProvider(hash, TRUE).id
        new == route = "usecases" /\ uc.auto /\ id # uc.id
    IN  /\ uc.id # None
        /\ cases' = TRUE
        /\ uc' = IF new THEN [uc EXCEPT !.id = id] ELSE uc
        /\ hash' = IF new THEN ToCases(id) ELSE hash
        /\ focus' = IF route = "usecases" THEN Rebuilt(route, uc'.id, refocus) ELSE focus
        /\ UNCHANGED <<content, loaded, stored, events, authed, route, openRegion, drawer, back>>
        /\ UNCHANGED <<refocus, flashed, moves, origin, chosen>>

\* Mutant: the drawing does not give the focus back.
RedrawPlain ==
    /\ route # "login"
    /\ Render(drawer)
    /\ focus' = IF focus \in Res \cup {"tile"} THEN "lost" ELSE focus
    /\ UNCHANGED <<worldVars, stored, hash, events, authed, route, openRegion, back, uc>>
    /\ UNCHANGED <<refocus, moves, origin, chosen>>

\* render(), for whatever else: a drawing, a detail, an outline, a job's tick.
Redraw ==
    /\ route # "login"
    /\ Render(drawer)
    /\ focus' = Rebuilt(route, uc.id, refocus)
    /\ UNCHANGED <<worldVars, stored, hash, events, authed, route, openRegion, back, uc>>
    /\ UNCHANGED <<refocus, moves, origin, chosen>>

\* The 2.5 seconds are over.
RefocusEnds ==
    /\ refocus # None /\ refocus' = None
    /\ UNCHANGED <<worldVars, stored, hash, events, authed, route, openRegion, drawer, back, uc>>
    /\ UNCHANGED <<focus, flashed, moves, origin, chosen>>

\* A request is refused with 401, or the operator signs out.
OnUnauthorised ==
    /\ authed /\ Moves
    /\ authed' = FALSE
    /\ SetHash(To("login"))
    /\ origin' = NoOrigin
    /\ UNCHANGED <<worldVars, stored, route, openRegion, drawer, back, uc, focus, flashed>>
    /\ UNCHANGED <<refocus, chosen>>

Next == \/ OnRoute \/ InventoryArrives \/ UsecasesArrive \/ Redraw \/ RefocusEnds
        \/ OnUnauthorised \/ SignIn \/ CloseRegionDrawer
        \/ \E h \in Link : Visit(h)
        \/ \E r \in Region : OpenTile(r) \/ \E x \in Res : ClickNode(r, x)
        \/ \E x \in Res : FollowLink(x) \/ ToggleInstance(x)
        \/ \E project \in Project \cup {"untagged", None} : PickProject(project)
        \/ \E sec \in Section : ToggleSection(sec)
        \/ \E p \in Provider : SelectUcProvider(p)

Spec == Init /\ [][Next]_vars

-----------------------------------------------------------------------------
(* A resource that is asked for, by a cross-link, a URL or a node of a     *)
(* drawing, is on screen once the region is: its section is open, its VPC  *)
(* too if it is a subnet.  Two exceptions: it is not in the region, or a   *)
(* link is followed while a project filter hides its target (link(),       *)
(* app.js:1244; a URL lifts the filter, 359).                              *)
FlashFinds == flashed # "miss"

(* "region drawer follows the hash so it is deep-linkable and survives     *)
(* refresh" (app.js:415): with no event pending, the page, its provider    *)
(* and the open region are what the hash says, whatever hashes, arrivals,  *)
(* clicks and sign-ins came before.                                        *)
UrlIsState ==
    events = 0 =>
        /\ hash.page = (IF authed THEN route ELSE "login")
        /\ route = "usecases" => hash.provider = uc.id
        /\ openRegion = IF route = "clouds" THEN RegionFromHash(hash) ELSE Closed

(* A drawer that was opened on a node of a drawing, whatever was done in   *)
(* it, closes to the drawing: to its page and its provider, and its node   *)
(* has the focus for the 2.5 seconds in which answers and polls rebuild    *)
(* the page under it; later the next render may take it away, and nothing  *)
(* else has it (app.js:346-353, 424-434, 2821).                            *)
ClosingReturns ==
    origin.closing /\ events = 0
    => /\ route = "usecases" /\ uc.id = origin.id
       /\ focus \in {origin.node, "lost"}
       /\ refocus # None => focus = origin.node

(* The provider chosen on the rail is the one shown on every later visit   *)
(* of the page whose address names no other (app.js:318-343), if storage   *)
(* is not blocked.                                                         *)
ChoiceIsKept ==
    [][Follow /\ hash.page = "usecases" /\ hash.provider = None
       /\ chosen # None /\ ~stored.blocked
       => uc'.id = chosen]_vars
=============================================================================
