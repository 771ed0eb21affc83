------------------------- MODULE RegionDrawer_proofs ------------------------
(***************************************************************************)
(* The hash and the page agree, a drawer closes to where it was opened,    *)
(* what a link asks for is found, and a provider that was chosen stays,    *)
(* for any inventory, any providers, any hashes and any number of moves.   *)
(*                                                                         *)
(* Every move that changes the hash leaves an event, so nothing has to be  *)
(* said until the last one is handled.  The two steps that change the page *)
(* or the hash without one, the arrival of the use cases and a session's   *)
(* begin or end, need to know that a page without a session is the         *)
(* sign-in.                                                                *)
(***************************************************************************)
EXTENDS RegionDrawer, WellFoundedInduction, TLAPS

\* The values are what their fields are read from.
Shapes == /\ events \in Nat
          /\ DOMAIN uc = {"id", "auto"}

\* With no event pending, a page without a session is the sign-in.
SignInShows == events = 0 /\ ~authed => route = "login"

UrlInv == Shapes /\ SignInShows /\ UrlIsState

\* What is shown is kept, and a change of the hash leaves an event.
Announces == /\ UNCHANGED <<authed, route, openRegion>> /\ uc'.id = uc.id
             /\ DOMAIN uc' = {"id", "auto"}
             /\ UNCHANGED <<hash, events>> \/ (events' \in Nat /\ events' > 0)

\* At first there is an event to handle.
LEMMA UrlInvInit == Init => UrlInv
BY DEF Init, UrlInv, Shapes, SignInShows, UrlIsState

\* A move that changes nothing but the hash.
LEMMA HashAnnounces ==
    ASSUME UrlInv, NEW h, SetHash(h), UNCHANGED <<authed, route, openRegion, uc>>
    PROVE  Announces
BY DEF SetHash, Announces, UrlInv, Shapes

\* An announced change keeps the invariant.
LEMMA AnnouncedKeeps == ASSUME UrlInv, Announces PROVE UrlInv'
BY DEF UrlInv, Shapes, SignInShows, UrlIsState, Announces

\* What the operator does with a session.
LEMMA MovesAnnounce ==
    ASSUME UrlInv,
           \/ CloseRegionDrawer
           \/ \E h \in Link : Visit(h)
           \/ \E r \in Region : OpenTile(r) \/ \E x \in Res : ClickNode(r, x)
           \/ \E x \in Res : FollowLink(x) \/ ToggleInstance(x)
           \/ \E project \in Project \cup {"untagged", None} : PickProject(project)
           \/ \E sec \in Section : ToggleSection(sec)
           \/ \E p \in Provider : SelectUcProvider(p)
    PROVE  Announces
<1>1. CASE CloseRegionDrawer
  BY <1>1, HashAnnounces DEF CloseRegionDrawer, Elsewhere
<1>2. ASSUME NEW h \in Link, Visit(h) PROVE Announces
  BY <1>2, HashAnnounces DEF Visit, Elsewhere
<1>3. ASSUME NEW r \in Region, OpenTile(r) PROVE Announces
  BY <1>3, HashAnnounces DEF OpenTile, Elsewhere
<1>4. ASSUME NEW r \in Region, NEW x \in Res, ClickNode(r, x) PROVE Announces
  BY <1>4, HashAnnounces DEF ClickNode, OpenTopoNode, Elsewhere
<1>5. CASE UNCHANGED <<hash, events>> /\ Elsewhere
  BY <1>5 DEF Announces, Elsewhere, UrlInv, Shapes
<1>6. ASSUME NEW p \in Provider, SelectUcProvider(p) PROVE Announces
  BY <1>6, HashAnnounces DEF SelectUcProvider
<1>7. ASSUME NEW x \in Res, FollowLink(x) \/ ToggleInstance(x) PROVE Announces
  BY <1>5, <1>7 DEF FollowLink, ToggleInstance, Stay
<1>8. ASSUME NEW project \in Project \cup {"untagged", None}, PickProject(project)
      PROVE  Announces
  BY <1>5, <1>8 DEF PickProject, Stay
<1>9. ASSUME NEW sec \in Section, ToggleSection(sec) PROVE Announces
  BY <1>5, <1>9 DEF ToggleSection, Stay
<1>10. QED
  BY <1>1, <1>2, <1>3, <1>4, <1>6, <1>7, <1>8, <1>9

\* The hashes that are set, field by field.
LEMMA HashFields ==
    /\ \A p : ToCases(p).page = "usecases" /\ ToCases(p).provider = p
    /\ \A p : To(p).page = p
BY DEF ToCases, To

\* onRoute() brings the page in line with the hash.
LEMMA RouteKeeps == ASSUME UrlInv, OnRoute PROVE UrlInv'
<1>1. CASE ToSignIn \/ ToClouds
  <2>1. events > 0 /\ UNCHANGED <<events, route, openRegion, uc, authed>>
    BY <1>1 DEF ToSignIn, ToClouds, Redirect, Rest
  <2>2. QED
    BY <2>1 DEF UrlInv, Shapes, SignInShows, UrlIsState
<1>2. CASE Follow
  <2> DEFINE page == IF ~authed THEN "login"
                     ELSE IF hash.page = "usecases" THEN "usecases" ELSE "clouds"
             sel == IF page = "usecases" THEN ResolveUcProvider(hash, cases) ELSE uc
  <2>1. /\ events > 0 /\ events' = events - 1 /\ UNCHANGED authed
        /\ authed => hash.page \in {"clouds", "usecases"}
        /\ ~authed => hash.page = "login"
        /\ hash' = IF page = "usecases" THEN ToCases(sel.id) ELSE hash
        /\ route' = page /\ uc' = sel
        /\ openRegion' = IF page = "clouds" THEN RegionFromHash(hash) ELSE Closed
    BY <1>2 DEF Follow, Rest
  <2>2. DOMAIN sel = {"id", "auto"}
    BY DEF ResolveUcProvider, UrlInv, Shapes
  <2> HIDE DEF sel
  <2>3. Shapes'
    BY <2>1, <2>2 DEF UrlInv, Shapes
  <2>4. hash'.page = page /\ (page = "usecases" => hash'.provider = sel.id)
    BY <2>1, HashFields
  <2>5. SignInShows' /\ UrlIsState'
    BY <2>1, <2>4 DEF SignInShows, UrlIsState
  <2>6. QED
    BY <2>3, <2>5 DEF UrlInv
<1>3. QED
  BY <1>1, <1>2 DEF OnRoute

\* The default provider is put into the hash without an event.
LEMMA ArrivalKeeps == ASSUME UrlInv, UsecasesArrive PROVE UrlInv'
<1> DEFINE id == ResolveUcProvider(hash, TRUE).id
<1>1. /\ UNCHANGED <<events, authed, route, openRegion>>
      /\ \/ route = "usecases" /\ uc' = [uc EXCEPT !.id = id] /\ hash' = ToCases(id)
         \/ UNCHANGED <<uc, hash>>
  BY DEF UsecasesArrive
<1> HIDE DEF id
<1>2. CASE route = "usecases" /\ uc' = [uc EXCEPT !.id = id] /\ hash' = ToCases(id)
  <2>1. DOMAIN uc' = {"id", "auto"} /\ uc'.id = id
    BY <1>2 DEF UrlInv, Shapes
  <2>2. QED
    BY <1>1, <1>2, <2>1, HashFields DEF UrlInv, Shapes, SignInShows, UrlIsState
<1>3. CASE UNCHANGED <<uc, hash>>
  BY <1>1, <1>3 DEF UrlInv, Shapes, SignInShows, UrlIsState
<1>4. QED
  BY <1>1, <1>2, <1>3

\* A session begins or ends.
LEMMA SessionKeeps == ASSUME UrlInv, SignIn \/ OnUnauthorised PROVE UrlInv'
<1>1. CASE SignIn
  <2>1. events' \in Nat /\ events' > 0 /\ UNCHANGED uc
    BY <1>1, HashFields DEF SignIn, SetHash, UrlInv, Shapes, UrlIsState
  <2>2. QED
    BY <2>1 DEF UrlInv, Shapes, SignInShows, UrlIsState
<1>2. CASE OnUnauthorised
  <2>1. /\ authed /\ ~authed' /\ SetHash(To("login"))
        /\ UNCHANGED <<route, openRegion, uc>>
    BY <1>2 DEF OnUnauthorised
  <2>2. CASE hash = To("login")
    BY <2>1, <2>2, HashFields DEF SetHash, UrlInv, Shapes, SignInShows, UrlIsState
  <2>3. CASE hash # To("login")
    <3>1. events' \in Nat /\ events' > 0
      BY <2>1, <2>3 DEF SetHash, UrlInv, Shapes
    <3>2. QED
      BY <2>1, <3>1 DEF UrlInv, Shapes, SignInShows, UrlIsState
  <2>4. QED
    BY <2>2, <2>3
<1>3. QED
  BY <1>1, <1>2

\* Every step keeps the hash and the page in line.
LEMMA UrlInvStep == UrlInv /\ [Next]_vars => UrlInv'
<1> SUFFICES ASSUME UrlInv, [Next]_vars PROVE UrlInv'
  OBVIOUS
<1>1. CASE OnRoute
  BY <1>1, RouteKeeps
<1>2. CASE InventoryArrives \/ Redraw \/ RefocusEnds
  BY <1>2, AnnouncedKeeps DEF InventoryArrives, Redraw, RefocusEnds, Announces, UrlInv, Shapes
<1>3. CASE UsecasesArrive
  BY <1>3, ArrivalKeeps
<1>4. CASE SignIn \/ OnUnauthorised
  BY <1>4, SessionKeeps
<1>5. CASE UNCHANGED vars
  BY <1>5, AnnouncedKeeps DEF vars, Announces, UrlInv, Shapes
<1>6. QED
  BY <1>1, <1>2, <1>3, <1>4, <1>5, MovesAnnounce, AnnouncedKeeps DEF Next

\* With no event pending, page, provider and open region are what the hash
\* says (app.js:389-461).
THEOREM AddressIsState == Spec => []UrlIsState
<1>1. UrlInv => UrlIsState
  BY DEF UrlInv
<1>2. QED
  BY <1>1, UrlInvInit, UrlInvStep, PTL DEF Spec

-----------------------------------------------------------------------------
\* What was chosen on the rail is what is stored.
ChoiceInv ==
    /\ DOMAIN stored = {"blocked", "id"}
    /\ chosen \in Provider \cup {None}
    /\ chosen # None /\ ~stored.blocked => stored.id = chosen

\* Nothing is chosen at first.
LEMMA ChoiceInvInit == Init => ChoiceInv
BY DEF Init, ChoiceInv

\* Only a click on the rail chooses, and it stores its choice.
LEMMA ChoiceInvStep == ChoiceInv /\ [Next]_vars => ChoiceInv'
<1> SUFFICES ASSUME ChoiceInv, [Next]_vars PROVE ChoiceInv'
  OBVIOUS
<1>1. CASE UNCHANGED <<stored, chosen>>
  BY <1>1 DEF ChoiceInv
<1>2. ASSUME NEW p \in Provider, SelectUcProvider(p) PROVE ChoiceInv'
  <2>1. chosen' = p /\ stored' = IF stored.blocked THEN stored ELSE [stored EXCEPT !.id = p]
    BY <1>2 DEF SelectUcProvider, Remember
  <2>2. QED
    BY <2>1 DEF ChoiceInv
<1>3. CASE OnRoute
  BY <1>1, <1>3 DEF OnRoute, ToSignIn, ToClouds, Redirect, Follow, Rest
<1>4. CASE \/ InventoryArrives \/ UsecasesArrive \/ Redraw \/ RefocusEnds
           \/ OnUnauthorised \/ SignIn
  BY <1>1, <1>4
  DEF InventoryArrives, UsecasesArrive, Redraw, RefocusEnds, OnUnauthorised, SignIn
<1>5. CASE Elsewhere
  BY <1>1, <1>5 DEF Elsewhere
<1>6. CASE CloseRegionDrawer \/ \E h \in Link : Visit(h)
  BY <1>5, <1>6 DEF CloseRegionDrawer, Visit
<1>7. CASE \E r \in Region : OpenTile(r) \/ \E x \in Res : ClickNode(r, x)
  BY <1>5, <1>7 DEF OpenTile, ClickNode
<1>8. CASE \/ \E x \in Res : FollowLink(x) \/ ToggleInstance(x)
           \/ \E project \in Project \cup {"untagged", None} : PickProject(project)
           \/ \E sec \in Section : ToggleSection(sec)
  BY <1>5, <1>8 DEF FollowLink, ToggleInstance, PickProject, ToggleSection, Stay
<1>9. QED
  BY <1>1, <1>2, <1>3, <1>4, <1>6, <1>7, <1>8 DEF Next, vars

\* An address that names no provider shows the one last chosen on the rail
\* (app.js:318-343).
THEOREM ChosenProviderStays == Spec => ChoiceIsKept
<1> DEFINE Kept == Follow /\ hash.page = "usecases" /\ hash.provider = None
                   /\ chosen # None /\ ~stored.blocked => uc'.id = chosen
<1>1. ChoiceInv /\ [Next]_vars => [Kept]_vars
  <2> SUFFICES ASSUME ChoiceInv, Follow, hash.page = "usecases", hash.provider = None,
                      chosen # None, ~stored.blocked
               PROVE  uc'.id = chosen
    OBVIOUS
  <2>1. authed /\ uc' = ResolveUcProvider(hash, cases)
    BY DEF Follow
  <2>2. hash.provider \notin Provider
    BY DrawerAssumption
  <2>3. ResolveUcProvider(hash, cases).id = stored.id
    BY <2>2 DEF ResolveUcProvider, ChoiceInv
  <2>4. QED
    BY <2>1, <2>3 DEF ChoiceInv
<1>2. QED
  BY <1>1, ChoiceInvInit, ChoiceInvStep, PTL DEF Spec, ChoiceIsKept

-----------------------------------------------------------------------------
(* The way back.  A drawer opened on a node keeps the address of the       *)
(* drawing (back) from the click until the close is handled; the close     *)
(* sets that address, and only another move, which forgets the node, sets  *)
(* another.  Once it is handled, what has the focus is the node, or        *)
(* nothing after a render that came too late to give it back.              *)
BackIsHome == back.node = origin.node /\ back.hash = ToCases(Home)

OriginShape == DOMAIN origin = {"node", "id", "closing"} /\ (origin.closing => origin.node # None)

OnlyClouds == route # "clouds" => openRegion = Closed

\* Since a node was clicked.
Away ==
    origin.node # None =>
        /\ origin.node \in Res /\ origin.id = Home /\ cases
        /\ hash.page # "clouds" => RegionFromHash(hash) = Closed
        /\ RegionFromHash(hash) # Closed \/ openRegion # Closed => BackIsHome
        /\ ~authed => openRegion = Closed

\* The node, as long as it is given back, or nothing.
NodeFocused == /\ focus \in {origin.node, "lost"}
               /\ refocus \in {origin.node, None}
               /\ refocus # None => focus = origin.node

\* Since its drawer was closed.
Returning ==
    origin.closing =>
        /\ authed /\ hash = ToCases(Home)
        /\ openRegion = Closed => route = "usecases" /\ uc.id = Home /\ NodeFocused

BackInv == UrlInv /\ OriginShape /\ OnlyClouds /\ Away /\ Returning

\* No node has been clicked at first.
LEMMA BackInvInit == Init => BackInv
BY UrlInvInit DEF Init, BackInv, OriginShape, OnlyClouds, Away, Returning, NoOrigin

\* When the last event is handled, the drawing has the focus.
LEMMA BackInvReturns == BackInv => ClosingReturns
<1> SUFFICES ASSUME BackInv, origin.closing, events = 0
             PROVE  /\ route = "usecases" /\ uc.id = origin.id
                    /\ focus \in {origin.node, "lost"}
                    /\ refocus # None => focus = origin.node
  BY DEF ClosingReturns
<1>1. authed /\ hash = ToCases(Home) /\ origin.id = Home
  BY DEF BackInv, Returning, Away, OriginShape
<1>2. route = "usecases"
  BY <1>1, HashFields DEF BackInv, UrlInv, UrlIsState
<1>3. QED
  BY <1>1, <1>2 DEF BackInv, OnlyClouds, Returning, NodeFocused

\* A move that forgets the node.
LEMMA ForgettingKeeps ==
    ASSUME BackInv, UrlInv', origin' = NoOrigin, UNCHANGED <<route, openRegion>>
    PROVE  BackInv'
BY DEF BackInv, OriginShape, OnlyClouds, Away, Returning, NoOrigin

\* A step that has nothing to do with the address.
LEMMA ElsewhereKeeps ==
    ASSUME BackInv, UrlInv', cases => cases',
           UNCHANGED <<hash, authed, route, openRegion, back, uc, focus, refocus, origin>>
    PROVE  BackInv'
BY DEF BackInv, OriginShape, OnlyClouds, Away, Returning, BackIsHome, NodeFocused

\* A render gives the node back, or takes it away once it is too late.
LEMMA RenderKeepsBack ==
    ASSUME BackInv, UrlInv', UNCHANGED <<authed, route, openRegion, back, refocus, origin>>,
           cases', UNCHANGED <<hash, uc>>,
           \/ focus' = focus
           \/ focus' = Rebuilt(route, uc.id, refocus)
    PROVE  BackInv'
<1>1. OriginShape' /\ OnlyClouds' /\ Away'
  BY DEF BackInv, OriginShape, OnlyClouds, Away, BackIsHome
<1>2. Returning'
  <2> SUFFICES ASSUME origin.closing, openRegion = Closed
               PROVE  NodeFocused'
    BY DEF BackInv, Returning
  <2>1. route = "usecases" /\ uc.id = Home /\ NodeFocused
    BY DEF BackInv, Returning
  <2>2. QED
    BY <2>1 DEF NodeFocused, Rebuilt, Redrawn
<1>3. QED
  BY <1>1, <1>2 DEF BackInv

\* The hashes that are set name a region or none.
LEMMA HashRegions ==
    /\ \A p : RegionFromHash(ToCases(p)) = Closed
    /\ \A p : RegionFromHash(To(p)) = Closed
    /\ \A r, x : ToRegion(r, x).page = "clouds"
    /\ NoBack.node = None
BY DEF RegionFromHash, ToCases, To, ToRegion, Closed, NoBack

\* A click on a node remembers the way back.
LEMMA ClickKeeps ==
    ASSUME BackInv, UrlInv', NEW r \in Region, NEW x \in Res, ClickNode(r, x)
    PROVE  BackInv'
<1>1. /\ route = "usecases" /\ uc.id = Home /\ cases
      /\ UNCHANGED <<cases, authed, route, openRegion, uc, focus>>
      /\ hash' = ToRegion(r, x)
      /\ back' = [hash |-> ToCases(uc.id), node |-> x]
      /\ origin' = [node |-> x, id |-> uc.id, closing |-> FALSE]
  BY DEF ClickNode, OpenTopoNode, SetHash, Elsewhere, worldVars
<1>2. x # None
  BY DrawerAssumption
<1>3. openRegion = Closed
  BY <1>1 DEF BackInv, OnlyClouds
<1>4. QED
  BY <1>1, <1>2, <1>3, HashRegions
     DEF BackInv, OriginShape, OnlyClouds, Away, Returning, BackIsHome

\* The close sets the address of the drawing.
LEMMA CloseKeeps == ASSUME BackInv, UrlInv', CloseRegionDrawer PROVE BackInv'
<1>1. /\ openRegion # Closed
      /\ UNCHANGED <<cases, authed, route, openRegion, uc, focus, back>>
      /\ hash' = IF back = NoBack THEN To("clouds") ELSE back.hash
      /\ origin' = [origin EXCEPT !.closing = origin.node # None]
  BY DEF CloseRegionDrawer, SetHash, Elsewhere, worldVars
<1>2. /\ DOMAIN origin' = {"node", "id", "closing"}
      /\ origin'.node = origin.node /\ origin'.id = origin.id
      /\ origin'.closing = (origin.node # None)
  BY <1>1 DEF BackInv, OriginShape
<1>3. CASE origin.node = None
  BY <1>1, <1>2, <1>3 DEF BackInv, OriginShape, OnlyClouds, Away, Returning
<1>4. CASE origin.node # None
  <2>1. BackIsHome /\ authed /\ origin.id = Home /\ cases
    BY <1>1, <1>4 DEF BackInv, Away
  <2>2. hash' = ToCases(Home)
    BY <1>1, <1>4, <2>1, HashRegions DEF BackIsHome
  <2>3. QED
    BY <1>1, <1>2, <2>1, <2>2, HashRegions
       DEF BackInv, OriginShape, OnlyClouds, Away, Returning, BackIsHome
<1>5. QED
  BY <1>3, <1>4

\* onRoute() at the address of the drawing gives the node the focus.
LEMMA RouteReturns == ASSUME BackInv, UrlInv', OnRoute PROVE BackInv'
<1>1. ASSUME NEW p, Redirect(To(p)), authed => hash.page \in {"none", "login"} PROVE BackInv'
  <2>1. /\ hash' = To(p)
        /\ UNCHANGED <<cases, authed, route, openRegion, uc, focus, refocus, back, origin>>
    BY <1>1 DEF Redirect, Rest, worldVars
  <2>2. ~origin.closing
    BY <1>1, HashFields DEF BackInv, Returning
  <2>3. QED
    BY <2>1, <2>2, HashRegions
       DEF BackInv, OriginShape, OnlyClouds, Away, Returning, BackIsHome
<1>2. CASE Follow
  <2> DEFINE page == IF ~authed THEN "login"
                     ELSE IF hash.page = "usecases" THEN "usecases" ELSE "clouds"
             sel == IF page = "usecases" THEN ResolveUcProvider(hash, cases) ELSE uc
             next == IF page = "clouds" THEN RegionFromHash(hash) ELSE Closed
  <2>1. /\ UNCHANGED <<authed, cases, origin>>
        /\ ~authed => hash.page = "login"
        /\ hash' = IF page = "usecases" THEN ToCases(sel.id) ELSE hash
        /\ route' = page /\ uc' = sel /\ openRegion' = next
        /\ back' = IF next = Closed THEN NoBack ELSE back
        /\ refocus' = RefocusAfter(next)
        /\ focus' = FocusAfter(next, page, sel.id, RefocusAfter(next))
    BY <1>2 DEF Follow, Rest, worldVars
  <2>2. OriginShape' /\ OnlyClouds'
    BY <2>1 DEF BackInv, OriginShape, OnlyClouds
  <2>3. Away'
    <3>1. CASE page = "usecases"
      BY <2>1, <3>1, HashFields, HashRegions DEF BackInv, Away
    <3>2. CASE page # "usecases"
      BY <2>1, <3>2 DEF BackInv, Away, BackIsHome
    <3>3. QED
      BY <3>1, <3>2
  <2>4. Returning'
    <3> SUFFICES ASSUME origin.closing
                 PROVE  /\ authed /\ hash' = ToCases(Home)
                        /\ route' = "usecases" /\ uc'.id = Home /\ NodeFocused'
      BY <2>1 DEF Returning
    <3>1. authed /\ hash = ToCases(Home) /\ page = "usecases" /\ next = Closed
      BY HashFields DEF BackInv, Returning
    <3>2. sel.id = Home
      BY <3>1, HashFields, DrawerAssumption DEF ResolveUcProvider
    <3>3. /\ refocus' = RefocusAfter(Closed)
          /\ focus' = FocusAfter(Closed, "usecases", Home, refocus')
      BY <2>1, <3>1, <3>2
    <3>4. NodeFocused'
      <4>1. CASE openRegion = Closed
        <5>1. route = "usecases" /\ uc.id = Home /\ NodeFocused
          BY <4>1 DEF BackInv, Returning
        <5>2. QED
          BY <2>1, <3>3, <4>1, <5>1 DEF FocusAfter, RefocusAfter, NodeFocused, Rebuilt, Redrawn
      <4>2. CASE openRegion # Closed
        <5>1. back.node = origin.node /\ origin.node # None
          BY <4>2 DEF BackInv, Away, OriginShape, BackIsHome
        <5>2. QED
          BY <2>1, <3>3, <4>2, <5>1 DEF FocusAfter, RefocusAfter, NodeFocused, Redrawn
      <4>3. QED
        BY <4>1, <4>2
    <3>5. QED
      BY <2>1, <3>1, <3>2, <3>4
  <2>5. QED
    BY <2>2, <2>3, <2>4 DEF BackInv
<1>3. QED
  BY <1>1, <1>2 DEF OnRoute, ToSignIn, ToClouds

\* A session begins: nothing was being closed.
LEMMA SignInKeeps == ASSUME BackInv, UrlInv', SignIn PROVE BackInv'
<1>1. ~authed /\ hash' = To("clouds")
      /\ UNCHANGED <<cases, route, openRegion, uc, focus, refocus, back, origin>>
  BY DEF SignIn, SetHash, worldVars
<1>2. QED
  BY <1>1, HashRegions, HashFields
     DEF BackInv, OriginShape, OnlyClouds, Away, Returning, BackIsHome

\* A render that is no answer with a list, and the end of the window.
LEMMA QuietKeeps ==
    ASSUME BackInv, UrlInv', InventoryArrives \/ Redraw \/ RefocusEnds
    PROVE  BackInv'
<1>1. CASE origin.node = None
  <2>1. UNCHANGED <<route, openRegion, origin>>
    BY DEF InventoryArrives, Redraw, RefocusEnds
  <2>2. QED
    BY <1>1, <2>1 DEF BackInv, OriginShape, OnlyClouds, Away, Returning
<1>2. CASE origin.node # None
  <2>1. cases
    BY <1>2 DEF BackInv, Away
  <2>2. CASE InventoryArrives \/ Redraw
    BY <2>1, <2>2, RenderKeepsBack DEF InventoryArrives, Redraw, worldVars
  <2>3. CASE RefocusEnds
    <3>1. /\ UNCHANGED <<hash, authed, route, openRegion, back, uc, focus, origin, cases>>
          /\ refocus' = None
      BY <2>3 DEF RefocusEnds, worldVars
    <3>2. QED
      BY <3>1 DEF BackInv, OriginShape, OnlyClouds, Away, Returning, BackIsHome, NodeFocused
  <2>4. QED
    BY <2>2, <2>3
<1>3. QED
  BY <1>1, <1>2

\* The list of use cases does not take the drawing of a return away.
LEMMA ListKeeps == ASSUME BackInv, UrlInv', UsecasesArrive PROVE BackInv'
<1> DEFINE id == ResolveUcProvider(hash, TRUE).id
           new == route = "usecases" /\ uc.auto /\ id # uc.id
<1>1. /\ cases' = TRUE
      /\ uc' = IF new THEN [uc EXCEPT !.id = id] ELSE uc
      /\ hash' = IF new THEN ToCases(id) ELSE hash
      /\ focus' = IF route = "usecases" THEN Rebuilt(route, uc'.id, refocus) ELSE focus
      /\ UNCHANGED <<authed, route, openRegion, back, refocus, origin>>
  BY DEF UsecasesArrive
<1>2. CASE ~new
  <2> HIDE DEF new
  <2>1. QED
    BY <1>1, <1>2, RenderKeepsBack
<1>3. CASE new
  <2>1. openRegion = Closed /\ hash' = ToCases(id)
    BY <1>1, <1>3 DEF BackInv, OnlyClouds
  <2>2. ~origin.closing
    <3> SUFFICES ASSUME origin.closing PROVE id = uc.id
      BY <1>3
    <3>1. hash.provider = Home /\ uc.id = Home
      BY <2>1, HashFields DEF BackInv, Returning
    <3>2. QED
      BY <3>1, DrawerAssumption DEF ResolveUcProvider
  <2> HIDE DEF id, new
  <2>3. QED
    BY <1>1, <2>1, <2>2, HashRegions
       DEF BackInv, OriginShape, OnlyClouds, Away, Returning, BackIsHome
<1>4. QED
  BY <1>2, <1>3

\* Every step keeps the way back.
LEMMA BackInvStep == BackInv /\ [Next]_vars => BackInv'
<1> SUFFICES ASSUME BackInv, [Next]_vars PROVE BackInv'
  OBVIOUS
<1>1. UrlInv'
  BY UrlInvStep DEF BackInv
<1>2. CASE OnRoute
  BY <1>1, <1>2, RouteReturns
<1>3. CASE InventoryArrives \/ Redraw \/ RefocusEnds
  BY <1>1, <1>3, QuietKeeps
<1>4. CASE UsecasesArrive
  BY <1>1, <1>4, ListKeeps
<1>5. CASE OnUnauthorised
  BY <1>1, <1>5, ForgettingKeeps DEF OnUnauthorised
<1>6. CASE SignIn
  BY <1>1, <1>6, SignInKeeps
<1>7. CASE CloseRegionDrawer
  BY <1>1, <1>7, CloseKeeps
<1>8. CASE \E h \in Link : Visit(h)
  BY <1>1, <1>8, ForgettingKeeps DEF Visit, Elsewhere
<1>9. CASE \E r \in Region : OpenTile(r) \/ \E x \in Res : ClickNode(r, x)
  BY <1>1, <1>9, ForgettingKeeps, ClickKeeps DEF OpenTile, Elsewhere
<1>10. CASE \/ \E x \in Res : FollowLink(x) \/ ToggleInstance(x)
            \/ \E project \in Project \cup {"untagged", None} : PickProject(project)
            \/ \E sec \in Section : ToggleSection(sec)
  <2>1. UNCHANGED origin /\ Stay
    BY <1>10 DEF FollowLink, ToggleInstance, PickProject, ToggleSection
  <2>2. QED
    BY <1>1, <2>1, ElsewhereKeeps DEF Stay, Elsewhere, worldVars
<1>11. CASE \E p \in Provider : SelectUcProvider(p)
  BY <1>1, <1>11, ForgettingKeeps DEF SelectUcProvider
<1>12. CASE UNCHANGED vars
  BY <1>1, <1>12, ElsewhereKeeps DEF vars, worldVars
<1>13. QED
  BY <1>2, <1>3, <1>4, <1>5, <1>6, <1>7, <1>8, <1>9, <1>10, <1>11, <1>12 DEF Next

\* A drawer that was opened on a node closes to the drawing and its provider,
\* and its node has the focus for as long as the drawing gives it back,
\* whatever renders, answers and lists come (app.js:346-353, 424-434, 2821).
THEOREM NodeDrawerReturns == Spec => []ClosingReturns
<1>1. QED
  BY BackInvInit, BackInvStep, BackInvReturns, PTL DEF Spec
-----------------------------------------------------------------------------
(* The types, and what a flash comes to.  A provider is always found: of   *)
(* the positions of the providers in question one is the first.            *)
Below == {ij \in Nat \X Nat : ij[1] < ij[2]}

\* Natural numbers do not decrease for ever.
LEMMA BelowWellFounded == IsWellFoundedOn(Below, Nat)
BY NatLessThanWellFounded DEF OpToRel, Below

\* A set of natural numbers has a least one.
LEMMA LeastExists ==
    ASSUME NEW T, T \subseteq Nat, T # {}
    PROVE  \E n \in T : \A m \in T : ~(m < n)
<1>1. \E n \in T : \A m \in T : ~(<<m, n>> \in Below)
  BY BelowWellFounded, WFMin
<1>2. \A m, n \in Nat : m < n => <<m, n>> \in Below
  BY DEF Below
<1>3. QED
  BY <1>1, <1>2

\* The first of some providers is one of them.
LEMMA FirstIsOne ==
    ASSUME NEW S, S \subseteq Provider, S # {}
    PROVE  First(S) \in S
<1> DEFINE T == {k \in DOMAIN ProviderIds : ProviderIds[k] \in S}
<1>1. DOMAIN ProviderIds = 1..Len(ProviderIds) /\ Len(ProviderIds) \in Nat
  BY DrawerAssumption
<1>2. T \subseteq Nat
  BY <1>1
<1>3. T # {}
  <2>1. PICK p \in S : TRUE
    OBVIOUS
  <2>2. \E k \in DOMAIN ProviderIds : ProviderIds[k] = p
    BY <2>1 DEF Provider, ToSet
  <2>3. QED
    BY <2>1, <2>2
<1>4. PICK k \in T : \A m \in T : ~(m < k)
  <2> HIDE DEF T
  <2>1. QED
    BY <1>2, <1>3, LeastExists
<1>5. \A m \in 1..(k - 1) : ProviderIds[m] \notin S
  BY <1>1, <1>4
<1>6. QED
  BY <1>4, <1>5 DEF First

\* A hash that names a resource names its region.
Plain == {h \in Hash : h.region = None => h.res = None}

\* The hashes that are set.
LEMMA PlainHashes ==
    /\ \A p \in {"none", "login", "clouds", "usecases"} : To(p) \in Plain
    /\ \A p \in Provider \cup {Stranger, None} : ToCases(p) \in Plain
    /\ \A r \in Region : \A x \in Res \cup {None} : ToRegion(r, x) \in Plain
<1>1. \A p \in {"none", "login", "clouds", "usecases"} :
         To(p) \in Hash /\ To(p).region = None /\ To(p).res = None
  BY DEF To, Hash
<1>2. ASSUME NEW p \in Provider \cup {Stranger, None}
      PROVE  ToCases(p) \in Hash /\ ToCases(p).res = None
  BY DEF ToCases, To, Hash
<1>3. ASSUME NEW r \in Region, NEW x \in Res \cup {None}
      PROVE  ToRegion(r, x) \in Hash /\ ToRegion(r, x).region # None
  BY DrawerAssumption DEF ToRegion, To, Hash
<1>4. QED
  BY <1>1, <1>2, <1>3 DEF Plain

\* What a hash says of the drawer.
PlainOpen == {o \in Open : o.region = None => o = Closed}

\* The drawer opens as the hash says.
LEMMA PlainRegions ==
    /\ \A h \in Plain : RegionFromHash(h) \in PlainOpen
    /\ Closed \in PlainOpen
BY DEF Plain, Hash, RegionFromHash, PlainOpen, Open, Closed

Focus == Spot \cup Res

\* The address, the provider, and what follows them.
AddressTypes ==
    /\ hash \in Plain /\ events \in 0..2
    /\ authed \in BOOLEAN /\ route \in {"login", "clouds", "usecases"}
    /\ openRegion \in PlainOpen
    /\ back \in [hash : Plain, node : Res \cup {None}]
    /\ focus \in Focus /\ refocus \in Res \cup {None}
    /\ origin \in [node : Res \cup {None}, id : Provider \cup {None}, closing : BOOLEAN]

ProviderTypes ==
    /\ stored \in [blocked : BOOLEAN, id : Provider \cup {None}]
    /\ uc \in [id : Provider \cup {None}, auto : BOOLEAN]
    /\ chosen \in Provider \cup {None}
    /\ loaded \in BOOLEAN /\ cases \in BOOLEAN
    /\ moves \in 0..MaxMoves

\* The provider of the page is one there is.
LEMMA ResolvedIsProvider ==
    ASSUME NEW h, NEW there \in BOOLEAN
    PROVE  ResolveUcProvider(h, there) \in [id : Provider, auto : BOOLEAN]
<1>1. LET S == IF there /\ HasCases # {} THEN HasCases ELSE Provider IN First(S) \in Provider
  BY DrawerAssumption, FirstIsOne
<1>2. QED
  BY <1>1 DEF ResolveUcProvider

\* A hash that is set.
LEMMA SetTypes ==
    ASSUME AddressTypes, NEW h \in Plain, SetHash(h)
    PROVE  hash' \in Plain /\ events' \in 0..2
BY DEF AddressTypes, SetHash

\* The types hold at first.
LEMMA AddressTypesInit == Init => AddressTypes /\ ProviderTypes
<1> SUFFICES ASSUME Init PROVE AddressTypes /\ ProviderTypes
  OBVIOUS
<1>1. hash \in Plain
  BY LinkAssumption DEF Init, Plain
<1>2. back \in [hash : Plain, node : Res \cup {None}]
  BY PlainHashes DEF Init, NoBack
<1>3. origin \in [node : Res \cup {None}, id : Provider \cup {None}, closing : BOOLEAN]
  BY DEF Init, NoOrigin
<1>4. AddressTypes
  BY <1>1, <1>2, <1>3, PlainRegions DEF Init, AddressTypes, Focus, Spot
<1>5. ProviderTypes
  <2>1. stored \in [blocked : BOOLEAN, id : Provider \cup {None}]
    <3>1. stored \in [blocked : BOOLEAN, id : {None}]
      BY DEF Init
    <3>2. QED
      BY <3>1
  <2>2. uc \in [id : Provider \cup {None}, auto : BOOLEAN]
    BY DEF Init
  <2>3. 0 \in 0..MaxMoves
    BY DrawerAssumption
  <2>4. QED
    BY <2>1, <2>2, <2>3 DEF Init, ProviderTypes
<1>6. QED
  BY <1>4, <1>5

\* The provider of the page, and the bound on the moves.
LEMMA ProviderTypesStep == ProviderTypes /\ [Next]_vars => ProviderTypes'
<1> SUFFICES ASSUME ProviderTypes, [Next]_vars PROVE ProviderTypes'
  OBVIOUS
<1>1. CASE UNCHANGED <<worldVars, stored, uc, chosen>> /\ (Moves \/ UNCHANGED moves)
  BY <1>1, DrawerAssumption DEF ProviderTypes, Moves, worldVars
<1>2. CASE UNCHANGED vars
  BY <1>1, <1>2 DEF vars
<1>3. CASE ToSignIn \/ ToClouds
  BY <1>1, <1>3 DEF ToSignIn, ToClouds, Redirect, Rest
<1>4. CASE Follow
  <2>1. UNCHANGED <<worldVars, stored, moves, chosen>>
    BY <1>4 DEF Follow, Rest
  <2>2. uc' = uc \/ uc' = ResolveUcProvider(hash, cases)
    BY <1>4 DEF Follow
  <2>3. ResolveUcProvider(hash, cases) \in [id : Provider, auto : BOOLEAN]
    BY ResolvedIsProvider DEF ProviderTypes
  <2>4. uc' \in [id : Provider \cup {None}, auto : BOOLEAN]
    BY <2>2, <2>3 DEF ProviderTypes
  <2>5. QED
    BY <2>1, <2>4 DEF ProviderTypes, worldVars
<1>5. CASE InventoryArrives \/ Redraw \/ RefocusEnds
  BY <1>5 DEF InventoryArrives, Redraw, RefocusEnds, ProviderTypes, worldVars
<1>6. CASE UsecasesArrive
  <2>1. ResolveUcProvider(hash, TRUE).id \in Provider
    BY ResolvedIsProvider
  <2>2. /\ cases' = TRUE /\ UNCHANGED <<loaded, stored, moves, chosen>>
        /\ uc' = uc \/ uc' = [uc EXCEPT !.id = ResolveUcProvider(hash, TRUE).id]
    BY <1>6 DEF UsecasesArrive
  <2>3. QED
    BY <2>1, <2>2 DEF ProviderTypes
<1>7. ASSUME NEW p \in Provider, SelectUcProvider(p) PROVE ProviderTypes'
  <2>1. /\ chosen' = p /\ UNCHANGED <<worldVars, uc>> /\ Moves
        /\ stored' = IF stored.blocked THEN stored ELSE [stored EXCEPT !.id = p]
    BY <1>7 DEF SelectUcProvider, Remember
  <2>2. QED
    BY <2>1, DrawerAssumption DEF ProviderTypes, Moves, worldVars
<1>8. CASE OnUnauthorised \/ SignIn
  BY <1>1, <1>8 DEF OnUnauthorised, SignIn
<1>9. CASE Elsewhere /\ Moves
  BY <1>1, <1>9 DEF Elsewhere
<1>10. CASE CloseRegionDrawer \/ \E h \in Link : Visit(h)
  BY <1>9, <1>10 DEF CloseRegionDrawer, Visit
<1>11. CASE \E r \in Region : OpenTile(r) \/ \E x \in Res : ClickNode(r, x)
  BY <1>9, <1>11 DEF OpenTile, ClickNode
<1>12. CASE \/ \E x \in Res : FollowLink(x) \/ ToggleInstance(x)
            \/ \E project \in Project \cup {"untagged", None} : PickProject(project)
            \/ \E sec \in Section : ToggleSection(sec)
  BY <1>9, <1>12 DEF FollowLink, ToggleInstance, PickProject, ToggleSection, Stay
<1>13. QED
  BY <1>2, <1>3, <1>4, <1>5, <1>6, <1>7, <1>8, <1>10, <1>11, <1>12 DEF Next, OnRoute

\* onRoute(): page, drawer and focus are what they may be.
LEMMA RouteTypes == ASSUME AddressTypes, ProviderTypes, OnRoute PROVE AddressTypes'
<1>1. ASSUME NEW p \in {"login", "clouds"}, Redirect(To(p)) PROVE AddressTypes'
  BY <1>1, PlainHashes DEF Redirect, Rest, AddressTypes
<1>2. CASE Follow
  <2> DEFINE page == IF ~authed THEN "login"
                     ELSE IF hash.page = "usecases" THEN "usecases" ELSE "clouds"
             sel == IF page = "usecases" THEN ResolveUcProvider(hash, cases) ELSE uc
             next == IF page = "clouds" THEN RegionFromHash(hash) ELSE Closed
  <2>1. /\ events > 0 /\ events' = events - 1 /\ UNCHANGED <<authed, origin>>
        /\ hash' = IF page = "usecases" THEN ToCases(sel.id) ELSE hash
        /\ route' = page /\ openRegion' = next
        /\ back' = IF next = Closed THEN NoBack ELSE back
        /\ refocus' = RefocusAfter(next)
        /\ focus' = FocusAfter(next, page, sel.id, RefocusAfter(next))
    BY <1>2 DEF Follow, Rest
  <2>2. next \in PlainOpen
    BY PlainRegions DEF AddressTypes
  <2>3. sel.id \in Provider \cup {None}
    BY ResolvedIsProvider DEF ProviderTypes
  <2>4. hash' \in Plain
    <3> HIDE DEF sel
    <3>1. QED
      BY <2>1, <2>3, PlainHashes DEF AddressTypes
  <2>5. back' \in [hash : Plain, node : Res \cup {None}]
    <3>1. NoBack \in [hash : Plain, node : Res \cup {None}]
      BY PlainHashes DEF NoBack
    <3>2. QED
      BY <2>1, <3>1 DEF AddressTypes
  <2>6. focus' \in Focus /\ refocus' \in Res \cup {None}
    <3> HIDE DEF sel, next, page
    <3>1. refocus' \in Res \cup {None}
      BY <2>1 DEF RefocusAfter, AddressTypes
    <3>2. QED
      BY <2>1, <3>1 DEF FocusAfter, Redrawn, Rebuilt, Focus, Spot, AddressTypes
  <2>7. events' \in 0..2
    BY <2>1 DEF AddressTypes
  <2>8. QED
    BY <2>1, <2>2, <2>4, <2>5, <2>6, <2>7 DEF AddressTypes
<1>3. QED
  BY <1>1, <1>2 DEF OnRoute, ToSignIn, ToClouds

\* What sets the hash and little else.
LEMMA MoveTypes ==
    ASSUME AddressTypes, NEW h \in Plain, SetHash(h), authed' \in BOOLEAN,
           UNCHANGED <<route, openRegion, refocus>>, focus' \in Focus,
           back' \in [hash : Plain, node : Res \cup {None}],
           origin' \in [node : Res \cup {None}, id : Provider \cup {None}, closing : BOOLEAN]
    PROVE  AddressTypes'
BY SetTypes DEF AddressTypes

\* A step that leaves the address alone.
LEMMA StayTypes ==
    ASSUME AddressTypes, UNCHANGED <<hash, events, authed, route, openRegion, back, origin>>,
           focus' \in Focus, refocus' \in Res \cup {None}
    PROVE  AddressTypes'
BY DEF AddressTypes

\* A render leaves the focus on something there is.
LEMMA RebuiltTypes ==
    ASSUME AddressTypes PROVE \A page, id : Rebuilt(page, id, refocus) \in Focus
BY DEF AddressTypes, Rebuilt, Redrawn, Focus, Spot

\* The address has its types after every step.
LEMMA AddressTypesStep == AddressTypes /\ ProviderTypes /\ [Next]_vars => AddressTypes'
<1> SUFFICES ASSUME AddressTypes, ProviderTypes, [Next]_vars PROVE AddressTypes'
  OBVIOUS
<1>1. /\ authed \in BOOLEAN /\ focus \in Focus /\ "rail" \in Focus
      /\ back \in [hash : Plain, node : Res \cup {None}]
      /\ origin \in [node : Res \cup {None}, id : Provider \cup {None}, closing : BOOLEAN]
      /\ NoOrigin \in [node : Res \cup {None}, id : Provider \cup {None}, closing : BOOLEAN]
  BY DEF AddressTypes, Focus, Spot, NoOrigin
<1>2. CASE OnRoute
  BY <1>2, RouteTypes
<1>3. CASE InventoryArrives \/ Redraw \/ RefocusEnds
  <2>1. /\ UNCHANGED <<hash, events, authed, route, openRegion, back, origin>>
        /\ focus' = focus \/ focus' = Rebuilt(route, uc.id, refocus)
        /\ refocus' \in {refocus, None}
    BY <1>3 DEF InventoryArrives, Redraw, RefocusEnds
  <2>2. focus' \in Focus /\ refocus' \in Res \cup {None}
    BY <2>1, RebuiltTypes DEF AddressTypes
  <2>3. QED
    BY <2>1, <2>2, StayTypes
<1>4. CASE UsecasesArrive
  <2> DEFINE id == ResolveUcProvider(hash, TRUE).id
  <2>1. ToCases(id) \in Plain
    BY ResolvedIsProvider, PlainHashes
  <2>2. /\ UNCHANGED <<events, authed, route, openRegion, back, refocus, origin>>
        /\ hash' = hash \/ hash' = ToCases(id)
        /\ focus' = focus \/ focus' = Rebuilt(route, uc'.id, refocus)
    BY <1>4 DEF UsecasesArrive
  <2>3. focus' \in Focus
    BY <2>2, RebuiltTypes DEF AddressTypes
  <2>4. QED
    BY <2>1, <2>2, <2>3 DEF AddressTypes
<1>5. CASE OnUnauthorised
  BY <1>1, <1>5, PlainHashes, MoveTypes DEF OnUnauthorised
<1>6. CASE SignIn
  BY <1>1, <1>6, PlainHashes, MoveTypes DEF SignIn
<1>7. CASE CloseRegionDrawer
  <2> DEFINE h == IF back = NoBack THEN To("clouds") ELSE back.hash
  <2>1. h \in Plain
    BY <1>1, PlainHashes
  <2>2. SetHash(h) /\ UNCHANGED <<back, authed, route, openRegion, focus, refocus>>
    BY <1>7 DEF CloseRegionDrawer, Elsewhere
  <2>3. origin' \in [node : Res \cup {None}, id : Provider \cup {None}, closing : BOOLEAN]
    BY <1>1, <1>7 DEF CloseRegionDrawer
  <2>4. QED
    BY <1>1, <2>1, <2>2, <2>3, MoveTypes
<1>8. ASSUME NEW h \in Link, Visit(h) PROVE AddressTypes'
  <2>1. h \in Plain
    BY LinkAssumption DEF Plain
  <2>2. QED
    BY <1>1, <1>8, <2>1, MoveTypes DEF Visit, Elsewhere
<1>9. ASSUME NEW r \in Region, OpenTile(r) PROVE AddressTypes'
  BY <1>1, <1>9, PlainHashes, MoveTypes DEF OpenTile, Elsewhere
<1>10. ASSUME NEW r \in Region, NEW x \in Res, ClickNode(r, x) PROVE AddressTypes'
  <2>1. /\ back' = [hash |-> ToCases(uc.id), node |-> x]
        /\ origin' = [node |-> x, id |-> uc.id, closing |-> FALSE]
        /\ SetHash(ToRegion(r, x)) /\ UNCHANGED <<authed, route, openRegion, focus, refocus>>
    BY <1>10 DEF ClickNode, OpenTopoNode, Elsewhere
  <2>2. uc.id \in Provider \cup {None}
    BY DEF ProviderTypes
  <2>3. back' \in [hash : Plain, node : Res \cup {None}]
    BY <2>1, <2>2, PlainHashes
  <2>4. origin' \in [node : Res \cup {None}, id : Provider \cup {None}, closing : BOOLEAN]
    BY <2>1, <2>2
  <2>5. ToRegion(r, x) \in Plain
    BY PlainHashes
  <2>6. QED
    BY <1>1, <2>1, <2>3, <2>4, <2>5, MoveTypes
<1>11. CASE \/ \E x \in Res : FollowLink(x) \/ ToggleInstance(x)
            \/ \E project \in Project \cup {"untagged", None} : PickProject(project)
            \/ \E sec \in Section : ToggleSection(sec)
  <2>1. UNCHANGED origin /\ Stay
    BY <1>11 DEF FollowLink, ToggleInstance, PickProject, ToggleSection
  <2>2. UNCHANGED <<focus, refocus>>
    BY <2>1 DEF Stay, Elsewhere
  <2>3. QED
    BY <2>1, <2>2, StayTypes DEF Stay, Elsewhere, AddressTypes
<1>12. ASSUME NEW p \in Provider, SelectUcProvider(p) PROVE AddressTypes'
  BY <1>1, <1>12, PlainHashes, MoveTypes DEF SelectUcProvider
<1>13. CASE UNCHANGED vars
  BY <1>13, StayTypes DEF vars, AddressTypes
<1>14. QED
  BY <1>2, <1>3, <1>4, <1>5, <1>6, <1>7, <1>8, <1>9, <1>10, <1>11, <1>12, <1>13 DEF Next
-----------------------------------------------------------------------------
(* The drawer.  A flash is set together with its section, and is consumed  *)
(* by the first render that has the region: so no other click of the       *)
(* drawer finds one that waits.                                            *)

\* The section of what is to flash is open.
Ready(d) == d.flash # None => d.sections[SectionOf(d.flash)] = "open"

DrawerInv ==
    /\ content \in Contents
    /\ drawer \in Drawer
    /\ flashed \in {"none", "hit", "absent", "filtered"}
    /\ Ready(drawer)
    /\ loaded /\ openRegion # Closed => drawer.flash = None

\* Every resource has a section.
LEMMA SectionThereIs == \A x \in Res : SectionOf(x) \in Section
BY DrawerAssumption DEF SectionOf, Section

\* With its section open a resource of the region is on the screen, unless
\* the project filter hides it.
LEMMA ReadyFinds ==
    ASSUME content \in Contents, NEW r \in Region, NEW d \in Drawer, Ready(d), d.flash # None
    PROVE  Outcome(d, content[r]) \in {"hit", "absent", "filtered"}
<1> DEFINE c == content[r]
           x == d.flash
<1>1. SUFFICES ASSUME x \in c.in, d.project = None PROVE x \in Shown(d, c)
  BY DEF Outcome
<1>2. x \in Res /\ d.sections[SectionOf(x)] = "open"
  BY DEF Ready, Drawer
<1>3. /\ c.in \subseteq Res
      /\ Kind[x] = "subnet" => \E y \in c.in : Kind[y] = "vpcs" /\ <<x, y>> \in c.refs
  BY <1>1, ContentsAssumption
<1> HIDE DEF c
<1>4. \A y \in c.in : Kind[y] \in Section /\ d.sections[Kind[y]] = "open" => y \in Rows(d, c)
  <2> SUFFICES ASSUME NEW y \in c.in, Kind[y] \in Section, d.sections[Kind[y]] = "open"
               PROVE  y \in Rows(d, c)
    OBVIOUS
  <2>1. y \in Items(d, c, Kind[y])
    <3>1. MatchesProject(c, y, d.project)
      BY <1>1, DrawerAssumption DEF MatchesProject
    <3>2. y \in Of(c, Kind[y])
      BY DEF Of
    <3>3. QED
      BY <3>1, <3>2 DEF Items
  <2>2. SectionOpen(d, c, Kind[y])
    BY DEF SectionOpen
  <2>3. QED
    BY <2>1, <2>2 DEF Rows
<1>5. CASE Kind[x] # "subnet"
  BY <1>1, <1>2, <1>4, <1>5, SectionThereIs DEF Shown, SectionOf
<1>6. CASE Kind[x] = "subnet"
  <2>1. PICK y \in c.in : Kind[y] = "vpcs" /\ <<x, y>> \in c.refs
    BY <1>3, <1>6
  <2>2. y \in Rows(d, c)
    BY <1>2, <1>4, <1>6, <2>1 DEF SectionOf, Section
  <2>3. y \in Refs(c, x)
    BY <1>3, <2>1 DEF Refs
  <2>4. QED
    BY <1>1, <1>6, <2>2, <2>3 DEF Shown
<1>7. QED
  BY <1>5, <1>6

\* A render with or without the region's inventory.
LEMMA RenderKeeps ==
    ASSUME DrawerInv, content' = content, NEW d \in Drawer, Ready(d), NEW o \in PlainOpen,
           NEW there \in BOOLEAN, RenderDrawer(d, o, there),
           openRegion' = o, loaded' = there
    PROVE  DrawerInv'
<1>1. CASE o.region # None /\ there /\ d.flash # None
  <2>1. flashed' = Outcome(d, content[o.region]) /\ drawer' = [d EXCEPT !.flash = None]
    BY <1>1 DEF RenderDrawer
  <2>2. o.region \in Region
    BY <1>1 DEF PlainOpen, Open
  <2>3. flashed' \in {"none", "hit", "absent", "filtered"}
    BY <1>1, <2>1, <2>2, ReadyFinds DEF DrawerInv
  <2>4. drawer' \in Drawer /\ drawer'.flash = None
    BY <2>1 DEF Drawer
  <2>5. QED
    BY <2>3, <2>4 DEF DrawerInv, Ready
<1>2. CASE ~(o.region # None /\ there /\ d.flash # None)
  <2>1. drawer' = d /\ UNCHANGED flashed
    BY <1>2 DEF RenderDrawer
  <2>2. there /\ o # Closed => d.flash = None
    BY <1>2 DEF PlainOpen
  <2>3. QED
    BY <2>1, <2>2 DEF DrawerInv, Ready
<1>3. QED
  BY <1>1, <1>2

\* A section is opened for what is to flash.
LEMMA UnfoldReady ==
    ASSUME NEW d \in Drawer, NEW x \in Res
    PROVE  /\ Unfold(d, x) \in Drawer /\ Unfold(d, x).sections[SectionOf(x)] = "open"
           /\ [Unfold(d, x) EXCEPT !.flash = x] \in Drawer
           /\ Ready([Unfold(d, x) EXCEPT !.flash = x])
           /\ ApplyDrawerFocus(d, x) \in Drawer /\ Ready(ApplyDrawerFocus(d, x))
<1> DEFINE u == Unfold(d, x)
           v == [u EXCEPT !.flash = x]
           w == [u EXCEPT !.inst = IF Kind[x] = "instances" THEN @ \cup {x} ELSE @,
                          !.project = None, !.flash = x]
<1>1. u = [d EXCEPT !.sections[SectionOf(x)] = "open"]
  BY SectionThereIs DEF Unfold
<1>2. u \in Drawer /\ u.sections[SectionOf(x)] = "open"
  BY <1>1, SectionThereIs DEF Drawer
<1> HIDE DEF u
<1>3. v \in Drawer /\ v.flash = x /\ v.sections = u.sections
  BY <1>2 DEF Drawer
<1>4. w \in Drawer /\ w.flash = x /\ w.sections = u.sections
  BY <1>2 DEF Drawer
<1>5. Ready(v) /\ Ready(w)
  BY <1>2, <1>3, <1>4 DEF Ready
<1>6. w = ApplyDrawerFocus(d, x)
  BY DEF ApplyDrawerFocus, u
<1>7. QED
  BY <1>2, <1>3, <1>4, <1>5, <1>6 DEF u

\* The drawer is fresh at first.
LEMMA DrawerInvInit == Init => DrawerInv
<1>1. FreshDrawer \in Drawer /\ FreshDrawer.flash = None
  BY DEF FreshDrawer, Drawer
<1>2. QED
  BY <1>1 DEF Init, DrawerInv, Ready

\* onRoute() renders a drawer that is ready.
LEMMA FollowFinds == ASSUME DrawerInv, AddressTypes, ProviderTypes, Follow PROVE DrawerInv'
<1> DEFINE page == IF ~authed THEN "login"
                   ELSE IF hash.page = "usecases" THEN "usecases" ELSE "clouds"
           next == IF page = "clouds" THEN RegionFromHash(hash) ELSE Closed
           d == IF openRegion # Closed /\ next.region # openRegion.region
                THEN FreshDrawer ELSE drawer
           u == IF next.res # None /\ next # openRegion THEN ApplyDrawerFocus(d, next.res) ELSE d
<1>1. /\ UNCHANGED <<content, loaded>> /\ openRegion' = next
      /\ RenderDrawer(u, next, loaded)
  BY DEF Follow, Rest, worldVars
<1>2. next \in PlainOpen
  BY PlainRegions DEF AddressTypes
<1>3. FreshDrawer \in Drawer /\ FreshDrawer.flash = None
  BY DEF FreshDrawer, Drawer
<1>4. d \in Drawer /\ Ready(d)
  BY <1>3 DEF DrawerInv, Ready
<1>5. next.res \in Res \cup {None}
  BY <1>2 DEF PlainOpen, Open
<1> HIDE DEF d, next
<1>6. u \in Drawer /\ Ready(u)
  BY <1>4, <1>5, UnfoldReady
<1> HIDE DEF u
<1>7. loaded \in BOOLEAN
  BY DEF ProviderTypes
<1>8. QED
  BY <1>1, <1>2, <1>6, <1>7, RenderKeeps

\* What is clicked in the drawer: nothing waits to flash.
LEMMA ClicksFind ==
    ASSUME DrawerInv, AddressTypes, ProviderTypes,
           \/ \E x \in Res : FollowLink(x) \/ ToggleInstance(x)
           \/ \E project \in Project \cup {"untagged", None} : PickProject(project)
           \/ \E sec \in Section : ToggleSection(sec)
    PROVE  DrawerInv'
<1>1. InDrawer /\ Stay
  BY DEF FollowLink, ToggleInstance, PickProject, ToggleSection
<1>2. loaded /\ drawer \in Drawer /\ drawer.flash = None
  BY <1>1 DEF InDrawer, DrawerInv
<1>3. openRegion \in PlainOpen /\ openRegion' = openRegion
      /\ content' = content /\ loaded' = TRUE
  BY <1>1, <1>2 DEF Stay, Elsewhere, worldVars, AddressTypes, ProviderTypes
<1>4. ASSUME NEW d \in Drawer, Ready(d), Render(d) PROVE DrawerInv'
  BY <1>2, <1>3, <1>4, RenderKeeps DEF Render, ProviderTypes
<1>5. ASSUME NEW x \in Res, FollowLink(x) PROVE DrawerInv'
  BY <1>2, <1>4, <1>5, UnfoldReady DEF FollowLink
<1>6. ASSUME NEW x \in Res, ToggleInstance(x) PROVE DrawerInv'
  <2> DEFINE d == [drawer EXCEPT !.inst = IF x \in @ THEN @ \ {x} ELSE @ \cup {x}]
  <2>1. d \in Drawer /\ d.flash = None
    BY <1>2 DEF Drawer
  <2>2. QED
    BY <1>4, <1>6, <2>1 DEF ToggleInstance, Ready
<1>7. ASSUME NEW project \in Project \cup {"untagged", None}, PickProject(project)
      PROVE  DrawerInv'
  <2> DEFINE d == [drawer EXCEPT !.project = project]
  <2>1. d \in Drawer /\ d.flash = None
    BY <1>2 DEF Drawer
  <2>2. QED
    BY <1>4, <1>7, <2>1 DEF PickProject, Ready
<1>8. ASSUME NEW sec \in Section, ToggleSection(sec) PROVE DrawerInv'
  <2> DEFINE d == [drawer EXCEPT !.sections[sec] =
                     IF SectionOpen(drawer, Here, sec) THEN "shut" ELSE "open"]
  <2>1. d \in Drawer /\ d.flash = None
    BY <1>2 DEF Drawer
  <2>2. QED
    BY <1>4, <1>8, <2>1 DEF ToggleSection, Ready
<1>9. QED
  BY <1>5, <1>6, <1>7, <1>8

\* What leaves the drawer as it is.
LEMMA DrawerStays ==
    ASSUME DrawerInv, UNCHANGED <<content, loaded, openRegion, drawer, flashed>>
    PROVE  DrawerInv'
BY DEF DrawerInv

\* Every step keeps the drawer ready for what is to flash.
LEMMA DrawerInvStep ==
    DrawerInv /\ AddressTypes /\ ProviderTypes /\ [Next]_vars => DrawerInv'
<1> SUFFICES ASSUME DrawerInv, AddressTypes, ProviderTypes, [Next]_vars PROVE DrawerInv'
  OBVIOUS
<1>1. CASE Follow
  BY <1>1, FollowFinds
<1>2. CASE ToSignIn \/ ToClouds
  BY <1>2, DrawerStays DEF ToSignIn, ToClouds, Redirect, Rest, worldVars
<1>3. CASE InventoryArrives
  <2>1. RenderDrawer(drawer, openRegion, TRUE)
    BY <1>3 DEF InventoryArrives
  <2>2. loaded' = TRUE /\ content' = content /\ openRegion' = openRegion
    BY <1>3 DEF InventoryArrives
  <2>3. drawer \in Drawer /\ Ready(drawer) /\ openRegion \in PlainOpen
    BY DEF DrawerInv, AddressTypes
  <2>4. QED
    BY <2>1, <2>2, <2>3, RenderKeeps
<1>4. CASE UsecasesArrive \/ RefocusEnds
  BY <1>4, DrawerStays DEF UsecasesArrive, RefocusEnds, worldVars
<1>5. CASE OnUnauthorised \/ SignIn
  BY <1>5, DrawerStays DEF OnUnauthorised, SignIn, worldVars
<1>6. CASE Elsewhere /\ UNCHANGED <<drawer, flashed>>
  BY <1>6, DrawerStays DEF Elsewhere, worldVars
<1>7. CASE CloseRegionDrawer \/ \E h \in Link : Visit(h)
  BY <1>6, <1>7 DEF CloseRegionDrawer, Visit
<1>8. CASE \E r \in Region : OpenTile(r) \/ \E x \in Res : ClickNode(r, x)
  BY <1>6, <1>8 DEF OpenTile, ClickNode
<1>9. CASE \E p \in Provider : SelectUcProvider(p)
  BY <1>9, DrawerStays DEF SelectUcProvider, worldVars
<1>10. CASE UNCHANGED vars
  BY <1>10, DrawerStays DEF vars, worldVars
<1>11. CASE Redraw
  <2>1. drawer \in Drawer /\ Ready(drawer) /\ openRegion \in PlainOpen /\ loaded \in BOOLEAN
    BY DEF DrawerInv, AddressTypes, ProviderTypes
  <2>2. RenderDrawer(drawer, openRegion, loaded) /\ UNCHANGED <<content, openRegion, loaded>>
    BY <1>11 DEF Redraw, Render, worldVars
  <2>3. QED
    BY <2>1, <2>2, RenderKeeps
<1>12. QED
  BY <1>1, <1>2, <1>3, <1>4, <1>5, <1>7, <1>8, <1>9, <1>10, <1>11, ClicksFind DEF Next, OnRoute

\* Address, provider and drawer at once.
LEMMA DrawerHolds == Spec => [](AddressTypes /\ ProviderTypes /\ DrawerInv)
<1>1. Init => AddressTypes /\ ProviderTypes /\ DrawerInv
  BY AddressTypesInit, DrawerInvInit
<1>2. AddressTypes /\ ProviderTypes /\ DrawerInv /\ [Next]_vars
      => (AddressTypes /\ ProviderTypes /\ DrawerInv)'
  BY AddressTypesStep, ProviderTypesStep, DrawerInvStep
<1>3. QED
  BY <1>1, <1>2, PTL DEF Spec

\* The address, the provider, the drawer and what follows them have their types.
THEOREM DrawerTypes == Spec => []TypeOK
<1>1. AddressTypes /\ ProviderTypes /\ DrawerInv => TypeOK
  <2> SUFFICES ASSUME AddressTypes, ProviderTypes, DrawerInv PROVE TypeOK
    OBVIOUS
  <2>1. hash \in Hash /\ back \in [hash : Hash, node : Res \cup {None}]
    BY DEF AddressTypes, Plain
  <2>2. openRegion \in Open
    BY DEF AddressTypes, PlainOpen
  <2>3. QED
    BY <2>1, <2>2 DEF AddressTypes, ProviderTypes, DrawerInv, TypeOK, Focus
<1>2. QED
  BY <1>1, DrawerHolds, PTL

\* A resource that is asked for is on the screen once the region is, unless
\* it is not in it or the project filter hides it (app.js:354, 1244).
THEOREM FlashIsFound == Spec => []FlashFinds
<1>1. DrawerInv => FlashFinds
  BY DEF DrawerInv, FlashFinds
<1>2. QED
  BY <1>1, DrawerHolds, PTL
=============================================================================
