----------------------------- MODULE Connections ----------------------------
(***************************************************************************)
(* The provider endpoints of app/main.py over app/store.py, for one        *)
(* provider: connect, disconnect, list, inventory; the stored record and   *)
(* the inventory file.                                                     *)
(*                                                                         *)
(* Handlers are coroutines of one event loop; a checklist and a scan run   *)
(* in threads of the pool, so other requests are handled meanwhile, and a  *)
(* scan's thread steps between the two writes of delete_provider().  The   *)
(* file has a second writer, behind the same lock: the drawing of a use    *)
(* case scans for itself (Engine.inventory()).                             *)
(*                                                                         *)
(* Accounts stand for credentials and what they give access to.  The       *)
(* answer of a list, a checklist or a scan stays where it is until the     *)
(* page takes it (module CloudsPage).  Bounds: MaxPosts connect requests,  *)
(* MaxScans inventory requests and one drawing at a time.                  *)
(***************************************************************************)
EXTENDS Naturals

CONSTANTS Account, NoAccount,
          AtFirst,    \* what the provider may be connected to at first
          MaxPosts, MaxScans

ASSUME ConnectionsAssumption == /\ NoAccount \notin Account
                                /\ AtFirst \subseteq Account \cup {NoAccount}
                                /\ MaxPosts \in Nat /\ MaxScans \in Nat

Post == 1..MaxPosts
Drawing == 0                \* the thread of a drawing
Thread == Drawing..MaxScans
Asker == {"page", "connect", "rotate", "disconnect"}    \* who asked for the list

VARIABLES
    record,     \* providers.json: the account of the provider
    file,       \* inventory/<provider>.json: whose it is, younger than 10 min
    post,       \* POST connect, by number
    del,        \* DELETE, with its dialog
    listing,    \* GET /providers, by asker
    scan,       \* GET inventory, and the scan of a drawing
    rotated     \* history: another account's credentials replaced the stored

serverVars == <<record, file, post, del, listing, scan, rotated>>

OrNone == Account \cup {NoAccount}

\* crossed: the provider was connected to another account, or disconnected,
\* since the contents were asked for.
File == [of : OrNone, fresh : BOOLEAN, crossed : BOOLEAN]
NoFile == [of |-> NoAccount, fresh |-> FALSE, crossed |-> FALSE]

PostState == [stage : {"none", "checking", "passed", "failed", "taken"}, acct : OrNone]
NoPost == [stage |-> "none", acct |-> NoAccount]

Listing == [stage : {"idle", "sent", "answered"}, acct : OrNone]
NoListing == [stage |-> "idle", acct |-> NoAccount]
Listed == [NoListing EXCEPT !.stage = "sent"]

\* acct: the account being scanned, then the one of the answer (none: an
\* error); kept: the copy to serve when the scan fails, and whether it is
\* crossed; wanted: the slot of the page that asked is still there.
Scan == [stage : {"idle", "asked", "waiting", "scanning", "answered"},
         refresh : BOOLEAN, acct : OrNone, crossed : BOOLEAN, kept : OrNone,
         old : BOOLEAN, wanted : BOOLEAN]
NoScan == [stage |-> "idle", refresh |-> FALSE, acct |-> NoAccount,
           crossed |-> FALSE, kept |-> NoAccount, old |-> FALSE, wanted |-> FALSE]
Scanning(refresh) == [NoScan EXCEPT !.stage = "asked", !.refresh = refresh, !.wanted = TRUE]

ServerTypeOK ==
    /\ record \in OrNone
    /\ file \in File
    /\ post \in [Post -> PostState]
    /\ del \in {"idle", "asking", "sent", "popped", "answered"}
    /\ listing \in [Asker -> Listing]
    /\ scan \in [Thread -> Scan]
    /\ rotated \in BOOLEAN

\* The provider may be connected, with or without a scan of earlier.
ServerInit ==
    /\ record \in AtFirst
    /\ file = NoFile \/ \E f \in BOOLEAN :
                            /\ record # NoAccount
                            /\ file = [NoFile EXCEPT !.of = record, !.fresh = f]
    /\ post = [n \in Post |-> NoPost]
    /\ del = "idle"
    /\ scan = [t \in Thread |-> NoScan]
    /\ rotated = FALSE

\* delete_provider() runs on the event loop.
LoopIsFree == del # "popped"

-----------------------------------------------------------------------------
\* The record changes to a: what was asked for of the old one is crossed.
Crosses(a) == record \notin {NoAccount, a}

CrossedScans(a) ==
    [t \in Thread |->
        LET crosses == Crosses(a) /\ scan[t].stage # "idle"
        IN  [scan[t] EXCEPT !.crossed = @ \/ crosses, !.old = @ \/ crosses]]

\* connect_provider(): the checklist passes and the record is saved...
CheckPasses(n) ==
    /\ post[n].stage = "checking" /\ LoopIsFree
    /\ post' = [post EXCEPT ![n].stage = "passed"]
    /\ record' = post[n].acct
    /\ file' = [file EXCEPT !.crossed = @ \/ (Crosses(post[n].acct) /\ file.of # NoAccount)]
    /\ scan' = CrossedScans(post[n].acct)
    /\ rotated' = (rotated \/ Crosses(post[n].acct))
    /\ UNCHANGED <<del, listing>>

\* ... or does not, and the record stays.
CheckFails(n) ==
    /\ post[n].stage = "checking"
    /\ post' = [post EXCEPT ![n].stage = "failed"]
    /\ UNCHANGED <<record, file, del, listing, scan, rotated>>

\* delete_provider(): the record, then the file.
DeleteRecord ==
    /\ del = "sent"
    /\ del' = "popped"
    /\ record' = NoAccount
    /\ scan' = CrossedScans(NoAccount)
    /\ UNCHANGED <<file, post, listing, rotated>>

\* Mutant: disconnecting leaves the inventory file in place.
DeleteKeepsFile ==
    /\ del = "popped"
    /\ del' = "answered"
    /\ UNCHANGED <<record, file, post, listing, scan, rotated>>

DeleteFile ==
    /\ del = "popped"
    /\ del' = "answered"
    /\ file' = NoFile
    /\ UNCHANGED <<record, post, listing, scan, rotated>>

AnswerListing(a) ==
    /\ listing[a].stage = "sent"
    /\ listing' = [listing EXCEPT ![a] = [stage |-> "answered", acct |-> record]]
    /\ UNCHANGED <<record, file, post, del, scan, rotated>>

-----------------------------------------------------------------------------
(* provider_inventory() *)

\* A drawing keeps its answer to itself.
Answer(t, acct, crossed) ==
    scan' = [scan EXCEPT ![t] =
                IF t = Drawing THEN NoScan
                ELSE [@ EXCEPT !.stage = "answered", !.acct = acct, !.crossed = crossed]]

\* A drawing takes a file of any age.
ServedFresh(t) == file.of # NoAccount /\ (t = Drawing \/ file.fresh) /\ ~scan[t].refresh

\* The handler, on the event loop.
BeginScan(t) ==
    /\ scan[t].stage = "asked" /\ LoopIsFree
    /\ \/ record = NoAccount /\ Answer(t, NoAccount, FALSE)
       \/ record # NoAccount /\ ServedFresh(t) /\ Answer(t, file.of, file.crossed)
       \/ /\ record # NoAccount /\ ~ServedFresh(t)
          /\ scan' = [scan EXCEPT ![t].stage = "waiting", ![t].kept = file.of,
                                  ![t].old = file.crossed]
    /\ UNCHANGED <<record, file, post, del, listing, rotated>>

\* Engine.inventory(), in the thread of a drawing or of its Redraw; the cases in
\* which it scans nothing are left out.
BeginDrawing ==
    /\ scan[Drawing].stage = "idle" /\ record # NoAccount
    /\ \E refresh \in BOOLEAN :
          /\ refresh \/ file.of = NoAccount
          /\ scan' = [scan EXCEPT ![Drawing] = [NoScan EXCEPT !.stage = "waiting",
                                                             !.refresh = refresh]]
    /\ UNCHANGED <<record, file, post, del, listing, rotated>>

\* The thread, once it has inventory_lock: looks again, reads the credentials.
LockScan(t) ==
    /\ scan[t].stage = "waiting"
    /\ \A u \in Thread : scan[u].stage # "scanning"
    /\ \/ ServedFresh(t) /\ Answer(t, file.of, file.crossed)
       \/ ~ServedFresh(t) /\ record = NoAccount /\ Answer(t, NoAccount, FALSE)
       \/ /\ ~ServedFresh(t) /\ record # NoAccount
          /\ scan' = [scan EXCEPT ![t].stage = "scanning", ![t].acct = record,
                                  ![t].crossed = FALSE]
    /\ UNCHANGED <<record, file, post, del, listing, rotated>>

SaveScan(t) ==
    /\ scan[t].stage = "scanning"
    /\ file' = [of |-> scan[t].acct, fresh |-> TRUE, crossed |-> scan[t].crossed]
    /\ Answer(t, scan[t].acct, scan[t].crossed)
    /\ UNCHANGED <<record, post, del, listing, rotated>>

\* The copy of before the scan is served, if there was one; a drawing has none.
ScanFails(t) ==
    /\ scan[t].stage = "scanning"
    /\ Answer(t, scan[t].kept, scan[t].old)
    /\ UNCHANGED <<record, file, post, del, listing, rotated>>

\* INVENTORY_CACHE_S have passed.
FileAges ==
    /\ file.fresh
    /\ file' = [file EXCEPT !.fresh = FALSE]
    /\ UNCHANGED <<record, post, del, listing, scan, rotated>>

Delete == DeleteRecord \/ DeleteFile
Check(n) == CheckPasses(n) \/ CheckFails(n)
Draw == BeginDrawing \/ LockScan(Drawing) \/ SaveScan(Drawing) \/ ScanFails(Drawing)
Serve(t) == BeginScan(t) \/ LockScan(t) \/ SaveScan(t) \/ ScanFails(t)
=============================================================================
