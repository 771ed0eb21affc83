---------------------------- MODULE MCCloudsPage ----------------------------
(***************************************************************************)
(* CloudsPage with two accounts; the provider is connected to the first of *)
(* them, or not.  Five moves are a disconnect (two), a connect (two) and a *)
(* refresh, a second submit or a failure; typing is not counted.  Where a  *)
(* use case is drawn at the same time, four moves are enough for the scan  *)
(* of a drawing to meet a disconnect and a connect.                        *)
(***************************************************************************)
EXTENDS CloudsPage

CONSTANTS A, B

MCAccount == {A, B}

MCAtFirst == {A, NoAccount}
=============================================================================
