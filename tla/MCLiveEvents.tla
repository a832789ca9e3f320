---------------------------- MODULE MCLiveEvents ----------------------------
(***************************************************************************)
(* mosdat live on its own, for several browsers.                           *)
(***************************************************************************)
EXTENDS LiveEvents

LiveSpec == (ProcessInit /\ LInit) /\ [][StartLive \/ LNext]_<<process, lVars>>
=============================================================================
