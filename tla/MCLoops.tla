-------------------------------- MODULE MCLoops --------------------------------
(***************************************************************************)
(* The two ways a loan is brought back: the Kamino fires of ProtectLoop,   *)
(* and the Save fires of SaveFire.  A behaviour looks at one loan, so the  *)
(* other module rests.                                                     *)
(***************************************************************************)
EXTENDS ProtectLoop, SaveFire

LoopsInit ==
    \/ Init /\ SaveAtRest
    \/ /\ debt = 0 /\ initial = 0 /\ fires = 0
       /\ setting = [collateral |-> 1, trigger |-> Whole, cap |-> 1, buffer |-> 0]
       /\ SaveInit

LoopsNext ==
    \/ Next /\ UNCHANGED saveVars
    \/ SaveNext /\ UNCHANGED vars

LoopsSpec ==
    /\ LoopsInit
    /\ [][LoopsNext]_<<vars, saveVars>>
    /\ WF_vars(Fire)
    /\ WF_saveVars(KeeperStep)
==============================================================================
