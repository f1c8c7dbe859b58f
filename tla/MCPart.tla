--------------------------------- MODULE MCPart ---------------------------------
(***************************************************************************)
(* The parts of the program below share no state that the models keep:     *)
(* each run chooses the parts it is about, a behaviour runs one of them    *)
(* and the others rest in one of their initial states.                     *)
(***************************************************************************)
CONSTANT Parts
VARIABLE part
================================================================================
