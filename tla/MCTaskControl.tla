----------------------------- MODULE MCTaskControl -----------------------------
(***************************************************************************)
(* TLC instances of the task plane.  A .cfg file picks one of the sets of  *)
(* scenarios below and the other bounds.                                   *)
(***************************************************************************)
EXTENDS TaskControl

(* The admission pass alone; the others add to it.                         *)
Pass == [actors |-> {}, ops |-> 0, cells |-> 0,
         faults |-> [engine |-> 0, store |-> 0], crashes |-> 0]

Operator(s, ops) == [s EXCEPT !.actors = @ \union {"operator"}, !.ops = ops]
Scheduled(s, cells) == [s EXCEPT !.actors = @ \union {"schedule"}, !.cells = cells]
Swept(s) == [s EXCEPT !.actors = @ \union {"sweep"}]
Failing(s, engine, store) == [s EXCEPT !.faults = [engine |-> engine, store |-> store]]
Crashing(s) == [s EXCEPT !.crashes = 1]

PassFails == {Failing(Pass, 0, 2), Failing(Pass, 1, 0)}
OperatorRequests == {Operator(Pass, 2), Failing(Operator(Pass, 1), 1, 0)}
PassAndSweep == {Swept(Pass)}
CellsAndRequest == {Scheduled(Operator(Pass, 1), 2)}
EveryActor == {Failing(Operator(Pass, 1), 1, 1),
               Failing(Scheduled(Pass, 2), 1, 1),
               Failing(Swept(Pass), 1, 0),
               Failing(Swept(Pass), 0, 1),
               Crashing(Swept(Pass))}
ParkFails == {Failing(Scheduled(Pass, 2), 0, 1)}
================================================================================
