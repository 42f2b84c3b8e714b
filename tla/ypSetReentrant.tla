--------------------------- MODULE ypSetReentrant ---------------------------
(***************************************************************************)
(* A set that is changed by the iterator it is being updated from.         *)
(*                                                                         *)
(* yp_miniiter_next on a generator runs the caller's own C function, and   *)
(* nothing keeps that function from calling yp_push, yp_pop, yp_clear ...  *)
(* on the set whose update is waiting for the next key.  Enter suspends    *)
(* the update's frame, as the C stack does, and leaves the set to any      *)
(* calls; Leave resumes the frame with the locals it had.                  *)
(***************************************************************************)
EXTENDS ypSet

CONSTANT ReentrantOps       \* the updates whose iterator may do this

ASSUME ReentrantOpsAssumption ==
    ReentrantOps \subseteq IterOps \cup {"intersection_iter"}

VARIABLE saved              \* the suspended frame
rvars == <<vars, saved>>

NoFrame == [op |-> "none", todo |-> {}, spaceleft |-> 0, hint |-> 0,
            before |-> {}, arg |-> {}]

RInit == Init /\ saved = NoFrame

\* The loop is waiting for the next key.
Waiting == /\ op \in ReentrantOps /\ pending = NULL
           /\ op \in IterOps => todo = {}

Enter ==
    /\ saved = NoFrame /\ Waiting /\ hint > HintFloor
    /\ saved' = [op |-> op, todo |-> todo, spaceleft |-> spaceleft,
                 hint |-> hint, before |-> before, arg |-> arg]
    /\ Return(ret)
    /\ UNCHANGED <<setVars, resizeVars>>

Leave ==
    /\ saved # NoFrame /\ op = "idle"
    /\ op' = saved.op /\ todo' = saved.todo /\ spaceleft' = saved.spaceleft
    /\ hint' = saved.hint /\ before' = saved.before /\ arg' = saved.arg
    /\ saved' = NoFrame
    /\ UNCHANGED <<setVars, resizeVars, ret>>

RNext == Enter \/ Leave \/ (Next /\ UNCHANGED saved)

RSpec == RInit /\ [][RNext]_rvars

\* The library runs a call to its end, or to the next key it waits for.
RFairSpec == RSpec /\ WF_rvars(Step /\ UNCHANGED saved)

\* _ypSet_movekey's assertions "loc->se_key != NULL || _ypSet_space_remaining
\* > 0" and "*spaceleft == _ypSet_space_remaining(so)": no key takes a NULL
\* slot of a table that is full to two thirds.  An update that adds keys does
\* so when its iterator has added some, by its spaceleft from before.  Then
\* the last NULL slot can go, and a later probe never ends.
NoKeyWithoutSpace == [][fill' > fill => Space(alloclen, fill) > 0]_rvars
=============================================================================
