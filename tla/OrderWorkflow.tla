---------------------------- MODULE OrderWorkflow ----------------------------
(***************************************************************************)
(* What the production module promises about an order: it goes forward     *)
(* through its statuses; material enters it only before it is started; in  *)
(* production it goes through the stages fixed at the start, each of them  *)
(* once, which may lose part of the material and never adds any; and it is *)
(* complete when no stage is left.  What is lost is known to within a unit. *)
(***************************************************************************)
EXTENDS Integers

CONSTANTS Orders, Stages

VARIABLES
    status,    \* status[o]
    left,      \* left[o]: the stages that order o has still to complete
    material,  \* material[o]: the dozens that are still in order o
    losses     \* losses[o][s]: the dozens of order o that stage s scrapped or left incomplete

workflowVars == <<status, left, material, losses>>

Step(o, from, to) == status[o] = from /\ status' = [status EXCEPT ![o] = to]

Advance(o, from, to) == Step(o, from, to) /\ UNCHANGED <<left, material, losses>>

AddMaterial(o) ==
    /\ status[o] = "PLANNED"
    /\ material'[o] >= material[o]
    /\ material' = [material EXCEPT ![o] = material'[o]]
    /\ UNCHANGED <<status, left, losses>>

Start(o) ==
    /\ Step(o, "PLANNED", "IN_PRODUCTION")
    /\ \E S \in SUBSET Stages : left' = [left EXCEPT ![o] = S]
    /\ UNCHANGED <<material, losses>>

FinishStage(o, s) ==
    /\ status[o] = "IN_PRODUCTION"
    /\ s \in left[o]
    /\ left' = [left EXCEPT ![o] = @ \ {s}]
    /\ \E d \in 0 .. material[o] :
          /\ material' = [material EXCEPT ![o] = @ - d]
          /\ \E lost \in Nat \cap (d - 1 .. d + 1) : losses' = [losses EXCEPT ![o][s] = lost]
    /\ UNCHANGED status

WorkflowInit ==
    /\ status = [o \in Orders |-> "none"]
    /\ left = [o \in Orders |-> {}]
    /\ material = [o \in Orders |-> 0]
    /\ losses = [o \in Orders |-> [s \in Stages |-> 0]]

WorkflowNext ==
    \E o \in Orders :
        \/ Advance(o, "none", "DRAFT")
        \/ Advance(o, "DRAFT", "PLANNED")
        \/ AddMaterial(o)
        \/ Start(o)
        \/ \E s \in Stages : FinishStage(o, s)
        \/ left[o] = {} /\ Advance(o, "IN_PRODUCTION", "PRODUCTION_COMPLETE")
        \/ Advance(o, "PRODUCTION_COMPLETE", "CLOSED")

WorkflowSpec == WorkflowInit /\ [][WorkflowNext]_workflowVars
=============================================================================
