------------------------------ MODULE Delivery ------------------------------
(***************************************************************************)
(* What the publisher promises of a post, however it is implemented: the   *)
(* platform accepts each target once at most; a target is shown as         *)
(* published only after that; the post gets its publication date only      *)
(* after all its targets were accepted, and keeps it.  Showing a target as *)
(* published may be taken back, sending it may not.                        *)
(***************************************************************************)
EXTENDS Integers

CONSTANTS Items, Groups, GroupOf

VARIABLES sent,   \* times the platform accepted an item
          shown,  \* items shown as published
          dated   \* groups with a publication date

dvars == <<sent, shown, dated>>

Members(g) == {i \in Items : GroupOf[i] = g}

DInit == /\ sent = [i \in Items |-> 0]
         /\ shown = {}
         /\ dated = {}

Send(i) == /\ sent[i] = 0
           /\ sent' = [sent EXCEPT ![i] = 1]
           /\ UNCHANGED <<shown, dated>>

Show(i) == /\ sent[i] = 1
           /\ shown' = shown \union {i}
           /\ UNCHANGED <<sent, dated>>

Retract(S) == /\ shown' = shown \ S
              /\ UNCHANGED <<sent, dated>>

Date(g) == /\ \A i \in Members(g) : sent[i] = 1
           /\ dated' = dated \union {g}
           /\ UNCHANGED <<sent, shown>>

DNext == \/ \E i \in Items : Send(i) \/ Show(i)
         \/ \E S \in SUBSET Items : Retract(S)
         \/ \E g \in Groups : Date(g)

DSpec == DInit /\ [][DNext]_dvars

=============================================================================
