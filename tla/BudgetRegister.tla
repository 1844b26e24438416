--------------------------- MODULE BudgetRegister ---------------------------
(***************************************************************************)
(* What PATCH /projects/{id}/budget promises: each call sets the budget    *)
(* once, at one instant between its start and its answer.  A call that is  *)
(* dropped may have taken effect or not.                                   *)
(***************************************************************************)
CONSTANTS Projects, Calls, Values, Unset, None

VARIABLES value,   \* value[p]: the budget of project p
          call     \* call[c]: None, or what call c is to set and whether it has

InFlight == [project : Projects, wanted : Values \cup {Unset}, effected : BOOLEAN]

Init ==
  /\ value = [p \in Projects |-> Unset]
  /\ call = [c \in Calls |-> None]

Invoke(c, p, b) ==
  /\ call[c] = None
  /\ call' = [call EXCEPT ![c] = [project |-> p, wanted |-> b, effected |-> FALSE]]
  /\ UNCHANGED value

\* The call takes effect at the very instant it starts.
InvokeAndSet(c, p, b) ==
  /\ call[c] = None
  /\ call' = [call EXCEPT ![c] = [project |-> p, wanted |-> b, effected |-> TRUE]]
  /\ value' = [value EXCEPT ![p] = b]

Set(c) ==
  /\ call[c] \in [project : Projects, wanted : Values \cup {Unset}, effected : {FALSE}]
  /\ call' = [call EXCEPT ![c].effected = TRUE]
  /\ value' = [value EXCEPT ![call[c].project] = call[c].wanted]

Answer(c) ==
  /\ call[c] \in [project : Projects, wanted : Values \cup {Unset}, effected : {TRUE}]
  /\ call' = [call EXCEPT ![c] = None]
  /\ UNCHANGED value

Drop(c) ==
  /\ call[c] \in InFlight
  /\ call' = [call EXCEPT ![c] = None]
  /\ UNCHANGED value

Next ==
  \E c \in Calls :
    \/ \E p \in Projects, b \in Values \cup {Unset} : Invoke(c, p, b) \/ InvokeAndSet(c, p, b)
    \/ Set(c) \/ Answer(c) \/ Drop(c)

Spec == Init /\ [][Next]_<<value, call>>
=============================================================================
