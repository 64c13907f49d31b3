------------------------- MODULE UnitManagerContract -------------------------
(***************************************************************************)
(* UnitManager, on one slot and in a build that does not unwind, implements *)
(* UnitControl.  History variables record what the code does not keep: the  *)
(* order in which requests joined the batch that is next, whether the unit  *)
(* took the command now out, and the settings it has had.                   *)
(***************************************************************************)
EXTENDS UnitManager, Sequences

VARIABLES line, taken, past

historyVars == <<line, taken, past>>

Joining  == {c \in Callers : pc[c] = "join" /\ pc'[c] = "lock"}
Applying == {c \in Callers : pc[c] = "apply" /\ seen'[c] # NoState}

ContractInit == Init /\ line = <<>> /\ taken = FALSE /\ past = {unit}

Record ==
    /\ line' = IF nextBatch'[1] # nextBatch[1] THEN <<>>
               ELSE IF Joining = {} THEN line
               ELSE LET c == CHOOSE d \in Joining : TRUE
                    IN  Append(line, [caller |-> c, change |-> mine[c]])
    /\ taken' = (nextBatch'[1] = nextBatch[1] /\ (taken \/ Applying # {}))
    /\ past' = past \cup {unit'}

ContractSpec == ContractInit /\ [][Next /\ Record]_<<vars, historyVars>>
-----------------------------------------------------------------------------
\* The one caller whose command is out, between Take and Finish.
Senders == {c \in Callers : op[c] = "control" /\ pc[c] \in {"base", "ask", "apply", "finish"}}

Flight ==
    IF Senders = {} THEN [carries |-> {}, change |-> NoChange, taken |-> FALSE]
    ELSE LET c == CHOOSE d \in Senders : TRUE
         IN  [carries |-> {c} \cup Waiting(1, batch[c]),
              change  |-> work[c].change,
              taken   |-> taken]

Verdict(c) ==
    CASE op[c] # "control" \/ pc[c] = "join"         -> "none"
      [] op[c] = "control" /\ pc[c] = "answer"       -> reply[c].kind
      [] Joined(c) /\ batch[c] \in DOMAIN done[1]    -> done[1][batch[c]].outcome.kind
      [] OTHER                                       -> "waiting"

Verdicts == [c \in Callers |-> Verdict(c)]

Contract == INSTANCE UnitControl WITH flight <- Flight, verdict <- Verdicts

\* control, as its comment has it: "the next command carries all of them, and
\* every request it covers gets its result.  Order is kept -- a later request's
\* value for a field wins."
ImplementsContract == Contract!Spec
=============================================================================
