----------------------------- MODULE ApprovalGate -----------------------------
(***************************************************************************)
(* What the terminal tool promises ("PROPOSE a command to run on behalf of *)
(* the user.  The user will have to approve the command before it is       *)
(* executed", extension.ts:264), and the autopilot mode that lifts it: a   *)
(* command is started once at most, and in secure mode only after the user *)
(* has approved that very command; the first answer of the user is final.  *)
(***************************************************************************)
CONSTANT Cmds    \* the commands the model proposes

VARIABLES
    mode,        \* "secure" or "full"
    stage        \* how far each command is

gateVars == <<mode, stage>>

Stages == {"idle", "asked", "approved", "refused", "running", "over"}

Init == mode \in {"secure", "full"} /\ stage = [c \in Cmds |-> "idle"]

\* Several calls of one answer may be proposed at once.
Ask == /\ \E B \in SUBSET {c \in Cmds : stage[c] = "idle"} :
             stage' = [c \in Cmds |-> IF c \in B THEN "asked" ELSE stage[c]]
       /\ UNCHANGED mode

Autopilot ==
    /\ mode = "full"
    /\ \E B \in SUBSET {c \in Cmds : stage[c] = "idle"} :
          \E s \in [B -> {"running", "over"}] :
             stage' = [c \in Cmds |-> IF c \in B THEN s[c] ELSE stage[c]]
    /\ UNCHANGED mode

Move(c, from, to) ==
    /\ stage[c] = from
    /\ stage' = [stage EXCEPT ![c] = to]
    /\ UNCHANGED mode

Decide(c) == Move(c, "asked", "approved") \/ Move(c, "asked", "refused")
Start(c) == Move(c, "approved", "running") \/ Move(c, "approved", "over")
End(c) == Move(c, "running", "over")

SetMode == mode' \in {"secure", "full"} /\ UNCHANGED stage

Next == Ask \/ Autopilot \/ SetMode \/ \E c \in Cmds : Decide(c) \/ Start(c) \/ End(c)

Spec == Init /\ [][Next]_gateVars
=============================================================================
