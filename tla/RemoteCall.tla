----------------------------- MODULE RemoteCall -----------------------------
(***************************************************************************)
(* What a caller may rely on when it calls another service: it is told      *)
(* that the call took effect only if it did, and that it was refused only   *)
(* if it never will.  "failed" says nothing: the call may have taken effect *)
(* before, may take effect later, or never.  No call takes effect twice.    *)
(***************************************************************************)
CONSTANT Calls

VARIABLES heard,  \* per call: what the caller knows
          done    \* per call: whether it has taken effect

vars == <<heard, done>>

Init ==
  /\ heard = [c \in Calls |-> "unmade"]
  /\ done = [c \in Calls |-> FALSE]

Make(c) ==
  /\ heard[c] = "unmade"
  /\ heard' = [heard EXCEPT ![c] = "pending"]
  /\ UNCHANGED done

TakeEffect(c) ==
  /\ heard[c] \in {"pending", "failed"}
  /\ ~done[c]
  /\ done' = [done EXCEPT ![c] = TRUE]
  /\ UNCHANGED heard

Learn(c, answer) ==
  /\ heard[c] = "pending"
  /\ answer = "ok" => done[c]
  /\ answer = "refused" => ~done[c]
  /\ heard' = [heard EXCEPT ![c] = answer]
  /\ UNCHANGED done

Next ==
  \E c \in Calls : \/ Make(c)
                   \/ TakeEffect(c)
                   \/ \E answer \in {"ok", "refused", "failed"} : Learn(c, answer)

Spec == Init /\ [][Next]_vars
=============================================================================
