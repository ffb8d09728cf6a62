----------------------------- MODULE BapiService -----------------------------
(***************************************************************************)
(* What IOCTL_DRV_BAPI_CALL promises each of its callers, whatever other   *)
(* callers do: the BIOS is called at most once for a request, only for a   *)
(* member of the root group, and DRV_READY is the answer to a request the  *)
(* BIOS was called for.                                                    *)
(***************************************************************************)
CONSTANT Threads

VARIABLES
  phase,    (* how far each thread's request is                              *)
  root,     (* whether the caller belongs to the root group                  *)
  answer    (* the DRV_ status of an answered request                        *)

vars == <<phase, root, answer>>

Refusals == {"ERROR", "INSUFFICIENT_RESOURCES", "ACCESS_DENIED"}

Init ==
  /\ phase = [t \in Threads |-> "idle"]
  /\ root = [t \in Threads |-> FALSE]
  /\ answer = [t \in Threads |-> "ERROR"]

Move(t, from, to) == phase[t] = from /\ phase' = [phase EXCEPT ![t] = to]

Ask(t) ==
  /\ Move(t, "idle", "asked")
  /\ \E r \in BOOLEAN : root' = [root EXCEPT ![t] = r]
  /\ UNCHANGED answer

Execute(t) ==
  /\ Move(t, "asked", "executed")
  /\ root[t]
  /\ UNCHANGED <<root, answer>>

(* Refused before the BIOS was called.                                        *)
Refuse(t) ==
  /\ Move(t, "asked", "answered")
  /\ \E s \in Refusals : answer' = [answer EXCEPT ![t] = s]
  /\ UNCHANGED root

(* DRV_ERROR when the results cannot be copied back.                          *)
Answer(t) ==
  /\ Move(t, "executed", "answered")
  /\ \E s \in {"READY", "ERROR"} : answer' = [answer EXCEPT ![t] = s]
  /\ UNCHANGED root

(* The system call returns: with the answer, or with an errno.                *)
Finish(t) ==
  /\ Move(t, "answered", "idle") \/ Move(t, "asked", "idle")
  /\ root' = [root EXCEPT ![t] = FALSE]
  /\ answer' = [answer EXCEPT ![t] = "ERROR"]

(* The kernel kills the caller.                                               *)
Die(t) == Move(t, "asked", "dead") /\ UNCHANGED <<root, answer>>

Next == \E t \in Threads :
  Ask(t) \/ Execute(t) \/ Refuse(t) \/ Answer(t) \/ Finish(t) \/ Die(t)

Spec == Init /\ [][Next]_vars
=============================================================================
