--------------------------- MODULE AtomicRegister ---------------------------
(***************************************************************************)
(* What the device's flash state store promises its callers: a register    *)
(* whose writes take effect at one instant.  A call of write returns only  *)
(* after its value took effect, and a power loss either happens before     *)
(* that instant (the old value survives) or after it (the new one does).   *)
(* Every value that takes effect gets a version of its own.                *)
(***************************************************************************)
EXTENDS Integers

CONSTANTS
  Values,   (* the states a caller stores                                  *)
  Absent    (* what a read returns when nothing was ever stored            *)

VARIABLES
  register, (* the stored state, or Absent                                 *)
  version,  (* how often the register changed, -1 when it never did        *)
  call,     (* the state of the one caller: idle, writing or written       *)
  pending   (* the argument of the running call, or Absent                 *)

vars == <<register, version, call, pending>>

Init ==
  /\ register = Absent
  /\ version = -1
  /\ call = "idle"
  /\ pending = Absent

Begin(v) ==
  /\ call = "idle"
  /\ call' = "writing"
  /\ pending' = v
  /\ UNCHANGED <<register, version>>

TakeEffect ==
  /\ call = "writing"
  /\ call' = "written"
  /\ register' = pending
  /\ version' = version + 1
  /\ UNCHANGED pending

Return ==
  /\ call = "written"
  /\ call' = "idle"
  /\ pending' = Absent
  /\ UNCHANGED <<register, version>>

PowerLoss ==
  /\ call' = "idle"
  /\ pending' = Absent
  /\ UNCHANGED <<register, version>>

Next ==
  \/ \E v \in Values : Begin(v)
  \/ TakeEffect
  \/ Return
  \/ PowerLoss

Spec == Init /\ [][Next]_vars

=============================================================================
