------------------------------ MODULE AppLocks ------------------------------
(***************************************************************************)
(* The mutexes of the app's FfiCoordinator (frostsnapp/rust/src/           *)
(* coordinator.rs): its thread, which polls the devices for ever, and the  *)
(* calls that the app makes from Dart.  A call is modelled by the locks it *)
(* takes and when it drops them, which is a script of steps; the calls     *)
(* marked frb(sync) run on Flutter's own thread, which the coordinator's   *)
(* thread needs whenever it polls the serial ports.                        *)
(***************************************************************************)
EXTENDS Integers, Sequences

CONSTANTS
  Workers,     (* the threads that run the app's calls                     *)
  Calls,       (* the names of the calls that the app makes                *)
  Iterations,  (* the names of the iterations that the loop makes          *)
  Free         (* the owner of a lock nobody has                           *)

VARIABLES
  held,        (* lock -> the thread that has it, or Free                  *)
  todo         (* thread -> what is left of its call or iteration          *)

vars == <<held, todo>>

Loop == "loop"
Threads == Workers \cup {Loop}

\* flutter stands for Flutter's thread, the others are mutexes.
Locks == {"upgrade", "flutter", "coordinator", "db", "ui_stack", "genuine", "device_list",
          "device_names", "device_list_stream", "key_events", "backup", "backup_streams", "signals"}

----------------------------------------------------------------------------
(* Steps *)

LockStep(l) == <<[op |-> "lock", lock |-> l]>>
UnlockStep(l) == <<[op |-> "unlock", lock |-> l]>>

\* A guard that lives while script runs.
With(l, script) == LockStep(l) \o script \o UnlockStep(l)
Touch(l) == With(l, <<>>)

\* An early return, which drops every guard.
Try == <<[op |-> "try"]>>

\* A branch that may not be taken.
May(script) == <<[op |-> "may", skip |-> Len(script)]>> \o script

\* waiter.recv(): until the loop, which has the UI stack, delivers the message or
\* the disconnection that is waited for.
Wait == <<[op |-> "wait"]>>

----------------------------------------------------------------------------
(* What several calls have in common *)

emit_key_state == With("coordinator", Touch("key_events"))

\* Mutant: the list of devices stays locked.
start_protocol_keeping(connected) == With("device_list", connected \o Touch("ui_stack"))

\* connected is what the new protocol's sink does when it is told of a device.
start_protocol(connected) == With("device_list", connected) \o Touch("ui_stack")

block_for_to_user_message == start_protocol(<<>>) \o Wait

build_backup_run == With("backup", Touch("coordinator"))
backup_stream_emit == build_backup_run \o Touch("backup_streams")
commit_device_name_locally == Touch("device_names")

exit_recovery_mode ==
  Touch("device_list")
    \o May(Touch("coordinator")
             \o May(block_for_to_user_message
                      \o May(Touch("coordinator") \o May(Touch("device_list") \o Touch("ui_stack")))))

----------------------------------------------------------------------------
(* The calls *)

sub_key_events == With("key_events", Touch("coordinator"))
generate_new_key == Touch("device_list") \o Touch("coordinator") \o start_protocol(<<>>)
replenish_nonces == start_protocol(<<>>)
start_signing ==
  With("coordinator", With("db", Try) \o Touch("signals") \o start_protocol(May(Touch("signals"))))
try_restore_signing_session ==
  With("coordinator", Try \o Touch("signals") \o start_protocol(May(Touch("signals"))))
request_device_sign ==
  With("flutter", With("ui_stack", Try \o With("db", With("coordinator", Try))))
begin_upgrade_firmware == Touch("device_list") \o start_protocol(<<>>)
cancel_protocol == With("coordinator", With("ui_stack", May(Touch("signals"))))
enter_firmware_upgrade_mode == Touch("upgrade")
finalize_keygen ==
  With("coordinator", With("db", With("ui_stack", Try \o May(commit_device_name_locally))))
    \o emit_key_state
    \o Touch("coordinator")
    \o With("backup", With("db", Try))
    \o backup_stream_emit
verify_address == With("coordinator", Try \o start_protocol(<<>>))
wait_for_single_device == start_protocol(<<>>)
start_restoring_wallet == With("db", With("coordinator", Try)) \o emit_key_state
start_restoring_wallet_from_device_share ==
  With("coordinator", Try \o With("db", Try)) \o emit_key_state
continue_restoring_wallet_from_device_share == With("db", With("coordinator", Try)) \o emit_key_state
recover_share == With("db", With("coordinator", Try)) \o exit_recovery_mode \o emit_key_state
finish_restoring == With("db", With("coordinator", Try)) \o May(exit_recovery_mode) \o emit_key_state
delete_key == With("db", With("coordinator", Try) \o With("backup", Try)) \o emit_key_state
delete_share == With("db", With("coordinator", Try)) \o emit_key_state
sub_device_events == With("device_list", Touch("device_list_stream"))
erase_device == start_protocol(<<>>)
cancel_sign_session == With("db", With("coordinator", Try)) \o May(Touch("signals"))
forget_finished_sign_session == With("db", With("coordinator", Try)) \o May(Touch("signals"))
cancel_restoration == With("db", With("coordinator", Try \o Touch("key_events")))
sub_signing_session_signals == Touch("signals")
tell_device_to_enter_physical_backup == start_protocol(<<>>)
tell_device_to_check_backup ==
  With("device_list", Try) \o With("coordinator", Try) \o start_protocol(<<>>)
tell_device_to_save_physical_backup ==
  Touch("coordinator")
    \o With("db", commit_device_name_locally)
    \o block_for_to_user_message
    \o May(Touch("device_list") \o emit_key_state)
tell_device_to_consolidate_physical_backup ==
  With("coordinator", Try)
    \o With("db", commit_device_name_locally)
    \o block_for_to_user_message
    \o May(emit_key_state)
delete_restoration_share == With("coordinator", With("db", Try)) \o emit_key_state
display_backup == With("coordinator", Try) \o start_protocol(<<>>)
mark_backup_complete == With("backup", With("db", Try)) \o backup_stream_emit
backup_stream == Touch("backup_streams") \o backup_stream_emit
get_backup_run == With("flutter", build_backup_run)

\* key_state, get_frost_key, nonces_available and the others that only look.
look_at_coordinator == With("flutter", Touch("coordinator"))
look_at_device_list == With("flutter", Touch("device_list"))
get_device_name == With("flutter", Touch("device_names"))
get_device_case_color == With("flutter", Touch("genuine"))

Script == [
  sub_key_events |-> sub_key_events,
  generate_new_key |-> generate_new_key,
  replenish_nonces |-> replenish_nonces,
  start_signing |-> start_signing,
  try_restore_signing_session |-> try_restore_signing_session,
  request_device_sign |-> request_device_sign,
  begin_upgrade_firmware |-> begin_upgrade_firmware,
  cancel_protocol |-> cancel_protocol,
  enter_firmware_upgrade_mode |-> enter_firmware_upgrade_mode,
  finalize_keygen |-> finalize_keygen,
  verify_address |-> verify_address,
  wait_for_single_device |-> wait_for_single_device,
  start_restoring_wallet |-> start_restoring_wallet,
  start_restoring_wallet_from_device_share |-> start_restoring_wallet_from_device_share,
  continue_restoring_wallet_from_device_share |-> continue_restoring_wallet_from_device_share,
  recover_share |-> recover_share,
  finish_restoring |-> finish_restoring,
  delete_key |-> delete_key,
  delete_share |-> delete_share,
  sub_device_events |-> sub_device_events,
  erase_device |-> erase_device,
  cancel_sign_session |-> cancel_sign_session,
  forget_finished_sign_session |-> forget_finished_sign_session,
  cancel_restoration |-> cancel_restoration,
  sub_signing_session_signals |-> sub_signing_session_signals,
  tell_device_to_enter_physical_backup |-> tell_device_to_enter_physical_backup,
  tell_device_to_check_backup |-> tell_device_to_check_backup,
  tell_device_to_save_physical_backup |-> tell_device_to_save_physical_backup,
  tell_device_to_consolidate_physical_backup |-> tell_device_to_consolidate_physical_backup,
  delete_restoration_share |-> delete_restoration_share,
  display_backup |-> display_backup,
  mark_backup_complete |-> mark_backup_complete,
  backup_stream |-> backup_stream,
  get_backup_run |-> get_backup_run,
  look_at_coordinator |-> look_at_coordinator,
  look_at_device_list |-> look_at_device_list,
  get_device_name |-> get_device_name,
  get_device_case_color |-> get_device_case_color]

----------------------------------------------------------------------------
(* The loop *)

\* set_recovery_mode and a new key state, by the sink of EnterPhysicalBackup.
backup_saved_sink == Touch("device_list") \o emit_key_state

\* Mutant: an iteration without changes ends before it comes to the UI stack.
iteration_ends_early(to_user) == LockStep("upgrade") \o Touch("flutter") \o UnlockStep("upgrade")

\* One iteration of the thread; to_user is what the sinks of the UI stack do once
\* the coordinator is dropped.
iteration(to_user) ==
  LockStep("upgrade")
    \o Touch("flutter")
    \o LockStep("coordinator") \o LockStep("db") \o LockStep("ui_stack") \o LockStep("genuine")
    \o With("device_list",
            May(Touch("signals")) \o May(Touch("device_names")) \o May(Touch("device_list_stream")))
    \o UnlockStep("genuine") \o UnlockStep("coordinator") \o UnlockStep("db")
    \o May(to_user)
    \o UnlockStep("ui_stack") \o UnlockStep("upgrade")

LoopScript == [
  usual |-> iteration(Touch("signals")),
  backup_saved |-> iteration(backup_saved_sink)]

ASSUME AppLocksAssumption ==
  /\ Calls \subseteq DOMAIN Script
  /\ Iterations \subseteq DOMAIN LoopScript
  /\ Loop \notin Workers
  /\ Free \notin Workers \cup {Loop}

----------------------------------------------------------------------------
Init ==
  /\ held = [l \in Locks |-> Free]
  /\ todo = [t \in Threads |-> <<>>]

Call(t) ==
  /\ t \in Workers
  /\ todo[t] = <<>>
  /\ \E c \in Calls : todo' = [todo EXCEPT ![t] = Script[c]]
  /\ UNCHANGED held

Iterate ==
  /\ todo[Loop] = <<>>
  /\ \E i \in Iterations : todo' = [todo EXCEPT ![Loop] = LoopScript[i]]
  /\ UNCHANGED held

At(t, op) == todo[t] # <<>> /\ Head(todo[t]).op = op

Advance(t) == todo' = [todo EXCEPT ![t] = Tail(@)]

Lock(t) ==
  /\ At(t, "lock")
  /\ held[Head(todo[t]).lock] = Free
  /\ held' = [held EXCEPT ![Head(todo[t]).lock] = t]
  /\ Advance(t)

Unlock(t) ==
  /\ At(t, "unlock")
  /\ held' = [held EXCEPT ![Head(todo[t]).lock] = Free]
  /\ Advance(t)

ReturnEarly(t) ==
  /\ At(t, "try")
  /\ held' = [l \in Locks |-> IF held[l] = t THEN Free ELSE held[l]]
  /\ todo' = [todo EXCEPT ![t] = <<>>]

GoOn(t) ==
  /\ At(t, "try") \/ At(t, "may")
  /\ Advance(t)
  /\ UNCHANGED held

Skip(t) ==
  /\ At(t, "may")
  /\ todo' = [todo EXCEPT ![t] = SubSeq(@, Head(@).skip + 2, Len(@))]
  /\ UNCHANGED held

Recv(t) ==
  /\ At(t, "wait")
  /\ held["ui_stack"] = Loop
  /\ Advance(t)
  /\ UNCHANGED held

Step(t) == Lock(t) \/ Unlock(t) \/ ReturnEarly(t) \/ GoOn(t) \/ Skip(t) \/ Recv(t)

Next ==
  \/ Iterate
  \/ \E t \in Workers : Call(t)
  \/ \E t \in Threads : Step(t)

Spec == Init /\ [][Next]_vars

\* The loop goes on for ever, and a thread gets a mutex that is free again and
\* again: the loop sleeps without a lock, "to give time for the other threads to
\* get a lock".
FairSpec == Spec /\ WF_vars(Iterate) /\ \A t \in Threads : SF_vars(Step(t))

----------------------------------------------------------------------------
(* Properties *)

Blocked(t) == At(t, "lock") /\ held[Head(todo[t]).lock] # Free

\* No threads wait for each other: some thread of every set of threads is not
\* waiting for a mutex that another of them, or it itself, has.
NoCircularWait ==
  \A S \in (SUBSET Threads) \ {{}} :
    \E t \in S : Blocked(t) => held[Head(todo[t]).lock] \notin S

\* The order in which the loop, and the calls that go with it, lock.
Rank == [
  upgrade |-> 1, flutter |-> 2, backup |-> 3, coordinator |-> 4, db |-> 5, ui_stack |-> 6,
  genuine |-> 7, device_list |-> 8, device_names |-> 9, device_list_stream |-> 10,
  key_events |-> 11, backup_streams |-> 12, signals |-> 13]

Steps ==
  [op : {"lock", "unlock"}, lock : Locks] \cup [op : {"try", "wait"}] \cup [op : {"may"}, skip : Nat]

\* What a thread that runs the script s may have when it comes to its step k.
HeldAt(s, k) ==
  {l \in Locks :
     \E j \in 1 .. k - 1 :
       /\ s[j] = [op |-> "lock", lock |-> l]
       /\ \A m \in j + 1 .. k - 1 : s[m] # [op |-> "unlock", lock |-> l]}

\* The script s locks in the order of the ranks, drops every guard before it ends
\* and has the same guards where it goes on after a branch, taken or not.
KeepsOrder(s) ==
  /\ s \in Seq(Steps)
  /\ \A k \in 1 .. Len(s) :
       /\ s[k].op = "lock" => \A l \in HeldAt(s, k) : Rank[l] < Rank[s[k].lock]
       /\ s[k].op = "may" =>
            /\ k + s[k].skip <= Len(s)
            /\ HeldAt(s, k) \subseteq HeldAt(s, k + 1 + s[k].skip)
  /\ HeldAt(s, Len(s) + 1) = {}

Scripts == {Script[c] : c \in Calls} \cup {LoopScript[i] : i \in Iterations}

LockOrderKept == \A s \in Scripts : KeepsOrder(s)

\* Calls that lock against the order of the loop.
Unordered == {
  "sub_key_events", "request_device_sign", "start_restoring_wallet",
  "continue_restoring_wallet_from_device_share", "recover_share", "finish_restoring", "delete_key",
  "delete_share", "cancel_sign_session", "forget_finished_sign_session", "cancel_restoration"}

\* The app makes none of those, and the sinks of the loop lock nothing but signals.
CallsInOrder == Calls \cap Unordered = {} /\ Iterations \subseteq {"usual"}

\* Every call of the app returns and every iteration of the loop ends.
CallsReturn == \A t \in Threads : (todo[t] # <<>>) ~> (todo[t] = <<>>)

=============================================================================
