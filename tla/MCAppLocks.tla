----------------------------- MODULE MCAppLocks -----------------------------
(* Instances of AppLocks for TLC. *)
EXTENDS AppLocks, TLC

CONSTANTS a, b

\* Calls that lock in the order of the loop, one for each shape that such calls
\* have: verify_address, for one, locks as try_restore_signing_session does.
Ordered == {
  "start_signing", "try_restore_signing_session", "begin_upgrade_firmware", "cancel_protocol",
  "enter_firmware_upgrade_mode", "finalize_keygen", "start_restoring_wallet_from_device_share",
  "sub_device_events", "tell_device_to_check_backup", "tell_device_to_save_physical_backup",
  "mark_backup_complete", "get_backup_run", "look_at_coordinator", "look_at_device_list",
  "get_device_name"}

\* What OrderedCallsNeverCircular asks of the calls and the iterations.
ASSUME MCAppLocksAssumption == CallsInOrder
=============================================================================
