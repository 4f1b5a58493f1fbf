---------------------------- MODULE Restoration ----------------------------
(***************************************************************************)
(* Restoring a wallet from devices and physical backups, and consolidating *)
(* the backups afterwards: the coordinator's restorations and pending      *)
(* consolidations (frostsnap_core/src/coordinator/restoration.rs), the     *)
(* devices' loaded and saved backups (frostsnap_core/src/device/           *)
(* restoration.rs, frostsnap_embedded/src/device_loop.rs), the recovery    *)
(* page and the app's calls that wait for an answer on the UI stack        *)
(* (frostsnapp/rust/src/coordinator.rs, frostsnap_coordinator/src/         *)
(* enter_physical_backup.rs, wait_for_single_device.rs,                    *)
(* wait_for_to_user_message.rs).  A share image is a key and an index; the *)
(* polynomial checksum is exact, so shares recover their key and no other  *)
(* as soon as there are as many as its threshold.                          *)
(***************************************************************************)
EXTENDS Naturals, Sequences, SequencesExt, FiniteSets, FiniteSetsExt, Lists

CONSTANTS
  Devices,
  Keys,           (* keys with their access structure                      *)
  Threshold,      (* of each key                                           *)
  Papers,         (* the physical backups the user has                     *)
  Holds,          (* the complete shares devices have at first             *)
  Guesses,        (* the thresholds a user enters for a restoration        *)
  None,
  MaxInbox,       (* bound: messages a device reads in one poll            *)
  MaxDraws,       (* bound: restorations; their ids are numbered as drawn  *)
  MaxPages,       (* bound: times the recovery page is opened              *)
  MaxFaults       (* bound: devices unplugged, deletions, crashes of the   *)
                  (*   app, and pages opened while a Cancel has still to   *)
                  (*   be sent                                             *)

(* A device has at most one share of an access structure. *)
ASSUME RestorationAssumption ==
  /\ IsFiniteSet(Devices)
  /\ Threshold \in [Keys -> Nat \ {0, 1}]
  /\ Papers \subseteq Keys \X (Nat \ {0})
  /\ Holds \in [Devices -> SUBSET (Keys \X (Nat \ {0}))]
  /\ \A d \in Devices : \A im, other \in Holds[d] : im[1] = other[1] => im = other
  /\ Guesses \subseteq {None} \cup (Nat \ {0, 1})
  /\ MaxDraws \in Nat
  /\ MaxInbox \in Nat \ {0}

\* The papers are backups of different keys.
OnePaper == \A im, other \in Papers : im[1] = other[1] => im = other

VARIABLES
  restorations, (* database: the restorations, None when there is none     *)
  wallets,      (* database: the devices of each known key, index or 0     *)
  known,        (* database: the keys                                      *)
  pending,      (* database: pending_physical_consolidations               *)
  waitSave,     (* coordinator: tmp_waiting_save                           *)
  waitCons,     (* coordinator: tmp_waiting_consolidate                    *)
  page,         (* the recovery page, None when it is closed               *)
  finder,       (* UI stack: WaitForSingleDevice                           *)
  entry,        (* UI stack: EnterPhysicalBackup                           *)
  finish,       (* the entry view's onFinished, still to run               *)
  stack,        (* UI stack: the waiters of calls                          *)
  calls,        (* calls that are not on the stack                         *)
  seen,         (* device list                                             *)
  registered,   (* those of them whose name the app knows                  *)
  plugged,      (* the devices that have power                             *)
  down, up,     (* messages in flight, by device                           *)
  shares,       (* device flash: complete shares                           *)
  saved,        (* device flash: saved_backups, images with a threshold    *)
  name,         (* device flash: it has a name                             *)
  staged,       (* device: shares whose mutations are not in flash yet     *)
  loaded,       (* device: tmp_loaded_backups                              *)
  named,        (* device: pending_device_name is set                      *)
  screen,       (* device: the entry it asks its user for                  *)
  queue,        (* device: what its upstream connection has to send        *)
  sent,         (* device: the poll has sent its message, the rest is next *)
  panicked,
  cancelling,   (* calls of cancel_protocol that have still to send Cancel *)
  disturbed,    (* history: devices that were cancelled, or of which the   *)
                (*   entry was, or lost power since a page that does not   *)
                (*   overlap another named them                            *)
  torn,         (* history: devices that lost a mutation they had told of  *)
  drawn,        (* restoration ids that were drawn                         *)
  pages, faults

dbVars == <<restorations, wallets, known, pending>>
tmpVars == <<waitSave, waitCons>>
uiVars == <<page, finder, entry, finish, stack, calls>>
linkVars == <<seen, registered, plugged, down, up>>
flashVars == <<shares, saved, name>>
memVars == <<staged, loaded, named, screen, queue, sent, panicked>>
disturbVars == <<cancelling, disturbed, torn>>
countVars == <<pages, faults>>
boundVars == <<drawn, countVars>>
vars == <<dbVars, tmpVars, uiVars, linkVars, flashVars, memVars, disturbVars, boundVars>>

RestorationIds == 1 .. MaxDraws

Indices == {im[2] : im \in Papers \cup UNION {Holds[d] : d \in Devices}}

\* HeldShare2, with the device when it is a RecoverShare.
Share(d, image, ref, thr, cons) ==
  [dev |-> d, image |-> image, ref |-> ref, thr |-> thr, cons |-> cons]

\* PendingConsolidation
Pending(d, k, i) == [dev |-> d, key |-> k, index |-> i]

Message(type, arg) == [type |-> type, arg |-> arg]

Init ==
  /\ restorations = [r \in RestorationIds |-> None]
  /\ known \in {{}, Keys}
  /\ wallets = [k \in Keys |-> [d \in Devices |->
       LET held == {im \in Holds[d] : im[1] = k}
       IN  IF k \in known /\ held # {} THEN (CHOOSE im \in held : TRUE)[2] ELSE 0]]
  /\ pending = {}
  /\ waitSave = {} /\ waitCons = {}
  /\ page = None /\ finder = None /\ entry = None /\ finish = None
  /\ stack = <<>> /\ calls = {}
  /\ seen = {} /\ registered = {} /\ plugged = {}
  /\ down = [d \in Devices |-> <<>>] /\ up = [d \in Devices |-> <<>>]
  /\ shares = Holds /\ saved = [d \in Devices |-> {}]
  /\ name = [d \in Devices |-> Holds[d] # {}]
  /\ staged = [d \in Devices |-> {}] /\ loaded = [d \in Devices |-> {}]
  /\ named = [d \in Devices |-> FALSE] /\ screen = [d \in Devices |-> None]
  /\ queue = [d \in Devices |-> <<>>] /\ sent = [d \in Devices |-> FALSE]
  /\ panicked = {}
  /\ cancelling = 0
  /\ disturbed = {} /\ torn = {}
  /\ drawn = 0 /\ pages = 0 /\ faults = 0

Fault ==
  /\ faults < MaxFaults
  /\ faults' = faults + 1

\* To the devices of S that are there, after what was sent to them before.
Send(S, messages) == [d \in Devices |-> IF d \in S \cap seen THEN down[d] \o messages ELSE down[d]]

----------------------------------------------------------------------------
(* The coordinator's restorations *)

\* The first known value of a field of the held shares.
FirstKnown(values) ==
  LET n == SelectInSeq(values, LAMBDA v : v # None)
  IN  IF n = 0 THEN None ELSE values[n]

AccessStructureRef(a) ==
  IF a.key # None THEN a.key ELSE FirstKnown([n \in DOMAIN a.held |-> a.held[n].ref])

EffectiveThreshold(a) ==
  IF a.key # None THEN Threshold[a.key]
    ELSE IF a.starting # None THEN a.starting
    ELSE FirstKnown([n \in DOMAIN a.held |-> a.held[n].thr])

\* try_fuzzy_recovery, find_valid_subset: enough shares of one key, and of as
\* many as the threshold says when it is known.
TryFuzzyRecovery(a) ==
  LET images == {s.image : s \in Range(a.held)}
      thr == EffectiveThreshold(a)
      found == {k \in Keys : /\ Cardinality({im \in images : im[1] = k}) >= Threshold[k]
                             /\ thr \in {None, Threshold[k]}}
  IN  IF found = {} THEN None ELSE CHOOSE k \in found : TRUE

\* add_share: recovery is tried again with the threshold that was known.
AddShare(a, s) ==
  LET b == [a EXCEPT !.held = Append(@, s)]
  IN  [b EXCEPT !.key = TryFuzzyRecovery(b)]

\* remove_share
RemoveShare(a, n) ==
  LET b == [a EXCEPT !.held = RemoveAt(@, n)]
  IN  [b EXCEPT !.key = TryFuzzyRecovery(b)]

NewRestoration(starting) == [starting |-> starting, held |-> <<>>, key |-> None]

\* The mutation RestorationProgress2, on the restorations: it is refused when
\* the restoration is gone or the share claims another access structure.
RestorationProgress(rs, r, s) ==
  IF \/ rs[r] = None
     \/ \E h \in Range(rs[r].held) : h.dev = s.dev /\ h.image = s.image
     \/ /\ s.ref # None /\ AccessStructureRef(rs[r]) # None
        /\ s.ref # AccessStructureRef(rs[r])
    THEN rs
    ELSE [rs EXCEPT ![r] = AddShare(@, s)]

\* prepare_save_physical_backup: what the device's share will look like, with
\* the metadata of the key when it completes the recovery.
PrepareSave(a, d, image) ==
  LET trial == AddShare(a, Share(d, image, None, None, TRUE))
  IN  IF trial.key = image[1]
        THEN Share(d, image, trial.key, Threshold[trial.key], TRUE)
        ELSE Share(d, image, None, None, TRUE)

\* find_share: where a share is known, a key (0) or a restoration.
FindShare(image) ==
  IF image[1] \in known
    THEN {[rest |-> 0, devs |-> {d \in Devices : wallets[image[1]][d] = image[2]}]}
    ELSE {[rest |-> r, devs |-> {d \in Devices : \E s \in Range(restorations[r].held) :
                                                   s.dev = d /\ s.image = image}] :
            r \in {q \in RestorationIds :
                     /\ restorations[q] # None
                     /\ \/ restorations[q].key = image[1]
                        \/ \E s \in Range(restorations[q].held) : s.image = image}}

\* check_physical_backup_compatible_with_restoration, and the first part of
\* check_recover_share_compatible_with_restoration.
FitsRestoration(r, d, image) ==
  /\ restorations[r] # None
  /\ \A place \in FindShare(image) : place.rest = r /\ d \notin place.devs

\* check_recover_share_compatible_with_restoration
FitsRestorationByRef(r, s) ==
  /\ FitsRestoration(r, s.dev, s.image)
  /\ \/ s.ref = None \/ AccessStructureRef(restorations[r]) = None
     \/ s.ref = AccessStructureRef(restorations[r])

\* check_recover_share_compatible_with_key
FitsKey(k, s) ==
  /\ k \in known
  /\ s.ref \in {None, k}
  /\ wallets[k][s.dev] = 0
  /\ s.image[1] = k

\* compatible_device_to_share_index: the last compatible share of a device.
CompatibleShare(a, d) ==
  SelectLastInSeq(a.held, LAMBDA s : s.dev = d /\ s.image[1] = a.key)

\* The shares a finished restoration's devices must consolidate.
NeedsToConsolidate(a) ==
  Retain(a.held, {s \in Range(a.held) : ~s.cons \/ s.image[1] # a.key})

----------------------------------------------------------------------------
(* Calls that send a message and wait for its answer on the UI stack *)

Save(d, r, i) == [kind |-> "save", dev |-> d, what |-> r, index |-> i, more |-> <<>>,
                  stage |-> "sent", late |-> FALSE]
Consolidate(d, k, i) == [Save(d, k, i) EXCEPT !.kind = "consolidate"]

\* exit_recovery_mode for several devices or wallets, one after the other.
Exit(todo) == [kind |-> "exit", dev |-> None, what |-> None, index |-> 0, more |-> todo,
               stage |-> "next", late |-> FALSE]

\* The message the call waits for.
Answers(c, user) ==
  /\ c.dev = user.dev /\ c.what = user.what
  /\ (c.kind = "save") = (user.type = "Saved")
  /\ c.kind = "exit" \/ c.index = user.index

\* The call has missed its answer, or none will come: the message to a device
\* that is not there is dropped.
Late(c) == [c EXCEPT !.late = TRUE]
Asked(c) == IF c.dev \in seen THEN c ELSE Late(c)

\* What is left of a call: an exit goes on with the next device, after a success
\* once it has looked what the device has still pending.
GoOn(c) == IF c.more = <<>> THEN {} ELSE {Exit(c.more)}
Succeed(c) == IF c.kind = "exit" THEN {[c EXCEPT !.stage = "done"]} ELSE {}

\* process_to_user_message: the topmost protocol that takes it.  A call that has
\* sent its request and is not on the stack yet never sees it, nor does a second
\* waiter for the same.
ProcessToUser(user) ==
  LET matching == {n \in DOMAIN stack : Answers(stack[n], user)}
      top == Max(matching)
      missed(c) == IF c.stage = "sent" /\ Answers(c, user) THEN Late(c) ELSE c
  IN  IF matching = {}
        THEN /\ calls' = {missed(c) : c \in calls}
             /\ UNCHANGED stack
             /\ entry' = IF entry # None /\ user.type = "Saved" /\ user.dev = entry.dev
                           THEN None ELSE entry
        ELSE /\ calls' = {missed(c) : c \in calls} \cup Succeed(stack[top])
             /\ stack' = RemoveAt([n \in DOMAIN stack |-> missed(stack[n])], top)
             /\ UNCHANGED entry

\* An answer the coordinator does not expect is an error and reaches nobody.
Refuse(user) ==
  LET missed(c) == IF c.stage = "sent" /\ Answers(c, user) THEN Late(c) ELSE c
  IN  /\ calls' = {missed(c) : c \in calls}
      /\ stack' = [n \in DOMAIN stack |-> missed(stack[n])]

\* block_for_to_user_message
PushWaiter(c) ==
  /\ c \in calls /\ c.stage = "sent"
  /\ calls' = calls \ {c}
  /\ stack' = Append(stack, c)
  /\ UNCHANGED <<dbVars, tmpVars, page, finder, entry, finish, linkVars, flashVars, memVars,
                 disturbVars, boundVars>>

\* exit_recovery_mode: nothing is done for a device that is not in the list or
\* has nothing pending for the wallet.
ExitNext(c) ==
  /\ c \in calls /\ c.stage = "next"
  /\ LET d == Head(c.more)[1]
         k == Head(c.more)[2]
         rest == Tail(c.more)
         asked == {p \in pending : p.dev = d /\ p.key = k}
     IN  IF d \in seen /\ k \in known /\ asked # {}
           THEN \E p \in asked :
                  /\ calls' = (calls \ {c}) \cup
                       {[c EXCEPT !.dev = d, !.what = k, !.more = rest, !.stage = "sent"]}
                  /\ down' = Send({d}, <<Message("Consolidate", <<k, p.index>>)>>)
           ELSE /\ calls' = (calls \ {c}) \cup GoOn([c EXCEPT !.more = rest])
                /\ UNCHANGED down
  /\ UNCHANGED <<dbVars, tmpVars, page, finder, entry, finish, stack, seen, registered, plugged, up,
                 flashVars, memVars, disturbVars, boundVars>>

\* ui_stack.connected, for the one protocol of the stack that counts devices: a
\* device that is reported twice is counted twice.
Connected(f, d, blank) ==
  IF f = None THEN None
    ELSE [f EXCEPT !.devs = Append(@, [dev |-> d, blank |-> blank])]

\* exit_recovery_mode after the answer: a device with nothing left to do is
\* reported to the stack again.
ExitDone(c) ==
  /\ c \in calls /\ c.stage = "done" /\ c.kind = "exit"
  /\ finder' = IF \E p \in pending : p.dev = c.dev THEN finder ELSE Connected(finder, c.dev, FALSE)
  /\ calls' = (calls \ {c}) \cup GoOn(c)
  /\ UNCHANGED <<dbVars, tmpVars, page, entry, finish, stack, linkVars, flashVars, memVars,
                 disturbVars, boundVars>>

----------------------------------------------------------------------------
(* The recovery page *)

Contexts ==
  [type : {"new"}, r : {0}, k : {None}, thr : Guesses]
    \cup {[type |-> "continue", r |-> r, k |-> None, thr |-> None] :
            r \in {q \in RestorationIds : restorations[q] # None}}
    \cup {[type |-> "add", r |-> 0, k |-> k, thr |-> None] : k \in known}

\* RecoveryFlowWithDiscovery: wait_for_single_device, told of the devices that
\* are listed.
OpenPage(ctx) ==
  /\ page = None /\ pages < MaxPages
  /\ IF cancelling = 0 THEN UNCHANGED faults ELSE Fault
  /\ pages' = pages + 1
  /\ page' = [ctx |-> ctx, stage |-> "finding", dev |-> None, share |-> None]
  /\ \E order \in SetToSeqs({[dev |-> d, blank |-> d \notin registered] : d \in seen}) :
       finder' = [devs |-> order, asked |-> {}, held |-> [d \in Devices |-> None]]
  /\ UNCHANGED <<dbVars, tmpVars, entry, finish, stack, calls, linkVars, flashVars, memVars,
                 disturbVars, drawn>>

\* WaitForSingleDevice::poll
AskHeldShares ==
  /\ finder # None
  /\ LET ask == {e.dev : e \in {x \in Range(finder.devs) : ~x.blank}} \ finder.asked
     IN  /\ ask # {}
         /\ finder' = [finder EXCEPT !.asked = @ \cup ask]
         /\ down' = Send(ask, <<Message("Request", None)>>)
  /\ UNCHANGED <<dbVars, tmpVars, page, entry, finish, stack, calls, seen, registered, plugged,
                 up, flashVars, memVars, disturbVars, boundVars>>

\* What the page accepts of a device's share.
Validates(ctx, s) ==
  CASE ctx.type = "new" -> FindShare(s.image) = {}
    [] ctx.type = "continue" -> FitsRestorationByRef(ctx.r, s)
    [] ctx.type = "add" -> FitsKey(ctx.k, s)

\* emit_state: a single device that is blank or has a share is found, and the
\* protocol is over.  A share that does not fit is an error on the page.
DeviceFound ==
  /\ finder # None /\ Len(finder.devs) = 1
  /\ LET one == finder.devs[1]
         share == finder.held[one.dev]
     IN  /\ one.blank \/ share # None
         /\ finder' = None
         /\ page' = [page EXCEPT !.dev = one.dev,
                                 !.share = IF one.blank THEN None ELSE share,
                                 !.stage = CASE one.blank -> "naming"
                                             [] ~one.blank /\ Validates(page.ctx, share) -> "candidate"
                                             [] OTHER -> "error"]
  /\ UNCHANGED <<dbVars, tmpVars, entry, finish, stack, calls, linkVars, flashVars, memVars,
                 disturbVars, boundVars>>

\* The name of the device, which it shows and keeps for later.
NameDevice ==
  /\ page # None /\ page.stage = "naming"
  /\ page.dev \in seen
  /\ page' = [page EXCEPT !.stage = "nonces"]
  /\ down' = Send({page.dev}, <<Message("Preview", None)>>)
  /\ disturbed' = IF down[page.dev] = <<>> /\ finish = None /\ page.dev \notin panicked
                    THEN disturbed \ {page.dev} ELSE disturbed
  /\ UNCHANGED <<dbVars, tmpVars, finder, entry, finish, stack, calls, seen, registered, plugged,
                 up, flashVars, memVars, cancelling, torn, boundVars>>

\* tell_device_to_enter_physical_backup, once the nonces are replenished (a
\* disconnection meanwhile is waited out); the poll of the protocol is immediate
\* as the device is connected.
EnterPhysicalBackup ==
  /\ page # None /\ page.stage = "nonces"
  /\ page.dev \in seen
  /\ page' = [page EXCEPT !.stage = "entry"]
  /\ entry' = [dev |-> page.dev, id |-> pages]
  /\ down' = Send({page.dev}, <<Message("Enter", pages)>>)
  /\ UNCHANGED <<dbVars, tmpVars, finder, finish, stack, calls, seen, registered, plugged,
                 up, flashVars, memVars, disturbVars, boundVars>>

\* popOnError of the page that is still there.
BackToNaming(id) ==
  page' = IF page # None /\ pages = id THEN [page EXCEPT !.stage = "naming"] ELSE page

\* The checks of onFinished: check_physical_backup_compatible_with_restoration,
\* for a new restoration an empty one, and check_physical_backup.
EnteredFits(ctx, d, image) ==
  CASE ctx.type = "new" -> FindShare(image) = {}
    [] ctx.type = "continue" -> FitsRestoration(ctx.r, d, image)
    [] ctx.type = "add" -> ctx.k \in known /\ image[1] = ctx.k

\* onFinished, first part: the restoration of a new wallet is made before the
\* backup is checked, and stays when it does not fit.
CheckEntered ==
  /\ finish # None /\ ~finish.checked
  /\ LET new == finish.ctx.type = "new"
     IN  /\ new => drawn < MaxDraws
         /\ drawn' = IF new THEN drawn + 1 ELSE drawn
         /\ restorations' = IF new THEN [restorations EXCEPT ![drawn + 1] = NewRestoration(finish.ctx.thr)]
                              ELSE restorations
         /\ IF EnteredFits(finish.ctx, finish.dev, finish.image)
              THEN /\ finish' = [finish EXCEPT !.checked = TRUE,
                                               !.ctx.r = IF new THEN drawn + 1 ELSE @]
                   /\ UNCHANGED page
              ELSE finish' = None /\ BackToNaming(finish.id)
  /\ UNCHANGED <<wallets, known, pending, tmpVars, finder, entry, stack, calls, linkVars,
                 flashVars, memVars, disturbVars, countVars>>

\* tell_device_to_save_physical_backup: nothing is sent for a restoration that
\* is gone, and the call waits all the same.
TellSave ==
  /\ finish # None /\ finish.checked /\ finish.ctx.type # "add"
  /\ LET d == finish.dev
         r == finish.ctx.r
         image == finish.image
         call == Save(d, r, image[2])
     IN  IF restorations[r] = None
           THEN /\ calls' = calls \cup {Late(call)}
                /\ UNCHANGED <<waitSave, down>>
           ELSE LET s == PrepareSave(restorations[r], d, image)
                IN  /\ waitSave' = {w \in waitSave : ~(w.share.dev = d /\ w.share.image = image)}
                                     \cup {[r |-> r, share |-> s]}
                    /\ down' = Send({d}, <<Message("Save", s)>>)
                    /\ calls' = calls \cup {Asked(call)}
  /\ finish' = None
  /\ UNCHANGED <<dbVars, waitCons, page, finder, entry, stack, seen, registered, plugged, up,
                 flashVars, memVars, disturbVars, boundVars>>

\* tell_device_to_consolidate_physical_backup, which checks again.
TellConsolidate ==
  /\ finish # None /\ finish.checked /\ finish.ctx.type = "add"
  /\ LET d == finish.dev
         k == finish.ctx.k
         i == finish.image[2]
     IN  IF k \notin known
           THEN BackToNaming(finish.id) /\ UNCHANGED <<waitCons, calls, down>>
           ELSE /\ waitCons' = waitCons \cup {Pending(d, k, i)}
                /\ down' = Send({d}, <<Message("Consolidate", <<k, i>>)>>)
                /\ calls' = calls \cup {Asked(Consolidate(d, k, i))}
                /\ UNCHANGED page
  /\ finish' = None
  /\ UNCHANGED <<dbVars, waitSave, finder, entry, stack, seen, registered, plugged, up,
                 flashVars, memVars, disturbVars, boundVars>>

\* _completeDeviceShareEnrollment: start_restoring_wallet_from_device_share,
\* continue_restoring_wallet_from_device_share or recover_share.  The page closes
\* (ClosePage) or shows an error.
EnrollShare ==
  /\ page # None /\ page.stage = "candidate"
  /\ page' = [page EXCEPT !.stage = "error"]
  /\ LET s == page.share
         ctx == page.ctx
     IN  \/ /\ ctx.type = "new" /\ drawn < MaxDraws
            /\ IF s.ref \in known
                 THEN UNCHANGED <<restorations, drawn>>
                 ELSE /\ drawn' = drawn + 1
                      /\ restorations' = RestorationProgress(
                           [restorations EXCEPT ![drawn + 1] = NewRestoration(s.thr)], drawn + 1, s)
            /\ UNCHANGED <<wallets, pending, calls>>
         \/ /\ ctx.type = "continue"
            /\ restorations' = IF FitsRestorationByRef(ctx.r, s)
                                 THEN RestorationProgress(restorations, ctx.r, s) ELSE restorations
            /\ UNCHANGED <<wallets, pending, calls, drawn>>
         \/ /\ ctx.type = "add"
            /\ IF ~FitsKey(ctx.k, s)
                 THEN UNCHANGED <<wallets, pending, calls>>
                 ELSE /\ wallets' = [wallets EXCEPT ![ctx.k][s.dev] = s.image[2]]
                      /\ pending' = IF s.ref = None
                                      THEN pending \cup {Pending(s.dev, ctx.k, s.image[2])}
                                      ELSE pending
                      /\ calls' = calls \cup {Exit(<<<<s.dev, ctx.k>>>>)}
            /\ UNCHANGED <<restorations, drawn>>
  /\ UNCHANGED <<known, tmpVars, finder, entry, finish, stack, linkVars, flashVars, memVars,
                 disturbVars, countVars>>

\* cancel_protocol: an entry or a replenishment that is still on the stack is
\* aborted, of which every device has to be told.
CancelEntry ==
  /\ entry' = None
  /\ \/ entry = None /\ UNCHANGED <<cancelling, disturbed>>
     \/ /\ entry # None \/ page.stage = "nonces"
        /\ cancelling' = cancelling + 1
        /\ disturbed' = disturbed \cup seen

\* The page is closed, by the user or because it is done.
ClosePage ==
  /\ page # None
  /\ page' = None /\ finder' = None
  /\ CancelEntry
  /\ UNCHANGED <<dbVars, tmpVars, finish, stack, calls, linkVars, flashVars, memVars, torn,
                 boundVars>>

\* The Cancel is sent when the locks of cancel_protocol are dropped: another page
\* may have asked a device for something before.
SendCancelAll ==
  /\ cancelling > 0
  /\ cancelling' = cancelling - 1
  /\ down' = Send(Devices, <<Message("Cancel", None)>>)
  /\ disturbed' = disturbed \cup seen
  /\ UNCHANGED <<dbVars, tmpVars, uiVars, seen, registered, plugged, up, flashVars, memVars,
                 torn, boundVars>>

----------------------------------------------------------------------------
(* Restorations and wallets, by the user *)

\* Mutant: the consolidations are not remembered.
FinishRestoringForgets(r) ==
  /\ restorations[r] # None
  /\ restorations[r].key # None
  /\ LET a == restorations[r]
         k == a.key
         n(d) == CompatibleShare(a, d)
         index(d) == IF n(d) = 0 THEN wallets[k][d] ELSE a.held[n(d)].image[2]
         todo == NeedsToConsolidate(a)
     IN  /\ known' = known \cup {k}
         /\ wallets' = [wallets EXCEPT ![k] = [d \in Devices |-> index(d)]]
         /\ pending' = pending
         /\ restorations' = [restorations EXCEPT ![r] = None]
         /\ calls' = IF todo = <<>> THEN calls
                       ELSE calls \cup {Exit([m \in DOMAIN todo |-> <<todo[m].dev, k>>])}
  /\ UNCHANGED <<tmpVars, page, finder, entry, finish, stack, linkVars, flashVars, memVars,
                 disturbVars, boundVars>>

\* Mutant: the devices are left until they are plugged in again.
FinishRestoringOffline(r) ==
  /\ restorations[r] # None
  /\ restorations[r].key # None
  /\ LET a == restorations[r]
         k == a.key
         n(d) == CompatibleShare(a, d)
         index(d) == IF n(d) = 0 THEN wallets[k][d] ELSE a.held[n(d)].image[2]
         todo == NeedsToConsolidate(a)
     IN  /\ known' = known \cup {k}
         /\ wallets' = [wallets EXCEPT ![k] = [d \in Devices |-> index(d)]]
         /\ pending' = pending \cup {Pending(s.dev, k, index(s.dev)) : s \in Range(todo)}
         /\ restorations' = [restorations EXCEPT ![r] = None]
         /\ calls' = calls
  /\ UNCHANGED <<tmpVars, page, finder, entry, finish, stack, linkVars, flashVars, memVars,
                 disturbVars, boundVars>>

\* finish_restoring: the wallet of the recovered key, with every compatible
\* device, and what they have to consolidate, in one commit.  The devices are
\* then asked one after the other.
FinishRestoring(r) ==
  /\ restorations[r] # None
  /\ restorations[r].key # None
  /\ LET a == restorations[r]
         k == a.key
         n(d) == CompatibleShare(a, d)
         index(d) == IF n(d) = 0 THEN wallets[k][d] ELSE a.held[n(d)].image[2]
         todo == NeedsToConsolidate(a)
     IN  /\ known' = known \cup {k}
         /\ wallets' = [wallets EXCEPT ![k] = [d \in Devices |-> index(d)]]
         /\ pending' = pending \cup {Pending(s.dev, k, index(s.dev)) : s \in Range(todo)}
         /\ restorations' = [restorations EXCEPT ![r] = None]
         /\ calls' = IF todo = <<>> THEN calls
                       ELSE calls \cup {Exit([m \in DOMAIN todo |-> <<todo[m].dev, k>>])}
  /\ UNCHANGED <<tmpVars, page, finder, entry, finish, stack, linkVars, flashVars, memVars,
                 disturbVars, boundVars>>

\* cancel_restoration
CancelRestoration(r) ==
  /\ Fault
  /\ restorations[r] # None
  /\ restorations' = [restorations EXCEPT ![r] = None]
  /\ UNCHANGED <<wallets, known, pending, tmpVars, uiVars, linkVars, flashVars, memVars,
                 disturbVars, drawn, pages>>

\* delete_restoration_share: the first share of the device.
DeleteRestorationShare(r, d) ==
  /\ Fault
  /\ restorations[r] # None
  /\ LET n == SelectInSeq(restorations[r].held, LAMBDA s : s.dev = d)
     IN  /\ n # 0
         /\ restorations' = [restorations EXCEPT ![r] = RemoveShare(@, n)]
  /\ UNCHANGED <<wallets, known, pending, tmpVars, uiVars, linkVars, flashVars, memVars,
                 disturbVars, drawn, pages>>

\* delete_key
DeleteKey(k) ==
  /\ Fault
  /\ k \in known
  /\ known' = known \ {k}
  /\ wallets' = [wallets EXCEPT ![k] = [d \in Devices |-> 0]]
  /\ pending' = {p \in pending : p.key # k}
  /\ waitCons' = {p \in waitCons : p.key # k}
  /\ UNCHANGED <<restorations, waitSave, uiVars, linkVars, flashVars, memVars, disturbVars,
                 drawn, pages>>

\* delete_share: what the device has pending stays.
DeleteShare(k, d) ==
  /\ Fault
  /\ wallets[k][d] # 0
  /\ wallets' = [wallets EXCEPT ![k][d] = 0]
  /\ UNCHANGED <<restorations, known, pending, tmpVars, uiVars, linkVars, flashVars, memVars,
                 disturbVars, drawn, pages>>

----------------------------------------------------------------------------
(* The app's loop *)

\* The call main.dart makes for a device that registers and has consolidations
\* pending.
ExitCalls(d) ==
  LET wallet == {p.key : p \in {q \in pending : q.dev = d}}
  IN  IF wallet = {} THEN {} ELSE {Exit(SetToSeq({d} \X wallet))}

\* A name the app did not know registers the device.
ReceiveName(d) ==
  /\ IF d \in registered
       THEN UNCHANGED <<registered, finder, calls>>
       ELSE /\ registered' = registered \cup {d}
            /\ finder' = Connected(finder, d, FALSE)
            /\ calls' = calls \cup ExitCalls(d)
  /\ UNCHANGED <<dbVars, tmpVars, page, finish, stack, entry>>

\* GotHeldShares
ReceiveHeld(d, share) ==
  /\ finder' = IF finder # None /\ \E e \in Range(finder.devs) : e.dev = d
                 THEN [finder EXCEPT !.held[d] = share] ELSE finder
  /\ UNCHANGED <<dbVars, tmpVars, page, finish, stack, entry, calls, registered>>

\* PhysicalEntered: for the entry on the stack, and its page if it is still
\* there.
ReceiveEntered(d, id, image) ==
  /\ IF entry = None \/ entry # [dev |-> d, id |-> id] \/ page = None \/ page.stage # "entry"
       THEN UNCHANGED <<page, finish>>
       ELSE /\ page' = [page EXCEPT !.stage = "entered"]
            /\ finish' = [ctx |-> page.ctx, dev |-> d, image |-> image, id |-> id,
                          checked |-> FALSE]
  /\ UNCHANGED <<dbVars, tmpVars, finder, stack, entry, calls, registered>>

\* PhysicalSaved: an error when the coordinator does not wait for it.
ReceiveSaved(d, image) ==
  /\ LET waiting == {w \in waitSave : w.share.dev = d /\ w.share.image = image}
     IN  IF waiting = {}
           THEN UNCHANGED <<restorations, waitSave, stack, entry, calls>>
           ELSE \E w \in waiting :
                  /\ waitSave' = waitSave \ waiting
                  /\ restorations' = RestorationProgress(restorations, w.r, w.share)
                  /\ ProcessToUser([type |-> "Saved", dev |-> d, what |-> w.r, index |-> image[2]])
  /\ UNCHANGED <<wallets, known, pending, waitCons, page, finder, finish, registered>>

\* FinishedConsolidation, of an entry for a known wallet or of a restoration.
ReceiveFinished(d, image) ==
  /\ LET p == Pending(d, image[1], image[2])
         user == [type |-> "Finished", dev |-> d, what |-> image[1], index |-> image[2]]
     IN  \/ /\ p \in waitCons
            /\ waitCons' = waitCons \ {p}
            /\ wallets' = [wallets EXCEPT ![p.key][d] = p.index]
            /\ ProcessToUser(user)
            /\ UNCHANGED pending
         \/ /\ p \in pending \ waitCons
            /\ pending' = pending \ {p}
            /\ ProcessToUser(user)
            /\ UNCHANGED <<waitCons, wallets>>
         \/ /\ p \notin pending \cup waitCons
            /\ Refuse(user)
            /\ UNCHANGED <<waitCons, wallets, pending, entry>>
  /\ UNCHANGED <<restorations, known, waitSave, page, finder, finish, registered>>

\* One message of a device, handled in one iteration.
Receive(d) ==
  /\ d \in seen /\ up[d] # <<>>
  /\ up' = [up EXCEPT ![d] = Tail(@)]
  /\ LET m == Head(up[d])
     IN  \/ m.type = "SetName" /\ ReceiveName(d)
         \/ m.type = "Held" /\ ReceiveHeld(d, m.arg)
         \/ m.type = "Entered" /\ finish = None /\ ReceiveEntered(d, m.arg[1], m.arg[2])
         \/ m.type = "Saved" /\ ReceiveSaved(d, m.arg)
         \/ m.type = "Finished" /\ ReceiveFinished(d, m.arg)
  /\ UNCHANGED <<seen, plugged, down, flashVars, memVars, disturbVars, boundVars>>

\* Mutant: the waiters of a device that is gone go on waiting.
LostUnheard(d) ==
  /\ d \in seen \ plugged
  /\ seen' = seen \ {d} /\ registered' = registered \ {d}
  /\ up' = [up EXCEPT ![d] = <<>>]
  /\ finder' = IF finder = None THEN None
                 ELSE [devs |-> Retain(finder.devs, {e \in Range(finder.devs) : e.dev = d}),
                       asked |-> finder.asked \ {d}, held |-> [finder.held EXCEPT ![d] = None]]
  /\ UNCHANGED stack
  /\ LET missed(c) == IF c.dev = d /\ c.stage = "sent" THEN Late(c) ELSE c
     IN  calls' = {missed(c) : c \in calls}
  /\ LET target == page # None /\ page.dev = d
         aborted == \/ entry # None /\ entry.dev = d
                    \/ target /\ page.stage = "nonces"
     IN  /\ entry' = IF entry # None /\ entry.dev = d THEN None ELSE entry
         /\ down' = [e \in Devices |->
              CASE e = d -> <<>>
                [] e # d /\ aborted /\ e \in seen -> Append(down[e], Message("Cancel", None))
                [] OTHER -> down[e]]
         /\ disturbed' = IF aborted THEN disturbed \cup seen ELSE disturbed
         /\ \/ target /\ page.stage \in {"nonces", "entry"} /\ page' = [page EXCEPT !.stage = "naming"]
            \/ ~(target /\ page.stage = "entry") /\ UNCHANGED page
  /\ UNCHANGED <<dbVars, tmpVars, finish, plugged, flashVars, memVars, cancelling, torn, boundVars>>

\* The device is gone: its waiters give up, its entry is aborted.  A call that
\* is not on the stack yet does not hear of it.  The entry view returns to the
\* name of the device; the view of the nonces, whose protocol is aborted too, does
\* that or waits for the device, whichever event reaches it first.
Lost(d) ==
  /\ d \in seen \ plugged
  /\ seen' = seen \ {d} /\ registered' = registered \ {d}
  /\ up' = [up EXCEPT ![d] = <<>>]
  /\ finder' = IF finder = None THEN None
                 ELSE [devs |-> Retain(finder.devs, {e \in Range(finder.devs) : e.dev = d}),
                       asked |-> finder.asked \ {d}, held |-> [finder.held EXCEPT ![d] = None]]
  /\ stack' = Retain(stack, {c \in Range(stack) : c.dev = d})
  /\ LET failed == {c \in Range(stack) : c.dev = d}
         missed(c) == IF c.dev = d /\ c.stage = "sent" THEN Late(c) ELSE c
     IN  calls' = {missed(c) : c \in calls} \cup UNION {GoOn(c) : c \in failed}
  /\ LET target == page # None /\ page.dev = d
         aborted == \/ entry # None /\ entry.dev = d
                    \/ target /\ page.stage = "nonces"
     IN  /\ entry' = IF entry # None /\ entry.dev = d THEN None ELSE entry
         /\ down' = [e \in Devices |->
              CASE e = d -> <<>>
                [] e # d /\ aborted /\ e \in seen -> Append(down[e], Message("Cancel", None))
                [] OTHER -> down[e]]
         /\ disturbed' = IF aborted THEN disturbed \cup seen ELSE disturbed
         /\ \/ target /\ page.stage \in {"nonces", "entry"} /\ page' = [page EXCEPT !.stage = "naming"]
            \/ ~(target /\ page.stage = "entry") /\ UNCHANGED page
  /\ UNCHANGED <<dbVars, tmpVars, finish, plugged, flashVars, memVars, cancelling, torn, boundVars>>

----------------------------------------------------------------------------
(* Devices *)

\* A device's memory while it works on its inbox and its outbox.
Working(d) ==
  [shares |-> shares[d], saved |-> saved[d], staged |-> staged[d], loaded |-> loaded[d],
   name |-> name[d], named |-> named[d], screen |-> screen[d], queue |-> queue[d],
   out |-> <<>>, failed |-> FALSE]

\* What the device knows of before its staged mutations are in flash: a share
\* takes the place of the others of its key, and of its saved backup.
Complete(w) == {im \in w.shares : \A new \in w.staged : new[1] # im[1]} \cup w.staged
Backups(w) == {b \in w.saved : b.image \notin w.staged}

\* held_shares, of which the app looks at the first.
HeldShare(d, w) ==
  CASE Complete(w) # {} ->
         LET im == CHOOSE i \in Complete(w) : TRUE IN Share(d, im, im[1], Threshold[im[1]], FALSE)
    [] Complete(w) = {} /\ Backups(w) # {} ->
         LET b == CHOOSE x \in Backups(w) : TRUE IN Share(d, b.image, None, b.thr, TRUE)
    [] OTHER -> None

Say(w, type, arg) == [w EXCEPT !.out = Append(@, Message(type, arg))]

\* SavePhysicalBackup2, for an entered backup.
Saves(w, share) ==
  IF share.image \notin w.loaded THEN [w EXCEPT !.failed = TRUE]
    ELSE Say(Say([w EXCEPT !.loaded = @ \ {share.image},
                           !.saved = @ \cup {[image |-> share.image, thr |-> share.thr]}],
                 "BackupSaved", None), "Saved", share.image)

\* Consolidate: a backup that was entered or saved is first, then a share that
\* is complete already.
Consolidates(w, image) ==
  IF image \in w.loaded \cup {b.image : b \in Backups(w)} THEN Say(w, "ConsolidateBackup", image)
  ELSE IF image \in Complete(w) THEN Say(w, "Finished", image)
  ELSE [w EXCEPT !.failed = TRUE]

\* recv_restoration_message, Cancel and Naming.  An error panics the device.
Process(d, w, m) ==
  IF w.failed THEN w
  ELSE CASE m.type = "Cancel" -> [w EXCEPT !.loaded = {}, !.named = FALSE, !.screen = None]
         [] m.type = "Preview" -> [w EXCEPT !.named = TRUE, !.screen = None]
         [] m.type = "Enter" -> Say(w, "EnterBackup", m.arg)
         [] m.type = "Request" -> Say(w, "Held", HeldShare(d, w))
         [] m.type = "Save" -> Saves(w, m.arg)
         [] m.type = "Consolidate" -> Consolidates(w, m.arg)

\* The staged mutations are appended to the log in flash.
Written(w) == [w EXCEPT !.shares = Complete(w), !.saved = Backups(w), !.staged = {}]

\* save_pending_device_name
SaveName(w) ==
  IF w.named THEN [w EXCEPT !.named = FALSE, !.name = TRUE, !.queue = Append(@, Message("SetName", None))]
    ELSE w

\* One entry of the outbox.  A consolidation's mutations are staged after this
\* poll has written its own, and its answer is queued behind the name.
Emit(w, o) ==
  IF w.failed THEN w
  ELSE CASE o.type = "EnterBackup" -> [w EXCEPT !.screen = o.arg]
         [] o.type = "BackupSaved" -> [SaveName(w) EXCEPT !.failed = ~w.named, !.screen = None]
         [] o.type = "ConsolidateBackup" ->
              Say([SaveName(w) EXCEPT !.staged = @ \cup {o.arg}, !.loaded = @ \ {o.arg},
                                      !.screen = None],
                  "Finished", o.arg)
         [] OTHER -> [w EXCEPT !.queue = Append(@, o)]

AfterInbox(d, n) ==
  LET w[i \in 0 .. n] == IF i = 0 THEN Working(d) ELSE Process(d, w[i - 1], down[d][i])
  IN  w[n]

\* The outbox grows by the answers of consolidations, at most one each.
AfterOutbox(w) ==
  LET run[i \in 0 .. 2 * Len(w.out)] ==
        CASE i = 0 -> w
          [] i > 0 /\ run[i - 1].out = <<>> -> run[i - 1]
          [] OTHER -> Emit([run[i - 1] EXCEPT !.out = Tail(@)], Head(run[i - 1].out))
  IN  run[2 * Len(w.out)]

\* The upstream connection sends one message in each poll, before the inbox is
\* processed and the staged mutations are written.
DeviceSend(d) ==
  /\ d \in plugged \ panicked
  /\ queue[d] # <<>> /\ ~sent[d]
  /\ queue' = [queue EXCEPT ![d] = Tail(@)]
  /\ up' = IF d \in seen THEN [up EXCEPT ![d] = Append(@, Head(queue[d]))] ELSE up
  /\ sent' = [sent EXCEPT ![d] = staged[d] # {}]
  /\ UNCHANGED <<dbVars, tmpVars, uiVars, seen, registered, plugged, down, flashVars, staged,
                 loaded, named, screen, panicked, disturbVars, boundVars>>

\* The rest of the poll.
DeviceWork(d, n) ==
  /\ d \in plugged \ panicked
  /\ n \in 0 .. Len(down[d]) /\ n <= MaxInbox
  /\ n > 0 \/ staged[d] # {}
  /\ sent[d] \/ queue[d] = <<>> \/ staged[d] = {}
  /\ down' = [down EXCEPT ![d] = SubSeq(@, n + 1, Len(@))]
  /\ \E w \in {AfterInbox(d, n)} : \E f \in {IF w.failed THEN w ELSE Written(w)} :
     \E v \in {IF w.failed THEN w ELSE AfterOutbox(f)} :
       /\ shares' = [shares EXCEPT ![d] = IF w.failed THEN @ ELSE f.shares]
       /\ saved' = [saved EXCEPT ![d] = IF w.failed THEN @ ELSE f.saved]
       /\ name' = [name EXCEPT ![d] = v.name]
       /\ staged' = [staged EXCEPT ![d] = IF v.failed THEN {} ELSE v.staged]
       /\ loaded' = [loaded EXCEPT ![d] = IF v.failed THEN {} ELSE v.loaded]
       /\ named' = [named EXCEPT ![d] = v.named /\ ~v.failed]
       /\ screen' = [screen EXCEPT ![d] = IF v.failed THEN None ELSE v.screen]
       /\ queue' = [queue EXCEPT ![d] = IF v.failed THEN <<>> ELSE v.queue]
       /\ panicked' = IF v.failed THEN panicked \cup {d} ELSE panicked
       /\ torn' = IF w.failed /\ sent[d] THEN torn \cup {d} ELSE torn
  /\ sent' = [sent EXCEPT ![d] = FALSE]
  /\ UNCHANGED <<dbVars, tmpVars, uiVars, seen, registered, plugged, up, cancelling, disturbed,
                 boundVars>>

\* Mutant: the entered backup is reported and not kept.
EnterPaperForgets(d, image) ==
  /\ screen[d] # None
  /\ UNCHANGED loaded
  /\ queue' = [queue EXCEPT ![d] = Append(@, Message("Entered", <<screen[d], image>>))]
  /\ screen' = [screen EXCEPT ![d] = None]
  /\ UNCHANGED <<dbVars, tmpVars, uiVars, linkVars, flashVars, staged, named, sent, panicked,
                 disturbVars, boundVars>>

\* EnteredShareBackup: tell_coordinator_about_backup_load_result.
EnterPaper(d, image) ==
  /\ screen[d] # None
  /\ loaded' = [loaded EXCEPT ![d] = @ \cup {image}]
  /\ queue' = [queue EXCEPT ![d] = Append(@, Message("Entered", <<screen[d], image>>))]
  /\ screen' = [screen EXCEPT ![d] = None]
  /\ UNCHANGED <<dbVars, tmpVars, uiVars, linkVars, flashVars, staged, named, sent, panicked,
                 disturbVars, boundVars>>

----------------------------------------------------------------------------
(* Failures *)

Forget(d) ==
  /\ loaded' = [loaded EXCEPT ![d] = {}] /\ named' = [named EXCEPT ![d] = FALSE]
  /\ screen' = [screen EXCEPT ![d] = None] /\ queue' = [queue EXCEPT ![d] = <<>>]
  /\ sent' = [sent EXCEPT ![d] = FALSE]

\* What the device sent last may be read before the port is seen to be gone.
Unplug(d) ==
  /\ Fault
  /\ d \in plugged
  /\ plugged' = plugged \ {d}
  /\ down' = [down EXCEPT ![d] = <<>>]
  /\ Forget(d)
  /\ staged' = [staged EXCEPT ![d] = {}]
  /\ panicked' = panicked \ {d}
  /\ disturbed' = disturbed \cup {d}
  /\ torn' = IF sent[d] THEN torn \cup {d} ELSE torn
  /\ UNCHANGED <<dbVars, tmpVars, uiVars, seen, registered, up, flashVars, cancelling, drawn,
                 pages>>

\* A device announces itself: plugged in, or reset by the magic bytes of a
\* restarted app, which leaves it its staged mutations.  It tells its name if it
\* has one, and is reported as blank if not.
Connect(d) ==
  /\ d \notin seen \cup panicked
  /\ plugged' = plugged \cup {d} /\ seen' = seen \cup {d}
  /\ down' = [down EXCEPT ![d] = <<>>]
  /\ up' = [up EXCEPT ![d] = <<>>]
  /\ Forget(d)
  /\ registered' = IF name[d] THEN registered \cup {d} ELSE registered
  /\ finder' = Connected(finder, d, ~name[d])
  /\ calls' = IF name[d] THEN calls \cup ExitCalls(d) ELSE calls
  /\ disturbed' = disturbed \cup {d}
  /\ torn' = IF sent[d] THEN torn \cup {d} ELSE torn
  /\ UNCHANGED <<dbVars, tmpVars, page, entry, finish, stack, flashVars, staged, panicked,
                 cancelling, boundVars>>

\* The app dies and is started again: only its database is left.
AppCrash ==
  /\ Fault
  /\ waitSave' = {} /\ waitCons' = {}
  /\ page' = None /\ finder' = None /\ entry' = None /\ finish' = None
  /\ stack' = <<>> /\ calls' = {}
  /\ seen' = {} /\ registered' = {}
  /\ up' = [d \in Devices |-> <<>>]
  /\ cancelling' = 0
  /\ UNCHANGED <<dbVars, plugged, down, flashVars, memVars, disturbed, torn, drawn, pages>>

----------------------------------------------------------------------------
Next ==
  \/ \E c \in calls : PushWaiter(c) \/ ExitNext(c) \/ ExitDone(c)
  \/ \E ctx \in Contexts : OpenPage(ctx)
  \/ AskHeldShares \/ DeviceFound \/ NameDevice \/ EnterPhysicalBackup
  \/ CheckEntered \/ TellSave \/ TellConsolidate \/ EnrollShare \/ ClosePage
  \/ SendCancelAll
  \/ \E r \in RestorationIds : \/ FinishRestoring(r) \/ CancelRestoration(r)
                               \/ \E d \in Devices : DeleteRestorationShare(r, d)
  \/ \E k \in Keys : DeleteKey(k) \/ \E d \in Devices : DeleteShare(k, d)
  \/ \E d \in Devices : \/ Receive(d) \/ Lost(d) \/ DeviceSend(d)
                        \/ \E n \in 0 .. MaxInbox : DeviceWork(d, n)
                        \/ \E image \in Papers : EnterPaper(d, image)
                        \/ Unplug(d) \/ Connect(d)
  \/ AppCrash

Spec == Init /\ [][Next]_vars

----------------------------------------------------------------------------
(* Properties *)

\* The device has the share, as a complete one or as a saved backup that a
\* consolidation completes.
Has(d, image) ==
  \/ image \in Complete(Working(d))
  \/ \E b \in saved[d] : b.image = image

\* Every share that a wallet or a restoration counts on is on its device, and it
\* is complete once nothing is pending for it, whatever was unplugged, cancelled
\* or restarted in between; except on a device that lost power after it had
\* answered and before it had written what it answered.
SharesAreBacked ==
  /\ \A k \in Keys, d \in Devices \ torn :
       LET image == <<k, wallets[k][d]>>
       IN  wallets[k][d] # 0 =>
             \/ image \in Complete(Working(d))
             \/ Has(d, image) /\ Pending(d, k, image[2]) \in pending
  /\ \A r \in RestorationIds : restorations[r] # None =>
       \A s \in Range(restorations[r].held) : s.dev \notin torn => Has(s.dev, s.image)

\* A device panics only over an entry that was cancelled or cut by a loss of
\* power after the page gave it its name; consolidating what it has saved never
\* panics it.
PanicsOnlyWhenDisturbed ==
  panicked \subseteq disturbed

\* The request of a call is on the way to the device, the answer on the way back,
\* or the device is gone and the call is about to hear of it.
InTransit(c) ==
  \/ c.dev \in panicked \cup (seen \ plugged)
  \/ \E m \in Range(down[c.dev]) :
       CASE c.kind = "save" -> m.type = "Save" /\ m.arg.image[2] = c.index
         [] OTHER -> m.type = "Consolidate" /\ m.arg[1] = c.what
  \/ \E m \in Range(queue[c.dev]) \cup Range(up[c.dev]) :
       CASE c.kind = "save" -> m.type = "Saved" /\ m.arg[2] = c.index
         [] OTHER -> m.type = "Finished" /\ m.arg[1] = c.what

\* The coordinator has not put another restoration in the place of the call's,
\* as it does when the same backup is saved for another one before the answer.
Awaited(c) ==
  c.kind = "save" =>
    \E w \in waitSave : w.r = c.what /\ w.share.dev = c.dev /\ w.share.image[2] = c.index

\* A call that waits, has not missed its answer and is still awaited by the
\* coordinator is going to be answered.
CallsAreAnswered ==
  \A c \in calls \cup Range(stack) :
    c.stage = "sent" /\ ~c.late /\ Awaited(c) => InTransit(c)

\* A consolidation that is pending for a registered device has been asked for:
\* some call works on it or comes to it, or its request was missed.  None is left
\* until the device is plugged in again.
PendingIsWorkedOn ==
  \A p \in pending : p.dev \in registered =>
    \E c \in calls \cup Range(stack) :
      \/ c.kind = "exit" /\ c.dev = p.dev /\ c.what = p.key
      \/ <<p.dev, p.key>> \in Range(c.more)

=============================================================================
