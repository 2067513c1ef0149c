------------------------------ MODULE Connection ------------------------------
(***************************************************************************)
(* The Bluetooth link of the ALPHA HWR component: the connection manager    *)
(* (components/alpha_hwr/ble_connection_manager.{h,cpp}) with its failure   *)
(* hold and its pairing-stall detector, the session (session.cpp), and what *)
(* the component does with the link (alpha_hwr.cpp): its callbacks, the two *)
(* watchdogs, the reconnect-settle and boot holds, and suspension.          *)
(*                                                                         *)
(* An action is one BLE event, one timer, one tick of loop() or one flip of *)
(* the switch, with every callback it runs.  A watchdog's window is either  *)
(* over or not: its length, and the back-off that doubles it, only decide   *)
(* when that happens.  ESPHome's client, the radio and the pump are the     *)
(* environment.                                                            *)
(***************************************************************************)
EXTENDS Naturals

CONSTANTS
  PairingEnabled,       \* enable_pairing
  SettleWindow,         \* is reconnect_settle_ms_ above zero
  BootHold,             \* is connect_after_boot_ms_ above zero
  DataWatch,            \* is link_data_timeout_ms_ above zero
  ReadyWatch,           \* is link_ready_timeout_ms_ above zero
  RecycleLimit,         \* link_ready_recycle_limit_
  MaxDiscoveryRetries,  \* MAX_DISCOVERY_RETRIES
  StallCycles           \* PAIRING_STALL_CYCLES

ASSUME ConfigAssumption ==
  /\ PairingEnabled \in BOOLEAN /\ SettleWindow \in BOOLEAN /\ BootHold \in BOOLEAN
  /\ DataWatch \in BOOLEAN /\ ReadyWatch \in BOOLEAN
  /\ RecycleLimit \in Nat /\ MaxDiscoveryRetries \in Nat /\ StallCycles \in Nat \ {0}

VARIABLES
  \* BLEConnectionManager.
  encryption_pending, subscription_deferred,
  discovery_retries,  \* discovery_retry_count_
  retry_timer,        \* a discovery retry is scheduled under this sequence
  failure_hold,
  last_failure,       \* which reason last_failure_ names
  \* PairingStallDetector; consecutive_ saturates at the threshold here.
  saw_open, progress, consecutive,
  \* Session and AlphaHwrComponent.
  session,
  ready_timer,        \* SESSION_READY_TIMER is running
  caches_valid,       \* the caches is_state_synchronized() asks for
  pump_ready,         \* link_pump_ready_seen_
  reached_ready,      \* link_reached_ready_
  data_due, ready_due,  \* now - stamp is past the watchdog's window
  recycles,           \* link_recycles_without_ready_
  suspended, settling, settle_armed, boot_holding,
  \* ESPHome's client, the radio and the pump, external.
  auto_connect,
  phys,               \* "idle", "connecting" or "up"
  closing,            \* disconnect() was called on this connection
  searching,          \* a service discovery is in progress
  smp,                \* a pairing or encryption exchange is in progress
  registered,         \* registered for notifications
  bond,               \* a bond with the pump is stored
  \* History of the connection, read by the properties only.
  subscriptions,      \* how often the subscription was reported done
  asked,              \* encryption was requested and has not succeeded
  recycled,           \* how often a watchdog took the connection down
  plain               \* a CCCD was written while it was asked

holdVars    == <<failure_hold, last_failure>>
stallVars   == <<saw_open, progress, consecutive>>
gattVars    == <<encryption_pending, subscription_deferred, discovery_retries, retry_timer>>
readyVars   == <<session, ready_timer, caches_valid, pump_ready, reached_ready>>
watchVars   == <<data_due, ready_due, recycles, recycled>>
switchVars  == <<suspended, settling, settle_armed, boot_holding, auto_connect>>
radioVars   == <<phys, closing, searching, smp, registered, bond>>
historyVars == <<subscriptions, asked, plain>>
vars == <<holdVars, stallVars, gattVars, readyVars, watchVars, switchVars, radioVars,
          historyVars>>

Sessions == {"IDLE", "SERVICE_DISCOVERY", "SUBSCRIBING", "STABILIZING", "READY"}
\* The FailureHold ranks, and the reason each of them holds.
HoldRank == [NONE |-> 0, READY |-> 1, DATA |-> 2, PAIRING_STALL |-> 3,
             SUBSCRIBE |-> 4, AUTH |-> 5]
Holds    == DOMAIN HoldRank
HeldText == [READY |-> "never ready", DATA |-> "no data", PAIRING_STALL |-> "no pairing",
             SUBSCRIBE |-> "subscribe", AUTH |-> "authentication"]
\* ... those that are never held, and no reason at all.
FreeText == {"none", "local host", "dropped", "cccd write"}
Texts    == FreeText \cup {HeldText[h] : h \in DOMAIN HeldText}
Connected == session # "IDLE"

Init ==
  /\ encryption_pending = FALSE /\ subscription_deferred = FALSE
  /\ discovery_retries = 0 /\ retry_timer = FALSE
  /\ failure_hold = "NONE" /\ last_failure = "none"
  /\ saw_open = FALSE /\ progress = FALSE /\ consecutive = 0
  /\ session = "IDLE" /\ ready_timer = FALSE /\ caches_valid = FALSE
  /\ pump_ready = FALSE /\ reached_ready = FALSE
  /\ data_due = FALSE /\ ready_due = FALSE /\ recycles = 0 /\ recycled = 0
  /\ suspended = FALSE /\ settling = FALSE /\ settle_armed = FALSE
  /\ boot_holding = BootHold /\ auto_connect = ~BootHold
  /\ phys = "idle" /\ closing = FALSE /\ searching = FALSE /\ smp = FALSE
  /\ registered = FALSE /\ bond \in BOOLEAN
  /\ subscriptions = 0 /\ asked = FALSE /\ plain = FALSE

-----------------------------------------------------------------------------
(* What the manager does with its fault.                                    *)

\* failure_hold_admits()
Admits(held, incoming) == HoldRank[held] <= HoldRank[incoming]

\* Faulty variant of NoteFailureOver: a routine reason overwrites a held one.
NoteFailureAlways(held, text, rank) == failure_hold' = rank /\ last_failure' = text

\* note_failure() when what is held is `held`.
NoteFailureOver(held, text, rank) ==
  IF Admits(held, rank) THEN failure_hold' = rank /\ last_failure' = text
  ELSE failure_hold' = held /\ UNCHANGED last_failure

NoteFailure(rank) == NoteFailureOver(failure_hold, HeldText[rank], rank)

\* The releases that clear the reason with the hold.
Withdraw(held) ==
  IF failure_hold \in held THEN failure_hold' = "NONE" /\ last_failure' = "none"
  ELSE UNCHANGED holdVars

\* Faulty variant of ReleaseStall: what is held waits for the next fault.
ReleaseStallNever(count) == UNCHANGED holdVars

\* release_pairing_stall_hold_(), the detector having counted to `count`.
ReleaseStall(count) == Withdraw(IF count < StallCycles THEN {"PAIRING_STALL"} ELSE {})

\* note_progress_()
NoteProgress == progress' = TRUE /\ consecutive' = 0 /\ UNCHANGED saw_open

\* client_->disconnect(): asynchronous, and a pending connect still opens.
RequestTeardown == closing' = (closing \/ phys # "idle")

\* force_disconnect()
ForceDisconnect(rank) ==
  /\ NoteFailure(rank)
  /\ progress' = TRUE /\ UNCHANGED <<saw_open, consecutive>>
  /\ RequestTeardown

-----------------------------------------------------------------------------
(* Connections open.                                                        *)

StartConnect ==
  /\ phys = "idle" /\ auto_connect
  /\ phys' = "connecting"
  /\ UNCHANGED <<holdVars, stallVars, gattVars, readyVars, watchVars, switchVars, closing,
                 searching, smp, registered, bond, historyVars>>

OpenFails ==
  /\ phys = "connecting"
  /\ phys' = "idle" /\ closing' = FALSE
  /\ UNCHANGED <<holdVars, stallVars, gattVars, readyVars, watchVars, switchVars,
                 searching, smp, registered, bond, historyVars>>

\* PairingStallDetector::on_connection_opened(), and the release after it.
StallOpened ==
  /\ saw_open' = TRUE /\ progress' = bond
  /\ consecutive' = IF bond THEN 0 ELSE consecutive
  /\ ReleaseStall(consecutive')

\* Faulty variant of OpenedSuspended: the open is processed all the same.
OpenedAllTheSame ==
  /\ phys = "connecting" /\ suspended
  /\ phys' = "up" /\ searching' = TRUE
  /\ session' = "SERVICE_DISCOVERY"
  /\ StallOpened
  /\ UNCHANGED <<gattVars, ready_timer, caches_valid, pump_ready, reached_ready, watchVars,
                 switchVars, closing, smp, registered, bond, historyVars>>

\* handle_connection_opened() of a connection the component refuses because it
\* is suspended: nothing of it may reach the session.  The search that ESPHome
\* asks for with the open does not outlive the refusal.
OpenedSuspended ==
  /\ phys = "connecting" /\ suspended
  /\ phys' = "up" /\ closing' = TRUE /\ searching' = FALSE
  /\ auto_connect' = FALSE
  /\ discovery_retries' = 0 /\ encryption_pending' = FALSE /\ subscription_deferred' = FALSE
  /\ StallOpened
  /\ UNCHANGED <<retry_timer, readyVars, watchVars, suspended, settling, settle_armed,
                 boot_holding, smp, registered, bond, historyVars>>

\* handle_connection_opened() with the connection callback of a link that is
\* wanted: the holds are over, the watchdogs start, and a bonded link asks for
\* encryption.
Opened ==
  /\ phys = "connecting" /\ ~suspended
  /\ phys' = "up" /\ searching' = ~closing
  /\ settling' = FALSE /\ settle_armed' = FALSE
  /\ session' = "SERVICE_DISCOVERY"
  /\ reached_ready' = FALSE /\ pump_ready' = FALSE
  /\ data_due' = FALSE /\ ready_due' = FALSE
  /\ discovery_retries' = 0 /\ retry_timer' = FALSE /\ subscription_deferred' = FALSE
  /\ StallOpened
  /\ \E accepted \in IF PairingEnabled /\ bond THEN BOOLEAN ELSE {FALSE} :
       encryption_pending' = accepted /\ smp' = accepted /\ asked' = accepted
  /\ UNCHANGED <<ready_timer, caches_valid, recycles, recycled, suspended, boot_holding,
                 auto_connect, closing, registered, bond, subscriptions, plain>>

-----------------------------------------------------------------------------
(* Discovery, encryption and subscription.                                  *)

\* disconnect() is asynchronous: until DISCONNECT the events of the
\* connection keep coming.
Delivered == phys = "up"

\* subscribe_to_notifications() in session `at`, with `held` held.  A CCCD
\* write that cannot be issued does not stop the session.
Subscribe(outcome, at, held, securing) ==
  /\ outcome = "ok" => (failure_hold' = held /\ UNCHANGED last_failure)
  /\ outcome = "CCCD_WRITE_FAILED" => NoteFailureOver(held, "cccd write", "NONE")
  /\ outcome = "REGISTER_FAILED" => NoteFailureOver(held, HeldText["SUBSCRIBE"], "SUBSCRIBE")
  /\ IF outcome = "REGISTER_FAILED"
     THEN session' = at /\ UNCHANGED <<ready_timer, registered, subscriptions>>
     ELSE /\ session' = "STABILIZING" /\ ready_timer' = TRUE /\ registered' = TRUE
          /\ subscriptions' = IF subscriptions < 2 THEN subscriptions + 1 ELSE subscriptions
  /\ plain' = (plain \/ (outcome = "ok" /\ securing))

Outcomes == {"ok", "CCCD_WRITE_FAILED", "REGISTER_FAILED"}

\* Faulty variant of ServiceFound: what is deferred is done at once as well.
ServiceFoundTwice ==
  /\ Delivered /\ searching /\ searching' = FALSE
  /\ subscription_deferred' = encryption_pending
  /\ \E outcome \in Outcomes : Subscribe(outcome, "SUBSCRIBING", failure_hold, FALSE)
  /\ UNCHANGED <<stallVars, encryption_pending, discovery_retries, retry_timer, caches_valid,
                 pump_ready, reached_ready, watchVars, switchVars, phys, closing, smp, bond,
                 asked>>

\* handle_service_discovery_complete(): service and characteristic are there.
ServiceFound ==
  /\ Delivered /\ searching /\ searching' = FALSE
  /\ IF encryption_pending
     THEN /\ subscription_deferred' = TRUE /\ session' = "SUBSCRIBING"
          /\ UNCHANGED <<holdVars, ready_timer, registered, subscriptions, plain>>
     ELSE /\ UNCHANGED subscription_deferred
          /\ \E outcome \in Outcomes : Subscribe(outcome, "SUBSCRIBING", failure_hold, asked)
  /\ UNCHANGED <<stallVars, encryption_pending, discovery_retries, retry_timer, caches_valid,
                 pump_ready, reached_ready, watchVars, switchVars, phys, closing, smp, bond,
                 asked>>

\* ... the service is there without its characteristic.
CharacteristicMissing ==
  /\ Delivered /\ searching /\ searching' = FALSE
  /\ session' = "SUBSCRIBING"
  /\ NoteFailure("SUBSCRIBE")
  /\ UNCHANGED <<stallVars, gattVars, ready_timer, caches_valid, pump_ready, reached_ready,
                 watchVars, switchVars, phys, closing, smp, registered, bond, historyVars>>

MayRetryOnceMore == discovery_retries <= MaxDiscoveryRetries  \* faulty variant
MayRetry == discovery_retries < MaxDiscoveryRetries

\* ... the service is not there: search again, a few times.
ServiceMissing ==
  /\ Delivered /\ searching /\ searching' = FALSE
  /\ IF MayRetry
     THEN /\ discovery_retries' = discovery_retries + 1 /\ retry_timer' = TRUE
          /\ UNCHANGED holdVars
     ELSE /\ NoteFailure("SUBSCRIBE")
          /\ UNCHANGED <<discovery_retries, retry_timer>>
  /\ UNCHANGED <<stallVars, encryption_pending, subscription_deferred, readyVars, watchVars,
                 switchVars, phys, closing, smp, registered, bond, historyVars>>

\* The retry's callback; one of an older sequence does nothing.
RetryDue ==
  /\ retry_timer /\ retry_timer' = FALSE
  /\ searching' = (searching \/ phys = "up")
  /\ UNCHANGED <<holdVars, stallVars, encryption_pending, subscription_deferred,
                 discovery_retries, readyVars, watchVars, switchVars, phys, closing, smp,
                 registered, bond, historyVars>>

\* ESP_GAP_BLE_SEC_REQ_EVT: the pump offers to pair.
SecurityRequest ==
  /\ Delivered /\ ~smp /\ ~bond
  /\ smp' = PairingEnabled
  /\ NoteProgress /\ ReleaseStall(0)
  /\ UNCHANGED <<gattVars, readyVars, watchVars, switchVars, phys, closing, searching,
                 registered, bond, historyVars>>

\* handle_auth_complete(), success: the hold goes, its text stays, and a
\* deferred subscription is made.
AuthSucceeds ==
  /\ Delivered /\ smp /\ smp' = FALSE
  /\ bond' = TRUE /\ encryption_pending' = FALSE /\ asked' = FALSE
  /\ NoteProgress
  /\ LET held == IF failure_hold \in {"PAIRING_STALL", "AUTH"} THEN "NONE" ELSE failure_hold IN
     IF subscription_deferred
     THEN /\ subscription_deferred' = FALSE
          /\ \E outcome \in Outcomes : Subscribe(outcome, session, held, FALSE)
     ELSE /\ failure_hold' = held
          /\ UNCHANGED <<last_failure, subscription_deferred, session, ready_timer, registered,
                         subscriptions, plain>>
  /\ UNCHANGED <<discovery_retries, retry_timer, caches_valid, pump_ready, reached_ready,
                 watchVars, switchVars, phys, closing, searching>>

\* ... failure: ESP-IDF may erase the bond, and a link that was resuming an
\* encrypted session is closed.
AuthFails ==
  /\ Delivered /\ smp /\ smp' = FALSE
  /\ bond' \in {bond, FALSE}
  /\ NoteFailure("AUTH")
  /\ IF encryption_pending THEN RequestTeardown ELSE UNCHANGED closing
  /\ encryption_pending' = FALSE /\ subscription_deferred' = FALSE
  /\ UNCHANGED <<stallVars, discovery_retries, retry_timer, readyVars, watchVars, switchVars,
                 phys, searching, registered, historyVars>>

\* on_session_stabilized_(), with on_session_ready().
Stabilized ==
  /\ ready_timer /\ ready_timer' = FALSE
  /\ session' = "READY"
  /\ Withdraw({"PAIRING_STALL", "AUTH"})
  /\ UNCHANGED <<stallVars, gattVars, caches_valid, pump_ready, reached_ready, watchVars,
                 switchVars, radioVars, historyVars>>

\* Faulty variant of Notification: it re-arms the readiness window.
NotificationRearms ==
  /\ phys = "up" /\ registered
  /\ Withdraw({"DATA", "PAIRING_STALL", "SUBSCRIBE"})
  /\ NoteProgress
  /\ data_due' = FALSE /\ ready_due' = FALSE /\ reached_ready' = TRUE
  /\ caches_valid' \in {caches_valid, caches_valid \/ session = "READY"}
  /\ UNCHANGED <<gattVars, session, ready_timer, pump_ready, recycles, recycled,
                 switchVars, radioVars, historyVars>>

\* handle_notification() and the notification callback.  What arrives in a
\* ready session may complete the caches.
Notification ==
  /\ phys = "up" /\ registered
  /\ Withdraw({"DATA", "PAIRING_STALL", "SUBSCRIBE"})
  /\ NoteProgress
  /\ data_due' = FALSE /\ reached_ready' = TRUE
  /\ caches_valid' \in {caches_valid, caches_valid \/ session = "READY"}
  /\ UNCHANGED <<gattVars, session, ready_timer, pump_ready, ready_due, recycles, recycled,
                 switchVars, radioVars, historyVars>>

\* update() finds the state synchronized for the first time.
PumpReady ==
  /\ session = "READY" /\ caches_valid /\ ~pump_ready
  /\ pump_ready' = TRUE /\ recycles' = 0
  /\ Withdraw({"READY"})
  /\ UNCHANGED <<stallVars, gattVars, session, ready_timer, caches_valid, reached_ready,
                 data_due, ready_due, recycled, switchVars, radioVars, historyVars>>

-----------------------------------------------------------------------------
(* The watchdogs of loop().                                                 *)

\* Time passes; a teardown takes less of it than a window.
DataExpires ==
  /\ DataWatch /\ Connected /\ ~closing /\ ~data_due
  /\ data_due' = TRUE
  /\ UNCHANGED <<holdVars, stallVars, gattVars, readyVars, ready_due, recycles, recycled,
                 switchVars, radioVars, historyVars>>

ReadyExpires ==
  /\ ReadyWatch /\ Connected /\ ~closing /\ ~ready_due
  /\ ready_due' = TRUE
  /\ UNCHANGED <<holdVars, stallVars, gattVars, readyVars, data_due, recycles, recycled,
                 switchVars, radioVars, historyVars>>

LinkSilentWhenReady == session = "READY" /\ data_due  \* faulty variant
LinkSilent == Connected /\ data_due
CountRecycle == recycled' = IF recycled < 2 THEN recycled + 1 ELSE recycled

\* Faulty variant of CheckLiveness: the readiness window is not re-armed.
CheckLivenessOnce ==
  /\ LinkSilent
  /\ data_due' = FALSE /\ reached_ready' = FALSE
  /\ CountRecycle /\ ForceDisconnect("DATA")
  /\ UNCHANGED <<gattVars, session, ready_timer, caches_valid, pump_ready, ready_due, recycles,
                 switchVars, phys, searching, smp, registered, bond, historyVars>>

\* check_link_liveness_(): both windows are re-armed.
CheckLiveness ==
  /\ LinkSilent
  /\ data_due' = FALSE /\ ready_due' = FALSE /\ reached_ready' = FALSE
  /\ CountRecycle /\ ForceDisconnect("DATA")
  /\ UNCHANGED <<gattVars, session, ready_timer, caches_valid, pump_ready, recycles,
                 switchVars, phys, searching, smp, registered, bond, historyVars>>

\* check_link_readiness_() of a link whose allowance is not spent.
CheckReadinessRecycle ==
  /\ ~LinkSilent /\ Connected /\ ~pump_ready /\ ready_due
  /\ recycles < RecycleLimit
  /\ recycles' = recycles + 1
  /\ data_due' = FALSE /\ ready_due' = FALSE /\ reached_ready' = FALSE
  /\ CountRecycle /\ ForceDisconnect("READY")
  /\ UNCHANGED <<gattVars, session, ready_timer, caches_valid, pump_ready,
                 switchVars, phys, searching, smp, registered, bond, historyVars>>

\* ... of one whose allowance is: the fault is named, the link stays.
CheckReadinessName ==
  /\ ~LinkSilent /\ Connected /\ ~pump_ready /\ ready_due
  /\ recycles >= RecycleLimit
  /\ ready_due' = FALSE
  /\ NoteFailure("READY")
  /\ UNCHANGED <<stallVars, gattVars, readyVars, data_due, recycles, recycled, switchVars,
                 radioVars, historyVars>>

LoopTick == CheckLiveness \/ CheckReadinessRecycle \/ CheckReadinessName

-----------------------------------------------------------------------------
(* Connections end, and the switch.                                         *)

\* PairingStallDetector::on_disconnected(): only an open connection that the
\* pump ended, unbonded, silent and not on our account, counts.
StallCount(reason) ==
  IF ~saw_open THEN consecutive
  ELSE IF progress \/ reason # "refused" THEN 0
  ELSE IF consecutive < StallCycles THEN consecutive + 1 ELSE consecutive

\* The settle hold, unless the link is suspended or there is no bond to lose.
HoldReconnect ==
  IF ~suspended /\ SettleWindow /\ bond
  THEN auto_connect' = FALSE /\ settling' = TRUE /\ settle_armed' = FALSE
  ELSE UNCHANGED <<auto_connect, settling, settle_armed>>

\* Faulty variant of DropText: the reason of the drop is always shown.
DropTextAlways(reason, held, stalled) ==
  IF stalled THEN HeldText["PAIRING_STALL"]
  ELSE IF reason = "local" THEN "local host" ELSE "dropped"

\* What last_failure_ says after the drop.
DropText(reason, held, stalled) ==
  IF stalled THEN HeldText["PAIRING_STALL"]
  ELSE IF ~Admits(held, "NONE") THEN last_failure
  ELSE IF reason = "local" THEN "local host" ELSE "dropped"

\* Faulty variant of EndSession: the stabilize timer runs on.
EndSessionTimerLeft ==
  /\ UNCHANGED ready_timer /\ caches_valid' = FALSE /\ pump_ready' = FALSE
  /\ session' = "IDLE" /\ reached_ready' = FALSE

\* The disconnection callback, up to the settle hold.
EndSession ==
  /\ ready_timer' = FALSE /\ caches_valid' = FALSE /\ pump_ready' = FALSE
  /\ session' = "IDLE" /\ reached_ready' = FALSE

\* ESP_GATTC_DISCONNECT_EVT with the disconnection callback.
Disconnected(reason) ==
  /\ phys # "idle" /\ (reason = "local" => closing)
  /\ saw_open' = FALSE /\ consecutive' = StallCount(reason) /\ UNCHANGED progress
  /\ LET stalled == consecutive' >= StallCycles /\ Admits(failure_hold, "PAIRING_STALL") IN
     /\ failure_hold' = IF stalled THEN "PAIRING_STALL" ELSE failure_hold
     /\ last_failure' = DropText(reason, failure_hold, stalled)
  /\ EndSession
  /\ HoldReconnect
  /\ retry_timer' = FALSE /\ discovery_retries' = 0
  /\ encryption_pending' = FALSE /\ subscription_deferred' = FALSE
  /\ phys' = "idle" /\ closing' = FALSE /\ searching' = FALSE /\ smp' = FALSE
  /\ registered' = FALSE /\ subscriptions' = 0 /\ asked' = FALSE /\ recycled' = 0
  /\ UNCHANGED <<data_due, ready_due, recycles, suspended, boot_holding, bond, plain>>

\* Faulty variant of Suspend: the link that is up is left to end by itself.
SuspendNextTime ==
  /\ suspended' = TRUE /\ auto_connect' = FALSE
  /\ UNCHANGED <<holdVars, stallVars, gattVars, readyVars, watchVars, settling,
                 settle_armed, boot_holding, radioVars, historyVars>>

\* set_suspended(true), which may be repeated.
Suspend ==
  /\ suspended' = TRUE /\ auto_connect' = FALSE
  /\ progress' = TRUE
  /\ RequestTeardown
  /\ UNCHANGED <<holdVars, saw_open, consecutive, gattVars, readyVars, watchVars, settling,
                 settle_armed, boot_holding, phys, searching, smp, registered, bond,
                 historyVars>>

\* Faulty variant of Release: the hold of another is left to bring it back.
ReleaseLeavesIt ==
  /\ suspended /\ suspended' = FALSE
  /\ UNCHANGED <<holdVars, auto_connect>>
  /\ UNCHANGED <<stallVars, gattVars, readyVars, watchVars, settling, settle_armed,
                 boot_holding, radioVars, historyVars>>

\* Faulty variant of Release: the holds of others are forgotten.
ReleaseAtOnce ==
  /\ suspended /\ suspended' = FALSE
  /\ UNCHANGED holdVars
  /\ auto_connect' = TRUE
  /\ UNCHANGED <<stallVars, gattVars, readyVars, watchVars, settling, settle_armed,
                 boot_holding, radioVars, historyVars>>

\* set_suspended(false): the teardown we asked for is forgotten, and only
\* that; a hold in force decides when the link comes back.
Release ==
  /\ suspended /\ suspended' = FALSE
  /\ IF last_failure = "local host" THEN failure_hold' = "NONE" /\ last_failure' = "none"
     ELSE UNCHANGED holdVars
  /\ auto_connect' = (auto_connect \/ (~settling /\ ~boot_holding))
  /\ UNCHANGED <<stallVars, gattVars, readyVars, watchVars, settling, settle_armed,
                 boot_holding, radioVars, historyVars>>

\* parse_device(): the pump advertises again.
Reappears ==
  /\ settling /\ ~settle_armed /\ phys = "idle"
  /\ settle_armed' = TRUE
  /\ UNCHANGED <<holdVars, stallVars, gattVars, readyVars, watchVars, suspended, settling,
                 boot_holding, auto_connect, radioVars, historyVars>>

\* The settle window is over.
SettleDue ==
  /\ settle_armed
  /\ settling' = FALSE /\ settle_armed' = FALSE
  /\ auto_connect' = (auto_connect \/ ~suspended)
  /\ UNCHANGED <<holdVars, stallVars, gattVars, readyVars, watchVars, suspended, boot_holding,
                 radioVars, historyVars>>

\* The boot hold is over.
BootDue ==
  /\ boot_holding /\ boot_holding' = FALSE
  /\ auto_connect' = (auto_connect \/ ~suspended)
  /\ UNCHANGED <<holdVars, stallVars, gattVars, readyVars, watchVars, suspended, settling,
                 settle_armed, radioVars, historyVars>>

Reasons == {"local", "radio", "refused"}

Next ==
  \/ StartConnect \/ OpenFails \/ OpenedSuspended \/ Opened
  \/ ServiceFound \/ CharacteristicMissing \/ ServiceMissing \/ RetryDue
  \/ SecurityRequest \/ AuthSucceeds \/ AuthFails
  \/ Stabilized \/ Notification \/ PumpReady
  \/ DataExpires \/ ReadyExpires
  \/ CheckLiveness \/ CheckReadinessRecycle \/ CheckReadinessName
  \/ \E reason \in Reasons : Disconnected(reason)
  \/ Suspend \/ Release \/ Reappears \/ SettleDue \/ BootDue

Spec == Init /\ [][Next]_vars

\* Timers fire, windows run out, loop() ticks, a connect ends one way or the
\* other, a requested teardown completes, and the pump advertises again.
Fairness ==
  /\ WF_vars(SettleDue) /\ WF_vars(BootDue) /\ WF_vars(Reappears)
  /\ WF_vars(DataExpires) /\ WF_vars(ReadyExpires) /\ WF_vars(LoopTick)
  /\ WF_vars(OpenFails \/ Opened \/ OpenedSuspended)
  /\ WF_vars(closing /\ phys = "up" /\ \E reason \in Reasons : Disconnected(reason))

FairSpec == Spec /\ Fairness
-----------------------------------------------------------------------------
(* Properties. *)

\* Every variable keeps the type the component declares for it.
TypeOK ==
  /\ encryption_pending \in BOOLEAN /\ subscription_deferred \in BOOLEAN
  /\ discovery_retries \in 0..MaxDiscoveryRetries /\ retry_timer \in BOOLEAN
  /\ failure_hold \in Holds /\ last_failure \in Texts
  /\ saw_open \in BOOLEAN /\ progress \in BOOLEAN /\ consecutive \in 0..StallCycles
  /\ session \in Sessions /\ ready_timer \in BOOLEAN /\ caches_valid \in BOOLEAN
  /\ pump_ready \in BOOLEAN /\ reached_ready \in BOOLEAN
  /\ data_due \in BOOLEAN /\ ready_due \in BOOLEAN
  /\ recycles \in 0..RecycleLimit /\ recycled \in 0..2
  /\ suspended \in BOOLEAN /\ settling \in BOOLEAN /\ settle_armed \in BOOLEAN
  /\ boot_holding \in BOOLEAN /\ auto_connect \in BOOLEAN
  /\ phys \in {"idle", "connecting", "up"} /\ closing \in BOOLEAN
  /\ searching \in BOOLEAN /\ smp \in BOOLEAN /\ registered \in BOOLEAN /\ bond \in BOOLEAN
  /\ subscriptions \in 0..2 /\ asked \in BOOLEAN /\ plain \in BOOLEAN

\* Issues #243 and #310: no timer and no release ends a suspension, a settle
\* hold or the boot hold of another; while one is in force nothing connects.
HoldsKeepLinkDown == auto_connect => ~suspended /\ ~settling /\ ~boot_holding

\* Issue #243: a link handed over to another client stays handed over, however
\* an open that was already under way ends.
SuspendedStaysDown == [][suspended /\ session = "IDLE" => session' = "IDLE"]_vars

\* Issue #15: a session becomes ready when its own stabilize window is over,
\* never by the timer of a connection before it.
StabilizesFirst == [][session' = "READY" => session \in {"STABILIZING", "READY"}]_vars

\* Retries, deferral and reconnections notwithstanding, a connection is
\* subscribed at most once.
SubscribedOnce == subscriptions <= 1

\* Issue #12: a subscription waits for the encryption that was asked for: "no
\* GATT writes allowed on an unauthenticated bonded link".
NoPlainSubscription == ~plain

\* Issue #175: a held reason goes for one of at least its rank, when it is
\* refuted, which clears it, or when encryption succeeds at last; a routine
\* reason never replaces it.
Authenticated == smp /\ ~smp' /\ bond'
HeldFaultSurvives ==
  [][failure_hold # "NONE" /\ last_failure' # last_failure =>
       \/ failure_hold' # "NONE" /\ Admits(failure_hold, failure_hold')
       \/ failure_hold' = "NONE" /\ last_failure' = "none"
       \/ failure_hold \in {"PAIRING_STALL", "AUTH"} /\ Authenticated]_vars

\* What is held is what is shown, so that the release of a suspension, which
\* goes by the text, cannot drop a fault that was latched before it.
HeldFaultNamed == failure_hold # "NONE" => last_failure = HeldText[failure_hold]

\* pairing_stall.h: on an open link the stall is reported only as long as the
\* detector stands by it.
StallStands == phys = "up" /\ failure_hold = "PAIRING_STALL" => consecutive >= StallCycles

\* Issue #211: one outage is one teardown, whichever watchdogs saw it.
OneRecycle == recycled <= 1

\* A connected link that carries nothing is taken down.
DeafIsRecycled ==
  (Connected /\ ~reached_ready) ~> (~Connected \/ reached_ready)

\* Issue #211: a link that stays up without the pump becoming ready is named
\* on the fault surface.
Shown == IF suspended \/ pump_ready THEN "none" ELSE last_failure
NeverReadyIsNamed ==
  (Connected /\ ~pump_ready) ~> (~Connected \/ pump_ready \/ suspended \/ Shown # "none")

\* Auto-connect, taken away by a hold or a suspension, always comes back.
Reconnects == (~suspended /\ phys = "idle") ~> (auto_connect \/ suspended)

\* A suspension frees the pump.
SuspensionFrees == suspended ~> (~suspended \/ phys = "idle")
=============================================================================
