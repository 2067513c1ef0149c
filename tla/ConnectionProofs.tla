-------------------------- MODULE ConnectionProofs ---------------------------
(***************************************************************************)
(* Theorems about Connection for every configuration: pairing or not, any   *)
(* of the windows and holds, every bound on retries, recycles and cycles.   *)
(***************************************************************************)
EXTENDS Connection, TLAPS

\* A wait for the subscription, of which there is one at a time and only
\* before it.
Awaited == searching \/ retry_timer \/ subscription_deferred
LinkInv ==
  /\ phys # "up" => session = "IDLE"
  /\ session = "IDLE" => ~Awaited /\ ~ready_timer /\ subscriptions = 0
  /\ Awaited => session \in {"SERVICE_DISCOVERY", "SUBSCRIBING"} /\ subscriptions = 0
  /\ ~(searching /\ retry_timer) /\ ~(searching /\ subscription_deferred)
  /\ ~(retry_timer /\ subscription_deferred)
  /\ ready_timer => session = "STABILIZING"
  /\ SubscribedOnce

\* The holds over auto-connect, and when each can be in force.
HoldInv ==
  /\ boot_holding => phys = "idle" /\ ~settling
  /\ settling => phys = "idle"
  /\ settle_armed => settling
  /\ HoldsKeepLinkDown

\* After a recycle nothing of the connection is due until it has ended.
RecycleInv ==
  recycled # 0 => /\ recycled = 1 /\ closing /\ phys = "up"
                  /\ ~data_due /\ ~ready_due

\* The types the faults need.
HoldType == failure_hold \in Holds /\ last_failure \in Texts
CountType == consecutive \in 0..StallCycles

\* How a held reason may go.
FaultGoes ==
  \/ failure_hold' # "NONE" /\ Admits(failure_hold, failure_hold')
  \/ failure_hold' = "NONE" /\ last_failure' = "none"
  \/ failure_hold \in {"PAIRING_STALL", "AUTH"} /\ Authenticated

-----------------------------------------------------------------------------
(* The ranks and the texts. *)

\* The ranks are numbers, NONE is below all others, and what is held has a
\* text.
LEMMA HoldFacts ==
  /\ Holds = {"NONE", "READY", "DATA", "PAIRING_STALL", "SUBSCRIBE", "AUTH"}
  /\ \A h \in Holds : HoldRank[h] \in Nat
  /\ \A h \in Holds : Admits(h, "NONE") <=> h = "NONE"
  /\ \A h \in Holds \ {"NONE"} : HeldText[h] \in Texts
<1>1. Holds = {"NONE", "READY", "DATA", "PAIRING_STALL", "SUBSCRIBE", "AUTH"}
  BY DEF Holds, HoldRank
<1>2. \A h \in Holds : HoldRank[h] \in Nat
  BY <1>1 DEF HoldRank
<1>3. \A h \in Holds : Admits(h, "NONE") <=> h = "NONE"
  BY <1>1 DEF HoldRank, Admits
<1>4. DOMAIN HeldText = Holds \ {"NONE"}
  BY <1>1 DEF HeldText
<1>5. \A h \in Holds \ {"NONE"} : HeldText[h] \in Texts
  BY <1>4 DEF Texts
<1> QED
  BY <1>1, <1>2, <1>3, <1>5

\* The texts that are never held are texts.
LEMMA FreeTexts == \A t \in {"none", "local host", "dropped", "cccd write"} : t \in Texts
BY DEF Texts, FreeText

\* What a subscription does to the session: it fails and leaves it where it
\* was, or it is reported done.
LEMMA SubscribeMoves ==
  ASSUME NEW outcome \in Outcomes, NEW at, NEW held, NEW securing,
         Subscribe(outcome, at, held, securing)
  PROVE  \/ session' = at /\ (ready_timer' <=> ready_timer) /\ UNCHANGED subscriptions
         \/ /\ session' = "STABILIZING" /\ ready_timer'
            /\ subscriptions' = IF subscriptions < 2 THEN subscriptions + 1 ELSE subscriptions
BY DEF Subscribe

\* ... and to the fault: what it leaves held is what is shown.
LEMMA SubscribeNames ==
  ASSUME NEW outcome \in Outcomes, NEW at, NEW held \in Holds, NEW securing,
         Subscribe(outcome, at, held, securing),
         held # "NONE" => last_failure = HeldText[held]
  PROVE  /\ failure_hold' # "NONE" => last_failure' = HeldText[failure_hold']
         /\ last_failure' # last_failure => Admits(held, failure_hold')
         /\ failure_hold' \in {held, "SUBSCRIBE"}
<1>1. CASE outcome = "ok"
  BY <1>1 DEF Subscribe
<1>2. CASE outcome = "CCCD_WRITE_FAILED"
  <2>1. NoteFailureOver(held, "cccd write", "NONE")
    BY <1>2 DEF Subscribe
  <2> QED
    BY <2>1, HoldFacts DEF NoteFailureOver
<1>3. CASE outcome = "REGISTER_FAILED"
  <2>1. NoteFailureOver(held, HeldText["SUBSCRIBE"], "SUBSCRIBE")
    BY <1>3 DEF Subscribe
  <2> QED
    BY <2>1 DEF NoteFailureOver
<1> QED
  BY <1>1, <1>2, <1>3 DEF Outcomes

-----------------------------------------------------------------------------
(* What every step keeps. *)

\* Steps keep the type of what is held.
LEMMA HoldTypeStep == HoldType /\ [Next]_vars => HoldType'
<1>1. SUFFICES ASSUME HoldType, [Next]_vars PROVE HoldType'
  OBVIOUS
<1> USE DEF HoldType
<1>2. CASE StartConnect
  BY <1>2, <1>1, HoldFacts, FreeTexts DEF StartConnect, holdVars, stallVars,
      gattVars, readyVars, watchVars, switchVars, historyVars
<1>3. CASE OpenFails
  BY <1>3, <1>1, HoldFacts, FreeTexts DEF OpenFails, holdVars, stallVars,
      gattVars, readyVars, watchVars, switchVars, historyVars
<1>4. CASE OpenedSuspended
  BY <1>4, <1>1, HoldFacts, FreeTexts DEF OpenedSuspended, ReleaseStall,
      StallOpened, Withdraw, holdVars, readyVars, watchVars, historyVars
<1>5. CASE Opened
  BY <1>5, <1>1, HoldFacts, FreeTexts DEF Opened, ReleaseStall, StallOpened,
      Withdraw, holdVars
<1>6. CASE ServiceFound
  BY <1>6, <1>1, HoldFacts, FreeTexts DEF ServiceFound, Subscribe,
      NoteFailureOver, Admits, Outcomes, Delivered, holdVars, stallVars,
      watchVars, switchVars
<1>7. CASE CharacteristicMissing
  BY <1>7, <1>1, HoldFacts, FreeTexts DEF CharacteristicMissing, NoteFailure,
      NoteFailureOver, Admits, Delivered, stallVars, gattVars, watchVars,
      switchVars, historyVars
<1>8. CASE ServiceMissing
  BY <1>8, <1>1, HoldFacts, FreeTexts DEF ServiceMissing, NoteFailure,
      NoteFailureOver, Admits, MayRetry, Delivered, holdVars, stallVars,
      readyVars, watchVars, switchVars, historyVars
<1>9. CASE RetryDue
  BY <1>9, <1>1, HoldFacts, FreeTexts DEF RetryDue, holdVars, stallVars,
      readyVars, watchVars, switchVars, historyVars
<1>10. CASE SecurityRequest
  BY <1>10, <1>1, HoldFacts, FreeTexts DEF SecurityRequest, NoteProgress,
      ReleaseStall, Withdraw, Delivered, holdVars, gattVars, readyVars,
      watchVars, switchVars, historyVars
<1>11. CASE AuthSucceeds
  BY <1>11, <1>1, HoldFacts, FreeTexts DEF AuthSucceeds, NoteProgress,
      Subscribe, NoteFailureOver, Admits, Outcomes, Delivered, watchVars,
      switchVars
<1>12. CASE AuthFails
  BY <1>12, <1>1, HoldFacts, FreeTexts DEF AuthFails, NoteFailure,
      NoteFailureOver, Admits, RequestTeardown, Delivered, stallVars,
      readyVars, watchVars, switchVars, historyVars
<1>13. CASE Stabilized
  BY <1>13, <1>1, HoldFacts, FreeTexts DEF Stabilized, Withdraw, holdVars,
      stallVars, gattVars, watchVars, switchVars, radioVars, historyVars
<1>14. CASE Notification
  BY <1>14, <1>1, HoldFacts, FreeTexts DEF Notification, Withdraw,
      NoteProgress, holdVars, gattVars, switchVars, radioVars, historyVars
<1>15. CASE PumpReady
  BY <1>15, <1>1, HoldFacts, FreeTexts DEF PumpReady, Withdraw, holdVars,
      stallVars, gattVars, switchVars, radioVars, historyVars
<1>16. CASE DataExpires
  BY <1>16, <1>1, HoldFacts, FreeTexts DEF DataExpires, Connected, holdVars,
      stallVars, gattVars, readyVars, switchVars, radioVars, historyVars
<1>17. CASE ReadyExpires
  BY <1>17, <1>1, HoldFacts, FreeTexts DEF ReadyExpires, Connected, holdVars,
      stallVars, gattVars, readyVars, switchVars, radioVars, historyVars
<1>18. CASE CheckLiveness
  BY <1>18, <1>1, HoldFacts, FreeTexts DEF CheckLiveness, LinkSilent,
      Connected, CountRecycle, ForceDisconnect, NoteFailure, NoteFailureOver,
      Admits, RequestTeardown, gattVars, switchVars, historyVars
<1>19. CASE CheckReadinessRecycle
  BY <1>19, <1>1, HoldFacts, FreeTexts DEF CheckReadinessRecycle, LinkSilent,
      Connected, CountRecycle, ForceDisconnect, NoteFailure, NoteFailureOver,
      Admits, RequestTeardown, gattVars, switchVars, historyVars
<1>20. CASE CheckReadinessName
  BY <1>20, <1>1, HoldFacts, FreeTexts DEF CheckReadinessName, LinkSilent,
      Connected, NoteFailure, NoteFailureOver, Admits, stallVars, gattVars,
      readyVars, switchVars, radioVars, historyVars
<1>21. ASSUME NEW reason \in Reasons, Disconnected(reason) PROVE HoldType'
  BY <1>21, <1>1, HoldFacts, FreeTexts DEF Disconnected, StallCount,
      DropText, EndSession, HoldReconnect, Admits, Reasons
<1>22. CASE Suspend
  BY <1>22, <1>1, HoldFacts, FreeTexts DEF Suspend, RequestTeardown,
      holdVars, gattVars, readyVars, watchVars, historyVars
<1>23. CASE Release
  BY <1>23, <1>1, HoldFacts, FreeTexts DEF Release, holdVars, stallVars,
      gattVars, readyVars, watchVars, radioVars, historyVars
<1>24. CASE Reappears
  BY <1>24, <1>1, HoldFacts, FreeTexts DEF Reappears, holdVars, stallVars,
      gattVars, readyVars, watchVars, radioVars, historyVars
<1>25. CASE SettleDue
  BY <1>25, <1>1, HoldFacts, FreeTexts DEF SettleDue, holdVars, stallVars,
      gattVars, readyVars, watchVars, radioVars, historyVars
<1>26. CASE BootDue
  BY <1>26, <1>1, HoldFacts, FreeTexts DEF BootDue, holdVars, stallVars,
      gattVars, readyVars, watchVars, radioVars, historyVars
<1>27. CASE UNCHANGED vars
  BY <1>27, <1>1, HoldFacts, FreeTexts DEF vars, holdVars, stallVars,
      gattVars, readyVars, watchVars, switchVars, radioVars, historyVars
<1> QED
  BY <1>1, <1>2, <1>3, <1>4, <1>5, <1>6, <1>7, <1>8, <1>9, <1>10, <1>11,
      <1>12, <1>13, <1>14, <1>15, <1>16, <1>17, <1>18, <1>19, <1>20, <1>21,
      <1>22, <1>23, <1>24, <1>25, <1>26, <1>27 DEF Next

\* Steps keep the count of the stall detector within its bound.
LEMMA CountStep == CountType /\ [Next]_vars => CountType'
<1>1. SUFFICES ASSUME CountType, [Next]_vars PROVE CountType'
  OBVIOUS
<1> USE DEF CountType
<1>2. CASE StartConnect
  BY <1>2, <1>1, ConfigAssumption DEF StartConnect, holdVars, stallVars,
      gattVars, readyVars, watchVars, switchVars, historyVars
<1>3. CASE OpenFails
  BY <1>3, <1>1, ConfigAssumption DEF OpenFails, holdVars, stallVars,
      gattVars, readyVars, watchVars, switchVars, historyVars
<1>4. CASE OpenedSuspended
  BY <1>4, <1>1, ConfigAssumption DEF OpenedSuspended, StallOpened,
      readyVars, watchVars, historyVars
<1>5. CASE Opened
  BY <1>5, <1>1, ConfigAssumption DEF Opened, StallOpened
<1>6. CASE ServiceFound
  BY <1>6, <1>1, ConfigAssumption DEF ServiceFound, Delivered, holdVars,
      stallVars, watchVars, switchVars
<1>7. CASE CharacteristicMissing
  BY <1>7, <1>1, ConfigAssumption DEF CharacteristicMissing, Delivered,
      stallVars, gattVars, watchVars, switchVars, historyVars
<1>8. CASE ServiceMissing
  BY <1>8, <1>1, ConfigAssumption DEF ServiceMissing, MayRetry, Delivered,
      holdVars, stallVars, readyVars, watchVars, switchVars, historyVars
<1>9. CASE RetryDue
  BY <1>9, <1>1, ConfigAssumption DEF RetryDue, holdVars, stallVars,
      readyVars, watchVars, switchVars, historyVars
<1>10. CASE SecurityRequest
  BY <1>10, <1>1, ConfigAssumption DEF SecurityRequest, NoteProgress,
      Delivered, gattVars, readyVars, watchVars, switchVars, historyVars
<1>11. CASE AuthSucceeds
  BY <1>11, <1>1, ConfigAssumption DEF AuthSucceeds, NoteProgress, Delivered,
      watchVars, switchVars
<1>12. CASE AuthFails
  BY <1>12, <1>1, ConfigAssumption DEF AuthFails, RequestTeardown, Delivered,
      stallVars, readyVars, watchVars, switchVars, historyVars
<1>13. CASE Stabilized
  BY <1>13, <1>1, ConfigAssumption DEF Stabilized, stallVars, gattVars,
      watchVars, switchVars, radioVars, historyVars
<1>14. CASE Notification
  BY <1>14, <1>1, ConfigAssumption DEF Notification, NoteProgress, gattVars,
      switchVars, radioVars, historyVars
<1>15. CASE PumpReady
  BY <1>15, <1>1, ConfigAssumption DEF PumpReady, stallVars, gattVars,
      switchVars, radioVars, historyVars
<1>16. CASE DataExpires
  BY <1>16, <1>1, ConfigAssumption DEF DataExpires, Connected, holdVars,
      stallVars, gattVars, readyVars, switchVars, radioVars, historyVars
<1>17. CASE ReadyExpires
  BY <1>17, <1>1, ConfigAssumption DEF ReadyExpires, Connected, holdVars,
      stallVars, gattVars, readyVars, switchVars, radioVars, historyVars
<1>18. CASE CheckLiveness
  BY <1>18, <1>1, ConfigAssumption DEF CheckLiveness, LinkSilent, Connected,
      CountRecycle, ForceDisconnect, RequestTeardown, gattVars, switchVars,
      historyVars
<1>19. CASE CheckReadinessRecycle
  BY <1>19, <1>1, ConfigAssumption DEF CheckReadinessRecycle, LinkSilent,
      Connected, CountRecycle, ForceDisconnect, RequestTeardown, gattVars,
      switchVars, historyVars
<1>20. CASE CheckReadinessName
  BY <1>20, <1>1, ConfigAssumption DEF CheckReadinessName, LinkSilent,
      Connected, stallVars, gattVars, readyVars, switchVars, radioVars,
      historyVars
<1>21. ASSUME NEW reason \in Reasons, Disconnected(reason) PROVE CountType'
  BY <1>21, <1>1, ConfigAssumption DEF Disconnected, StallCount, Reasons
<1>22. CASE Suspend
  BY <1>22, <1>1, ConfigAssumption DEF Suspend, RequestTeardown, holdVars,
      gattVars, readyVars, watchVars, historyVars
<1>23. CASE Release
  BY <1>23, <1>1, ConfigAssumption DEF Release, holdVars, stallVars,
      gattVars, readyVars, watchVars, radioVars, historyVars
<1>24. CASE Reappears
  BY <1>24, <1>1, ConfigAssumption DEF Reappears, holdVars, stallVars,
      gattVars, readyVars, watchVars, radioVars, historyVars
<1>25. CASE SettleDue
  BY <1>25, <1>1, ConfigAssumption DEF SettleDue, holdVars, stallVars,
      gattVars, readyVars, watchVars, radioVars, historyVars
<1>26. CASE BootDue
  BY <1>26, <1>1, ConfigAssumption DEF BootDue, holdVars, stallVars,
      gattVars, readyVars, watchVars, radioVars, historyVars
<1>27. CASE UNCHANGED vars
  BY <1>27, <1>1, ConfigAssumption DEF vars, holdVars, stallVars, gattVars,
      readyVars, watchVars, switchVars, radioVars, historyVars
<1> QED
  BY <1>1, <1>2, <1>3, <1>4, <1>5, <1>6, <1>7, <1>8, <1>9, <1>10, <1>11,
      <1>12, <1>13, <1>14, <1>15, <1>16, <1>17, <1>18, <1>19, <1>20, <1>21,
      <1>22, <1>23, <1>24, <1>25, <1>26, <1>27 DEF Next

\* Steps keep the holds in force.
LEMMA HoldStep == HoldInv /\ [Next]_vars => HoldInv'
<1>1. SUFFICES ASSUME HoldInv, [Next]_vars PROVE HoldInv'
  OBVIOUS
<1> USE DEF HoldInv, HoldsKeepLinkDown
<1>2. CASE StartConnect
  BY <1>2, <1>1 DEF StartConnect, holdVars, stallVars, gattVars, readyVars,
      watchVars, switchVars, historyVars
<1>3. CASE OpenFails
  BY <1>3, <1>1 DEF OpenFails, holdVars, stallVars, gattVars, readyVars,
      watchVars, switchVars, historyVars
<1>4. CASE OpenedSuspended
  BY <1>4, <1>1 DEF OpenedSuspended, StallOpened, readyVars, watchVars,
      historyVars
<1>5. CASE Opened
  BY <1>5, <1>1 DEF Opened, StallOpened
<1>6. CASE ServiceFound
  BY <1>6, <1>1 DEF ServiceFound, Delivered, holdVars, stallVars, watchVars,
      switchVars
<1>7. CASE CharacteristicMissing
  BY <1>7, <1>1 DEF CharacteristicMissing, Delivered, stallVars, gattVars,
      watchVars, switchVars, historyVars
<1>8. CASE ServiceMissing
  BY <1>8, <1>1 DEF ServiceMissing, MayRetry, Delivered, holdVars, stallVars,
      readyVars, watchVars, switchVars, historyVars
<1>9. CASE RetryDue
  BY <1>9, <1>1 DEF RetryDue, holdVars, stallVars, readyVars, watchVars,
      switchVars, historyVars
<1>10. CASE SecurityRequest
  BY <1>10, <1>1 DEF SecurityRequest, NoteProgress, Delivered, gattVars,
      readyVars, watchVars, switchVars, historyVars
<1>11. CASE AuthSucceeds
  BY <1>11, <1>1 DEF AuthSucceeds, NoteProgress, Delivered, watchVars,
      switchVars
<1>12. CASE AuthFails
  BY <1>12, <1>1 DEF AuthFails, RequestTeardown, Delivered, stallVars,
      readyVars, watchVars, switchVars, historyVars
<1>13. CASE Stabilized
  BY <1>13, <1>1 DEF Stabilized, stallVars, gattVars, watchVars, switchVars,
      radioVars, historyVars
<1>14. CASE Notification
  BY <1>14, <1>1 DEF Notification, NoteProgress, gattVars, switchVars,
      radioVars, historyVars
<1>15. CASE PumpReady
  BY <1>15, <1>1 DEF PumpReady, stallVars, gattVars, switchVars, radioVars,
      historyVars
<1>16. CASE DataExpires
  BY <1>16, <1>1 DEF DataExpires, Connected, holdVars, stallVars, gattVars,
      readyVars, switchVars, radioVars, historyVars
<1>17. CASE ReadyExpires
  BY <1>17, <1>1 DEF ReadyExpires, Connected, holdVars, stallVars, gattVars,
      readyVars, switchVars, radioVars, historyVars
<1>18. CASE CheckLiveness
  BY <1>18, <1>1 DEF CheckLiveness, LinkSilent, Connected, CountRecycle,
      ForceDisconnect, RequestTeardown, gattVars, switchVars, historyVars
<1>19. CASE CheckReadinessRecycle
  BY <1>19, <1>1 DEF CheckReadinessRecycle, LinkSilent, Connected,
      CountRecycle, ForceDisconnect, RequestTeardown, gattVars, switchVars,
      historyVars
<1>20. CASE CheckReadinessName
  BY <1>20, <1>1 DEF CheckReadinessName, LinkSilent, Connected, stallVars,
      gattVars, readyVars, switchVars, radioVars, historyVars
<1>21. ASSUME NEW reason \in Reasons, Disconnected(reason) PROVE HoldInv'
  BY <1>21, <1>1 DEF Disconnected, EndSession, HoldReconnect, Reasons
<1>22. CASE Suspend
  BY <1>22, <1>1 DEF Suspend, RequestTeardown, holdVars, gattVars, readyVars,
      watchVars, historyVars
<1>23. CASE Release
  BY <1>23, <1>1 DEF Release, holdVars, stallVars, gattVars, readyVars,
      watchVars, radioVars, historyVars
<1>24. CASE Reappears
  BY <1>24, <1>1 DEF Reappears, holdVars, stallVars, gattVars, readyVars,
      watchVars, radioVars, historyVars
<1>25. CASE SettleDue
  BY <1>25, <1>1 DEF SettleDue, holdVars, stallVars, gattVars, readyVars,
      watchVars, radioVars, historyVars
<1>26. CASE BootDue
  BY <1>26, <1>1 DEF BootDue, holdVars, stallVars, gattVars, readyVars,
      watchVars, radioVars, historyVars
<1>27. CASE UNCHANGED vars
  BY <1>27, <1>1 DEF vars, holdVars, stallVars, gattVars, readyVars,
      watchVars, switchVars, radioVars, historyVars
<1> QED
  BY <1>1, <1>2, <1>3, <1>4, <1>5, <1>6, <1>7, <1>8, <1>9, <1>10, <1>11,
      <1>12, <1>13, <1>14, <1>15, <1>16, <1>17, <1>18, <1>19, <1>20, <1>21,
      <1>22, <1>23, <1>24, <1>25, <1>26, <1>27 DEF Next

\* Steps keep one wait at a time.
LEMMA LinkStep == LinkInv /\ [Next]_vars => LinkInv'
<1>1. SUFFICES ASSUME LinkInv, [Next]_vars PROVE LinkInv'
  OBVIOUS
<1> USE DEF LinkInv, Awaited, SubscribedOnce
<1>2. CASE StartConnect
  BY <1>2, <1>1 DEF StartConnect, holdVars, stallVars, gattVars, readyVars,
      watchVars, switchVars, historyVars
<1>3. CASE OpenFails
  BY <1>3, <1>1 DEF OpenFails, holdVars, stallVars, gattVars, readyVars,
      watchVars, switchVars, historyVars
<1>4. CASE OpenedSuspended
  BY <1>4, <1>1 DEF OpenedSuspended, StallOpened, readyVars, watchVars,
      historyVars
<1>5. CASE Opened
  BY <1>5, <1>1 DEF Opened, StallOpened
<1>6. CASE ServiceFound
  <2>1. CASE encryption_pending
    BY <1>6, <1>1, <2>1 DEF ServiceFound
  <2>2. CASE ~encryption_pending
    <3>1. PICK outcome \in Outcomes : Subscribe(outcome, "SUBSCRIBING", failure_hold, asked)
      BY <1>6, <2>2 DEF ServiceFound
    <3>2. /\ searching /\ ~searching' /\ subscription_deferred' = subscription_deferred
          /\ retry_timer' = retry_timer /\ phys' = phys /\ phys = "up"
      BY <1>6, <2>2 DEF ServiceFound, Delivered
    <3> QED
      BY <1>1, <3>1, <3>2, SubscribeMoves
  <2> QED
    BY <2>1, <2>2
<1>7. CASE CharacteristicMissing
  BY <1>7, <1>1 DEF CharacteristicMissing, Delivered, stallVars, gattVars,
      watchVars, switchVars, historyVars
<1>8. CASE ServiceMissing
  BY <1>8, <1>1 DEF ServiceMissing, MayRetry, Delivered, holdVars, stallVars,
      readyVars, watchVars, switchVars, historyVars
<1>9. CASE RetryDue
  BY <1>9, <1>1 DEF RetryDue, holdVars, stallVars, readyVars, watchVars,
      switchVars, historyVars
<1>10. CASE SecurityRequest
  BY <1>10, <1>1 DEF SecurityRequest, NoteProgress, Delivered, gattVars,
      readyVars, watchVars, switchVars, historyVars
<1>11. CASE AuthSucceeds
  <2>1. CASE ~subscription_deferred
    BY <1>11, <1>1, <2>1 DEF AuthSucceeds
  <2>2. CASE subscription_deferred
    <3> DEFINE held ==
          IF failure_hold \in {"PAIRING_STALL", "AUTH"} THEN "NONE" ELSE failure_hold
    <3>1. PICK outcome \in Outcomes : Subscribe(outcome, session, held, FALSE)
      BY <1>11, <2>2 DEF AuthSucceeds
    <3> HIDE DEF held
    <3>2. ~subscription_deferred' /\ ~searching' /\ ~retry_timer' /\ phys' = "up"
      BY <1>1, <1>11, <2>2 DEF AuthSucceeds, Delivered
    <3>3. /\ session \in {"SERVICE_DISCOVERY", "SUBSCRIBING"}
          /\ subscriptions = 0 /\ ~ready_timer
      BY <1>1, <2>2
    <3>4. \/ session' = session /\ (ready_timer' <=> ready_timer) /\ UNCHANGED subscriptions
          \/ /\ session' = "STABILIZING" /\ ready_timer'
             /\ subscriptions' = IF subscriptions < 2 THEN subscriptions + 1 ELSE subscriptions
      BY <3>1, SubscribeMoves, Zenon
    <3> QED
      BY <3>2, <3>3, <3>4
  <2> QED
    BY <2>1, <2>2
<1>12. CASE AuthFails
  BY <1>12, <1>1 DEF AuthFails, RequestTeardown, Delivered, stallVars,
      readyVars, watchVars, switchVars, historyVars
<1>13. CASE Stabilized
  BY <1>13, <1>1 DEF Stabilized, stallVars, gattVars, watchVars, switchVars,
      radioVars, historyVars
<1>14. CASE Notification
  BY <1>14, <1>1 DEF Notification, NoteProgress, gattVars, switchVars,
      radioVars, historyVars
<1>15. CASE PumpReady
  BY <1>15, <1>1 DEF PumpReady, stallVars, gattVars, switchVars, radioVars,
      historyVars
<1>16. CASE DataExpires
  BY <1>16, <1>1 DEF DataExpires, Connected, holdVars, stallVars, gattVars,
      readyVars, switchVars, radioVars, historyVars
<1>17. CASE ReadyExpires
  BY <1>17, <1>1 DEF ReadyExpires, Connected, holdVars, stallVars, gattVars,
      readyVars, switchVars, radioVars, historyVars
<1>18. CASE CheckLiveness
  BY <1>18, <1>1 DEF CheckLiveness, LinkSilent, Connected, CountRecycle,
      ForceDisconnect, RequestTeardown, gattVars, switchVars, historyVars
<1>19. CASE CheckReadinessRecycle
  BY <1>19, <1>1 DEF CheckReadinessRecycle, LinkSilent, Connected,
      CountRecycle, ForceDisconnect, RequestTeardown, gattVars, switchVars,
      historyVars
<1>20. CASE CheckReadinessName
  BY <1>20, <1>1 DEF CheckReadinessName, LinkSilent, Connected, stallVars,
      gattVars, readyVars, switchVars, radioVars, historyVars
<1>21. ASSUME NEW reason \in Reasons, Disconnected(reason) PROVE LinkInv'
  BY <1>21, <1>1 DEF Disconnected, EndSession, Reasons
<1>22. CASE Suspend
  BY <1>22, <1>1 DEF Suspend, RequestTeardown, holdVars, gattVars, readyVars,
      watchVars, historyVars
<1>23. CASE Release
  BY <1>23, <1>1 DEF Release, holdVars, stallVars, gattVars, readyVars,
      watchVars, radioVars, historyVars
<1>24. CASE Reappears
  BY <1>24, <1>1 DEF Reappears, holdVars, stallVars, gattVars, readyVars,
      watchVars, radioVars, historyVars
<1>25. CASE SettleDue
  BY <1>25, <1>1 DEF SettleDue, holdVars, stallVars, gattVars, readyVars,
      watchVars, radioVars, historyVars
<1>26. CASE BootDue
  BY <1>26, <1>1 DEF BootDue, holdVars, stallVars, gattVars, readyVars,
      watchVars, radioVars, historyVars
<1>27. CASE UNCHANGED vars
  BY <1>27, <1>1 DEF vars, holdVars, stallVars, gattVars, readyVars,
      watchVars, switchVars, radioVars, historyVars
<1> QED
  BY <1>1, <1>2, <1>3, <1>4, <1>5, <1>6, <1>7, <1>8, <1>9, <1>10, <1>11,
      <1>12, <1>13, <1>14, <1>15, <1>16, <1>17, <1>18, <1>19, <1>20, <1>21,
      <1>22, <1>23, <1>24, <1>25, <1>26, <1>27 DEF Next

\* Steps keep the held reason on display.
LEMMA NameStep == HoldType /\ HeldFaultNamed /\ [Next]_vars => HeldFaultNamed'
<1>1. SUFFICES ASSUME HoldType /\ HeldFaultNamed, [Next]_vars PROVE HeldFaultNamed'
  OBVIOUS
<1> USE DEF HoldType, HeldFaultNamed
<1>2. CASE StartConnect
  BY <1>2, <1>1, HoldFacts DEF StartConnect, holdVars, stallVars, gattVars,
      readyVars, watchVars, switchVars, historyVars
<1>3. CASE OpenFails
  BY <1>3, <1>1, HoldFacts DEF OpenFails, holdVars, stallVars, gattVars,
      readyVars, watchVars, switchVars, historyVars
<1>4. CASE OpenedSuspended
  BY <1>4, <1>1, HoldFacts DEF OpenedSuspended, ReleaseStall, StallOpened,
      Withdraw, holdVars, readyVars, watchVars, historyVars
<1>5. CASE Opened
  BY <1>5, <1>1, HoldFacts DEF Opened, ReleaseStall, StallOpened, Withdraw,
      holdVars
<1>6. CASE ServiceFound
  <2>1. CASE encryption_pending
    BY <1>6, <1>1, <2>1 DEF ServiceFound, holdVars
  <2>2. CASE ~encryption_pending
    <3>1. PICK outcome \in Outcomes : Subscribe(outcome, "SUBSCRIBING", failure_hold, asked)
      BY <1>6, <2>2 DEF ServiceFound
    <3> QED
      BY <1>1, <3>1, SubscribeNames
  <2> QED
    BY <2>1, <2>2
<1>7. CASE CharacteristicMissing
  BY <1>7, <1>1, HoldFacts DEF CharacteristicMissing, NoteFailure,
      NoteFailureOver, Admits, Delivered, stallVars, gattVars, watchVars,
      switchVars, historyVars
<1>8. CASE ServiceMissing
  BY <1>8, <1>1, HoldFacts DEF ServiceMissing, NoteFailure, NoteFailureOver,
      Admits, MayRetry, Delivered, holdVars, stallVars, readyVars, watchVars,
      switchVars, historyVars
<1>9. CASE RetryDue
  BY <1>9, <1>1, HoldFacts DEF RetryDue, holdVars, stallVars, readyVars,
      watchVars, switchVars, historyVars
<1>10. CASE SecurityRequest
  BY <1>10, <1>1, HoldFacts DEF SecurityRequest, NoteProgress, ReleaseStall,
      Withdraw, Delivered, holdVars, gattVars, readyVars, watchVars,
      switchVars, historyVars
<1>11. CASE AuthSucceeds
  <2> DEFINE held ==
        IF failure_hold \in {"PAIRING_STALL", "AUTH"} THEN "NONE" ELSE failure_hold
  <2>1. CASE ~subscription_deferred
    BY <1>11, <1>1, <2>1 DEF AuthSucceeds
  <2>2. CASE subscription_deferred
    <3>1. PICK outcome \in Outcomes : Subscribe(outcome, session, held, FALSE)
      BY <1>11, <2>2 DEF AuthSucceeds
    <3>2. held \in Holds /\ (held # "NONE" => last_failure = HeldText[held])
      BY <1>1, HoldFacts
    <3> HIDE DEF held
    <3> QED
      BY <3>1, <3>2, SubscribeNames
  <2> QED
    BY <2>1, <2>2
<1>12. CASE AuthFails
  BY <1>12, <1>1, HoldFacts DEF AuthFails, NoteFailure, NoteFailureOver,
      Admits, RequestTeardown, Delivered, stallVars, readyVars, watchVars,
      switchVars, historyVars
<1>13. CASE Stabilized
  BY <1>13, <1>1, HoldFacts DEF Stabilized, Withdraw, holdVars, stallVars,
      gattVars, watchVars, switchVars, radioVars, historyVars
<1>14. CASE Notification
  BY <1>14, <1>1, HoldFacts DEF Notification, Withdraw, NoteProgress,
      holdVars, gattVars, switchVars, radioVars, historyVars
<1>15. CASE PumpReady
  BY <1>15, <1>1, HoldFacts DEF PumpReady, Withdraw, holdVars, stallVars,
      gattVars, switchVars, radioVars, historyVars
<1>16. CASE DataExpires
  BY <1>16, <1>1, HoldFacts DEF DataExpires, Connected, holdVars, stallVars,
      gattVars, readyVars, switchVars, radioVars, historyVars
<1>17. CASE ReadyExpires
  BY <1>17, <1>1, HoldFacts DEF ReadyExpires, Connected, holdVars, stallVars,
      gattVars, readyVars, switchVars, radioVars, historyVars
<1>18. CASE CheckLiveness
  BY <1>18, <1>1, HoldFacts DEF CheckLiveness, LinkSilent, Connected,
      CountRecycle, ForceDisconnect, NoteFailure, NoteFailureOver, Admits,
      RequestTeardown, gattVars, switchVars, historyVars
<1>19. CASE CheckReadinessRecycle
  BY <1>19, <1>1, HoldFacts DEF CheckReadinessRecycle, LinkSilent, Connected,
      CountRecycle, ForceDisconnect, NoteFailure, NoteFailureOver, Admits,
      RequestTeardown, gattVars, switchVars, historyVars
<1>20. CASE CheckReadinessName
  BY <1>20, <1>1, HoldFacts DEF CheckReadinessName, LinkSilent, Connected,
      NoteFailure, NoteFailureOver, Admits, stallVars, gattVars, readyVars,
      switchVars, radioVars, historyVars
<1>21. ASSUME NEW reason \in Reasons, Disconnected(reason) PROVE HeldFaultNamed'
  BY <1>21, <1>1, HoldFacts DEF Disconnected, StallCount, DropText,
      EndSession, HoldReconnect, Admits, Reasons
<1>22. CASE Suspend
  BY <1>22, <1>1, HoldFacts DEF Suspend, RequestTeardown, holdVars, gattVars,
      readyVars, watchVars, historyVars
<1>23. CASE Release
  BY <1>23, <1>1, HoldFacts DEF Release, holdVars, stallVars, gattVars,
      readyVars, watchVars, radioVars, historyVars
<1>24. CASE Reappears
  BY <1>24, <1>1, HoldFacts DEF Reappears, holdVars, stallVars, gattVars,
      readyVars, watchVars, radioVars, historyVars
<1>25. CASE SettleDue
  BY <1>25, <1>1, HoldFacts DEF SettleDue, holdVars, stallVars, gattVars,
      readyVars, watchVars, radioVars, historyVars
<1>26. CASE BootDue
  BY <1>26, <1>1, HoldFacts DEF BootDue, holdVars, stallVars, gattVars,
      readyVars, watchVars, radioVars, historyVars
<1>27. CASE UNCHANGED vars
  BY <1>27, <1>1, HoldFacts DEF vars, holdVars, stallVars, gattVars,
      readyVars, watchVars, switchVars, radioVars, historyVars
<1> QED
  BY <1>1, <1>2, <1>3, <1>4, <1>5, <1>6, <1>7, <1>8, <1>9, <1>10, <1>11,
      <1>12, <1>13, <1>14, <1>15, <1>16, <1>17, <1>18, <1>19, <1>20, <1>21,
      <1>22, <1>23, <1>24, <1>25, <1>26, <1>27 DEF Next

\* Steps keep a stall standing.
LEMMA StallStep == HoldType /\ CountType /\ StallStands /\ [Next]_vars => StallStands'
<1>1. SUFFICES ASSUME HoldType /\ CountType /\ StallStands, [Next]_vars PROVE StallStands'
  OBVIOUS
<1> USE DEF HoldType, CountType, StallStands
<1>2. CASE StartConnect
  BY <1>2, <1>1, HoldFacts, ConfigAssumption DEF StartConnect, holdVars,
      stallVars, gattVars, readyVars, watchVars, switchVars, historyVars
<1>3. CASE OpenFails
  BY <1>3, <1>1, HoldFacts, ConfigAssumption DEF OpenFails, holdVars,
      stallVars, gattVars, readyVars, watchVars, switchVars, historyVars
<1>4. CASE OpenedSuspended
  BY <1>4, <1>1, HoldFacts, ConfigAssumption DEF OpenedSuspended,
      ReleaseStall, StallOpened, Withdraw, holdVars, readyVars, watchVars,
      historyVars
<1>5. CASE Opened
  BY <1>5, <1>1, HoldFacts, ConfigAssumption DEF Opened, ReleaseStall,
      StallOpened, Withdraw, holdVars
<1>6. CASE ServiceFound
  BY <1>6, <1>1, HoldFacts, ConfigAssumption DEF ServiceFound, Subscribe,
      NoteFailureOver, Admits, Outcomes, Delivered, holdVars, stallVars,
      watchVars, switchVars
<1>7. CASE CharacteristicMissing
  BY <1>7, <1>1, HoldFacts, ConfigAssumption DEF CharacteristicMissing,
      NoteFailure, NoteFailureOver, Admits, Delivered, stallVars, gattVars,
      watchVars, switchVars, historyVars
<1>8. CASE ServiceMissing
  BY <1>8, <1>1, HoldFacts, ConfigAssumption DEF ServiceMissing, NoteFailure,
      NoteFailureOver, Admits, MayRetry, Delivered, holdVars, stallVars,
      readyVars, watchVars, switchVars, historyVars
<1>9. CASE RetryDue
  BY <1>9, <1>1, HoldFacts, ConfigAssumption DEF RetryDue, holdVars,
      stallVars, readyVars, watchVars, switchVars, historyVars
<1>10. CASE SecurityRequest
  BY <1>10, <1>1, HoldFacts, ConfigAssumption DEF SecurityRequest,
      NoteProgress, ReleaseStall, Withdraw, Delivered, holdVars, gattVars,
      readyVars, watchVars, switchVars, historyVars
<1>11. CASE AuthSucceeds
  BY <1>11, <1>1, HoldFacts, ConfigAssumption DEF AuthSucceeds, NoteProgress,
      Subscribe, NoteFailureOver, Admits, Outcomes, Delivered, watchVars,
      switchVars
<1>12. CASE AuthFails
  BY <1>12, <1>1, HoldFacts, ConfigAssumption DEF AuthFails, NoteFailure,
      NoteFailureOver, Admits, RequestTeardown, Delivered, stallVars,
      readyVars, watchVars, switchVars, historyVars
<1>13. CASE Stabilized
  BY <1>13, <1>1, HoldFacts, ConfigAssumption DEF Stabilized, Withdraw,
      holdVars, stallVars, gattVars, watchVars, switchVars, radioVars,
      historyVars
<1>14. CASE Notification
  BY <1>14, <1>1, HoldFacts, ConfigAssumption DEF Notification, Withdraw,
      NoteProgress, holdVars, gattVars, switchVars, radioVars, historyVars
<1>15. CASE PumpReady
  BY <1>15, <1>1, HoldFacts, ConfigAssumption DEF PumpReady, Withdraw,
      holdVars, stallVars, gattVars, switchVars, radioVars, historyVars
<1>16. CASE DataExpires
  BY <1>16, <1>1, HoldFacts, ConfigAssumption DEF DataExpires, Connected,
      holdVars, stallVars, gattVars, readyVars, switchVars, radioVars,
      historyVars
<1>17. CASE ReadyExpires
  BY <1>17, <1>1, HoldFacts, ConfigAssumption DEF ReadyExpires, Connected,
      holdVars, stallVars, gattVars, readyVars, switchVars, radioVars,
      historyVars
<1>18. CASE CheckLiveness
  BY <1>18, <1>1, HoldFacts, ConfigAssumption DEF CheckLiveness, LinkSilent,
      Connected, CountRecycle, ForceDisconnect, NoteFailure, NoteFailureOver,
      Admits, RequestTeardown, gattVars, switchVars, historyVars
<1>19. CASE CheckReadinessRecycle
  BY <1>19, <1>1, HoldFacts, ConfigAssumption DEF CheckReadinessRecycle,
      LinkSilent, Connected, CountRecycle, ForceDisconnect, NoteFailure,
      NoteFailureOver, Admits, RequestTeardown, gattVars, switchVars,
      historyVars
<1>20. CASE CheckReadinessName
  BY <1>20, <1>1, HoldFacts, ConfigAssumption DEF CheckReadinessName,
      LinkSilent, Connected, NoteFailure, NoteFailureOver, Admits, stallVars,
      gattVars, readyVars, switchVars, radioVars, historyVars
<1>21. ASSUME NEW reason \in Reasons, Disconnected(reason) PROVE StallStands'
  BY <1>21, <1>1, HoldFacts, ConfigAssumption DEF Disconnected, StallCount,
      DropText, EndSession, HoldReconnect, Admits, Reasons
<1>22. CASE Suspend
  BY <1>22, <1>1, HoldFacts, ConfigAssumption DEF Suspend, RequestTeardown,
      holdVars, gattVars, readyVars, watchVars, historyVars
<1>23. CASE Release
  BY <1>23, <1>1, HoldFacts, ConfigAssumption DEF Release, holdVars,
      stallVars, gattVars, readyVars, watchVars, radioVars, historyVars
<1>24. CASE Reappears
  BY <1>24, <1>1, HoldFacts, ConfigAssumption DEF Reappears, holdVars,
      stallVars, gattVars, readyVars, watchVars, radioVars, historyVars
<1>25. CASE SettleDue
  BY <1>25, <1>1, HoldFacts, ConfigAssumption DEF SettleDue, holdVars,
      stallVars, gattVars, readyVars, watchVars, radioVars, historyVars
<1>26. CASE BootDue
  BY <1>26, <1>1, HoldFacts, ConfigAssumption DEF BootDue, holdVars,
      stallVars, gattVars, readyVars, watchVars, radioVars, historyVars
<1>27. CASE UNCHANGED vars
  BY <1>27, <1>1, HoldFacts, ConfigAssumption DEF vars, holdVars, stallVars,
      gattVars, readyVars, watchVars, switchVars, radioVars, historyVars
<1> QED
  BY <1>1, <1>2, <1>3, <1>4, <1>5, <1>6, <1>7, <1>8, <1>9, <1>10, <1>11,
      <1>12, <1>13, <1>14, <1>15, <1>16, <1>17, <1>18, <1>19, <1>20, <1>21,
      <1>22, <1>23, <1>24, <1>25, <1>26, <1>27 DEF Next

\* Steps keep one teardown a connection.
LEMMA RecycleStep == LinkInv /\ RecycleInv /\ [Next]_vars => RecycleInv'
<1>1. SUFFICES ASSUME LinkInv /\ RecycleInv, [Next]_vars PROVE RecycleInv'
  OBVIOUS
<1> USE DEF RecycleInv
<1>2. CASE StartConnect
  BY <1>2, <1>1 DEF StartConnect, holdVars, stallVars, gattVars, readyVars,
      watchVars, switchVars, historyVars
<1>3. CASE OpenFails
  BY <1>3, <1>1 DEF OpenFails, holdVars, stallVars, gattVars, readyVars,
      watchVars, switchVars, historyVars
<1>4. CASE OpenedSuspended
  BY <1>4, <1>1 DEF OpenedSuspended, StallOpened, readyVars, watchVars,
      historyVars
<1>5. CASE Opened
  BY <1>5, <1>1 DEF Opened, StallOpened
<1>6. CASE ServiceFound
  BY <1>6, <1>1 DEF ServiceFound, Delivered, holdVars, stallVars, watchVars,
      switchVars
<1>7. CASE CharacteristicMissing
  BY <1>7, <1>1 DEF CharacteristicMissing, Delivered, stallVars, gattVars,
      watchVars, switchVars, historyVars
<1>8. CASE ServiceMissing
  BY <1>8, <1>1 DEF ServiceMissing, MayRetry, Delivered, holdVars, stallVars,
      readyVars, watchVars, switchVars, historyVars
<1>9. CASE RetryDue
  BY <1>9, <1>1 DEF RetryDue, holdVars, stallVars, readyVars, watchVars,
      switchVars, historyVars
<1>10. CASE SecurityRequest
  BY <1>10, <1>1 DEF SecurityRequest, NoteProgress, Delivered, gattVars,
      readyVars, watchVars, switchVars, historyVars
<1>11. CASE AuthSucceeds
  BY <1>11, <1>1 DEF AuthSucceeds, NoteProgress, Delivered, watchVars,
      switchVars
<1>12. CASE AuthFails
  BY <1>12, <1>1 DEF AuthFails, RequestTeardown, Delivered, stallVars,
      readyVars, watchVars, switchVars, historyVars
<1>13. CASE Stabilized
  BY <1>13, <1>1 DEF Stabilized, stallVars, gattVars, watchVars, switchVars,
      radioVars, historyVars
<1>14. CASE Notification
  BY <1>14, <1>1 DEF Notification, NoteProgress, gattVars, switchVars,
      radioVars, historyVars
<1>15. CASE PumpReady
  BY <1>15, <1>1 DEF PumpReady, stallVars, gattVars, switchVars, radioVars,
      historyVars
<1>16. CASE DataExpires
  BY <1>16, <1>1 DEF DataExpires, Connected, holdVars, stallVars, gattVars,
      readyVars, switchVars, radioVars, historyVars
<1>17. CASE ReadyExpires
  BY <1>17, <1>1 DEF ReadyExpires, Connected, holdVars, stallVars, gattVars,
      readyVars, switchVars, radioVars, historyVars
<1>18. CASE CheckLiveness
  <2>1. recycled = 0 /\ phys = "up"
    BY <1>18, <1>1 DEF CheckLiveness, LinkSilent, Connected, LinkInv
  <2>2. /\ recycled' = 1 /\ ~data_due' /\ ~ready_due' /\ phys' = phys
        /\ closing' = (closing \/ phys # "idle")
    BY <1>18, <2>1 DEF CheckLiveness, CountRecycle, ForceDisconnect, RequestTeardown
  <2> QED
    BY <2>1, <2>2
<1>19. CASE CheckReadinessRecycle
  <2>1. recycled = 0 /\ phys = "up"
    BY <1>19, <1>1 DEF CheckReadinessRecycle, LinkSilent, Connected, LinkInv
  <2>2. /\ recycled' = 1 /\ ~data_due' /\ ~ready_due' /\ phys' = phys
        /\ closing' = (closing \/ phys # "idle")
    BY <1>19, <2>1 DEF CheckReadinessRecycle, CountRecycle, ForceDisconnect, RequestTeardown
  <2> QED
    BY <2>1, <2>2
<1>20. CASE CheckReadinessName
  BY <1>20, <1>1 DEF CheckReadinessName, LinkSilent, Connected, stallVars,
      gattVars, readyVars, switchVars, radioVars, historyVars
<1>21. ASSUME NEW reason \in Reasons, Disconnected(reason) PROVE RecycleInv'
  BY <1>21, <1>1 DEF Disconnected, Reasons
<1>22. CASE Suspend
  BY <1>22, <1>1 DEF Suspend, RequestTeardown, holdVars, gattVars, readyVars,
      watchVars, historyVars
<1>23. CASE Release
  BY <1>23, <1>1 DEF Release, holdVars, stallVars, gattVars, readyVars,
      watchVars, radioVars, historyVars
<1>24. CASE Reappears
  BY <1>24, <1>1 DEF Reappears, holdVars, stallVars, gattVars, readyVars,
      watchVars, radioVars, historyVars
<1>25. CASE SettleDue
  BY <1>25, <1>1 DEF SettleDue, holdVars, stallVars, gattVars, readyVars,
      watchVars, radioVars, historyVars
<1>26. CASE BootDue
  BY <1>26, <1>1 DEF BootDue, holdVars, stallVars, gattVars, readyVars,
      watchVars, radioVars, historyVars
<1>27. CASE UNCHANGED vars
  BY <1>27, <1>1 DEF vars, holdVars, stallVars, gattVars, readyVars,
      watchVars, switchVars, radioVars, historyVars
<1> QED
  BY <1>1, <1>2, <1>3, <1>4, <1>5, <1>6, <1>7, <1>8, <1>9, <1>10, <1>11,
      <1>12, <1>13, <1>14, <1>15, <1>16, <1>17, <1>18, <1>19, <1>20, <1>21,
      <1>22, <1>23, <1>24, <1>25, <1>26, <1>27 DEF Next

\* A step of a suspended link leaves its session where it is.
LEMMA SuspendedStep ==
  ASSUME LinkInv, [Next]_vars,
         suspended, session = "IDLE"
  PROVE  session' = "IDLE"
<1> USE DEF LinkInv, Awaited
<1>1. CASE StartConnect
  BY <1>1 DEF StartConnect, holdVars, stallVars, gattVars, readyVars,
      watchVars, switchVars, historyVars
<1>2. CASE OpenFails
  BY <1>2 DEF OpenFails, holdVars, stallVars, gattVars, readyVars, watchVars,
      switchVars, historyVars
<1>3. CASE OpenedSuspended
  BY <1>3 DEF OpenedSuspended, StallOpened, readyVars, watchVars, historyVars
<1>4. CASE Opened
  BY <1>4 DEF Opened, StallOpened
<1>5. CASE ServiceFound
  BY <1>5 DEF ServiceFound, Delivered, holdVars, stallVars, watchVars,
      switchVars
<1>6. CASE CharacteristicMissing
  BY <1>6 DEF CharacteristicMissing, Delivered, stallVars, gattVars,
      watchVars, switchVars, historyVars
<1>7. CASE ServiceMissing
  BY <1>7 DEF ServiceMissing, MayRetry, Delivered, holdVars, stallVars,
      readyVars, watchVars, switchVars, historyVars
<1>8. CASE RetryDue
  BY <1>8 DEF RetryDue, holdVars, stallVars, readyVars, watchVars,
      switchVars, historyVars
<1>9. CASE SecurityRequest
  BY <1>9 DEF SecurityRequest, NoteProgress, Delivered, gattVars, readyVars,
      watchVars, switchVars, historyVars
<1>10. CASE AuthSucceeds
  BY <1>10 DEF AuthSucceeds, NoteProgress, Delivered, watchVars, switchVars
<1>11. CASE AuthFails
  BY <1>11 DEF AuthFails, RequestTeardown, Delivered, stallVars, readyVars,
      watchVars, switchVars, historyVars
<1>12. CASE Stabilized
  BY <1>12 DEF Stabilized, stallVars, gattVars, watchVars, switchVars,
      radioVars, historyVars
<1>13. CASE Notification
  BY <1>13 DEF Notification, NoteProgress, gattVars, switchVars, radioVars,
      historyVars
<1>14. CASE PumpReady
  BY <1>14 DEF PumpReady, stallVars, gattVars, switchVars, radioVars,
      historyVars
<1>15. CASE DataExpires
  BY <1>15 DEF DataExpires, Connected, holdVars, stallVars, gattVars,
      readyVars, switchVars, radioVars, historyVars
<1>16. CASE ReadyExpires
  BY <1>16 DEF ReadyExpires, Connected, holdVars, stallVars, gattVars,
      readyVars, switchVars, radioVars, historyVars
<1>17. CASE CheckLiveness
  BY <1>17 DEF CheckLiveness, LinkSilent, Connected, CountRecycle,
      ForceDisconnect, RequestTeardown, gattVars, switchVars, historyVars
<1>18. CASE CheckReadinessRecycle
  BY <1>18 DEF CheckReadinessRecycle, LinkSilent, Connected, CountRecycle,
      ForceDisconnect, RequestTeardown, gattVars, switchVars, historyVars
<1>19. CASE CheckReadinessName
  BY <1>19 DEF CheckReadinessName, LinkSilent, Connected, stallVars,
      gattVars, readyVars, switchVars, radioVars, historyVars
<1>20. ASSUME NEW reason \in Reasons, Disconnected(reason) PROVE session' = "IDLE"
  BY <1>20 DEF Disconnected, EndSession, Reasons
<1>21. CASE Suspend
  BY <1>21 DEF Suspend, RequestTeardown, holdVars, gattVars, readyVars,
      watchVars, historyVars
<1>22. CASE Release
  BY <1>22 DEF Release, holdVars, stallVars, gattVars, readyVars, watchVars,
      radioVars, historyVars
<1>23. CASE Reappears
  BY <1>23 DEF Reappears, holdVars, stallVars, gattVars, readyVars,
      watchVars, radioVars, historyVars
<1>24. CASE SettleDue
  BY <1>24 DEF SettleDue, holdVars, stallVars, gattVars, readyVars,
      watchVars, radioVars, historyVars
<1>25. CASE BootDue
  BY <1>25 DEF BootDue, holdVars, stallVars, gattVars, readyVars, watchVars,
      radioVars, historyVars
<1>26. CASE UNCHANGED vars
  BY <1>26 DEF vars, holdVars, stallVars, gattVars, readyVars, watchVars,
      switchVars, radioVars, historyVars
<1> QED
  BY <1>1, <1>2, <1>3, <1>4, <1>5, <1>6, <1>7, <1>8, <1>9, <1>10, <1>11,
      <1>12, <1>13, <1>14, <1>15, <1>16, <1>17, <1>18, <1>19, <1>20, <1>21,
      <1>22, <1>23, <1>24, <1>25, <1>26 DEF Next

\* Only the stabilize timer makes a session ready.
LEMMA ReadyStep ==
  ASSUME LinkInv, [Next]_vars,
         session' = "READY"
  PROVE  session \in {"STABILIZING", "READY"}
<1> USE DEF LinkInv
<1>1. CASE StartConnect
  BY <1>1 DEF StartConnect, holdVars, stallVars, gattVars, readyVars,
      watchVars, switchVars, historyVars
<1>2. CASE OpenFails
  BY <1>2 DEF OpenFails, holdVars, stallVars, gattVars, readyVars, watchVars,
      switchVars, historyVars
<1>3. CASE OpenedSuspended
  BY <1>3 DEF OpenedSuspended, StallOpened, readyVars, watchVars, historyVars
<1>4. CASE Opened
  BY <1>4 DEF Opened, StallOpened
<1>5. CASE ServiceFound
  <2>1. CASE encryption_pending
    BY <1>5, <2>1 DEF ServiceFound
  <2>2. CASE ~encryption_pending
    BY <1>5, <2>2, SubscribeMoves DEF ServiceFound
  <2> QED
    BY <2>1, <2>2
<1>6. CASE CharacteristicMissing
  BY <1>6 DEF CharacteristicMissing, Delivered, stallVars, gattVars,
      watchVars, switchVars, historyVars
<1>7. CASE ServiceMissing
  BY <1>7 DEF ServiceMissing, MayRetry, Delivered, holdVars, stallVars,
      readyVars, watchVars, switchVars, historyVars
<1>8. CASE RetryDue
  BY <1>8 DEF RetryDue, holdVars, stallVars, readyVars, watchVars,
      switchVars, historyVars
<1>9. CASE SecurityRequest
  BY <1>9 DEF SecurityRequest, NoteProgress, Delivered, gattVars, readyVars,
      watchVars, switchVars, historyVars
<1>10. CASE AuthSucceeds
  <2>1. CASE ~subscription_deferred
    BY <1>10, <2>1 DEF AuthSucceeds
  <2>2. CASE subscription_deferred
    <3>1. session' \in {session, "STABILIZING"}
      BY <1>10, <2>2, SubscribeMoves DEF AuthSucceeds
    <3> QED
      BY <3>1
  <2> QED
    BY <2>1, <2>2
<1>11. CASE AuthFails
  BY <1>11 DEF AuthFails, RequestTeardown, Delivered, stallVars, readyVars,
      watchVars, switchVars, historyVars
<1>12. CASE Stabilized
  BY <1>12 DEF Stabilized, stallVars, gattVars, watchVars, switchVars,
      radioVars, historyVars
<1>13. CASE Notification
  BY <1>13 DEF Notification, NoteProgress, gattVars, switchVars, radioVars,
      historyVars
<1>14. CASE PumpReady
  BY <1>14 DEF PumpReady, stallVars, gattVars, switchVars, radioVars,
      historyVars
<1>15. CASE DataExpires
  BY <1>15 DEF DataExpires, Connected, holdVars, stallVars, gattVars,
      readyVars, switchVars, radioVars, historyVars
<1>16. CASE ReadyExpires
  BY <1>16 DEF ReadyExpires, Connected, holdVars, stallVars, gattVars,
      readyVars, switchVars, radioVars, historyVars
<1>17. CASE CheckLiveness
  BY <1>17 DEF CheckLiveness, LinkSilent, Connected, CountRecycle,
      ForceDisconnect, RequestTeardown, gattVars, switchVars, historyVars
<1>18. CASE CheckReadinessRecycle
  BY <1>18 DEF CheckReadinessRecycle, LinkSilent, Connected, CountRecycle,
      ForceDisconnect, RequestTeardown, gattVars, switchVars, historyVars
<1>19. CASE CheckReadinessName
  BY <1>19 DEF CheckReadinessName, LinkSilent, Connected, stallVars,
      gattVars, readyVars, switchVars, radioVars, historyVars
<1>20. ASSUME NEW reason \in Reasons, Disconnected(reason)
       PROVE  session \in {"STABILIZING", "READY"}
  BY <1>20 DEF Disconnected, EndSession, Reasons
<1>21. CASE Suspend
  BY <1>21 DEF Suspend, RequestTeardown, holdVars, gattVars, readyVars,
      watchVars, historyVars
<1>22. CASE Release
  BY <1>22 DEF Release, holdVars, stallVars, gattVars, readyVars, watchVars,
      radioVars, historyVars
<1>23. CASE Reappears
  BY <1>23 DEF Reappears, holdVars, stallVars, gattVars, readyVars,
      watchVars, radioVars, historyVars
<1>24. CASE SettleDue
  BY <1>24 DEF SettleDue, holdVars, stallVars, gattVars, readyVars,
      watchVars, radioVars, historyVars
<1>25. CASE BootDue
  BY <1>25 DEF BootDue, holdVars, stallVars, gattVars, readyVars, watchVars,
      radioVars, historyVars
<1>26. CASE UNCHANGED vars
  BY <1>26 DEF vars, holdVars, stallVars, gattVars, readyVars, watchVars,
      switchVars, radioVars, historyVars
<1> QED
  BY <1>1, <1>2, <1>3, <1>4, <1>5, <1>6, <1>7, <1>8, <1>9, <1>10, <1>11,
      <1>12, <1>13, <1>14, <1>15, <1>16, <1>17, <1>18, <1>19, <1>20, <1>21,
      <1>22, <1>23, <1>24, <1>25, <1>26 DEF Next

\* A held reason is outranked, withdrawn, or undone by the encryption.
LEMMA FaultStep ==
  ASSUME HoldType, HeldFaultNamed, [Next]_vars,
         failure_hold # "NONE", last_failure' # last_failure
  PROVE  FaultGoes
<1> USE DEF HoldType, HeldFaultNamed, FaultGoes
<1>1. CASE StartConnect
  BY <1>1, HoldFacts DEF StartConnect, holdVars, stallVars, gattVars,
      readyVars, watchVars, switchVars, historyVars
<1>2. CASE OpenFails
  BY <1>2, HoldFacts DEF OpenFails, holdVars, stallVars, gattVars, readyVars,
      watchVars, switchVars, historyVars
<1>3. CASE OpenedSuspended
  BY <1>3, HoldFacts DEF OpenedSuspended, ReleaseStall, StallOpened,
      Withdraw, holdVars, readyVars, watchVars, historyVars
<1>4. CASE Opened
  BY <1>4, HoldFacts DEF Opened, ReleaseStall, StallOpened, Withdraw,
      holdVars
<1>5. CASE ServiceFound
  <2>1. CASE encryption_pending
    BY <1>5, <2>1 DEF ServiceFound, holdVars
  <2>2. CASE ~encryption_pending
    <3>1. PICK outcome \in Outcomes : Subscribe(outcome, "SUBSCRIBING", failure_hold, asked)
      BY <1>5, <2>2 DEF ServiceFound
    <3> QED
      BY <3>1, SubscribeNames
  <2> QED
    BY <2>1, <2>2
<1>6. CASE CharacteristicMissing
  BY <1>6, HoldFacts DEF CharacteristicMissing, NoteFailure, NoteFailureOver,
      Admits, Delivered, stallVars, gattVars, watchVars, switchVars,
      historyVars
<1>7. CASE ServiceMissing
  BY <1>7, HoldFacts DEF ServiceMissing, NoteFailure, NoteFailureOver,
      Admits, MayRetry, Delivered, holdVars, stallVars, readyVars, watchVars,
      switchVars, historyVars
<1>8. CASE RetryDue
  BY <1>8, HoldFacts DEF RetryDue, holdVars, stallVars, readyVars, watchVars,
      switchVars, historyVars
<1>9. CASE SecurityRequest
  BY <1>9, HoldFacts DEF SecurityRequest, NoteProgress, ReleaseStall,
      Withdraw, Delivered, holdVars, gattVars, readyVars, watchVars,
      switchVars, historyVars
<1>10. CASE AuthSucceeds
  <2> DEFINE held ==
        IF failure_hold \in {"PAIRING_STALL", "AUTH"} THEN "NONE" ELSE failure_hold
  <2>1. Authenticated
    BY <1>10 DEF AuthSucceeds, Authenticated
  <2>2. CASE ~subscription_deferred
    BY <1>10, <2>2 DEF AuthSucceeds
  <2>3. CASE subscription_deferred
    <3>1. PICK outcome \in Outcomes : Subscribe(outcome, session, held, FALSE)
      BY <1>10, <2>3 DEF AuthSucceeds
    <3>2. held \in Holds /\ (held # "NONE" => last_failure = HeldText[held])
      BY HoldFacts
    <3>3. held = failure_hold \/ failure_hold \in {"PAIRING_STALL", "AUTH"}
      OBVIOUS
    <3> HIDE DEF held
    <3>4. Admits(held, failure_hold') /\ failure_hold' \in {held, "SUBSCRIBE"}
      BY <3>1, <3>2, SubscribeNames
    <3> QED
      BY <2>1, <3>3, <3>4
  <2> QED
    BY <2>2, <2>3
<1>11. CASE AuthFails
  BY <1>11, HoldFacts DEF AuthFails, NoteFailure, NoteFailureOver, Admits,
      Delivered, stallVars, readyVars, watchVars, switchVars, historyVars
<1>12. CASE Stabilized
  BY <1>12, HoldFacts DEF Stabilized, Withdraw, holdVars, stallVars,
      gattVars, watchVars, switchVars, radioVars, historyVars
<1>13. CASE Notification
  BY <1>13, HoldFacts DEF Notification, Withdraw, NoteProgress, holdVars,
      gattVars, switchVars, radioVars, historyVars
<1>14. CASE PumpReady
  BY <1>14, HoldFacts DEF PumpReady, Withdraw, holdVars, stallVars, gattVars,
      switchVars, radioVars, historyVars
<1>15. CASE DataExpires
  BY <1>15, HoldFacts DEF DataExpires, Connected, holdVars, stallVars,
      gattVars, readyVars, switchVars, radioVars, historyVars
<1>16. CASE ReadyExpires
  BY <1>16, HoldFacts DEF ReadyExpires, Connected, holdVars, stallVars,
      gattVars, readyVars, switchVars, radioVars, historyVars
<1>17. CASE CheckLiveness
  BY <1>17, HoldFacts DEF CheckLiveness, LinkSilent, Connected, CountRecycle,
      ForceDisconnect, NoteFailure, NoteFailureOver, Admits, gattVars,
      switchVars, historyVars
<1>18. CASE CheckReadinessRecycle
  BY <1>18, HoldFacts DEF CheckReadinessRecycle, LinkSilent, Connected,
      CountRecycle, ForceDisconnect, NoteFailure, NoteFailureOver, Admits,
      gattVars, switchVars, historyVars
<1>19. CASE CheckReadinessName
  BY <1>19, HoldFacts DEF CheckReadinessName, LinkSilent, Connected,
      NoteFailure, NoteFailureOver, Admits, stallVars, gattVars, readyVars,
      switchVars, radioVars, historyVars
<1>20. ASSUME NEW reason \in Reasons, Disconnected(reason) PROVE FaultGoes
  BY <1>20, HoldFacts DEF Disconnected, DropText, Admits, Reasons
<1>21. CASE Suspend
  BY <1>21, HoldFacts DEF Suspend, holdVars, gattVars, readyVars, watchVars,
      historyVars
<1>22. CASE Release
  BY <1>22, HoldFacts DEF Release, holdVars, stallVars, gattVars, readyVars,
      watchVars, radioVars, historyVars
<1>23. CASE Reappears
  BY <1>23, HoldFacts DEF Reappears, holdVars, stallVars, gattVars,
      readyVars, watchVars, radioVars, historyVars
<1>24. CASE SettleDue
  BY <1>24, HoldFacts DEF SettleDue, holdVars, stallVars, gattVars,
      readyVars, watchVars, radioVars, historyVars
<1>25. CASE BootDue
  BY <1>25, HoldFacts DEF BootDue, holdVars, stallVars, gattVars, readyVars,
      watchVars, radioVars, historyVars
<1>26. CASE UNCHANGED vars
  BY <1>26, HoldFacts DEF vars, holdVars, stallVars, gattVars, readyVars,
      watchVars, switchVars, radioVars, historyVars
<1> QED
  BY <1>1, <1>2, <1>3, <1>4, <1>5, <1>6, <1>7, <1>8, <1>9, <1>10, <1>11,
      <1>12, <1>13, <1>14, <1>15, <1>16, <1>17, <1>18, <1>19, <1>20, <1>21,
      <1>22, <1>23, <1>24, <1>25, <1>26 DEF Next

-----------------------------------------------------------------------------
(* The theorems. *)

\* The invariants hold in every state.
LEMMA Inductive ==
  Spec => [](HoldType /\ CountType /\ HoldInv /\ LinkInv /\ HeldFaultNamed /\ StallStands
             /\ RecycleInv)
<1>1. Init => HoldType
  BY HoldFacts, FreeTexts DEF Init, HoldType
<1>2. Init => CountType
  BY ConfigAssumption DEF Init, CountType
<1>3. ASSUME Init PROVE HoldInv
  <2>1. boot_holding = BootHold /\ auto_connect = ~BootHold
    BY <1>3 DEF Init
  <2>2. ~(auto_connect /\ boot_holding)
    BY <2>1, Zenon
  <2>3. ~settling /\ ~settle_armed /\ ~suspended /\ phys = "idle"
    BY <1>3 DEF Init
  <2> QED
    BY <2>2, <2>3 DEF HoldInv, HoldsKeepLinkDown
<1>4. Init => LinkInv
  BY DEF Init, LinkInv, Awaited, SubscribedOnce
<1>5. Init => HeldFaultNamed /\ StallStands /\ RecycleInv
  BY DEF Init, HeldFaultNamed, StallStands, RecycleInv
<1> QED
  BY <1>1, <1>2, <1>3, <1>4, <1>5, HoldTypeStep, CountStep, HoldStep, LinkStep, NameStep,
     StallStep, RecycleStep, PTL DEF Spec

\* No timer and no release ends a suspension, a settle hold or the boot hold of
\* another: HoldInv is what each of the three callbacks relies on when it looks
\* at only some of them.
THEOREM HoldsRespected == Spec => []HoldsKeepLinkDown
<1>1. HoldInv => HoldsKeepLinkDown
  BY DEF HoldInv
<1> QED
  BY <1>1, Inductive, PTL

\* A connection is subscribed at most once: discovery, its retry and the
\* deferral exclude each other.
THEOREM SubscribedAtMostOnce == Spec => []SubscribedOnce
<1>1. LinkInv => SubscribedOnce
  BY DEF LinkInv
<1> QED
  BY <1>1, Inductive, PTL

\* What is held is what is shown.
THEOREM HeldFaultIsNamed == Spec => []HeldFaultNamed
BY Inductive, PTL

\* A reported stall is one the detector stands by.
THEOREM StallIsBacked == Spec => []StallStands
BY Inductive, PTL

\* One outage is one teardown, whichever watchdogs saw it.
THEOREM OneTeardown == Spec => []OneRecycle
<1>1. RecycleInv => OneRecycle
  BY DEF RecycleInv, OneRecycle
<1> QED
  BY <1>1, Inductive, PTL

\* A link handed over to another client stays handed over.
THEOREM SuspensionHolds == Spec => SuspendedStaysDown
<1>1. LinkInv /\ [Next]_vars => (suspended /\ session = "IDLE" => session' = "IDLE")
  BY SuspendedStep
<1> QED
  BY <1>1, Inductive, PTL DEF Spec, SuspendedStaysDown

\* A session becomes ready when its own stabilize window is over.
THEOREM ReadyAfterStabilizing == Spec => StabilizesFirst
<1>1. LinkInv /\ [Next]_vars =>
        (session' = "READY" => session \in {"STABILIZING", "READY"})
  BY ReadyStep
<1> QED
  BY <1>1, Inductive, PTL DEF Spec, StabilizesFirst

\* A held reason goes for one of its rank, when it is refuted, or with the
\* encryption that succeeds; a routine reason never replaces it.
THEOREM HeldFaultIsKept == Spec => HeldFaultSurvives
<1>1. HoldType /\ HeldFaultNamed /\ [Next]_vars =>
        (failure_hold # "NONE" /\ last_failure' # last_failure => FaultGoes)
  BY FaultStep
<1>2. HoldType /\ HeldFaultNamed /\ [Next]_vars =>
        [failure_hold # "NONE" /\ last_failure' # last_failure =>
           \/ failure_hold' # "NONE" /\ Admits(failure_hold, failure_hold')
           \/ failure_hold' = "NONE" /\ last_failure' = "none"
           \/ failure_hold \in {"PAIRING_STALL", "AUTH"} /\ Authenticated]_vars
  BY <1>1 DEF FaultGoes
<1> QED
  BY <1>2, Inductive, PTL DEF Spec, HeldFaultSurvives
=============================================================================
