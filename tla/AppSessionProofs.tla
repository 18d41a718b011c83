-------------------------- MODULE AppSessionProofs --------------------------
(***************************************************************************)
(* Proofs about AppSession for any threads, policies and declarations and  *)
(* any number of commands: the worker host is authorized only for the      *)
(* session, the session only for the policy, and both end with the         *)
(* process.                                                                *)
(***************************************************************************)
EXTENDS AppSession, TLAPS

\* From the sample of the session to the end of authentication_changed.
Transition == {"sample", "sample_session", "load", "revoke", "configure", "closing", "resume"}

\* Where a thread holds CONFIG_UPDATE_GATE for certain; a transition that a
\* save or a refusal started holds it too.
Configuring ==
    {"grant", "save_check", "save_write", "save_revoke", "managed_write", "recover_gate", "recover_check"}

\* A thread's position fixes the locks it holds and the transitions it owes.
LockInv ==
    \A t \in Thread :
        /\ pc[t] \in Configuring => cfgGate = t
        /\ cfgGate = t => pc[t] \in Configuring \cup Transition \cup {"gate"}
        /\ sessGate = t <=> pc[t] \in Transition \cup {"recover_check"}
        /\ sessLock = t => pc[t] \in {"revoke", "configure", "closing", "resume"} /\ owed[t] = 1
        /\ owed[t] # 0 <=> pc[t] \in Transition \cup {"gate", "save_revoke"}

\* The policy a login verified the password against is the one in force when
\* it grants the session.
GrantInv == \A t \in Thread : pc[t] = "grant" => polT[t] = policy

\* A transition on its way to enable the host.
Enabling(t) ==
    \/ pc[t] = "sample_session" /\ polT[t] = Off
    \/ pc[t] \in {"load", "revoke", "configure", "closing"} /\ unlockedT[t]
    \/ pc[t] = "resume"

\* Not only an enabled host: a transition that sampled an open session before
\* it was closed is followed by one that revokes, too.
AuthorityInv ==
    (enabled \/ \E t \in Thread : Enabling(t)) /\ policy # Off /\ session = "none"
        => \E u \in Thread : Revoking(u)

\* An epoch in a thread's hands is not a future one, and once begin_shutdown has
\* revoked, a transition that is about to resume has an earlier one.
EpochInv ==
    /\ \A t \in Thread : epochT[t] <= epoch
    /\ closing => \/ \E u \in Thread : pc[u] = "exit_revoke"
                  \/ ~enabled /\ \A t \in Thread : pc[t] = "resume" => epochT[t] # epoch

\* What the exit has established stays so.
ExitInv ==
    /\ \A t \in Thread : pc[t] \in {"exit_host", "exit_done", "exit_app"} => stopped
    /\ exitFinished \/ (\E t \in Thread : pc[t] \in {"exit_done", "exit_app"})
          => stopped /\ ~enabled /\ ~work
    /\ exited => exitFinished

IInv ==
    /\ TypeOK /\ LockInv /\ GrantInv /\ AuthorityInv /\ SessionMatchesPolicy
    /\ EpochInv /\ ExitInv

-----------------------------------------------------------------------------
(* Every step keeps the types; that an idle thread holds no lock and owes   *)
(* nothing is part of LockInv.                                              *)
LEMMA LockStep ==
    ASSUME TypeOK, LockInv, [Next]_vars
    PROVE  LockInv'
<1> USE SessionAssumption
        DEF TypeOK, PcAt, LockInv, Transition, Configuring, Goto, Begin, Return, Notify,
            TakeConfigGate, TakeSessionGate, EndTransition, locks, locals
<1>1. ASSUME NEW t \in Thread, Command(t) PROVE LockInv'
  <2>1. CASE BeginLogin(t) \/ BeginBiometric(t) \/ BeginManaged(t) \/ BeginStatus(t)
    BY <2>1 DEF BeginLogin, BeginBiometric, BeginManaged, BeginStatus
  <2>2. CASE BeginSave(t)
    BY <2>2 DEF BeginSave
  <2>3. CASE Logout(t) \/ AccessDenied(t)
    BY <2>3 DEF Logout, AccessDenied
  <2>4. CASE ExitRequested(t)
    BY <2>4 DEF ExitRequested
  <2> QED
    BY ONLY <1>1, <2>1, <2>2, <2>3, <2>4 DEF Command
<1>2. ASSUME NEW t \in Thread, Advance(t) PROVE LockInv'
  <2>1. CASE LoginLoad(t)
    BY <2>1 DEF LoginLoad
  <2>2. CASE LoginGrant(t)
    BY <2>2 DEF LoginGrant
  <2>3. CASE LoginRefused(t) \/ SaveAborts(t) \/ ManagedAborts(t)
    BY <2>3 DEF LoginRefused, SaveAborts, ManagedAborts
  <2>4. CASE SaveCheck(t) \/ SaveRevoke(t)
    BY <2>4 DEF SaveCheck, SaveRevoke
  <2>5. CASE SaveRefused(t)
    BY <2>5 DEF SaveRefused
  <2>6. CASE SaveWrite(t)
    BY <2>6 DEF SaveWrite
  <2>7. CASE ManagedCheck(t)
    BY <2>7 DEF ManagedCheck
  <2>8. CASE ManagedRefused(t)
    BY <2>8 DEF ManagedRefused
  <2>9. CASE PersistPluginChange(t)
    BY <2>9 DEF PersistPluginChange
  <2>10. CASE RestoreConfiguration(t)
    BY <2>10 DEF RestoreConfiguration
  <2>11. CASE ManagedDone(t)
    BY <2>11 DEF ManagedDone
  <2>12. CASE EnterTransition(t)
    BY <2>12 DEF EnterTransition
  <2>13. CASE SamplePolicy(t) \/ SampleSession(t) \/ LoadDeclarations(t)
    BY <2>13 DEF SamplePolicy, SampleSession, LoadDeclarations
  <2>14. CASE RevokeSession(t) \/ Configure(t) \/ NotClosing(t)
    BY <2>14 DEF RevokeSession, Configure, NotClosing
  <2>15. CASE StayLocked(t)
    BY <2>15 DEF StayLocked
  <2>16. CASE Resume(t)
    BY <2>16 DEF Resume
  <2>17. CASE RecoverEnter(t)
    BY <2>17 DEF RecoverEnter, RecoverGates
  <2>18. CASE RecoverRefused(t)
    BY <2>18 DEF RecoverRefused
  <2>19. CASE RecoverSample(t)
    BY <2>19 DEF RecoverSample
  <2>20. CASE ExitBegins(t) \/ CloseFails(t)
    BY <2>20 DEF ExitBegins, BeginShutdown, CloseFails
  <2>21. CASE HostShutdown(t) \/ ExitFinish(t)
    BY <2>21 DEF HostShutdown, ExitFinish
  <2> QED
    BY ONLY <1>2, <2>1, <2>2, <2>3, <2>4, <2>5, <2>6, <2>7, <2>8, <2>9, <2>10, <2>11, <2>12, <2>13,
            <2>14, <2>15, <2>16, <2>17, <2>18, <2>19, <2>20, <2>21 DEF Advance
<1>3. ASSUME NEW t \in Thread, BiometricAnswer(t) PROVE LockInv'
  BY <1>3 DEF BiometricAnswer
<1>4. CASE WatchTick
  BY <1>4 DEF WatchTick
<1>5. ASSUME UNCHANGED <<locks, pc, owed>> PROVE LockInv'
  BY <1>5
<1> QED
  BY ONLY <1>1, <1>2, <1>3, <1>4, <1>5, [Next]_vars DEF Next, Restore, Expire, ConfigReadable, vars

(* What revoke_epoch assigns is well typed.                                 *)
LEMMA RevokeTypes ==
    ASSUME TypeOK, RevokeEpoch
    PROVE  /\ enabled' \in BOOLEAN /\ work' \in BOOLEAN /\ stopped' \in BOOLEAN
           /\ epoch' \in Nat /\ restores' \in SUBSET Nat
<1>1. enabled' \in BOOLEAN /\ work' \in BOOLEAN /\ stopped' \in BOOLEAN
  BY Zenon DEF TypeOK, RevokeEpoch
<1>2. epoch' \in Nat /\ restores' \in SUBSET Nat
  BY DEF TypeOK, RevokeEpoch
<1> QED
  BY <1>1, <1>2

(* Every step keeps the types.                                              *)
LEMMA TypeStep ==
    ASSUME TypeOK, LockInv, GrantInv, LockInv', [Next]_vars
    PROVE  TypeOK'
<1> USE SessionAssumption
        DEF PcAt, Goto, Begin, Return, Notify, TakeConfigGate, TakeSessionGate, EndTransition,
            config, auth, host, exit, locks, locals
<1>0. \A t \in Thread : pc'[t] = "idle" => t \notin {cfgGate', sessGate', sessLock'} /\ owed'[t] = 0
  BY DEF LockInv, Transition, Configuring
<1> USE DEF TypeOK
<1>1. ASSUME NEW t \in Thread, Command(t) PROVE TypeOK'
  <2>1. CASE BeginLogin(t)
    BY <1>0, <2>1 DEF BeginLogin
  <2>2. CASE BeginBiometric(t)
    BY <1>0, <2>2 DEF BeginBiometric
  <2>3. CASE Logout(t)
    BY <1>0, <2>3 DEF Logout
  <2>4. CASE BeginSave(t)
    BY <1>0, <2>4 DEF BeginSave
  <2>5. CASE BeginManaged(t)
    BY <1>0, <2>5 DEF BeginManaged
  <2>6. CASE AccessDenied(t)
    BY <1>0, <2>6 DEF AccessDenied
  <2>7. CASE BeginStatus(t)
    BY <1>0, <2>7 DEF BeginStatus
  <2>8. CASE ExitRequested(t)
    BY <1>0, <2>8 DEF ExitRequested, MayExit
  <2> QED
    BY ONLY <1>1, <2>1, <2>2, <2>3, <2>4, <2>5, <2>6, <2>7, <2>8 DEF Command
<1>2. ASSUME NEW t \in Thread, Advance(t) PROVE TypeOK'
  <2>1. CASE LoginLoad(t)
    BY <1>0, <2>1 DEF LoginLoad
  <2>2. CASE LoginGrant(t)
    BY <1>0, <2>2 DEF LoginGrant, GrantInv
  <2>3. CASE LoginRefused(t)
    BY <1>0, <2>3 DEF LoginRefused
  <2>4. CASE SaveCheck(t)
    BY <1>0, <2>4 DEF SaveCheck, AuthorizedEpoch
  <2>5. CASE SaveRefused(t)
    BY <1>0, <2>5 DEF SaveRefused
  <2>6. CASE SaveWrite(t)
    BY <1>0, <2>6 DEF SaveWrite
  <2>7. CASE SaveAborts(t)
    BY <1>0, <2>7 DEF SaveAborts
  <2>8. CASE SaveRevoke(t)
    BY <1>0, <2>8 DEF SaveRevoke
  <2>9. CASE ManagedCheck(t)
    BY <1>0, <2>9 DEF ManagedCheck
  <2>10. CASE ManagedRefused(t)
    BY <1>0, <2>10 DEF ManagedRefused
  <2>11. CASE PersistPluginChange(t)
    <3>1. desired' \in Declaration \cup {Unreadable} /\ declared' \in Declaration
      BY <2>11 DEF PersistPluginChange
    <3>2. restores' \in SUBSET Nat
      BY <2>11 DEF PersistPluginChange
    <3> QED
      BY <1>0, <2>11, <3>1, <3>2 DEF PersistPluginChange
  <2>12. CASE RestoreConfiguration(t)
    BY <1>0, <2>12 DEF RestoreConfiguration
  <2>13. CASE ManagedDone(t)
    BY <1>0, <2>13 DEF ManagedDone
  <2>14. CASE ManagedAborts(t)
    BY <1>0, <2>14 DEF ManagedAborts
  <2>15. CASE EnterTransition(t)
    BY <1>0, <2>15 DEF EnterTransition
  <2>16. CASE SamplePolicy(t)
    BY <1>0, <2>16 DEF SamplePolicy
  <2>17. CASE SampleSession(t)
    BY <1>0, <2>17 DEF SampleSession
  <2>18. CASE LoadDeclarations(t)
    BY <1>0, <2>18 DEF LoadDeclarations
  <2>19. CASE RevokeSession(t)
    BY <1>0, <2>19, RevokeTypes DEF RevokeSession
  <2>20. CASE Configure(t)
    BY <1>0, <2>20 DEF Configure
  <2>21. CASE StayLocked(t)
    BY <1>0, <2>21 DEF StayLocked, LockInv, Transition
  <2>22. CASE NotClosing(t)
    BY <1>0, <2>22 DEF NotClosing
  <2>23. CASE Resume(t)
    <3>1. enabled' \in BOOLEAN
      BY <2>23, Zenon DEF Resume
    <3>5. restores' = restores \/ restores' = restores \cup {epochT[t]}
      BY ONLY <2>23, Zenon DEF Resume
    <3>6. restores \in SUBSET Nat /\ epochT[t] \in Nat
      OBVIOUS
    <3>2. restores' \in SUBSET Nat
      BY ONLY <3>5, <3>6
    <3>3. owed' \in [Thread -> 0 .. 2]
      BY <2>23 DEF Resume, LockInv, Transition
    <3>4. pc' \in [Thread -> PcAt] /\ {cfgGate', sessGate', sessLock'} \subseteq Thread \cup {Nobody}
      BY <2>23 DEF Resume
    <3> QED
      BY <1>0, <2>23, <3>1, <3>2, <3>3, <3>4 DEF Resume
  <2>24. CASE RecoverEnter(t)
    BY <1>0, <2>24 DEF RecoverEnter, RecoverGates
  <2>25. CASE RecoverRefused(t)
    BY <1>0, <2>25 DEF RecoverRefused
  <2>26. CASE RecoverSample(t)
    BY <1>0, <2>26 DEF RecoverSample
  <2>27. CASE ExitBegins(t)
    <3>1. closing' \in BOOLEAN /\ (RevokeEpoch \/ UNCHANGED host)
      BY <2>27, Zenon DEF ExitBegins, BeginShutdown
    <3>2. pc' \in [Thread -> PcAt]
      BY <2>27 DEF ExitBegins, BeginShutdown
    <3>3. UNCHANGED <<config, auth, desired, exitStarted, exitFinished, exited, locks, owed, locals, left>>
      BY ONLY <2>27, Zenon DEF ExitBegins
    <3>4. CASE RevokeEpoch
      BY <1>0, <3>1, <3>2, <3>3, <3>4, RevokeTypes
    <3>5. CASE UNCHANGED host
      BY <1>0, <3>1, <3>2, <3>3, <3>5
    <3> QED
      BY ONLY <3>1, <3>4, <3>5
  <2>28. CASE CloseFails(t)
    <3>1. exitStarted' \in BOOLEAN
      BY <2>28, Zenon DEF CloseFails
    <3> QED
      BY <1>0, <2>28, <3>1 DEF CloseFails
  <2>29. CASE HostShutdown(t)
    <3>1. stopped' \in BOOLEAN /\ (RevokeEpoch \/ UNCHANGED <<enabled, epoch, work, restores>>)
      BY <2>29, RevokeTypes, Zenon DEF HostShutdown
    <3>2. pc' \in [Thread -> PcAt]
      BY <2>29 DEF HostShutdown
    <3>3. UNCHANGED <<config, auth, desired, exit, locks, owed, locals, left>>
      BY ONLY <2>29, Zenon DEF HostShutdown
    <3>4. CASE RevokeEpoch
      BY <1>0, <3>1, <3>2, <3>3, <3>4, RevokeTypes
    <3>5. CASE UNCHANGED <<enabled, epoch, work, restores>>
      BY <1>0, <3>1, <3>2, <3>3, <3>5
    <3> QED
      BY ONLY <3>1, <3>4, <3>5
  <2>30. CASE ExitFinish(t)
    <3>1. exitFinished' \in BOOLEAN
      BY <2>30, Zenon DEF ExitFinish
    <3> QED
      BY <1>0, <2>30, <3>1 DEF ExitFinish, MayExit
  <2> QED
    BY ONLY <1>2, <2>1, <2>2, <2>3, <2>4, <2>5, <2>6, <2>7, <2>8, <2>9, <2>10, <2>11, <2>12, <2>13,
            <2>14, <2>15, <2>16, <2>17, <2>18, <2>19, <2>20, <2>21, <2>22, <2>23, <2>24, <2>25, <2>26,
            <2>27, <2>28, <2>29, <2>30 DEF Advance
<1>3. ASSUME NEW t \in Thread, BiometricAnswer(t) PROVE TypeOK'
  BY <1>0, <1>3 DEF BiometricAnswer
<1>4. CASE WatchTick
  BY <1>0, <1>4 DEF WatchTick
<1>5. ASSUME NEW e \in restores, Restore(e) PROVE TypeOK'
  BY <1>5 DEF Restore, AuthorizedEpoch
<1>6. CASE Expire
  BY <1>6 DEF Expire
<1>8. CASE ConfigReadable
  <2>1. readable' \in BOOLEAN
    BY <1>8, Zenon DEF ConfigReadable
  <2> QED
    BY <1>8, <2>1 DEF ConfigReadable
<1>7. CASE UNCHANGED vars
  BY <1>7 DEF vars
<1> QED
  BY ONLY <1>1, <1>2, <1>3, <1>4, <1>5, <1>6, <1>7, <1>8, [Next]_vars DEF Next

(* CONFIG_UPDATE_GATE is held from the check of the password to the grant,  *)
(* so the policy cannot change in between.                                  *)
LEMMA GrantStep ==
    ASSUME TypeOK, LockInv, GrantInv, [Next]_vars
    PROVE  GrantInv'
<1> USE SessionAssumption
        DEF TypeOK, LockInv, Configuring, GrantInv, Goto, Begin, Return, Notify, TakeConfigGate,
            TakeSessionGate, EndTransition, config, locals
<1>1. ASSUME NEW t \in Thread, Command(t) PROVE GrantInv'
  <2>1. CASE BeginLogin(t) \/ BeginBiometric(t) \/ Logout(t) \/ BeginSave(t) \/ BeginManaged(t)
    BY <2>1 DEF BeginLogin, BeginBiometric, Logout, BeginSave, BeginManaged
  <2>2. CASE AccessDenied(t) \/ BeginStatus(t)
    BY <2>2 DEF AccessDenied, BeginStatus
  <2>3. CASE ExitRequested(t)
    BY <2>3 DEF ExitRequested, MayExit
  <2> QED
    BY ONLY <1>1, <2>1, <2>2, <2>3 DEF Command
<1>2. ASSUME NEW t \in Thread, Advance(t) PROVE GrantInv'
  <2>1. CASE LoginLoad(t)
    BY <2>1 DEF LoginLoad
  <2>2. CASE LoginGrant(t) \/ LoginRefused(t) \/ SaveCheck(t) \/ SaveRefused(t)
    BY <2>2 DEF LoginGrant, LoginRefused, SaveCheck, SaveRefused
  <2>3. CASE SaveWrite(t)
    BY <2>3 DEF SaveWrite
  <2>4. CASE SaveAborts(t) \/ SaveRevoke(t) \/ ManagedCheck(t) \/ ManagedRefused(t) \/ PersistPluginChange(t)
    BY <2>4 DEF SaveAborts, SaveRevoke, ManagedCheck, ManagedRefused, PersistPluginChange
  <2>5. CASE RestoreConfiguration(t)
    BY <2>5 DEF RestoreConfiguration
  <2>6. CASE ManagedDone(t) \/ ManagedAborts(t) \/ EnterTransition(t) \/ SamplePolicy(t) \/ SampleSession(t)
    BY <2>6 DEF ManagedDone, ManagedAborts, EnterTransition, SamplePolicy, SampleSession
  <2>7. CASE LoadDeclarations(t) \/ RevokeSession(t) \/ Configure(t) \/ StayLocked(t) \/ NotClosing(t)
    BY <2>7 DEF LoadDeclarations, RevokeSession, Configure, StayLocked, NotClosing
  <2>8. CASE Resume(t) \/ RecoverEnter(t) \/ RecoverRefused(t) \/ RecoverSample(t) \/ ExitBegins(t)
    BY <2>8 DEF Resume, RecoverEnter, RecoverRefused, RecoverSample, ExitBegins, MayResume,
          RecoverGates, BeginShutdown
  <2>9. CASE CloseFails(t) \/ HostShutdown(t) \/ ExitFinish(t)
    BY <2>9 DEF CloseFails, HostShutdown, ExitFinish, MayExit
  <2> QED
    BY ONLY <1>2, <2>1, <2>2, <2>3, <2>4, <2>5, <2>6, <2>7, <2>8, <2>9 DEF Advance
<1>3. ASSUME NEW t \in Thread, BiometricAnswer(t) PROVE GrantInv'
  BY <1>3 DEF BiometricAnswer, BiometricRecheck
<1>4. CASE WatchTick
  BY <1>4 DEF WatchTick
<1>5. CASE UNCHANGED <<policy, polT, pc>>
  BY <1>5
<1> QED
  BY ONLY <1>1, <1>2, <1>3, <1>4, <1>5, [Next]_vars
     DEF Next, Restore, Expire, ConfigReadable, locals, config, vars

(* When a session is closed or the policy is enforced, a transition that    *)
(* revokes the host is on its way, and none that sampled earlier overtakes  *)
(* it: session_gate orders them.                                            *)
LEMMA AuthorityStep ==
    ASSUME TypeOK, LockInv, AuthorityInv, [Next]_vars
    PROVE  AuthorityInv'
<1> USE SessionAssumption
        DEF TypeOK, LockInv, Transition, AuthorityInv, Enabling, Revoking, Goto, Begin, Return, Notify,
            TakeConfigGate, TakeSessionGate, EndTransition, RevokeEpoch, config, auth, host, locals
<1>1. ASSUME NEW t \in Thread, Command(t) PROVE AuthorityInv'
  <2>1. CASE BeginLogin(t) \/ BeginBiometric(t) \/ Logout(t) \/ BeginSave(t)
    BY <2>1 DEF BeginLogin, BeginBiometric, Logout, BeginSave
  <2>2. CASE BeginManaged(t) \/ AccessDenied(t) \/ BeginStatus(t)
    BY <2>2 DEF BeginManaged, AccessDenied, BeginStatus
  <2>3. CASE ExitRequested(t)
    BY <2>3 DEF ExitRequested, MayExit
  <2> QED
    BY ONLY <1>1, <2>1, <2>2, <2>3 DEF Command
<1>2. ASSUME NEW t \in Thread, Advance(t) PROVE AuthorityInv'
  <2>1. CASE LoginLoad(t)
    BY <2>1 DEF LoginLoad
  <2>2. CASE LoginGrant(t) \/ LoginRefused(t) \/ SaveCheck(t) \/ SaveRefused(t)
    BY <2>2 DEF LoginGrant, LoginRefused, SaveCheck, SaveRefused
  <2>3. CASE SaveWrite(t)
    BY <2>3 DEF SaveWrite
  <2>4. CASE SaveAborts(t)
    BY <2>4 DEF SaveAborts
  <2>5. CASE SaveRevoke(t)
    BY <2>5 DEF SaveRevoke
  <2>6. CASE ManagedCheck(t) \/ ManagedRefused(t) \/ PersistPluginChange(t)
    BY <2>6 DEF ManagedCheck, ManagedRefused, PersistPluginChange
  <2>7. CASE RestoreConfiguration(t)
    BY <2>7 DEF RestoreConfiguration
  <2>8. CASE ManagedDone(t) \/ ManagedAborts(t)
    BY <2>8 DEF ManagedDone, ManagedAborts
  <2>9. CASE EnterTransition(t)
    BY <2>9 DEF EnterTransition
  <2>10. CASE SamplePolicy(t)
    BY <2>10 DEF SamplePolicy
  <2>11. CASE SampleSession(t)
    BY <2>11 DEF SampleSession
  <2>12. CASE LoadDeclarations(t)
    BY <2>12 DEF LoadDeclarations
  <2>13. CASE RevokeSession(t)
    BY <2>13 DEF RevokeSession
  <2>14. CASE Configure(t)
    BY <2>14 DEF Configure
  <2>15. CASE StayLocked(t)
    BY <2>15 DEF StayLocked
  <2>16. CASE NotClosing(t)
    BY <2>16 DEF NotClosing
  <2>17. CASE Resume(t)
    BY <2>17 DEF Resume, MayResume
  <2>18. CASE RecoverEnter(t)
    BY <2>18 DEF RecoverEnter, RecoverGates
  <2>19. CASE RecoverRefused(t)
    BY <2>19 DEF RecoverRefused
  <2>20. CASE RecoverSample(t)
    BY <2>20 DEF RecoverSample
  <2>21. CASE ExitBegins(t) \/ CloseFails(t) \/ HostShutdown(t) \/ ExitFinish(t)
    BY <2>21 DEF ExitBegins, CloseFails, HostShutdown, ExitFinish, BeginShutdown, MayExit
  <2> QED
    BY ONLY <1>2, <2>1, <2>2, <2>3, <2>4, <2>5, <2>6, <2>7, <2>8, <2>9, <2>10, <2>11, <2>12, <2>13,
            <2>14, <2>15, <2>16, <2>17, <2>18, <2>19, <2>20, <2>21 DEF Advance
<1>3. ASSUME NEW t \in Thread, BiometricAnswer(t) PROVE AuthorityInv'
  BY <1>3 DEF BiometricAnswer
<1>4. CASE WatchTick
  BY <1>4 DEF WatchTick
<1>5. CASE Expire \/ ConfigReadable
  BY <1>5 DEF Expire, ConfigReadable
<1>6. CASE UNCHANGED <<enabled, policy, session, polT, unlockedT, pc>>
  BY <1>6
<1> QED
  BY ONLY <1>1, <1>2, <1>3, <1>4, <1>5, <1>6, [Next]_vars
     DEF Next, Restore, locals, config, auth, vars

(* Only a save changes the policy, and it closes the session before it      *)
(* gives up CONFIG_UPDATE_GATE; no login grants one meanwhile.              *)
LEMMA MatchStep ==
    ASSUME TypeOK, LockInv, GrantInv, SessionMatchesPolicy, [Next]_vars
    PROVE  SessionMatchesPolicy'
<1> USE SessionAssumption
        DEF TypeOK, LockInv, Configuring, GrantInv, SessionMatchesPolicy, Goto, Begin, Return, Notify,
            TakeConfigGate, TakeSessionGate, EndTransition, config, auth
<1>1. ASSUME NEW t \in Thread, Command(t) PROVE SessionMatchesPolicy'
  <2>1. CASE BeginLogin(t) \/ BeginBiometric(t) \/ Logout(t) \/ BeginSave(t) \/ BeginManaged(t)
    BY <2>1 DEF BeginLogin, BeginBiometric, Logout, BeginSave, BeginManaged
  <2>2. CASE AccessDenied(t) \/ BeginStatus(t)
    BY <2>2 DEF AccessDenied, BeginStatus
  <2>3. CASE ExitRequested(t)
    BY <2>3 DEF ExitRequested, MayExit
  <2> QED
    BY ONLY <1>1, <2>1, <2>2, <2>3 DEF Command
<1>2. ASSUME NEW t \in Thread, Advance(t) PROVE SessionMatchesPolicy'
  <2>1. CASE LoginLoad(t)
    BY <2>1 DEF LoginLoad
  <2>2. CASE LoginGrant(t)
    BY <2>2 DEF LoginGrant
  <2>3. CASE LoginRefused(t) \/ SaveCheck(t) \/ SaveRefused(t)
    BY <2>3 DEF LoginRefused, SaveCheck, SaveRefused
  <2>4. CASE SaveWrite(t)
    BY <2>4 DEF SaveWrite
  <2>5. CASE SaveAborts(t)
    BY <2>5 DEF SaveAborts
  <2>6. CASE SaveRevoke(t)
    BY <2>6 DEF SaveRevoke
  <2>7. CASE ManagedCheck(t) \/ ManagedRefused(t) \/ PersistPluginChange(t)
    BY <2>7 DEF ManagedCheck, ManagedRefused, PersistPluginChange
  <2>8. CASE RestoreConfiguration(t)
    BY <2>8 DEF RestoreConfiguration
  <2>9. CASE ManagedDone(t) \/ ManagedAborts(t) \/ EnterTransition(t) \/ SamplePolicy(t) \/ SampleSession(t)
    BY <2>9 DEF ManagedDone, ManagedAborts, EnterTransition, SamplePolicy, SampleSession
  <2>10. CASE LoadDeclarations(t) \/ RevokeSession(t) \/ Configure(t) \/ StayLocked(t) \/ NotClosing(t)
    BY <2>10 DEF LoadDeclarations, RevokeSession, Configure, StayLocked, NotClosing
  <2>11. CASE Resume(t) \/ RecoverEnter(t) \/ RecoverRefused(t) \/ RecoverSample(t) \/ ExitBegins(t)
    BY <2>11 DEF Resume, RecoverEnter, RecoverRefused, RecoverSample, ExitBegins, MayResume,
          RecoverGates, BeginShutdown
  <2>12. CASE CloseFails(t) \/ HostShutdown(t) \/ ExitFinish(t)
    BY <2>12 DEF CloseFails, HostShutdown, ExitFinish, MayExit
  <2> QED
    BY ONLY <1>2, <2>1, <2>2, <2>3, <2>4, <2>5, <2>6, <2>7, <2>8, <2>9, <2>10, <2>11, <2>12 DEF Advance
<1>3. ASSUME NEW t \in Thread, BiometricAnswer(t) PROVE SessionMatchesPolicy'
  BY <1>3 DEF BiometricAnswer
<1>4. CASE WatchTick
  BY <1>4 DEF WatchTick
<1>5. CASE Expire \/ ConfigReadable
  BY <1>5 DEF Expire, ConfigReadable
<1>6. CASE UNCHANGED <<policy, session, granted, pc>>
  BY <1>6
<1> QED
  BY ONLY <1>1, <1>2, <1>3, <1>4, <1>5, <1>6, [Next]_vars DEF Next, Restore, config, auth, vars

(* begin_shutdown advances the epoch after it has raised its flag, so a     *)
(* transition that had not seen the flag resumes in vain.                   *)
LEMMA EpochStep ==
    ASSUME TypeOK, EpochInv, [Next]_vars
    PROVE  EpochInv'
<1> USE SessionAssumption
        DEF TypeOK, EpochInv, Goto, Begin, Return, Notify, EndTransition, RevokeEpoch, host, exit, locals
<1>1. ASSUME NEW t \in Thread, Command(t) PROVE EpochInv'
  <2>1. CASE BeginLogin(t) \/ BeginBiometric(t) \/ Logout(t) \/ BeginSave(t)
    BY <2>1 DEF BeginLogin, BeginBiometric, Logout, BeginSave
  <2>2. CASE BeginManaged(t) \/ AccessDenied(t) \/ BeginStatus(t)
    BY <2>2 DEF BeginManaged, AccessDenied, BeginStatus
  <2>3. CASE ExitRequested(t)
    BY <2>3 DEF ExitRequested, MayExit
  <2> QED
    BY ONLY <1>1, <2>1, <2>2, <2>3 DEF Command
<1>2. ASSUME NEW t \in Thread, Advance(t) PROVE EpochInv'
  <2>1. CASE LoginLoad(t) \/ LoginGrant(t) \/ LoginRefused(t)
    BY <2>1 DEF LoginLoad, LoginGrant, LoginRefused
  <2>2. CASE SaveCheck(t)
    BY <2>2 DEF SaveCheck
  <2>3. CASE SaveRefused(t)
    BY <2>3 DEF SaveRefused
  <2>4. CASE SaveWrite(t)
    BY <2>4 DEF SaveWrite
  <2>5. CASE SaveAborts(t) \/ SaveRevoke(t) \/ ManagedCheck(t) \/ ManagedRefused(t)
    BY <2>5 DEF SaveAborts, SaveRevoke, ManagedCheck, ManagedRefused
  <2>6. CASE PersistPluginChange(t)
    BY <2>6 DEF PersistPluginChange
  <2>7. CASE RestoreConfiguration(t)
    BY <2>7 DEF RestoreConfiguration
  <2>8. CASE ManagedDone(t) \/ ManagedAborts(t) \/ EnterTransition(t) \/ SamplePolicy(t)
    BY <2>8 DEF ManagedDone, ManagedAborts, EnterTransition, SamplePolicy
  <2>9. CASE SampleSession(t) \/ LoadDeclarations(t)
    BY <2>9 DEF SampleSession, LoadDeclarations
  <2>10. CASE RevokeSession(t)
    BY <2>10 DEF RevokeSession
  <2>11. CASE Configure(t) \/ StayLocked(t)
    BY <2>11 DEF Configure, StayLocked
  <2>12. CASE NotClosing(t)
    BY <2>12 DEF NotClosing
  <2>13. CASE Resume(t)
    BY <2>13 DEF Resume, MayResume
  <2>14. CASE RecoverEnter(t) \/ RecoverRefused(t) \/ RecoverSample(t)
    BY <2>14 DEF RecoverEnter, RecoverRefused, RecoverSample, RecoverGates
  <2>15. CASE ExitBegins(t)
    BY <2>15 DEF ExitBegins, BeginShutdown
  <2>16. CASE CloseFails(t)
    BY <2>16 DEF CloseFails
  <2>17. CASE HostShutdown(t)
    BY <2>17 DEF HostShutdown
  <2>18. CASE ExitFinish(t)
    BY <2>18 DEF ExitFinish, MayExit
  <2> QED
    BY ONLY <1>2, <2>1, <2>2, <2>3, <2>4, <2>5, <2>6, <2>7, <2>8, <2>9, <2>10, <2>11, <2>12, <2>13,
            <2>14, <2>15, <2>16, <2>17, <2>18 DEF Advance
<1>3. ASSUME NEW t \in Thread, BiometricAnswer(t) PROVE EpochInv'
  BY <1>3 DEF BiometricAnswer
<1>4. CASE WatchTick
  BY <1>4 DEF WatchTick
<1>5. CASE UNCHANGED <<epoch, enabled, closing, epochT, pc>>
  BY <1>5
<1> QED
  BY ONLY <1>1, <1>2, <1>3, <1>4, <1>5, [Next]_vars
     DEF Next, Restore, Expire, ConfigReadable, host, exit, locals, vars

(* The process is allowed to exit only after the host was shut down, and    *)
(* nothing enables it or starts a worker after that.                        *)
LEMMA ExitStep ==
    ASSUME TypeOK, ExitInv, [Next]_vars
    PROVE  ExitInv'
<1> USE SessionAssumption
        DEF TypeOK, ExitInv, Goto, Begin, Return, Notify, EndTransition, RevokeEpoch, host, exit
<1>1. ASSUME NEW t \in Thread, Command(t) PROVE ExitInv'
  <2>1. CASE BeginLogin(t) \/ BeginBiometric(t) \/ Logout(t) \/ BeginSave(t)
    BY <2>1 DEF BeginLogin, BeginBiometric, Logout, BeginSave
  <2>2. CASE BeginManaged(t) \/ AccessDenied(t) \/ BeginStatus(t)
    BY <2>2 DEF BeginManaged, AccessDenied, BeginStatus
  <2>3. CASE ExitRequested(t)
    BY <2>3 DEF ExitRequested, MayExit
  <2> QED
    BY ONLY <1>1, <2>1, <2>2, <2>3 DEF Command
<1>2. ASSUME NEW t \in Thread, Advance(t) PROVE ExitInv'
  <2>1. CASE LoginLoad(t) \/ LoginGrant(t) \/ LoginRefused(t) \/ SaveCheck(t)
    BY <2>1 DEF LoginLoad, LoginGrant, LoginRefused, SaveCheck
  <2>2. CASE SaveRefused(t)
    BY <2>2 DEF SaveRefused
  <2>3. CASE SaveWrite(t)
    BY <2>3 DEF SaveWrite
  <2>4. CASE SaveAborts(t) \/ SaveRevoke(t) \/ ManagedCheck(t) \/ ManagedRefused(t)
    BY <2>4 DEF SaveAborts, SaveRevoke, ManagedCheck, ManagedRefused
  <2>5. CASE PersistPluginChange(t)
    BY <2>5 DEF PersistPluginChange
  <2>6. CASE RestoreConfiguration(t)
    BY <2>6 DEF RestoreConfiguration
  <2>7. CASE ManagedDone(t) \/ ManagedAborts(t) \/ EnterTransition(t) \/ SamplePolicy(t)
    BY <2>7 DEF ManagedDone, ManagedAborts, EnterTransition, SamplePolicy
  <2>8. CASE SampleSession(t) \/ LoadDeclarations(t)
    BY <2>8 DEF SampleSession, LoadDeclarations
  <2>9. CASE RevokeSession(t)
    BY <2>9 DEF RevokeSession
  <2>10. CASE Configure(t) \/ StayLocked(t) \/ NotClosing(t)
    BY <2>10 DEF Configure, StayLocked, NotClosing
  <2>11. CASE Resume(t)
    BY <2>11 DEF Resume, MayResume
  <2>12. CASE RecoverEnter(t) \/ RecoverRefused(t) \/ RecoverSample(t)
    BY <2>12 DEF RecoverEnter, RecoverRefused, RecoverSample, RecoverGates
  <2>13. CASE ExitBegins(t)
    BY <2>13 DEF ExitBegins, BeginShutdown
  <2>14. CASE CloseFails(t)
    BY <2>14 DEF CloseFails
  <2>15. CASE HostShutdown(t)
    BY <2>15 DEF HostShutdown
  <2>16. CASE ExitFinish(t)
    BY <2>16 DEF ExitFinish, MayExit
  <2> QED
    BY ONLY <1>2, <2>1, <2>2, <2>3, <2>4, <2>5, <2>6, <2>7, <2>8, <2>9, <2>10, <2>11, <2>12, <2>13,
            <2>14, <2>15, <2>16 DEF Advance
<1>3. ASSUME NEW t \in Thread, BiometricAnswer(t) PROVE ExitInv'
  BY <1>3 DEF BiometricAnswer
<1>4. CASE WatchTick
  BY <1>4 DEF WatchTick
<1>5. ASSUME NEW e \in restores, Restore(e) PROVE ExitInv'
  BY <1>5 DEF Restore, AuthorizedEpoch
<1>6. CASE UNCHANGED <<host, exit, pc>>
  BY <1>6
<1> QED
  BY ONLY <1>1, <1>2, <1>3, <1>4, <1>5, <1>6, [Next]_vars DEF Next, Expire, ConfigReadable, vars

-----------------------------------------------------------------------------
(* The inductive invariant: who holds which gate, which policy a login was  *)
(* checked against, which transitions are about to enable or to revoke, and *)
(* how far the exit has come.                                               *)
THEOREM Invariance == Spec => []IInv
<1>1. Init => IInv
  <2> SUFFICES ASSUME Init PROVE IInv
    OBVIOUS
  <2> USE SessionAssumption DEF Init
  <2>1. /\ enabled \in BOOLEAN /\ stopped \in BOOLEAN /\ closing \in BOOLEAN /\ exitStarted \in BOOLEAN
        /\ exitFinished \in BOOLEAN /\ exited \in BOOLEAN /\ work \in BOOLEAN
        /\ ~stopped /\ ~closing /\ ~exitFinished /\ ~exited /\ (enabled => policy = Off)
    BY Zenon
  <2>2. TypeOK
    BY <2>1 DEF TypeOK, PcAt
  <2>3. LockInv /\ GrantInv /\ SessionMatchesPolicy
    BY DEF LockInv, Transition, Configuring, GrantInv, SessionMatchesPolicy
  <2>4. AuthorityInv /\ EpochInv /\ ExitInv
    BY <2>1 DEF AuthorityInv, Enabling, EpochInv, ExitInv
  <2> QED
    BY <2>2, <2>3, <2>4 DEF IInv
<1>2. IInv /\ [Next]_vars => IInv'
  <2> SUFFICES ASSUME IInv, [Next]_vars PROVE IInv'
    OBVIOUS
  <2>1. LockInv'
    BY LockStep DEF IInv
  <2>2. TypeOK'
    BY <2>1, TypeStep DEF IInv
  <2> QED
    BY <2>1, <2>2, GrantStep, AuthorityStep, MatchStep, EpochStep, ExitStep DEF IInv
<1> QED
  BY <1>1, <1>2, PTL DEF Spec

(* No logout, expiry of the policy or overlapping login, save, recovery or  *)
(* exit leaves the worker host enabled for a session that is closed, a      *)
(* session granted under a password that was replaced, or a host that is    *)
(* enabled while the application closes.                                    *)
THEOREM SessionAuthority == Spec => []AuthorityFollowsSession
<1>1. IInv => AuthorityFollowsSession
  <2> SUFFICES ASSUME IInv PROVE AuthorityFollowsSession
    OBVIOUS
  <2>1. NoStrayAuthority
    BY DEF IInv, AuthorityInv, NoStrayAuthority
  <2>2. ClosingIsFinal
    BY DEF IInv, EpochInv, ExitInv, ClosingIsFinal
  <2> QED
    BY <2>1, <2>2 DEF IInv, AuthorityFollowsSession
<1> QED
  BY <1>1, Invariance, PTL
=============================================================================
