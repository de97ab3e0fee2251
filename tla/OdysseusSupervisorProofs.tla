---------------------- MODULE OdysseusSupervisorProofs ----------------------
(***************************************************************************)
(* Proofs about OdysseusSupervisor, for any tenants, requests, instances,  *)
(* ports and timeouts.  BaseInv holds of every behaviour; the invariants   *)
(* about live subprocesses are proved for a server that does not crash     *)
(* (MaxCrashes = 0): a crash loses the registry and orphans them.          *)
(***************************************************************************)
EXTENDS OdysseusSupervisor, TLAPS

\* The shape of the state, the handles and the locks are preserved together:
\* an instance returned to a request is an instance of its tenant because the
\* registry's entries are, and an element of Pids is used again only once no
\* handle refers to it.
LEMMA BaseInvStep == BaseInv /\ [Next]_vars => BaseInv'
<1> SUFFICES ASSUME TypeOK, HandleInv, LockInv, [Next]_vars PROVE BaseInv'
  BY DEF BaseInv
<1> USE TimeoutsAssumption, PortsAssumption, NoneAssumption
<1> USE DEF instanceVars, callerVars, serverVars
<1>1. ASSUME NEW c \in Callers, NEW t \in Tenants, Request(c, t) PROVE BaseInv'
  <2>1. TypeOK'
    BY <1>1 DEF Request, TypeOK, HandleInv
  <2>2. HandleInv'
    BY <1>1 DEF Request, TypeOK, HandleInv, Alive
  <2>3. LockInv'
    BY <1>1 DEF Request, TypeOK, HandleInv, LockInv, Alive
  <2>4. QED
    BY <2>1, <2>2, <2>3 DEF BaseInv
<1>2. ASSUME NEW c \in Callers, FindRunning(c) PROVE BaseInv'
  <2>1. TypeOK'
    BY <1>2 DEF FindRunning, TypeOK, HandleInv
  <2>2. HandleInv'
    BY <1>2 DEF FindRunning, TypeOK, HandleInv, Alive
  <2>3. LockInv'
    BY <1>2 DEF FindRunning, TypeOK, HandleInv, LockInv, Alive
  <2>4. QED
    BY <2>1, <2>2, <2>3 DEF BaseInv
<1>3. ASSUME NEW c \in Callers, NEW p \in Pids, NEW q \in Ports, Spawn(c, p, q) PROVE BaseInv'
  <2>1. TypeOK'
    BY <1>3 DEF Spawn, NoneRunning, Unreferenced, TypeOK, HandleInv
  <2>2. HandleInv'
    BY <1>3 DEF Spawn, NoneRunning, Unreferenced, TypeOK, HandleInv, Alive
  <2>3. LockInv'
    BY <1>3 DEF Spawn, NoneRunning, Unreferenced, TypeOK, HandleInv, LockInv, Alive
  <2>4. QED
    BY <2>1, <2>2, <2>3 DEF BaseInv
<1>4. ASSUME NEW c \in Callers, NoPort(c) PROVE BaseInv'
  <2>1. TypeOK'
    BY <1>4 DEF NoPort, NoneRunning, TypeOK, HandleInv, Finish
  <2>2. HandleInv'
    BY <1>4 DEF NoPort, NoneRunning, TypeOK, HandleInv, Finish, Alive
  <2>3. LockInv'
    BY <1>4 DEF NoPort, NoneRunning, TypeOK, HandleInv, LockInv, Finish, Alive
  <2>4. QED
    BY <2>1, <2>2, <2>3 DEF BaseInv
<1>5. ASSUME NEW c \in Callers, HealthUp(c) PROVE BaseInv'
  <2>1. TypeOK'
    BY <1>5 DEF HealthUp, TypeOK, HandleInv
  <2>2. HandleInv'
    BY <1>5 DEF HealthUp, TypeOK, HandleInv, Alive
  <2>3. LockInv'
    BY <1>5 DEF HealthUp, TypeOK, HandleInv, LockInv, Alive
  <2>4. QED
    BY <2>1, <2>2, <2>3 DEF BaseInv
<1>6. ASSUME NEW c \in Callers, HealthFail(c) PROVE BaseInv'
  <2>1. TypeOK'
    BY <1>6 DEF HealthFail, TypeOK, HandleInv, Finish
  <2>2. HandleInv'
    BY <1>6 DEF HealthFail, TypeOK, HandleInv, Finish, Alive
  <2>3. LockInv'
    BY <1>6 DEF HealthFail, TypeOK, HandleInv, LockInv, Finish, Alive
  <2>4. QED
    BY <2>1, <2>2, <2>3 DEF BaseInv
<1>7. ASSUME NEW c \in Callers, NEW q \in Pids, Connect(c, q) PROVE BaseInv'
  <2>1. TypeOK'
    BY <1>7 DEF Connect, TypeOK, HandleInv
  <2>2. HandleInv'
    BY <1>7 DEF Connect, TypeOK, HandleInv, Alive
  <2>3. LockInv'
    BY <1>7 DEF Connect, TypeOK, HandleInv, LockInv, Alive
  <2>4. QED
    BY <2>1, <2>2, <2>3 DEF BaseInv
<1>8. ASSUME NEW c \in Callers, ConnectFail(c) \/ StreamEnd(c) PROVE BaseInv'
  <2>1. TypeOK'
    BY <1>8 DEF ConnectFail, StreamEnd, TypeOK, HandleInv, Finish
  <2>2. HandleInv'
    BY <1>8 DEF ConnectFail, StreamEnd, TypeOK, HandleInv, Finish, Alive
  <2>3. LockInv'
    BY <1>8 DEF ConnectFail, StreamEnd, TypeOK, HandleInv, LockInv, Finish, Alive
  <2>4. QED
    BY <2>1, <2>2, <2>3 DEF BaseInv
<1>9. ASSUME ReaperSweep PROVE BaseInv'
  <2>1. TypeOK'
    BY <1>9 DEF ReaperSweep, TypeOK, HandleInv
  <2>2. HandleInv'
    BY <1>9 DEF ReaperSweep, TypeOK, HandleInv, Alive
  <2>3. LockInv'
    BY <1>9 DEF ReaperSweep, TypeOK, HandleInv, LockInv, Alive
  <2>4. QED
    BY <2>1, <2>2, <2>3 DEF BaseInv
<1>10. ASSUME NEW p \in Pids, Bind(p) \/ Die(p) PROVE BaseInv'
  <2>1. TypeOK'
    BY <1>10 DEF Bind, Die, TypeOK, HandleInv
  <2>2. HandleInv'
    BY <1>10 DEF Bind, Die, TypeOK, HandleInv, Alive
  <2>3. LockInv'
    BY <1>10 DEF Bind, Die, TypeOK, HandleInv, LockInv, Alive
  <2>4. QED
    BY <2>1, <2>2, <2>3 DEF BaseInv
<1>11. ASSUME Tick PROVE BaseInv'
  <2>1. TypeOK'
    BY <1>11 DEF Tick, TypeOK, HandleInv
  <2>2. HandleInv'
    BY <1>11 DEF Tick, TypeOK, HandleInv, Alive
  <2>3. LockInv'
    BY <1>11 DEF Tick, TypeOK, HandleInv, LockInv, Alive
  <2>4. QED
    BY <2>1, <2>2, <2>3 DEF BaseInv
<1>12. ASSUME Shutdown PROVE BaseInv'
  <2>1. TypeOK'
    BY <1>12 DEF Shutdown, TypeOK, HandleInv
  <2>2. HandleInv'
    BY <1>12 DEF Shutdown, TypeOK, HandleInv, Alive
  <2>3. LockInv'
    BY <1>12 DEF Shutdown, TypeOK, HandleInv, LockInv, Alive
  <2>4. QED
    BY <2>1, <2>2, <2>3 DEF BaseInv
<1>13. ASSUME ServerCrash PROVE BaseInv'
  <2>1. TypeOK'
    <3>1. pc' \in [Callers -> {"idle"}] /\ lock' \in [Tenants -> {None}]
      BY <1>13 DEF ServerCrash
    <3>2. /\ want' \in [Callers -> {None}]
          /\ held' \in [Callers -> {None}]
          /\ server' \in [Callers -> {None}]
      BY <1>13 DEF ServerCrash
    <3>3. waited' \in [Callers -> {0}] /\ registry' \in [Tenants -> {None}]
      BY <1>13 DEF ServerCrash
    <3>4. crashes' \in 0 .. MaxCrashes
      <4>1. crashes < MaxCrashes /\ crashes' = crashes + 1
        BY <1>13 DEF ServerCrash
      <4>2. QED
        BY <4>1 DEF TypeOK
    <3>5. UNCHANGED instanceVars /\ serving' = FALSE
      BY <1>13 DEF ServerCrash
    <3>6. 0 \in 0 .. BootTimeout
      OBVIOUS
    <3>7. /\ proc' \in [Pids -> {"dead", "booting", "up"}]
          /\ owner' \in [Pids -> Tenants \cup {None}]
          /\ port' \in [Pids -> Ports \cup {None}]
          /\ ready' \in [Pids -> BOOLEAN]
          /\ idle' \in [Pids -> 0 .. IdleTimeout + 1]
      BY <3>5 DEF TypeOK
    <3>8. /\ registry' \in [Tenants -> Pids \cup {None}]
          /\ lock' \in [Tenants -> Callers \cup {None}]
          /\ pc' \in [Callers -> {"idle", "lock", "boot", "provision", "stream"}]
          /\ want' \in [Callers -> Tenants \cup {None}]
      BY <3>1, <3>2, <3>3
    <3>9. /\ held' \in [Callers -> Pids \cup {None}]
          /\ server' \in [Callers -> Pids \cup {None}]
          /\ waited' \in [Callers -> 0 .. BootTimeout]
      BY <3>2, <3>3, <3>6
    <3>10. serving' \in BOOLEAN
      BY <3>5
    <3>11. QED
      BY <3>4, <3>7, <3>8, <3>9, <3>10 DEF TypeOK
  <2>2. HandleInv'
    BY <1>13 DEF ServerCrash, TypeOK, HandleInv, Alive
  <2>3. LockInv'
    BY <1>13 DEF ServerCrash, TypeOK, HandleInv, LockInv, Alive
  <2>4. QED
    BY <2>1, <2>2, <2>3 DEF BaseInv
<1>14. ASSUME ServerStart PROVE BaseInv'
  <2>1. TypeOK'
    BY <1>14 DEF ServerStart, TypeOK, HandleInv
  <2>2. HandleInv'
    BY <1>14 DEF ServerStart, TypeOK, HandleInv, Alive
  <2>3. LockInv'
    BY <1>14 DEF ServerStart, TypeOK, HandleInv, LockInv, Alive
  <2>4. QED
    BY <2>1, <2>2, <2>3 DEF BaseInv
<1>15. ASSUME UNCHANGED vars PROVE BaseInv'
  <2>1. TypeOK'
    BY <1>15 DEF vars, TypeOK, HandleInv
  <2>2. HandleInv'
    BY <1>15 DEF vars, TypeOK, HandleInv, Alive
  <2>3. LockInv'
    BY <1>15 DEF vars, TypeOK, HandleInv, LockInv, Alive
  <2>4. QED
    BY <2>1, <2>2, <2>3 DEF BaseInv
<1>16. QED
  BY <1>1, <1>2, <1>3, <1>4, <1>5, <1>6, <1>7, <1>8,
     <1>9, <1>10, <1>11, <1>12, <1>13, <1>14, <1>15
     DEF Next, EnsureRunning, AwaitHealth, Forward

\* Every reachable state is well formed, whatever the server and its
\* subprocesses do.
THEOREM BaseInvariant == Spec => []BaseInv
<1>1. Init => BaseInv
  BY TimeoutsAssumption, PortsAssumption, NoneAssumption
     DEF Init, BaseInv, TypeOK, HandleInv, LockInv
<1>2. QED
  BY <1>1, BaseInvStep, PTL DEF Spec

\* TypeOK holds of every behaviour.
THEOREM TypeCorrect == Spec => []TypeOK
<1>1. BaseInv => TypeOK
  BY DEF BaseInv
<1>2. QED
  BY <1>1, BaseInvariant, PTL

\* The reaper never ends an instance that a request is still booting: its
\* idle time is at most the time waited, which the boot deadline bounds.
THEOREM BootSafe == Spec => []BootIsNotReaped
<1>1. BaseInv => BootIsNotReaped
  BY TimeoutsAssumption
     DEF BaseInv, TypeOK, HandleInv, LockInv, BootIsNotReaped, Idle
<1>2. QED
  BY <1>1, BaseInvariant, PTL

\* Without server crashes a live subprocess stays registered for its tenant,
\* on a port of its own, and is being awaited until it is ready.
LEMMA SafetyInvStep ==
    ASSUME MaxCrashes = 0
    PROVE  SafetyInv /\ [Next]_vars => SafetyInv'
<1> SUFFICES ASSUME BaseInv, LiveInv, DistinctPorts, UnreadyIsAwaited,
                    StopLeavesNoProcess, [Next]_vars
             PROVE  SafetyInv'
  BY DEF SafetyInv
<1>0. TypeOK /\ HandleInv /\ LockInv /\ BaseInv'
  BY BaseInvStep DEF BaseInv
<1> USE TimeoutsAssumption, NoneAssumption
<1> USE DEF instanceVars, callerVars, serverVars
<1>1. ASSUME NEW c \in Callers, NEW t \in Tenants, Request(c, t) PROVE SafetyInv'
  <2>1. LiveInv'
    BY <1>0, <1>1 DEF Request, LiveInv, TypeOK, HandleInv, Alive
  <2>2. DistinctPorts'
    BY <1>0, <1>1 DEF Request, DistinctPorts, Alive
  <2>3. UnreadyIsAwaited'
    BY <1>0, <1>1
       DEF Request, UnreadyIsAwaited, LiveInv, TypeOK, HandleInv, LockInv, Alive
  <2>4. StopLeavesNoProcess'
    BY <1>0, <1>1 DEF Request, StopLeavesNoProcess, LiveInv, TypeOK, HandleInv, Alive
  <2>5. QED
    BY <1>0, <2>1, <2>2, <2>3, <2>4 DEF SafetyInv
<1>2. ASSUME NEW c \in Callers, FindRunning(c) PROVE SafetyInv'
  <2>1. LiveInv'
    BY <1>0, <1>2 DEF FindRunning, LiveInv, TypeOK, HandleInv, Alive
  <2>2. DistinctPorts'
    BY <1>0, <1>2 DEF FindRunning, DistinctPorts, Alive
  <2>3. UnreadyIsAwaited'
    BY <1>0, <1>2
       DEF FindRunning, UnreadyIsAwaited, LiveInv, TypeOK, HandleInv, LockInv, Alive
  <2>4. StopLeavesNoProcess'
    BY <1>0, <1>2
       DEF FindRunning, StopLeavesNoProcess, LiveInv, TypeOK, HandleInv, Alive
  <2>5. QED
    BY <1>0, <2>1, <2>2, <2>3, <2>4 DEF SafetyInv
<1>3. ASSUME NEW c \in Callers, NEW p \in Pids, NEW q \in Ports, Spawn(c, p, q) PROVE SafetyInv'
  <2>1. LiveInv'
    BY <1>0, <1>3
       DEF Spawn, NoneRunning, Unreferenced, LiveInv, TypeOK, HandleInv, Alive
  <2>2. DistinctPorts'
    <3>1. \A r \in Pids : Alive(r) => port[r] # q
      BY <1>0, <1>3 DEF Spawn, PickPort, FreePorts, UsedPorts, LiveInv, TypeOK
    <3>2. ~Alive(p) /\ port'[p] = q
      BY <1>0, <1>3 DEF Spawn, Unreferenced, TypeOK
    <3>3. \A r \in Pids \ {p} : (Alive(r)' <=> Alive(r)) /\ port'[r] = port[r]
      BY <1>0, <1>3 DEF Spawn, Alive, TypeOK
    <3>4. QED
      BY <3>1, <3>2, <3>3 DEF DistinctPorts
  <2>3. UnreadyIsAwaited'
    BY <1>0, <1>3
       DEF Spawn, NoneRunning, Unreferenced, UnreadyIsAwaited, LiveInv, TypeOK,
           HandleInv, LockInv, Alive
  <2>4. StopLeavesNoProcess'
    BY <1>0, <1>3
       DEF Spawn, NoneRunning, Unreferenced, StopLeavesNoProcess, LiveInv, TypeOK,
           HandleInv, Alive
  <2>5. QED
    BY <1>0, <2>1, <2>2, <2>3, <2>4 DEF SafetyInv
<1>4. ASSUME NEW c \in Callers, NoPort(c) PROVE SafetyInv'
  <2>1. LiveInv'
    BY <1>0, <1>4 DEF NoPort, NoneRunning, LiveInv, TypeOK, HandleInv, Finish, Alive
  <2>2. DistinctPorts'
    BY <1>0, <1>4 DEF NoPort, NoneRunning, DistinctPorts, Finish, Alive
  <2>3. UnreadyIsAwaited'
    BY <1>0, <1>4
       DEF NoPort, NoneRunning, UnreadyIsAwaited, LiveInv, TypeOK, HandleInv,
           LockInv, Finish, Alive
  <2>4. StopLeavesNoProcess'
    BY <1>0, <1>4
       DEF NoPort, NoneRunning, StopLeavesNoProcess, LiveInv, TypeOK, HandleInv,
           Finish, Alive
  <2>5. QED
    BY <1>0, <2>1, <2>2, <2>3, <2>4 DEF SafetyInv
<1>5. ASSUME NEW c \in Callers, HealthUp(c) PROVE SafetyInv'
  <2>1. LiveInv'
    BY <1>0, <1>5 DEF HealthUp, LiveInv, TypeOK, HandleInv, Alive
  <2>2. DistinctPorts'
    BY <1>0, <1>5 DEF HealthUp, DistinctPorts, Alive
  <2>3. UnreadyIsAwaited'
    BY <1>0, <1>5
       DEF HealthUp, UnreadyIsAwaited, LiveInv, TypeOK, HandleInv, LockInv, Alive
  <2>4. StopLeavesNoProcess'
    BY <1>0, <1>5 DEF HealthUp, StopLeavesNoProcess, LiveInv, TypeOK, HandleInv, Alive
  <2>5. QED
    BY <1>0, <2>1, <2>2, <2>3, <2>4 DEF SafetyInv
<1>6. ASSUME NEW c \in Callers, HealthFail(c) PROVE SafetyInv'
  <2>1. LiveInv'
    BY <1>0, <1>6 DEF HealthFail, LiveInv, TypeOK, HandleInv, LockInv, Finish, Alive
  <2>2. DistinctPorts'
    <3>1. \A r \in Pids : (Alive(r)' => Alive(r)) /\ port'[r] = port[r]
      BY <1>0, <1>6 DEF HealthFail, Alive, TypeOK
    <3>2. QED
      BY <3>1 DEF DistinctPorts
  <2>3. UnreadyIsAwaited'
    BY <1>0, <1>6
       DEF HealthFail, UnreadyIsAwaited, LiveInv, TypeOK, HandleInv, LockInv, Finish,
           Alive
  <2>4. StopLeavesNoProcess'
    BY <1>0, <1>6
       DEF HealthFail, StopLeavesNoProcess, LiveInv, TypeOK, HandleInv, Finish, Alive
  <2>5. QED
    BY <1>0, <2>1, <2>2, <2>3, <2>4 DEF SafetyInv
<1>7. ASSUME NEW c \in Callers, NEW q \in Pids, Connect(c, q) PROVE SafetyInv'
  <2>1. LiveInv'
    BY <1>0, <1>7 DEF Connect, LiveInv, TypeOK, HandleInv, Alive
  <2>2. DistinctPorts'
    BY <1>0, <1>7 DEF Connect, DistinctPorts, Alive
  <2>3. UnreadyIsAwaited'
    BY <1>0, <1>7
       DEF Connect, UnreadyIsAwaited, LiveInv, TypeOK, HandleInv, LockInv, Alive
  <2>4. StopLeavesNoProcess'
    BY <1>0, <1>7 DEF Connect, StopLeavesNoProcess, LiveInv, TypeOK, HandleInv, Alive
  <2>5. QED
    BY <1>0, <2>1, <2>2, <2>3, <2>4 DEF SafetyInv
<1>8. ASSUME NEW c \in Callers, ConnectFail(c) \/ StreamEnd(c) PROVE SafetyInv'
  <2>1. LiveInv'
    BY <1>0, <1>8
       DEF ConnectFail, StreamEnd, LiveInv, TypeOK, HandleInv, Finish, Alive
  <2>2. DistinctPorts'
    BY <1>0, <1>8 DEF ConnectFail, StreamEnd, DistinctPorts, Finish, Alive
  <2>3. UnreadyIsAwaited'
    BY <1>0, <1>8
       DEF ConnectFail, StreamEnd, UnreadyIsAwaited, LiveInv, TypeOK, HandleInv,
           LockInv, Finish, Alive
  <2>4. StopLeavesNoProcess'
    BY <1>0, <1>8
       DEF ConnectFail, StreamEnd, StopLeavesNoProcess, LiveInv, TypeOK, HandleInv,
           Finish, Alive
  <2>5. QED
    BY <1>0, <2>1, <2>2, <2>3, <2>4 DEF SafetyInv
<1>9. ASSUME ReaperSweep PROVE SafetyInv'
  <2>1. LiveInv'
    BY <1>0, <1>9 DEF ReaperSweep, LiveInv, TypeOK, HandleInv, Alive, Reaped, Swept
  <2>2. DistinctPorts'
    <3>1. \A r \in Pids : (Alive(r)' => Alive(r)) /\ port'[r] = port[r]
      BY <1>0, <1>9 DEF ReaperSweep, Alive, TypeOK
    <3>2. QED
      BY <3>1 DEF DistinctPorts
  <2>3. UnreadyIsAwaited'
    BY <1>0, <1>9
       DEF ReaperSweep, UnreadyIsAwaited, LiveInv, TypeOK, HandleInv, LockInv, Alive
  <2>4. StopLeavesNoProcess'
    BY <1>0, <1>9
       DEF ReaperSweep, StopLeavesNoProcess, LiveInv, TypeOK, HandleInv, Alive
  <2>5. QED
    BY <1>0, <2>1, <2>2, <2>3, <2>4 DEF SafetyInv
<1>10. ASSUME NEW p \in Pids, Bind(p) \/ Die(p) PROVE SafetyInv'
  <2>1. LiveInv'
    BY <1>0, <1>10 DEF Bind, Die, LiveInv, TypeOK, HandleInv, Alive
  <2>2. DistinctPorts'
    <3>1. \A r \in Pids : (Alive(r)' => Alive(r)) /\ port'[r] = port[r]
      BY <1>0, <1>10 DEF Bind, Die, Alive, TypeOK
    <3>2. QED
      BY <3>1 DEF DistinctPorts
  <2>3. UnreadyIsAwaited'
    BY <1>0, <1>10
       DEF Bind, Die, UnreadyIsAwaited, LiveInv, TypeOK, HandleInv, LockInv, Alive
  <2>4. StopLeavesNoProcess'
    BY <1>0, <1>10
       DEF Bind, Die, StopLeavesNoProcess, LiveInv, TypeOK, HandleInv, Alive
  <2>5. QED
    BY <1>0, <2>1, <2>2, <2>3, <2>4 DEF SafetyInv
<1>11. ASSUME Tick PROVE SafetyInv'
  <2>1. LiveInv'
    BY <1>0, <1>11 DEF Tick, LiveInv, TypeOK, HandleInv, Alive
  <2>2. DistinctPorts'
    BY <1>0, <1>11 DEF Tick, DistinctPorts, Alive
  <2>3. UnreadyIsAwaited'
    BY <1>0, <1>11
       DEF Tick, UnreadyIsAwaited, LiveInv, TypeOK, HandleInv, LockInv, Alive
  <2>4. StopLeavesNoProcess'
    BY <1>0, <1>11 DEF Tick, StopLeavesNoProcess, LiveInv, TypeOK, HandleInv, Alive
  <2>5. QED
    BY <1>0, <2>1, <2>2, <2>3, <2>4 DEF SafetyInv
<1>12. ASSUME Shutdown PROVE SafetyInv'
  <2>1. LiveInv'
    BY <1>0, <1>12 DEF Shutdown, LiveInv, TypeOK, HandleInv, Alive
  <2>2. DistinctPorts'
    <3>1. \A r \in Pids : (Alive(r)' => Alive(r)) /\ port'[r] = port[r]
      BY <1>0, <1>12 DEF Shutdown, Alive, TypeOK
    <3>2. QED
      BY <3>1 DEF DistinctPorts
  <2>3. UnreadyIsAwaited'
    BY <1>0, <1>12
       DEF Shutdown, UnreadyIsAwaited, LiveInv, TypeOK, HandleInv, LockInv, Alive
  <2>4. StopLeavesNoProcess'
    BY <1>0, <1>12
       DEF Shutdown, StopLeavesNoProcess, LiveInv, TypeOK, HandleInv, Alive
  <2>5. QED
    BY <1>0, <2>1, <2>2, <2>3, <2>4 DEF SafetyInv
<1>13. ASSUME ServerCrash PROVE SafetyInv'
  BY <1>0, <1>13 DEF ServerCrash, TypeOK
<1>14. ASSUME ServerStart PROVE SafetyInv'
  <2>1. LiveInv'
    BY <1>0, <1>14 DEF ServerStart, LiveInv, TypeOK, HandleInv, Alive
  <2>2. DistinctPorts'
    BY <1>0, <1>14 DEF ServerStart, DistinctPorts, Alive
  <2>3. UnreadyIsAwaited'
    BY <1>0, <1>14
       DEF ServerStart, UnreadyIsAwaited, LiveInv, TypeOK, HandleInv, LockInv, Alive
  <2>4. StopLeavesNoProcess'
    BY <1>0, <1>14
       DEF ServerStart, StopLeavesNoProcess, LiveInv, TypeOK, HandleInv, Alive
  <2>5. QED
    BY <1>0, <2>1, <2>2, <2>3, <2>4 DEF SafetyInv
<1>15. ASSUME UNCHANGED vars PROVE SafetyInv'
  <2>1. LiveInv'
    BY <1>0, <1>15 DEF vars, LiveInv, TypeOK, HandleInv, Alive
  <2>2. DistinctPorts'
    BY <1>0, <1>15 DEF vars, DistinctPorts, Alive
  <2>3. UnreadyIsAwaited'
    BY <1>0, <1>15
       DEF vars, UnreadyIsAwaited, LiveInv, TypeOK, HandleInv, LockInv, Alive
  <2>4. StopLeavesNoProcess'
    BY <1>0, <1>15 DEF vars, StopLeavesNoProcess, LiveInv, TypeOK, HandleInv, Alive
  <2>5. QED
    BY <1>0, <2>1, <2>2, <2>3, <2>4 DEF SafetyInv
<1>16. QED
  BY <1>1, <1>2, <1>3, <1>4, <1>5, <1>6, <1>7, <1>8,
     <1>9, <1>10, <1>11, <1>12, <1>13, <1>14, <1>15
     DEF Next, EnsureRunning, AwaitHealth, Forward

\* A server that does not crash never loses a live subprocess: the lockless
\* reaper and the failing requests drop only instances that are dead.
THEOREM SafetyInvariant ==
    ASSUME MaxCrashes = 0
    PROVE  Spec => []SafetyInv
<1>1. Init => SafetyInv
  BY TimeoutsAssumption, PortsAssumption, NoneAssumption
     DEF Init, SafetyInv, BaseInv, TypeOK, HandleInv, LockInv, LiveInv, DistinctPorts,
         UnreadyIsAwaited, StopLeavesNoProcess, Alive
<1>2. QED
  BY <1>1, SafetyInvStep, PTL DEF Spec

\* Every live subprocess is the registered one of its tenant.
THEOREM NoEscape ==
    ASSUME MaxCrashes = 0
    PROVE  Spec => []LiveIsRegistered
<1>1. SafetyInv => LiveIsRegistered
  BY DEF SafetyInv, LiveInv, LiveIsRegistered
<1>2. QED
  BY <1>1, SafetyInvariant, PTL

\* Each tenant gets one subprocess at a time.
THEOREM OnePerTenant ==
    ASSUME MaxCrashes = 0
    PROVE  Spec => []OneProcessPerTenant
<1>1. SafetyInv => OneProcessPerTenant
  BY DEF SafetyInv, LiveInv, OneProcessPerTenant
<1>2. QED
  BY <1>1, SafetyInvariant, PTL

\* Two live subprocesses never share a port.
THEOREM PortsDistinct ==
    ASSUME MaxCrashes = 0
    PROVE  Spec => []DistinctPorts
<1>1. SafetyInv => DistinctPorts
  BY DEF SafetyInv
<1>2. QED
  BY <1>1, SafetyInvariant, PTL

\* A live instance that is not ready is awaited by the holder of its lock.
THEOREM UnreadyAwaited ==
    ASSUME MaxCrashes = 0
    PROVE  Spec => []UnreadyIsAwaited
<1>1. SafetyInv => UnreadyIsAwaited
  BY DEF SafetyInv
<1>2. QED
  BY <1>1, SafetyInvariant, PTL

\* An orderly stop leaves no subprocess behind.
THEOREM CleanStop ==
    ASSUME MaxCrashes = 0
    PROVE  Spec => []StopLeavesNoProcess
<1>1. SafetyInv => StopLeavesNoProcess
  BY DEF SafetyInv
<1>2. QED
  BY <1>1, SafetyInvariant, PTL
=============================================================================
