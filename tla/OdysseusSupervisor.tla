------------------------- MODULE OdysseusSupervisor -------------------------
(***************************************************************************)
(* The process-per-tenant supervisor of app/odysseus_bridge/supervisor.py  *)
(* and the request path of app/odysseus_bridge/proxy.py that uses it.      *)
(*                                                                         *)
(* One asyncio process serves the requests, so a handler is atomic between *)
(* two awaits.  A request (a "caller") asks for its tenant's instance,     *)
(* waits for the tenant lock, finds or spawns the subprocess, awaits its   *)
(* health, provisions its user (an await; the user store is not modelled   *)
(* here), opens the upstream connection and streams the answer.  Around it *)
(* run the idle reaper, which takes no lock, the operating system, which   *)
(* may end a subprocess at any time, and the stop, crash and restart of    *)
(* the server itself.                                                      *)
(*                                                                         *)
(* A subprocess and the Instance object that wraps it are one element of   *)
(* Pids.  An element is used again once the process is dead and nothing    *)
(* refers to it, which keeps the model finite.                             *)
(***************************************************************************)
EXTENDS Naturals

CONSTANTS
    Tenants,      \* tenant ids
    Callers,      \* concurrent proxied requests
    Pids,         \* subprocesses, with their Instance objects
    Ports,        \* the scan range that starts at odysseus_port_base
    None,
    BootTimeout,  \* odysseus_boot_timeout_s, in ticks longer than one probe
    IdleTimeout,  \* odysseus_idle_timeout_s, in the same ticks; 0 = never
    MaxCrashes    \* bound on crashes of the server

\* The shipped configuration waits 90 s for a boot and reaps after 1800 s
\* (config.py, lines 107 and 112).
ASSUME TimeoutsAssumption ==
    /\ BootTimeout \in Nat /\ IdleTimeout \in Nat /\ MaxCrashes \in Nat
    /\ BootTimeout > 0
    /\ IdleTimeout = 0 \/ IdleTimeout > BootTimeout

ASSUME PortsAssumption == Ports \subseteq Nat

ASSUME NoneAssumption == None \notin Tenants \cup Callers \cup Pids \cup Ports

VARIABLES
    proc,      \* operating system: state of each subprocess
    owner,     \* Instance.tenant_id
    port,      \* Instance.port
    ready,     \* Instance.ready
    idle,      \* now - Instance.last_used, saturating above IdleTimeout
    registry,  \* OdysseusSupervisor._instances
    lock,      \* OdysseusSupervisor._locks: the holder
    pc,        \* where each request is
    want,      \* the tenant of each request
    held,      \* the local variable inst of each request
    waited,    \* time each request has spent in _await_health
    server,    \* the subprocess whose answer a request is streaming
    serving,   \* the MyAi server process is up
    crashes    \* crashes of the server so far (bounded by MaxCrashes)

instanceVars == <<proc, owner, port, ready, idle>>
callerVars == <<pc, want, held, waited, server>>
serverVars == <<serving, crashes>>
vars == <<instanceVars, registry, lock, callerVars, serverVars>>

-----------------------------------------------------------------------------
(* Operators on the state.                                                 *)

\* Instance.alive: proc.poll() is None.
Alive(p) == proc[p] # "dead"

\* A process accepts connections on its port.
Listening(p) == proc[p] = "up"

\* The probe of _port_free: nobody accepts a connection.
PortFree(q) == \A p \in Pids : Listening(p) => port[p] # q

\* Fault: only the probe is trusted.
ProbeOnlyPorts == {}

\* The ports of the registered instances that are alive.
UsedPorts == {port[registry[t]] : t \in {u \in Tenants :
                  registry[u] # None /\ Alive(registry[u])}}

FreePorts == {q \in Ports : q \notin UsedPorts /\ PortFree(q)}

\* _pick_port: the first port of the upward scan that is unused and free.
PickPort(q) == q \in FreePorts /\ \A r \in FreePorts : q <= r

\* An element of Pids that no request and no tenant but t refers to any more.
Unreferenced(p, t) ==
    /\ ~Alive(p)
    /\ \A u \in Tenants \ {t} : registry[u] # p
    /\ \A c \in Callers : held[c] # p /\ server[c] # p

-----------------------------------------------------------------------------

Init ==
    /\ proc = [p \in Pids |-> "dead"]
    /\ owner = [p \in Pids |-> None]
    /\ port = [p \in Pids |-> None]
    /\ ready = [p \in Pids |-> FALSE]
    /\ idle = [p \in Pids |-> 0]
    /\ registry = [t \in Tenants |-> None]
    /\ lock = [t \in Tenants |-> None]
    /\ pc = [c \in Callers |-> "idle"]
    /\ want = [c \in Callers |-> None]
    /\ held = [c \in Callers |-> None]
    /\ waited = [c \in Callers |-> 0]
    /\ server = [c \in Callers |-> None]
    /\ serving = TRUE
    /\ crashes = 0

\* What a request leaves behind when its handler is over.
Finish(c) ==
    /\ pc' = [pc EXCEPT ![c] = "idle"]
    /\ want' = [want EXCEPT ![c] = None]
    /\ held' = [held EXCEPT ![c] = None]
    /\ waited' = [waited EXCEPT ![c] = 0]
    /\ server' = [server EXCEPT ![c] = None]

-----------------------------------------------------------------------------
(* The request path.                                                       *)

\* A proxied request arrives; it will queue for the lock of its tenant.
Request(c, t) ==
    /\ serving
    /\ pc[c] = "idle"
    /\ pc' = [pc EXCEPT ![c] = "lock"]
    /\ want' = [want EXCEPT ![c] = t]
    /\ UNCHANGED <<instanceVars, registry, lock, held, waited, server, serverVars>>

\* ensure_running finds a registered, live, ready instance: it is returned
\* with no await, so the lock is taken and released in this step.
\* (A live instance that is not ready is never found here: see
\* UnreadyIsAwaited.)
FindRunning(c) ==
    LET p == registry[want[c]] IN
    /\ pc[c] = "lock"
    /\ lock[want[c]] = None
    /\ p # None /\ Alive(p) /\ ready[p]
    /\ idle' = [idle EXCEPT ![p] = 0]
    /\ held' = [held EXCEPT ![c] = p]
    /\ pc' = [pc EXCEPT ![c] = "provision"]
    /\ UNCHANGED <<proc, owner, port, ready, registry, lock, want, waited, server, serverVars>>

NoneRunning(c) ==
    /\ pc[c] = "lock"
    /\ lock[want[c]] = None
    /\ registry[want[c]] # None => ~Alive(registry[want[c]])

\* Fault: the Instance keeps the last_used of an earlier one.
SpawnKeepingLastUsed(c, p, q) ==
    LET t == want[c] IN
    /\ NoneRunning(c)
    /\ Unreferenced(p, t)
    /\ PickPort(q)
    /\ proc' = [proc EXCEPT ![p] = "booting"]
    /\ owner' = [owner EXCEPT ![p] = t]
    /\ port' = [port EXCEPT ![p] = q]
    /\ ready' = [ready EXCEPT ![p] = FALSE]
    /\ registry' = [registry EXCEPT ![t] = p]
    /\ lock' = [lock EXCEPT ![t] = c]
    /\ held' = [held EXCEPT ![c] = p]
    /\ pc' = [pc EXCEPT ![c] = "boot"]
    /\ UNCHANGED <<idle, want, waited, server, serverVars>>

\* ensure_running finds none, or a dead one: it picks a port, spawns the
\* process, registers it and awaits its health, holding the lock.
Spawn(c, p, q) ==
    LET t == want[c] IN
    /\ NoneRunning(c)
    /\ Unreferenced(p, t)
    /\ PickPort(q)
    /\ proc' = [proc EXCEPT ![p] = "booting"]
    /\ owner' = [owner EXCEPT ![p] = t]
    /\ port' = [port EXCEPT ![p] = q]
    /\ ready' = [ready EXCEPT ![p] = FALSE]
    /\ idle' = [idle EXCEPT ![p] = 0]
    /\ registry' = [registry EXCEPT ![t] = p]
    /\ lock' = [lock EXCEPT ![t] = c]
    /\ held' = [held EXCEPT ![c] = p]
    /\ waited' = [waited EXCEPT ![c] = 0]
    /\ pc' = [pc EXCEPT ![c] = "boot"]
    /\ UNCHANGED <<want, server, serverVars>>

\* _pick_port raises: the request is answered 502 and the lock released.
NoPort(c) ==
    /\ NoneRunning(c)
    /\ FreePorts = {}
    /\ Finish(c)
    /\ UNCHANGED <<instanceVars, registry, lock, serverVars>>

\* _await_health: the process is alive and something answers on its port.
HealthUp(c) ==
    LET p == held[c] IN
    /\ pc[c] = "boot"
    /\ waited[c] < BootTimeout
    /\ Alive(p)
    /\ ~PortFree(port[p])
    /\ ready' = [ready EXCEPT ![p] = TRUE]
    /\ idle' = [idle EXCEPT ![p] = 0]
    /\ lock' = [lock EXCEPT ![want[c]] = None]
    /\ waited' = [waited EXCEPT ![c] = 0]
    /\ pc' = [pc EXCEPT ![c] = "provision"]
    /\ UNCHANGED <<proc, owner, port, registry, want, held, server, serverVars>>

\* Fault: _await_health polls for ever.
HealthFailNoDeadline(c) ==
    LET p == held[c] IN
    /\ pc[c] = "boot"
    /\ ~Alive(p)
    /\ registry' = [registry EXCEPT ![owner[p]] = None]
    /\ lock' = [lock EXCEPT ![want[c]] = None]
    /\ Finish(c)
    /\ UNCHANGED <<instanceVars, serverVars>>

\* _await_health gives up, because the process died or the deadline passed:
\* _kill ends it and removes whatever is registered for its tenant, and the
\* RuntimeError becomes a 502.
HealthFail(c) ==
    LET p == held[c] IN
    /\ pc[c] = "boot"
    /\ Alive(p) => waited[c] >= BootTimeout
    /\ proc' = [proc EXCEPT ![p] = "dead"]
    /\ registry' = [registry EXCEPT ![owner[p]] = None]
    /\ lock' = [lock EXCEPT ![want[c]] = None]
    /\ Finish(c)
    /\ UNCHANGED <<owner, port, ready, idle, serverVars>>

\* After the awaits of ensure_user and of the request body, the proxy
\* connects to the port it remembers, whoever listens there now.
Connect(c, q) ==
    /\ pc[c] = "provision"
    /\ Listening(q)
    /\ port[q] = port[held[c]]
    /\ server' = [server EXCEPT ![c] = q]
    /\ pc' = [pc EXCEPT ![c] = "stream"]
    /\ UNCHANGED <<instanceVars, registry, lock, want, held, waited, serverVars>>

\* Nobody listens there: 502.
ConnectFail(c) ==
    /\ pc[c] = "provision"
    /\ PortFree(port[held[c]])
    /\ Finish(c)
    /\ UNCHANGED <<instanceVars, registry, lock, serverVars>>

\* The answer has been streamed, the client went away or the upstream died.
StreamEnd(c) ==
    /\ pc[c] = "stream"
    /\ Finish(c)
    /\ UNCHANGED <<instanceVars, registry, lock, serverVars>>

-----------------------------------------------------------------------------
(* The reaper, the operating system, time, and the server's own life.      *)

Idle(p) == Alive(p) /\ idle[p] > IdleTimeout

\* The tenants whose instance one sweep kills, and those whose entry it drops.
Reaped == {t \in Tenants : registry[t] # None /\ Idle(registry[t])}
Swept == Reaped \cup {t \in Tenants : registry[t] # None /\ ~Alive(registry[t])}

\* Fault: the sweep forgets an idle instance instead of killing it.
ReaperSweepNoKill ==
    /\ serving
    /\ IdleTimeout > 0
    /\ Swept # {}
    /\ registry' = [t \in Tenants |-> IF t \in Swept THEN None ELSE registry[t]]
    /\ UNCHANGED <<instanceVars, lock, callerVars, serverVars>>

\* One sweep of reaper_loop: it has no await, so it is one step.  Dead
\* instances are dropped, idle ones killed, and no lock is taken.
ReaperSweep ==
    /\ serving
    /\ IdleTimeout > 0
    /\ Swept # {}
    /\ proc' = [p \in Pids |-> IF \E t \in Reaped : registry[t] = p
                               THEN "dead" ELSE proc[p]]
    /\ registry' = [t \in Tenants |-> IF t \in Swept THEN None ELSE registry[t]]
    /\ UNCHANGED <<owner, port, ready, idle, lock, callerVars, serverVars>>

\* The subprocess binds its port; if the port is taken it exits.
Bind(p) ==
    /\ proc[p] = "booting"
    /\ proc' = [proc EXCEPT ![p] = IF PortFree(port[p]) THEN "up" ELSE "dead"]
    /\ UNCHANGED <<owner, port, ready, idle, registry, lock, callerVars, serverVars>>

\* The subprocess ends by itself.
Die(p) ==
    /\ Alive(p)
    /\ proc' = [proc EXCEPT ![p] = "dead"]
    /\ UNCHANGED <<owner, port, ready, idle, registry, lock, callerVars, serverVars>>

\* Time passes.  A request whose deadline has come acts before the next tick.
Tick ==
    /\ serving
    /\ \A c \in Callers : pc[c] = "boot" => waited[c] < BootTimeout
    /\ waited' = [c \in Callers |-> IF pc[c] = "boot" THEN waited[c] + 1 ELSE waited[c]]
    /\ idle' = [p \in Pids |-> IF Alive(p) /\ idle[p] <= IdleTimeout
                               THEN idle[p] + 1 ELSE idle[p]]
    /\ UNCHANGED <<proc, owner, port, ready, registry, lock, pc, want, held, server, serverVars>>

\* Fault: shutdown_all only forgets the instances.
ShutdownNoKill ==
    /\ serving
    /\ \A c \in Callers : pc[c] = "idle"
    /\ registry' = [t \in Tenants |-> None]
    /\ serving' = FALSE
    /\ UNCHANGED <<instanceVars, lock, callerVars, crashes>>

\* The server drains its requests, then shutdown_all kills what is registered.
Shutdown ==
    /\ serving
    /\ \A c \in Callers : pc[c] = "idle"
    /\ proc' = [p \in Pids |-> IF \E t \in Tenants : registry[t] = p
                               THEN "dead" ELSE proc[p]]
    /\ registry' = [t \in Tenants |-> None]
    /\ serving' = FALSE
    /\ UNCHANGED <<owner, port, ready, idle, lock, callerVars, crashes>>

\* The server process is killed: its memory goes, its subprocesses stay.
ServerCrash ==
    /\ serving
    /\ crashes < MaxCrashes
    /\ crashes' = crashes + 1
    /\ serving' = FALSE
    /\ registry' = [t \in Tenants |-> None]
    /\ lock' = [t \in Tenants |-> None]
    /\ pc' = [c \in Callers |-> "idle"]
    /\ want' = [c \in Callers |-> None]
    /\ held' = [c \in Callers |-> None]
    /\ waited' = [c \in Callers |-> 0]
    /\ server' = [c \in Callers |-> None]
    /\ UNCHANGED instanceVars

\* A new server process: __init__ of OdysseusSupervisor.
ServerStart ==
    /\ ~serving
    /\ serving' = TRUE
    /\ UNCHANGED <<instanceVars, registry, lock, callerVars, crashes>>

-----------------------------------------------------------------------------

EnsureRunning(c) ==
    \/ FindRunning(c)
    \/ \E p \in Pids, q \in Ports : Spawn(c, p, q)
    \/ NoPort(c)

AwaitHealth(c) == HealthUp(c) \/ HealthFail(c)

Forward(c) == (\E q \in Pids : Connect(c, q)) \/ ConnectFail(c)

Next ==
    \/ \E c \in Callers, t \in Tenants : Request(c, t)
    \/ \E c \in Callers : EnsureRunning(c) \/ AwaitHealth(c) \/ Forward(c) \/ StreamEnd(c)
    \/ ReaperSweep
    \/ \E p \in Pids : Bind(p) \/ Die(p)
    \/ Tick
    \/ Shutdown
    \/ ServerCrash
    \/ ServerStart

Spec == Init /\ [][Next]_vars

(* The event loop runs every handler that can run.  asyncio.Lock wakes its *)
(* waiters in order of arrival, which strong fairness of EnsureRunning     *)
(* stands for.  Time passes and the client or the upstream ends a stream.  *)
Fairness ==
    /\ \A c \in Callers : SF_vars(EnsureRunning(c))
    /\ \A c \in Callers : WF_vars(AwaitHealth(c)) /\ WF_vars(Forward(c))
    /\ \A c \in Callers : WF_vars(StreamEnd(c))
    /\ WF_vars(Tick)

FairSpec == Spec /\ Fairness

-----------------------------------------------------------------------------
(* Properties.                                                             *)

\* The shape of the state.
TypeOK ==
    /\ proc \in [Pids -> {"dead", "booting", "up"}]
    /\ owner \in [Pids -> Tenants \cup {None}]
    /\ port \in [Pids -> Ports \cup {None}]
    /\ ready \in [Pids -> BOOLEAN]
    /\ idle \in [Pids -> 0 .. IdleTimeout + 1]
    /\ registry \in [Tenants -> Pids \cup {None}]
    /\ lock \in [Tenants -> Callers \cup {None}]
    /\ pc \in [Callers -> {"idle", "lock", "boot", "provision", "stream"}]
    /\ want \in [Callers -> Tenants \cup {None}]
    /\ held \in [Callers -> Pids \cup {None}]
    /\ waited \in [Callers -> 0 .. BootTimeout]
    /\ server \in [Callers -> Pids \cup {None}]
    /\ serving \in BOOLEAN
    /\ crashes \in 0 .. MaxCrashes

\* Each tenant gets ONE isolated subprocess (supervisor.py, line 3): whatever
\* boots, fails, is reaped or dies meanwhile, two live subprocesses never
\* serve one tenant's data directory.
OneProcessPerTenant ==
    \A p, q \in Pids : Alive(p) /\ Alive(q) /\ owner[p] = owner[q] => p = q

\* No subprocess escapes the supervisor: a live one is the one registered for
\* its tenant, so the reaper and shutdown_all reach it.  The lockless reaper
\* and the pop by tenant id in _kill must never drop another live instance.
LiveIsRegistered == \A p \in Pids : Alive(p) => registry[owner[p]] = p

\* Two live subprocesses never share a port, though a spawned one does not
\* accept connections, and so looks free to _port_free, until it has booted.
DistinctPorts ==
    \A p, q \in Pids : Alive(p) /\ Alive(q) /\ port[p] = port[q] => p = q

\* A live instance that is not ready is being awaited by the request that
\* holds its tenant's lock: no request ever finds one, so the recycling
\* branch of ensure_running (lines 115 to 120) is not reached.
UnreadyIsAwaited ==
    \A p \in Pids : Alive(p) /\ ~ready[p] =>
        \E c \in Callers : pc[c] = "boot" /\ held[c] = p /\ lock[owner[p]] = c

\* The reaper takes no lock, yet an instance still booting is out of its
\* reach: its idle time never exceeds the time its request has waited.
BootIsNotReaped ==
    IdleTimeout > 0 => \A c \in Callers : pc[c] = "boot" => ~Idle(held[c])

\* After an orderly stop no subprocess is left behind.
StopLeavesNoProcess == ~serving => \A p \in Pids : ~Alive(p)

\* Every proxied request is answered, whatever its instance does.
EveryRequestEnds == \A c \in Callers : (pc[c] # "idle") ~> (pc[c] = "idle")

\* What the handles kept by the registry and by the requests refer to.
HandleInv ==
    /\ \A t \in Tenants : registry[t] # None =>
           owner[registry[t]] = t /\ port[registry[t]] \in Ports
    /\ \A c \in Callers :
           /\ pc[c] # "idle" => serving /\ want[c] \in Tenants
           /\ pc[c] \in {"boot", "provision", "stream"} =>
                  held[c] \in Pids /\ owner[held[c]] = want[c] /\ port[held[c]] \in Ports

\* The holder of a lock is the request booting its tenant's instance; nobody
\* else registers an instance of that tenant meanwhile.
LockInv ==
    /\ \A c \in Callers : pc[c] = "boot" =>
           /\ lock[want[c]] = c
           /\ registry[want[c]] \in {None, held[c]}
           /\ Alive(held[c]) => idle[held[c]] <= waited[c]
    /\ \A t \in Tenants : lock[t] # None => pc[lock[t]] = "boot" /\ want[lock[t]] = t

BaseInv == TypeOK /\ HandleInv /\ LockInv

\* A live subprocess is a spawned one, and registered.
LiveInv ==
    \A p \in Pids : Alive(p) =>
        owner[p] \in Tenants /\ port[p] \in Ports /\ registry[owner[p]] = p

\* The inductive invariant of a server that never crashes.
SafetyInv == BaseInv /\ LiveInv /\ DistinctPorts /\ UnreadyIsAwaited /\ StopLeavesNoProcess

\* Isolation between tenants (supervisor.py, lines 7 and 8): a request is
\* answered by a subprocess of its own tenant.
ServedByOwnTenant ==
    \A c \in Callers : pc[c] = "stream" => owner[server[c]] = want[c]

=============================================================================
