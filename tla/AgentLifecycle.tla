--------------------------- MODULE AgentLifecycle ---------------------------
(* Processes of `netllm serve` on one machine and one port: the singleton    *)
(* lock (a lock file per listen host and port, with the holder's pid in it), *)
(* the check of the port, the replacement of the agent that is there, and    *)
(* the drain of an agent that was told to stop.                              *)
(*                                                                           *)
(* A process that waits for another polls it; the deadline of a wait may     *)
(* pass at any moment.  The order of pids, by which lsof lists the owners of *)
(* a port, is arbitrary.                                                     *)
EXTENDS FiniteSets

CONSTANTS
    Procs, NoProc,
    Clients,   \* processes that keep a connection to the agent
    Other,     \* a server that is not netllm
    Hosts,     \* listen hosts: a lock file each, the port is the same
    Launches   \* who is started: sets of [host, replace, app, child, other]

ASSUME LifecycleAssumption ==
    /\ Clients \cap Procs = {} /\ {NoProc, Other} \cap (Procs \cup Clients) = {} /\ Other # NoProc
    /\ \A l \in Launches :
          /\ DOMAIN l.host \subseteq Procs /\ \A p \in DOMAIN l.host : l.host[p] \in Hosts
          /\ l.child \in Procs \cup {NoProc}

VARIABLES
    launch,     \* [host, replace, app: of a process; child: of the app; other]
    pc,
    lock,       \* host -> who holds the flock
    payload,    \* host -> pid in the lock file
    port,       \* who listens
    connected,  \* clients with a connection
    back,       \* where a process that stops another came from
    target, signalled

lifecycleVars == <<launch, pc, lock, payload, port, connected, back, target, signalled>>

Starting == {"lock", "read", "retry", "write", "held", "check", "stop", "find", "wait",
             "app", "bind"}
Alive(p) == pc[p] \in Starting \cup {"serving", "draining", "client"}
HostOf(p) == launch.host[p]

\* The flock goes with the process.
Freed(p) == [h \in Hosts |-> IF lock[h] = p THEN NoProc ELSE lock[h]]
Goto(p, where) == pc' = [pc EXCEPT ![p] = where]
Exit(p) == Goto(p, "dead") /\ lock' = Freed(p)

---------------------------------------------------------------------------
(* acquire_agent_lock *)

Start(p) ==
    /\ pc[p] = "idle" /\ p # launch.child
    /\ Goto(p, "lock")
    /\ UNCHANGED <<launch, lock, payload, port, connected, back, target, signalled>>

TryLock(p) ==
    /\ pc[p] = "lock"
    /\ IF lock[HostOf(p)] = NoProc
       THEN lock' = [lock EXCEPT ![HostOf(p)] = p] /\ Goto(p, "write")
       ELSE Goto(p, "read") /\ UNCHANGED lock
    /\ UNCHANGED <<launch, payload, port, connected, back, target, signalled>>

\* read_lock_info: a live pid is believed, otherwise the lock is tried again.
ReadPayload(p) ==
    /\ pc[p] = "read"
    /\ Goto(p, IF payload[HostOf(p)] # NoProc /\ Alive(payload[HostOf(p)]) THEN "held" ELSE "retry")
    /\ UNCHANGED <<launch, lock, payload, port, connected, back, target, signalled>>

RetryStale(p) ==
    /\ pc[p] = "retry"
    /\ lock' = [lock EXCEPT ![HostOf(p)] = p] /\ Goto(p, "write")
    /\ UNCHANGED <<launch, payload, port, connected, back, target, signalled>>
RetryLock(p) ==
    /\ pc[p] = "retry"
    /\ IF lock[HostOf(p)] = NoProc
       THEN lock' = [lock EXCEPT ![HostOf(p)] = p] /\ Goto(p, "write")
       ELSE Goto(p, "held") /\ UNCHANGED lock
    /\ UNCHANGED <<launch, payload, port, connected, back, target, signalled>>

WritePayload(p) ==
    /\ pc[p] = "write"
    /\ payload' = [payload EXCEPT ![HostOf(p)] = p]
    /\ Goto(p, "check")
    /\ UNCHANGED <<launch, lock, port, connected, back, target, signalled>>

\* _acquire_serve_lock: only --replace goes on, and only once.
LockHeld(p) ==
    /\ pc[p] = "held"
    /\ IF launch.replace[p] /\ back[p] # "lock"
       THEN Goto(p, "stop") /\ back' = [back EXCEPT ![p] = "lock"] /\ UNCHANGED lock
       ELSE Exit(p) /\ UNCHANGED back
    /\ UNCHANGED <<launch, payload, port, connected, target, signalled>>

---------------------------------------------------------------------------
(* serve: the port, then stop_netllm_on_port *)

\* With the menubar app's socket there, a CLI leaves the restart to the app.
Check(p) ==
    /\ pc[p] = "check"
    /\ IF port = NoProc THEN Goto(p, "bind") /\ UNCHANGED <<lock, back>>
       ELSE IF port = Other \/ ~launch.replace[p] THEN Exit(p) /\ UNCHANGED back
       ELSE IF launch.app[p] THEN Goto(p, "app") /\ UNCHANGED <<lock, back>>
       ELSE Goto(p, "stop") /\ back' = [back EXCEPT ![p] = "bind"] /\ UNCHANGED lock
    /\ UNCHANGED <<launch, payload, port, connected, target, signalled>>

\* The listener has to answer as an agent.
StopProbe(p) ==
    /\ pc[p] = "stop"
    /\ IF port \in Procs THEN Goto(p, "find") /\ UNCHANGED lock ELSE Exit(p)
    /\ UNCHANGED <<launch, payload, port, connected, back, target, signalled>>

\* lsof lists every process with a socket on the port, the first is taken.
OnPort == ({port} \ {NoProc}) \cup connected \cup {q \in Procs : pc[q] = "draining"}

\* A SIGTERM frees the listener at once; requests in flight go on.
Signal(p) ==
    /\ pc[p] = "find"
    /\ \/ /\ OnPort = {} /\ Exit(p)
          /\ UNCHANGED <<port, connected, target, signalled>>
       \/ \E t \in OnPort \ {Other} :
            /\ target' = [target EXCEPT ![p] = t]
            /\ signalled' = [signalled EXCEPT ![p] = @ \cup {t}]
            /\ pc' = [pc EXCEPT ![p] = "wait", ![t] = IF t \in Clients THEN "dead" ELSE "draining"]
            /\ port' = IF port = t THEN NoProc ELSE port
            /\ connected' = connected \ {t}
            /\ UNCHANGED lock
    /\ UNCHANGED <<launch, payload, back>>

\* The process is gone and the port is free.
StopWaitPort(p) ==
    /\ pc[p] = "wait" /\ port = NoProc
    /\ Goto(p, back[p])
    /\ UNCHANGED <<launch, lock, payload, port, connected, back, target, signalled>>
StopWait(p) ==
    /\ pc[p] = "wait" /\ ~Alive(target[p]) /\ port = NoProc
    /\ Goto(p, back[p])
    /\ UNCHANGED <<launch, lock, payload, port, connected, back, target, signalled>>

\* The grace is over: SIGKILL, and then the port alone decides.
Escalate(p) ==
    /\ pc[p] = "wait" /\ (Alive(target[p]) \/ port # NoProc)
    /\ pc' = [pc EXCEPT ![target[p]] = "dead", ![p] = IF port = NoProc THEN back[p] ELSE "dead"]
    /\ lock' = [h \in Hosts |->
                   IF lock[h] = target[p] \/ (lock[h] = p /\ port # NoProc) THEN NoProc ELSE lock[h]]
    /\ UNCHANGED <<launch, payload, port, connected, back, target, signalled>>

\* The app stops the agent it supervises and starts another, while the CLI
\* that asked waits with its lock; it gives up when it likes.
AppRestart(p) ==
    /\ pc[p] = "app" /\ pc[launch.child] = "idle"
    /\ pc' = [q \in DOMAIN pc |-> IF q = port THEN "dead" ELSE IF q = launch.child THEN "lock" ELSE pc[q]]
    /\ lock' = Freed(port)
    /\ port' = IF port \in Procs THEN NoProc ELSE port
    /\ UNCHANGED <<launch, payload, connected, back, target, signalled>>
AppAnswered(p) ==
    /\ pc[p] = "app" /\ pc[launch.child] # "idle"
    /\ Exit(p)
    /\ UNCHANGED <<launch, payload, port, connected, back, target, signalled>>

\* uvicorn binds, or fails and the lock is released.
Bind(p) ==
    /\ pc[p] = "bind"
    /\ IF port = NoProc THEN port' = p /\ Goto(p, "serving") /\ UNCHANGED lock
       ELSE Exit(p) /\ UNCHANGED port
    /\ UNCHANGED <<launch, payload, connected, back, target, signalled>>

---------------------------------------------------------------------------
(* The agent's end, the clients *)

Shutdown(p) ==
    /\ pc[p] = "serving" /\ Goto(p, "draining") /\ port' = NoProc
    /\ UNCHANGED <<launch, lock, payload, connected, back, target, signalled>>
Drained(p) ==
    /\ pc[p] = "draining" /\ Exit(p)
    /\ UNCHANGED <<launch, payload, port, connected, back, target, signalled>>
\* A crash leaves the payload behind.
Crash(p) ==
    /\ pc[p] \in Starting \cup {"serving", "draining"} /\ Exit(p)
    /\ port' = IF port = p THEN NoProc ELSE port
    /\ UNCHANGED <<launch, payload, connected, back, target, signalled>>
Connect(c) ==
    /\ pc[c] = "client" /\ c \notin connected /\ port \in Procs
    /\ connected' = connected \cup {c}
    /\ UNCHANGED <<launch, pc, lock, payload, port, back, target, signalled>>
Disconnect(c) ==
    /\ c \in connected /\ connected' = connected \ {c}
    /\ UNCHANGED <<launch, pc, lock, payload, port, back, target, signalled>>

LifecycleInit ==
    /\ launch \in Launches
    /\ pc = [p \in Procs \cup Clients |-> IF p \in Clients THEN "client" ELSE "idle"]
    /\ lock = [h \in Hosts |-> NoProc] /\ payload = [h \in Hosts |-> NoProc]
    /\ port = IF launch.other THEN Other ELSE NoProc
    /\ connected = {}
    /\ back = [p \in Procs |-> ""] /\ target = [p \in Procs |-> NoProc]
    /\ signalled = [p \in Procs |-> {}]

LifecycleNext ==
    \/ \E p \in DOMAIN launch.host :
        \/ Start(p) \/ TryLock(p) \/ ReadPayload(p) \/ RetryLock(p) \/ WritePayload(p) \/ LockHeld(p)
        \/ Check(p) \/ StopProbe(p) \/ Signal(p) \/ StopWait(p) \/ Escalate(p)
        \/ AppRestart(p) \/ AppAnswered(p) \/ Bind(p) \/ Shutdown(p) \/ Drained(p) \/ Crash(p)
    \/ \E c \in Clients : Connect(c) \/ Disconnect(c)

LifecycleSpec == LifecycleInit /\ [][LifecycleNext]_lifecycleVars

---------------------------------------------------------------------------
(* Properties *)

\* While an agent serves, no other process of that address still drains, and
\* none it was told to replace is left half dead with its announcements.
OneAgentPerAddress ==
    \A p, q \in Procs :
        p # q /\ pc[p] = "serving" /\ pc[q] \in {"serving", "draining"}
        => HostOf(p) # HostOf(q) /\ q \notin signalled[p]

\* "Best-effort PID listening on TCP port": only agents are signalled.
OnlyAgentsSignalled == \A p \in Procs : signalled[p] \subseteq Procs
\* "Another live process holds the agent lock": its payload names a live one.
HolderIsNamed ==
    [][\A p \in Procs : pc[p] = "held" /\ pc'[p] = "dead" /\ ~launch.replace[p]
        => payload[HostOf(p)] # NoProc /\ Alive(payload[HostOf(p)])]_lifecycleVars
\* The agent the app starts does not give up over the lock of the command
\* that asked for it.
RestartIsNotItsOwnRival ==
    [][launch.child \in Procs /\ pc[launch.child] = "held" /\ pc'[launch.child] # "held"
        => pc[lock[HostOf(launch.child)]] # "app"]_lifecycleVars
=============================================================================
