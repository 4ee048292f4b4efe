------------------------------ MODULE Runtime ------------------------------
(***************************************************************************)
(* The life of runtimes behind the public functions of fleet.h: init,      *)
(* shutdown and command, called by any number of threads.  The published   *)
(* runtime is an atomic shared_ptr; init builds and starts a new runtime   *)
(* before it replaces the old one; a runtime is destroyed by whichever     *)
(* thread drops its last reference, and its destructor joins the threads   *)
(* of every driver and closes its socket.                                  *)
(***************************************************************************)
EXTENDS Integers

CONSTANTS
    Client,         \* threads of the application
    DriverCount,    \* drivers of a runtime, one per channel in use
    FixedPort,      \* the drivers whose channel has a fixed local_port
    MaxRuntime      \* bound: runtimes created

Driver == 1..DriverCount
Run == 1..MaxRuntime
None == 0

ASSUME CountsAreNat == DriverCount \in Nat /\ MaxRuntime \in Nat /\ FixedPort \subseteq Driver

VARIABLES
    created,    \* how many runtimes were made
    driver,     \* the state of each driver of each runtime
    handling,   \* the receive threads that are inside handle_packet
    runtime,    \* the published runtime
    pc,         \* where each client is
    held,       \* the shared_ptr in its stack frame
    victim,     \* the runtime whose destructor it runs
    at          \* the driver its loop has come to

vars == <<created, driver, handling, runtime, pc, held, victim, at>>

\* "open": constructed, its socket bound; "running": its receive thread started;
\* "stopping": asked to stop; "stopped": threads joined and socket closed.
DriverState == {"none", "open", "running", "stopping", "stopped", "freed"}

Init ==
    /\ created = 0
    /\ driver = [r \in Run |-> [d \in Driver |-> "none"]]
    /\ handling = {}
    /\ runtime = None
    /\ pc = [c \in Client |-> "idle"]
    /\ held = [c \in Client |-> None]
    /\ victim = [c \in Client |-> None]
    /\ at = [c \in Client |-> 1]

Goto(c, where) == pc' = [pc EXCEPT ![c] = where]
Rewind(c) == at' = [at EXCEPT ![c] = 1]
Step(c) == at' = [at EXCEPT ![c] = @ + 1]
SetDriver(r, d, state) == driver' = [driver EXCEPT ![r][d] = state]

IsHeld(r) == \E c \in Client : held[c] = r

SocketOpen(r, d) == driver[r][d] \in {"open", "running", "stopping"}
-----------------------------------------------------------------------------
(* init *)

\* A configuration that is not valid fails before anything is opened.
BeginInit(c, valid) ==
    /\ pc[c] = "idle"
    /\ created < MaxRuntime
    /\ created' = created + 1
    /\ held' = [held EXCEPT ![c] = created + 1]
    /\ Goto(c, IF valid THEN "constructing" ELSE "returning")
    /\ UNCHANGED <<driver, handling, runtime, victim, at>>

\* A fixed port is bound by one runtime at a time.
PortHeld(d) == d \in FixedPort /\ \E r \in Run : SocketOpen(r, d)

\* init_drivers: the constructor of the next driver binds its socket.
Construct(c) ==
    /\ pc[c] = "constructing"
    /\ at[c] <= DriverCount
    /\ ~PortHeld(at[c])
    /\ SetDriver(held[c], at[c], "open")
    /\ Step(c)
    /\ UNCHANGED <<created, handling, runtime, pc, held, victim>>

\* Or it throws, as it must when its port is held: for what the configuration
\* says of the channel (Topology) or for want of a socket or of memory.  The
\* drivers before it stay open until the runtime is destroyed.
ConstructorThrows(c) ==
    /\ pc[c] = "constructing"
    /\ at[c] <= DriverCount
    /\ Goto(c, "returning")
    /\ Rewind(c)
    /\ UNCHANGED <<created, driver, handling, runtime, held, victim>>

\* bind_motors meets a model that is not in the motor table.
BindFails(c) ==
    /\ pc[c] = "constructing"
    /\ at[c] > DriverCount
    /\ Goto(c, "returning")
    /\ Rewind(c)
    /\ UNCHANGED <<created, driver, handling, runtime, held, victim>>

PublishWhenBound == "publishing"

\* bind_motors done, init starts the drivers before it publishes.
WhenBound == "starting"

ConstructEnds(c) ==
    /\ pc[c] = "constructing"
    /\ at[c] > DriverCount
    /\ Goto(c, WhenBound)
    /\ Rewind(c)
    /\ UNCHANGED <<created, driver, handling, runtime, held, victim>>

StartDriver(c) ==
    /\ pc[c] = "starting"
    /\ IF at[c] <= DriverCount
       THEN SetDriver(held[c], at[c], "running") /\ Step(c) /\ UNCHANGED pc
       ELSE Goto(c, "publishing") /\ Rewind(c) /\ UNCHANGED driver
    /\ UNCHANGED <<created, handling, runtime, held, victim>>

\* A thread that cannot be created throws: the receive thread of the driver the
\* loop has come to, or the transmit thread of the one before, whose receive
\* thread runs already.  Every driver is stopped again.
StartFails(c) ==
    /\ pc[c] = "starting"
    /\ DriverCount > 0
    /\ Goto(c, "unwinding")
    /\ Rewind(c)
    /\ UNCHANGED <<created, driver, handling, runtime, held, victim>>

NotJoined(r, d) == TRUE

\* The receive thread has left its handler, and the loop with it.
Joined(r, d) == <<r, d>> \notin handling

\* motor_driver::stop of the driver the loop has come to: it asks the threads to
\* stop, joins them and closes the socket; a stopped one is left alone.
StopDriver(c, r) ==
    \/ /\ driver[r][at[c]] \in {"open", "running"}
       /\ SetDriver(r, at[c], "stopping")
       /\ UNCHANGED at
    \/ /\ driver[r][at[c]] = "stopping"
       /\ Joined(r, at[c])
       /\ SetDriver(r, at[c], "stopped")
       /\ Step(c)
    \/ /\ driver[r][at[c]] \in {"none", "stopped"}
       /\ Step(c)
       /\ UNCHANGED driver

Unwind(c) ==
    /\ pc[c] = "unwinding"
    /\ at[c] <= DriverCount
    /\ StopDriver(c, held[c])
    /\ UNCHANGED <<created, handling, runtime, pc, held, victim>>

UnwindEnds(c) ==
    /\ pc[c] = "unwinding"
    /\ at[c] > DriverCount
    /\ Goto(c, "returning")
    /\ Rewind(c)
    /\ UNCHANGED <<created, driver, handling, runtime, held, victim>>

LastReferenceIgnoringCalls(c, r) == r # None
LastReferenceUnchecked(c, r) == ~\E b \in Client \ {c} : held[b] = r
NeverLast(c, r) == FALSE

\* Dropping one reference to r, c drops the last.
LastReference(c, r) == r # None /\ ~\E b \in Client \ {c} : held[b] = r

\* runtime.store(next): the reference to the old runtime is dropped here.
Publish(c) ==
    /\ pc[c] = "publishing"
    /\ runtime' = held[c]
    /\ IF LastReference(c, runtime)
       THEN victim' = [victim EXCEPT ![c] = runtime] /\ Goto(c, "destroying")
       ELSE Goto(c, "returning") /\ UNCHANGED victim
    /\ UNCHANGED <<created, driver, handling, held, at>>
-----------------------------------------------------------------------------
(* shutdown, command *)

Shutdown(c) ==
    /\ pc[c] = "idle"
    /\ runtime # None
    /\ runtime' = None
    /\ IF LastReference(c, runtime)
       THEN victim' = [victim EXCEPT ![c] = runtime] /\ Goto(c, "destroying")
       ELSE UNCHANGED <<victim, pc>>
    /\ UNCHANGED <<created, driver, handling, held, at>>

\* require_runtime; without one the call fails at once.
BeginCommand(c) ==
    /\ pc[c] = "idle"
    /\ runtime # None
    /\ held' = [held EXCEPT ![c] = runtime]
    /\ Goto(c, "commanding")
    /\ UNCHANGED <<created, driver, handling, runtime, victim, at>>

\* The call may send to each driver in turn (CommandDispatch).
SendNext(c) ==
    /\ pc[c] = "commanding"
    /\ IF at[c] <= DriverCount
       THEN Step(c) /\ UNCHANGED pc
       ELSE Goto(c, "returning") /\ Rewind(c)
    /\ UNCHANGED <<created, driver, handling, runtime, held, victim>>
-----------------------------------------------------------------------------
(* The end of a call, and of a runtime. *)

Return(c) ==
    /\ pc[c] = "returning"
    /\ held' = [held EXCEPT ![c] = None]
    /\ IF runtime # held[c] /\ LastReference(c, held[c])
       THEN victim' = [victim EXCEPT ![c] = held[c]] /\ Goto(c, "destroying")
       ELSE Goto(c, "idle") /\ UNCHANGED victim
    /\ UNCHANGED <<created, driver, handling, runtime, at>>

\* ~runtime_t stops every driver, then the drivers and devices are freed.
DestroyNext(c) ==
    /\ pc[c] = "destroying"
    /\ at[c] <= DriverCount
    /\ StopDriver(c, victim[c])
    /\ UNCHANGED <<created, handling, runtime, pc, held, victim>>

DestroyEnds(c) ==
    /\ pc[c] = "destroying"
    /\ at[c] > DriverCount
    /\ driver' = [driver EXCEPT ![victim[c]] = [d \in Driver |-> "freed"]]
    /\ victim' = [victim EXCEPT ![c] = None]
    /\ Rewind(c)
    /\ Goto(c, IF held[c] = None THEN "idle" ELSE "returning")
    /\ UNCHANGED <<created, handling, runtime, held>>
-----------------------------------------------------------------------------
(* A receive thread enters handle_packet and leaves it. *)

BeginHandling(r, d) ==
    /\ driver[r][d] = "running"
    /\ <<r, d>> \notin handling
    /\ handling' = handling \cup {<<r, d>>}
    /\ UNCHANGED <<created, driver, runtime, pc, held, victim, at>>

EndHandling(r, d) ==
    /\ <<r, d>> \in handling
    /\ handling' = handling \ {<<r, d>>}
    /\ UNCHANGED <<created, driver, runtime, pc, held, victim, at>>

InCall(c) ==
    Construct(c) \/ ConstructorThrows(c) \/ ConstructEnds(c) \/ StartDriver(c)
    \/ Unwind(c) \/ UnwindEnds(c) \/ Publish(c) \/ SendNext(c) \/ Return(c)
    \/ DestroyNext(c) \/ DestroyEnds(c)

Next ==
    \/ \E c \in Client : \/ \E valid \in BOOLEAN : BeginInit(c, valid)
                         \/ Shutdown(c) \/ BeginCommand(c)
                         \/ BindFails(c) \/ StartFails(c) \/ InCall(c)
    \/ \E r \in Run, d \in Driver : BeginHandling(r, d) \/ EndHandling(r, d)

Spec == Init /\ [][Next]_vars

\* Threads inside a call run on, and the handling of a datagram ends.
FairSpec ==
    /\ Spec
    /\ \A c \in Client : WF_vars(InCall(c))
    /\ \A r \in Run, d \in Driver : WF_vars(EndHandling(r, d))
-----------------------------------------------------------------------------
Where == {"idle", "constructing", "starting", "unwinding", "publishing", "returning",
          "commanding", "destroying"}

\* Types; a client runs a destructor exactly while it has a victim.
TypeOK ==
    /\ created \in 0..MaxRuntime
    /\ driver \in [Run -> [Driver -> DriverState]]
    /\ handling \subseteq Run \X Driver
    /\ runtime \in Run \cup {None}
    /\ pc \in [Client -> Where]
    /\ held \in [Client -> Run \cup {None}]
    /\ victim \in [Client -> Run \cup {None}]
    /\ at \in [Client -> 1..(DriverCount + 1)]
    /\ \A c \in Client : pc[c] = "destroying" <=> victim[c] # None

Freed(r) == \E d \in Driver : driver[r][d] = "freed"

\* Whoever can still reach a runtime finds it whole: neither the published
\* pointer, nor a call in progress, nor a receive thread in its handler ever
\* meets one that is freed or that another thread has begun to destroy.
NothingUsedAfterFree ==
    /\ \A r \in Run : r = runtime \/ IsHeld(r) =>
           ~Freed(r) /\ \A c \in Client : victim[c] # r
    /\ \A b, c \in Client : victim[b] # None /\ victim[b] = victim[c] => b = c
    /\ \A r \in Run, d \in Driver : <<r, d>> \in handling =>
           driver[r][d] \in {"running", "stopping"}

\* A command only ever meets drivers that run, and so does ok().
CommandsReachRunning ==
    \A r \in Run :
        r = runtime \/ (\E c \in Client : held[c] = r /\ pc[c] = "commanding") =>
            \A d \in Driver : driver[r][d] = "running"

\* No runtime is lost with threads running or a socket open: one that is not
\* freed is published, or in the hands of a call that has not returned.
NoneLeaked ==
    \A r \in 1..created : (\E d \in Driver : driver[r][d] # "freed") =>
        \/ r = runtime \/ IsHeld(r)
        \/ \E c \in Client : victim[c] = r

\* A runtime that was replaced or shut down is freed in the end, whatever
\* thread has to do it.
ReplacedIsFreed ==
    \A r \in Run : r <= created /\ runtime # r /\ ~IsHeld(r) ~> Freed(r)
=============================================================================
