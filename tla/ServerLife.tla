----------------------------- MODULE ServerLife -----------------------------
(***************************************************************************)
(* The life of server processes on one machine, and what they share: the   *)
(* HTTP ports, the socket files and the registry of running servers.       *)
(*                                                                         *)
(* A process has up to two threads that matter: Run, and the goroutine the *)
(* unix command "stop" starts.  The registry is a file that is read,       *)
(* changed and written back without a lock.  Any process may be killed at  *)
(* any moment; what it left in the file system stays.                      *)
(***************************************************************************)
EXTENDS Integers, FiniteSets

CONSTANTS Procs,        \* processes, each started once at most
          Ports,
          Assignments,  \* the ports the processes may be started with
          NoProc

ASSUME NoProcAssumption == NoProc \notin Procs
ASSUME AssignmentsAssumption == Assignments \subseteq [Procs -> Ports]

VARIABLES run,          \* where Run stands, per process
          stopper,      \* where the goroutine of "stop" stands
          http,         \* the HTTP server: "unset", "made", "listening", "failed", "shut"
          port,         \* Server.port
          path,         \* does the server know a socket path?
          unixOpen,     \* is its unix listener open?
          sock,         \* per port, the process the socket file leads to
          registry,     \* the file: pairs of a port and a process
          copy,         \* what each registry update has read
          signalled,    \* processes that were sent SIGINT or SIGTERM
          contested,    \* ports that two processes have used at the same time
          raced         \* have two registry updates overlapped?

shared   == <<sock, registry, contested, raced>>
lifevars == <<run, stopper, http, port, path, unixOpen, shared, copy, signalled>>

\* Who updates the registry: the threads of the processes, and rdw server list.
Threads == [proc : Procs, is : {"run", "stopper"}]
Lister == [proc |-> NoProc, is |-> "list"]

Idle == [busy |-> FALSE, read |-> {}]

LifeInit == /\ run = [p \in Procs |-> "off"]
            /\ stopper = [p \in Procs |-> "none"]
            /\ http = [p \in Procs |-> "unset"]
            /\ port \in Assignments
            /\ path = [p \in Procs |-> FALSE]
            /\ unixOpen = [p \in Procs |-> FALSE]
            /\ sock = [n \in Ports |-> NoProc]
            /\ registry = {}
            /\ copy = [t \in Threads \cup {Lister} |-> Idle]
            /\ signalled = {}
            /\ contested = {}
            /\ raced = FALSE

Alive(p) == run[p] \notin {"off", "gone", "killed"}

Goto(p, at) == run' = [run EXCEPT ![p] = at]

-----------------------------------------------------------------------------
(* The registry. *)

Entry(p) == [port |-> port[p], pid |-> p]

ReadRegistry(t) ==
    /\ copy' = [copy EXCEPT ![t] = [busy |-> TRUE, read |-> registry]]
    /\ raced' = (raced \/ \E u \in DOMAIN copy : copy[u].busy)
    /\ UNCHANGED <<sock, registry, contested>>

WriteRegistry(t, entries) == /\ registry' = entries
                             /\ copy' = [copy EXCEPT ![t] = Idle]
                             /\ UNCHANGED <<sock, contested, raced>>

OtherPorts(entries, n) == {e \in entries : e.port # n}

\* A faulty form: what was read is not carried over.
Register_Forgets(p, t) == WriteRegistry(t, {Entry(p)})

Register(p, t) == WriteRegistry(t, OtherPorts(copy[t].read, port[p]) \cup {Entry(p)})

Deregistered(p, t) == OtherPorts(copy[t].read, port[p])

\* PruneStale, by rdw server list; an empty registry is not written.
ListReads == /\ registry # {} /\ ~copy[Lister].busy
             /\ ReadRegistry(Lister)
             /\ UNCHANGED <<run, stopper, http, port, path, unixOpen, signalled>>

ListPrunes == /\ copy[Lister].busy
              /\ WriteRegistry(Lister, {e \in copy[Lister].read : Alive(e.pid)})
              /\ UNCHANGED <<run, stopper, http, port, path, unixOpen, signalled>>

-----------------------------------------------------------------------------
(* Run. *)

\* A faulty form: the socket file of an earlier server stays.
Start_KeepsStale(p) ==
    /\ run[p] = "off"
    /\ Goto(p, "bind")
    /\ contested' = contested \cup {n \in {port[p]} : \E q \in Procs : Alive(q) /\ port[q] = n}
    /\ UNCHANGED <<sock, stopper, http, port, path, unixOpen, registry, copy, signalled, raced>>

\* runServerStart; startUnixListener begins with the socket file, stale or not.
Start(p) == /\ run[p] = "off"
            /\ Goto(p, "bind")
            /\ sock' = [sock EXCEPT ![port[p]] = NoProc]
            /\ contested' = contested \cup {n \in {port[p]} : \E q \in Procs : Alive(q) /\ port[q] = n}
            /\ UNCHANGED <<stopper, http, port, path, unixOpen, registry, copy, signalled, raced>>

\* Listening on the socket fails if there is a file again; Run goes on without.
Bind(p) == /\ run[p] = "bind"
           /\ Goto(p, "make")
           /\ IF sock[port[p]] = NoProc
              THEN /\ sock' = [sock EXCEPT ![port[p]] = p]
                   /\ unixOpen' = [unixOpen EXCEPT ![p] = TRUE]
                   /\ path' = [path EXCEPT ![p] = TRUE]
              ELSE UNCHANGED <<sock, unixOpen, path>>
           /\ UNCHANGED <<stopper, http, port, registry, copy, signalled, contested, raced>>

\* The HTTP server is made; a stop that came before found none to shut down.
Make(p) == /\ run[p] = "make"
           /\ Goto(p, "register")
           /\ http' = [http EXCEPT ![p] = "made"]
           /\ UNCHANGED <<stopper, port, path, unixOpen, shared, copy, signalled>>

RegisterReads(p) == /\ run[p] = "register"
                    /\ Goto(p, "registering")
                    /\ ReadRegistry([proc |-> p, is |-> "run"])
                    /\ UNCHANGED <<stopper, http, port, path, unixOpen, signalled>>

RegisterWrites(p) == /\ run[p] = "registering"
                     /\ Goto(p, "select")
                     /\ Register(p, [proc |-> p, is |-> "run"])
                     /\ UNCHANGED <<stopper, http, port, path, unixOpen, signalled>>

\* The goroutine that listens: on a server shut down before, it just returns.
Listen(p) == /\ run[p] = "select" /\ http[p] = "made"
             /\ http' = [http EXCEPT ![p] =
                  IF \E q \in Procs : Alive(q) /\ port[q] = port[p] /\ http[q] = "listening"
                  THEN "failed" ELSE "listening"]
             /\ UNCHANGED <<run, stopper, port, path, unixOpen, shared, copy, signalled>>

\* What Run waits for: an error, or a signal.
Wakes(p) == /\ run[p] = "select"
            /\ \/ http[p] = "failed" /\ Goto(p, "cleanup")
               \/ p \in signalled /\ Goto(p, "shutdown")
            /\ UNCHANGED <<stopper, http, port, path, unixOpen, shared, copy, signalled>>

Shutdown(p) == http' = [http EXCEPT ![p] = IF @ = "unset" THEN @ ELSE "shut"]

\* cleanup removes by path and by port, whoever is behind them by now.
CleanSocket(p) ==
    /\ sock' = IF path[p] THEN [sock EXCEPT ![port[p]] = NoProc] ELSE sock
    /\ unixOpen' = [unixOpen EXCEPT ![p] = FALSE]
    /\ UNCHANGED <<registry, contested, raced, copy>>

RunShuts(p) == /\ run[p] = "shutdown"
               /\ Goto(p, "cleanup")
               /\ Shutdown(p)
               /\ UNCHANGED <<stopper, port, path, unixOpen, shared, copy, signalled>>

RunCleans(p) == /\ run[p] = "cleanup"
                /\ Goto(p, "deregister")
                /\ CleanSocket(p)
                /\ UNCHANGED <<stopper, http, port, path, signalled>>

DeregisterReads(p) == /\ run[p] = "deregister"
                      /\ Goto(p, "deregistering")
                      /\ ReadRegistry([proc |-> p, is |-> "run"])
                      /\ UNCHANGED <<stopper, http, port, path, unixOpen, signalled>>

\* The process ends, with all its threads and what only it held.
Ends(p, at) == /\ Goto(p, at)
               /\ stopper' = [stopper EXCEPT ![p] = "none"]
               /\ http' = [http EXCEPT ![p] = "unset"]
               /\ path' = [path EXCEPT ![p] = FALSE]
               /\ unixOpen' = [unixOpen EXCEPT ![p] = FALSE]
               /\ copy' = [t \in DOMAIN copy |-> IF t.proc = p THEN Idle ELSE copy[t]]
               /\ signalled' = signalled \ {p}
               /\ UNCHANGED port

\* Run returns.
DeregisterWrites(p) ==
    /\ run[p] = "deregistering"
    /\ Ends(p, "gone")
    /\ registry' = Deregistered(p, [proc |-> p, is |-> "run"])
    /\ UNCHANGED <<sock, contested, raced>>

-----------------------------------------------------------------------------
(* handleUnixCommand, "stop": over the socket, to whatever process it leads. *)

Stop(p) == /\ Alive(p) /\ unixOpen[p] /\ sock[port[p]] = p
           /\ stopper[p] = "none"
           /\ stopper' = [stopper EXCEPT ![p] = "shutdown"]
           /\ UNCHANGED <<run, http, port, path, unixOpen, shared, copy, signalled>>

StopStep(p, from, to) == /\ Alive(p)
                         /\ stopper[p] = from
                         /\ stopper' = [stopper EXCEPT ![p] = to]

StopShuts(p) == /\ StopStep(p, "shutdown", "cleanup")
                /\ Shutdown(p)
                /\ UNCHANGED <<run, port, path, unixOpen, shared, copy, signalled>>

StopCleans(p) == /\ StopStep(p, "cleanup", "deregister")
                 /\ CleanSocket(p)
                 /\ UNCHANGED <<run, http, port, path, signalled>>

StopReads(p) == /\ StopStep(p, "deregister", "deregistering")
                /\ ReadRegistry([proc |-> p, is |-> "stopper"])
                /\ UNCHANGED <<run, http, port, path, unixOpen, signalled>>

StopWrites(p) == /\ StopStep(p, "deregistering", "done")
                 /\ WriteRegistry([proc |-> p, is |-> "stopper"],
                                  Deregistered(p, [proc |-> p, is |-> "stopper"]))
                 /\ UNCHANGED <<run, http, port, path, unixOpen, signalled>>

-----------------------------------------------------------------------------
Signal(p) == /\ Alive(p)
             /\ signalled' = signalled \cup {p}
             /\ UNCHANGED <<run, stopper, http, port, path, unixOpen, shared, copy>>

\* SIGKILL, or a crash.
Kill(p) == /\ Alive(p)
           /\ Ends(p, "killed")
           /\ UNCHANGED shared

Runs(p) == Bind(p) \/ Make(p) \/ RegisterReads(p) \/ RegisterWrites(p) \/ Listen(p)
           \/ Wakes(p) \/ RunShuts(p) \/ RunCleans(p) \/ DeregisterReads(p) \/ DeregisterWrites(p)

Stops(p) == StopShuts(p) \/ StopCleans(p) \/ StopReads(p) \/ StopWrites(p)

LifeNext == \/ \E p \in Procs : Start(p) \/ Runs(p) \/ Stop(p) \/ Stops(p) \/ Signal(p) \/ Kill(p)
            \/ ListReads \/ ListPrunes

\* The threads of a process run on.
LifeFairness == \A p \in Procs : WF_lifevars(Runs(p)) /\ WF_lifevars(Stops(p))

LifeSpec == LifeInit /\ [][LifeNext]_lifevars /\ LifeFairness

-----------------------------------------------------------------------------
Undisturbed(p) == run[p] = "select" /\ stopper[p] = "none" /\ port[p] \notin contested

EndedAlone(p) == run[p] = "gone" /\ port[p] \notin contested

\* A server whose port no other process has used at the same time can be
\* reached by its socket while it serves, also after an earlier server on the
\* port was killed and left its socket file behind; when it has ended by itself
\* the file is gone.
Reachable == \A p \in Procs : /\ Undisturbed(p) => sock[port[p]] = p /\ unixOpen[p]
                              /\ EndedAlone(p) => sock[port[p]] # p

\* Servers on different ports come and go without losing each other's entry in
\* the registry, and take their own along, as long as no two updates of it
\* overlap.
Listed == ~raced => \A p \in Procs : /\ Undisturbed(p) => Entry(p) \in registry
                                     /\ EndedAlone(p) => Entry(p) \notin registry

\* rdw server stop stops the server: the process ends.
StopEnds == \A p \in Procs : stopper[p] # "none" ~> ~Alive(p)
=============================================================================
