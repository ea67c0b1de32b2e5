----------------------------- MODULE Connection -----------------------------
(***************************************************************************)
(* The reconnecting AMQP connection of a process (rabbitmq/connection.go)  *)
(* and the consumers that take channels from it (rabbitmq/consumer.go):    *)
(* connect dials and declares the topology until it succeeds,              *)
(* watchAndReconnect listens for the end of the connection and connects    *)
(* again, Consumer.Start opens channels on whatever connection is current. *)
(* The watcher and the consumers learn of a broken connection at different *)
(* times, and a connection may break while the next one is being set up or *)
(* before anybody listens to it.                                           *)
(*                                                                         *)
(* Connections are numbered; backoff times are left out: a dial that fails *)
(* is a dial that has not happened yet.                                    *)
(***************************************************************************)
EXTENDS Naturals

CONSTANTS
  Consumers,  \* consumers of the process
  MaxFaults   \* bound: connections and channels that break, failed declarations

ASSUME ConnectionAssumption == MaxFaults \in Nat

VARIABLES
  conns,     \* connection -> "open", "broken" (with an error) or "closed"
  declared,  \* connections on which the topology was declared
  current,   \* Connection.conn, 0 for nil
  watcher,   \* the goroutine of connect and watchAndReconnect, and the connection it holds
  clients,   \* consumer -> where it is in Start and the connection of its channel
  broker,    \* "up" or "down"
  process,   \* "running", "stopping" (ctx is cancelled) or "closed" (Close returned)
  faults     \* failures so far

vars == <<conns, declared, current, watcher, clients, broker, process, faults>>

Conns == DOMAIN conns

(* connect: dial, declare; watchAndReconnect: listen, wait.  It has returned*)
(* after a clean close (gone), or because it listened too late (deaf).      *)
Watching   == {"dial", "declare", "listen", "wait", "gone", "deaf"}
Consuming  == {"open", "consume", "stopped"}

(* No connection is dialled without a failure that asks for it. *)
TypeOK ==
  /\ Conns \subseteq 1..(MaxFaults + 1)
  /\ conns \in [Conns -> {"open", "broken", "closed"}]
  /\ declared \subseteq Conns
  /\ current \in Conns \cup {0}
  /\ watcher \in [pc: Watching, conn: Conns \cup {0}]
  /\ clients \in [Consumers -> [pc: Consuming, conn: Conns \cup {0}]]
  /\ broker \in {"up", "down"}
  /\ process \in {"running", "stopping", "closed"}
  /\ faults \in 0..MaxFaults

Init ==
  /\ conns = [n \in {} |-> "open"]
  /\ declared = {}
  /\ current = 0
  /\ watcher = [pc |-> "dial", conn |-> 0]
  /\ clients = [c \in Consumers |-> [pc |-> "open", conn |-> 0]]
  /\ broker = "up"
  /\ process = "running"
  /\ faults = 0

Fault == faults < MaxFaults /\ faults' = faults + 1

(***************************************************************************)
(* The broker                                                              *)
(***************************************************************************)
(* A connection breaks with an error. *)
Break(n) ==
  /\ Fault
  /\ n \in Conns /\ conns[n] = "open"
  /\ conns' = [conns EXCEPT ![n] = "broken"]
  /\ UNCHANGED <<declared, current, watcher, clients, broker, process>>

(* The broker goes down, and with it every connection. *)
Down ==
  /\ Fault
  /\ broker = "up" /\ broker' = "down"
  /\ conns' = [n \in Conns |-> IF conns[n] = "open" THEN "broken" ELSE conns[n]]
  /\ UNCHANGED <<declared, current, watcher, clients, process>>

Up ==
  /\ broker = "down" /\ broker' = "up"
  /\ UNCHANGED <<conns, declared, current, watcher, clients, process, faults>>

(***************************************************************************)
(* connect and watchAndReconnect                                           *)
(***************************************************************************)
At(pc) == watcher.pc = pc
To(pc) == watcher' = [watcher EXCEPT !.pc = pc]

Dial ==
  /\ At("dial")
  /\ broker = "up"
  /\ LET n == 1 + (IF Conns = {} THEN 0 ELSE CHOOSE m \in Conns : \A k \in Conns : k <= m)
     IN  /\ conns' = [k \in Conns \cup {n} |-> IF k = n THEN "open" ELSE conns[k]]
         /\ watcher' = [pc |-> "declare", conn |-> n]
  /\ UNCHANGED <<declared, current, clients, broker, process, faults>>

(* Mutant: the connection is there for everyone before its topology is.     *)
DeclareLater ==
  /\ At("declare")
  /\ current' = watcher.conn
  /\ To("listen")
  /\ UNCHANGED <<conns, declared, clients, broker, process, faults>>

(* declareTopology succeeds and the connection becomes the current one. *)
Declare ==
  /\ At("declare")
  /\ conns[watcher.conn] = "open"
  /\ declared' = declared \cup {watcher.conn}
  /\ current' = watcher.conn
  /\ To("listen")
  /\ UNCHANGED <<conns, clients, broker, process, faults>>

(* Mutant: the candidate is left behind. *)
DeclareFailsOpen ==
  /\ At("declare")
  /\ IF conns[watcher.conn] = "open" THEN Fault ELSE UNCHANGED faults
  /\ watcher' = [pc |-> "dial", conn |-> 0]
  /\ UNCHANGED <<conns, declared, current, clients, broker, process>>

(* The channel cannot be opened or a declaration fails: the candidate is    *)
(* closed and connect dials again.                                          *)
DeclareFails ==
  /\ At("declare")
  /\ IF conns[watcher.conn] = "open" THEN Fault ELSE UNCHANGED faults
  /\ conns' = [conns EXCEPT ![watcher.conn] = IF @ = "open" THEN "closed" ELSE @]
  /\ watcher' = [pc |-> "dial", conn |-> 0]
  /\ UNCHANGED <<declared, current, clients, broker, process>>

(* NotifyClose: on a connection that has ended the receiver is closed at    *)
(* once, without the error, and watchAndReconnect returns.                  *)
Listen ==
  /\ At("listen")
  /\ To(IF conns[watcher.conn] = "open" THEN "wait" ELSE "deaf")
  /\ UNCHANGED <<conns, declared, current, clients, broker, process, faults>>

(* Mutant: any end of the connection is taken for a clean one. *)
NotifiedReturns ==
  /\ At("wait")
  /\ conns[watcher.conn] # "open"
  /\ To("gone")
  /\ UNCHANGED <<conns, declared, current, clients, broker, process, faults>>

(* Mutant: the receiver is polled instead of waited for. *)
NotifiedAtOnce ==
  /\ At("wait")
  /\ To(IF conns[watcher.conn] = "closed" THEN "gone" ELSE "dial")
  /\ UNCHANGED <<conns, declared, current, clients, broker, process, faults>>

(* The connection ends: with an error the goroutine connects again, after   *)
(* Close it returns.                                                        *)
Notified ==
  /\ At("wait")
  /\ conns[watcher.conn] # "open"
  /\ To(IF conns[watcher.conn] = "broken" THEN "dial" ELSE "gone")
  /\ UNCHANGED <<conns, declared, current, clients, broker, process, faults>>

(***************************************************************************)
(* Consumer.Start, and the process that owns it                            *)
(***************************************************************************)
(* Dial has returned: the current connection is never nil again. *)
Started == current # 0

(* Channel and Consume on the current connection.  They fail when it has    *)
(* ended, and Start tries again at once.                                    *)
Consume(c) ==
  /\ Started
  /\ clients[c].pc = "open"
  /\ conns[current] = "open"
  /\ clients' = [clients EXCEPT ![c] = [pc |-> "consume", conn |-> current]]
  /\ UNCHANGED <<conns, declared, current, watcher, broker, process, faults>>

(* The deliveries channel is closed, with the connection or by itself. *)
Closed(c) ==
  /\ clients[c].pc = "consume"
  /\ IF conns[clients[c].conn] = "open" THEN Fault ELSE UNCHANGED faults
  /\ clients' = [clients EXCEPT ![c] = [pc |-> "open", conn |-> 0]]
  /\ UNCHANGED <<conns, declared, current, watcher, broker, process>>

(* Mutant: consume does not look at the context, only Start does. *)
StoppedInStart(c) ==
  /\ Started
  /\ process # "running"
  /\ clients[c].pc = "open"
  /\ clients' = [clients EXCEPT ![c] = [pc |-> "stopped", conn |-> 0]]
  /\ UNCHANGED <<conns, declared, current, watcher, broker, process, faults>>

(* A consumer sees the cancelled context: in its loop or between handlers. *)
Stopped(c) ==
  /\ Started
  /\ process # "running"
  /\ clients[c].pc # "stopped"
  /\ clients' = [clients EXCEPT ![c] = [pc |-> "stopped", conn |-> 0]]
  /\ UNCHANGED <<conns, declared, current, watcher, broker, process, faults>>

(* SIGTERM, which the first connect does not look at. *)
Stop ==
  /\ process = "running" /\ process' = "stopping"
  /\ UNCHANGED <<conns, declared, current, watcher, clients, broker, faults>>

(* The notifier and the mailer wait for their consumers first, the server   *)
(* waits a second.                                                          *)
Close ==
  /\ Started
  /\ process = "stopping" /\ process' = "closed"
  /\ conns' = [conns EXCEPT ![current] = IF @ = "open" THEN "closed" ELSE @]
  /\ UNCHANGED <<declared, current, watcher, clients, broker, faults>>

(***************************************************************************)
(* Specification                                                           *)
(***************************************************************************)
Watcher == Dial \/ Declare \/ DeclareFails \/ Listen \/ Notified
Consumer(c) == Consume(c) \/ Closed(c) \/ Stopped(c)

Next ==
  \/ \E n \in Conns : Break(n)
  \/ Down \/ Up \/ Stop \/ Close
  \/ Watcher
  \/ \E c \in Consumers : Consumer(c)

Spec == Init /\ [][Next]_vars

(* A broker that is down comes up again; goroutines go on.  Nothing makes   *)
(* the process stop.                                                        *)
Fairness ==
  /\ WF_vars(Up)
  /\ WF_vars(Dial) /\ WF_vars(Declare \/ DeclareFails) /\ WF_vars(Listen) /\ WF_vars(Notified)
  /\ \A c \in Consumers : WF_vars(Consumer(c))

FairSpec == Spec /\ Fairness

(***************************************************************************)
(* Properties                                                              *)
(***************************************************************************)
(* However often setting one up fails (connection.go:55,64), no connection  *)
(* is left open behind: an open one is the current one or the one connect   *)
(* is working on.                                                           *)
NothingLeaks ==
  \A n \in Conns : conns[n] = "open" => n = current \/ (At("declare") /\ n = watcher.conn)

(* Nobody consumes or publishes on a connection on which the topology was   *)
(* not declared, not even in the middle of a reconnect: a message published *)
(* without its queue would be dropped.                                      *)
OnlyDeclared ==
  /\ current # 0 => current \in declared
  /\ \A c \in Consumers : clients[c].pc = "consume" => clients[c].conn \in declared

(* The connection ended before watchAndReconnect listened to it: nobody     *)
(* will connect again (connection.go:88-92).                                *)
Deaf == At("deaf")

(* NFR3 (system_design.md:87, "transient infrastructure failures heal       *)
(* without operator action"): a consumer without a channel consumes again,  *)
(* through a broker that restarts, connections that break and declarations  *)
(* that fail, unless the process stops or the watcher missed the end of its *)
(* connection.                                                              *)
ConsumersReconnect ==
  \A c \in Consumers :
    clients[c].pc = "open" ~> (clients[c].pc = "consume" \/ process # "running" \/ Deaf)

(* Shutdown ends: once the context is cancelled every consumer returns,     *)
(* with the broker down, in the middle of a reconnect or before the first   *)
(* connection is there (consumer.go:62).                                    *)
ConsumersStop ==
  process = "stopping" ~> \A c \in Consumers : clients[c].pc = "stopped"
=============================================================================
