-------------------------- MODULE ConnectionProofs --------------------------
(***************************************************************************)
(* Proofs about Connection: no connection is left open behind and nobody   *)
(* uses one without a topology, for any number of consumers and failures.  *)
(***************************************************************************)
EXTENDS Connection, TLAPS

(* The connections dialled so far are 1 to k, and only the last may be      *)
(* open.  Every earlier one, and the last one when connect is to dial       *)
(* again, was given up for a failure; between Declare and the next dial the *)
(* last one is the current one.                                             *)
Dialled(k) ==
  /\ Conns = 1..k
  /\ k <= faults + 1
  /\ \A n \in Conns : conns[n] = "open" => n = k
  /\ At("dial") => k <= faults /\ \A n \in Conns : conns[n] # "open"
  /\ At("declare") => /\ k \in Conns /\ watcher.conn = k /\ current # k
                      /\ conns[k] # "open" => k <= faults
  /\ ~At("dial") /\ ~At("declare") => /\ k \in Conns /\ watcher.conn = k /\ current = k
                                      /\ conns[k] = "broken" => k <= faults

(* The inductive invariant. *)
CInv ==
  /\ TypeOK
  /\ OnlyDeclared
  /\ \E k \in Nat : Dialled(k)

(* The process starts without a connection. *)
LEMMA InitCInv == Init => CInv
<1> SUFFICES ASSUME Init PROVE CInv
  OBVIOUS
<1>1. Conns = {} /\ {} = 1..0
  BY DEF Init, Conns
<1>2. TypeOK
  BY <1>1, ConnectionAssumption DEF Init, TypeOK, Watching, Consuming
<1>3. OnlyDeclared
  BY DEF Init, OnlyDeclared
<1>4. Dialled(0)
  BY <1>1 DEF Init, Dialled, At
<1> QED BY <1>2, <1>3, <1>4 DEF CInv

(* A failure stays within the bound. *)
LEMMA FaultFacts == ASSUME TypeOK, Fault PROVE faults' = faults + 1 /\ faults' \in 0..MaxFaults
  BY ConnectionAssumption DEF TypeOK, Fault

(* Connections that break cost a failure, whoever uses them. *)
LEMMA BreakCInv == ASSUME CInv, (\E n \in Conns : Break(n)) \/ Down PROVE CInv'
<1> USE DEF Conns
<1>1. TypeOK /\ Fault /\ faults \in Nat
  BY ConnectionAssumption DEF CInv, TypeOK, Break, Down
<1>2. /\ Conns' = Conns
      /\ conns' \in [Conns -> {"open", "broken", "closed"}]
      /\ \A n \in Conns : conns'[n] = "open" => conns[n] = "open"
      /\ \A n \in Conns : conns'[n] = "broken" => conns[n] \in {"open", "broken"}
  BY <1>1 DEF TypeOK, Break, Down
<1>3. faults' = faults + 1 /\ faults' \in 0..MaxFaults
  BY <1>1, FaultFacts
<1>4. UNCHANGED <<declared, current, watcher, clients, process>> /\ broker' \in {"up", "down"}
  BY <1>1 DEF Break, Down, TypeOK
<1>5. TypeOK'
  BY <1>1, <1>2, <1>3, <1>4 DEF TypeOK
<1>6. PICK k \in Nat : Dialled(k)
  BY DEF CInv
<1>7. Dialled(k)'
  BY <1>1, <1>2, <1>3, <1>4, <1>6 DEF Dialled, At
<1>8. OnlyDeclared'
  BY <1>4 DEF CInv, OnlyDeclared
<1> QED BY <1>5, <1>7, <1>8 DEF CInv

(* connect takes a number no connection had. *)
LEMMA DialCInv == CInv /\ Dial => CInv'
<1> SUFFICES ASSUME CInv, Dial PROVE CInv'
  OBVIOUS
<1>1. PICK k \in Nat : Dialled(k)
  BY DEF CInv
<1>2. /\ TypeOK /\ faults \in 0..MaxFaults /\ MaxFaults \in Nat
      /\ Conns = 1..k /\ k <= faults /\ current \in Conns \cup {0}
  BY <1>1, ConnectionAssumption DEF CInv, TypeOK, Dialled, Dial
<1> DEFINE top == IF Conns = {} THEN 0 ELSE CHOOSE m \in Conns : \A j \in Conns : j <= m
<1>3. top = k
  <2>1. CASE k = 0
    BY <1>2, <2>1
  <2>2. CASE k > 0
    <3>1. k \in Conns /\ \A j \in Conns : j <= k
      BY <1>2, <2>2
    <3>2. \A m \in Conns : (\A j \in Conns : j <= m) => m = k
      BY <1>2, <3>1
    <3> QED BY <3>1, <3>2
  <2> QED BY <2>1, <2>2
<1>4. /\ conns' = [j \in Conns \cup {k + 1} |-> IF j = k + 1 THEN "open" ELSE conns[j]]
      /\ watcher' = [pc |-> "declare", conn |-> k + 1]
      /\ UNCHANGED <<declared, current, clients, broker, process, faults>>
  <2>1. /\ conns' = [j \in Conns \cup {1 + top} |-> IF j = 1 + top THEN "open" ELSE conns[j]]
        /\ watcher' = [pc |-> "declare", conn |-> 1 + top]
    BY DEF Dial
  <2> HIDE DEF top
  <2>2. 1 + top = k + 1
    BY <1>3
  <2> QED BY <2>1, <2>2 DEF Dial
<1>5. /\ Conns' = 1..(k + 1) /\ Conns \subseteq Conns' /\ k + 1 \in Conns' /\ k + 1 \notin Conns
      /\ conns'[k + 1] = "open" /\ \A j \in Conns : conns'[j] = conns[j]
      /\ conns' \in [Conns' -> {"open", "broken", "closed"}]
  BY <1>2, <1>4 DEF Conns, TypeOK
<1>6. TypeOK'
  <2>1. Conns' \subseteq 1..(MaxFaults + 1)
    BY <1>2, <1>5
  <2>2. watcher' \in [pc: Watching, conn: Conns' \cup {0}]
    BY <1>2, <1>4, <1>5 DEF Watching
  <2>3. clients' \in [Consumers -> [pc: Consuming, conn: Conns' \cup {0}]]
    BY <1>2, <1>4, <1>5 DEF TypeOK
  <2> QED BY <1>2, <1>4, <1>5, <2>1, <2>2, <2>3 DEF TypeOK
<1>7. Dialled(k + 1)'
  <2>1. \A n \in Conns' : n = k + 1 \/ n \in Conns
    BY <1>4 DEF Conns
  <2>2. \A n \in Conns' : conns'[n] = "open" => n = k + 1
    BY <1>1, <1>5, <2>1 DEF Dialled, Dial
  <2>3. current' # k + 1
    BY <1>2, <1>4
  <2>4. k + 1 <= faults' + 1
    BY <1>2, <1>4
  <2>5. watcher'.pc = "declare" /\ watcher'.conn = k + 1
    BY <1>4
  <2>6. At("declare")' /\ ~At("dial")'
    BY <2>5 DEF At
  <2> QED BY <1>5, <2>2, <2>3, <2>4, <2>5, <2>6 DEF Dialled
<1>8. OnlyDeclared'
  BY <1>4 DEF CInv, OnlyDeclared
<1> QED BY <1>2, <1>6, <1>7, <1>8 DEF CInv

(* A connection becomes the current one with its topology. *)
LEMMA DeclareCInv == CInv /\ Declare => CInv'
<1> SUFFICES ASSUME CInv, Declare PROVE CInv'
  OBVIOUS
<1> USE DEF Conns
<1>1. PICK k \in Nat : Dialled(k)
  BY DEF CInv
<1>2. /\ TypeOK /\ watcher.conn = k /\ k \in Conns /\ conns[k] = "open"
      /\ declared' = declared \cup {k} /\ current' = k
      /\ watcher' = [watcher EXCEPT !.pc = "listen"]
      /\ UNCHANGED <<conns, clients, broker, process, faults>>
  BY <1>1 DEF CInv, Dialled, Declare, To
<1>3. watcher' \in [pc: Watching, conn: Conns \cup {0}] /\ watcher'.pc = "listen" /\ watcher'.conn = k
  BY <1>2 DEF TypeOK, Watching
<1>4. TypeOK'
  BY <1>2, <1>3 DEF TypeOK
<1>5. Dialled(k)'
  BY <1>1, <1>2, <1>3 DEF Dialled, At
<1>6. OnlyDeclared'
  BY <1>2 DEF CInv, OnlyDeclared
<1> QED BY <1>4, <1>5, <1>6 DEF CInv

(* A candidate that fails is closed, and the failure pays for the next dial. *)
LEMMA DeclareFailsCInv == CInv /\ DeclareFails => CInv'
<1> SUFFICES ASSUME CInv, DeclareFails PROVE CInv'
  OBVIOUS
<1> USE DEF Conns
<1>1. PICK k \in Nat : Dialled(k)
  BY DEF CInv
<1>2. /\ TypeOK /\ watcher.conn = k /\ k \in Conns /\ faults \in Nat
  BY <1>1, ConnectionAssumption DEF CInv, Dialled, DeclareFails, TypeOK
<1>3. /\ IF conns[k] = "open" THEN Fault ELSE UNCHANGED faults
      /\ conns' = [conns EXCEPT ![k] = IF @ = "open" THEN "closed" ELSE @]
      /\ watcher' = [pc |-> "dial", conn |-> 0]
      /\ UNCHANGED <<declared, current, clients, broker, process>>
  BY <1>2 DEF DeclareFails
<1>4. /\ faults' \in 0..MaxFaults /\ faults <= faults' /\ k <= faults'
  BY <1>1, <1>2, <1>3, FaultFacts DEF TypeOK, Dialled, DeclareFails
<1>5. /\ Conns' = Conns /\ conns'[k] # "open"
      /\ \A n \in Conns : n # k => conns'[n] = conns[n]
      /\ conns' \in [Conns -> {"open", "broken", "closed"}]
  BY <1>2, <1>3 DEF TypeOK
<1>6. TypeOK'
  BY <1>2, <1>3, <1>4, <1>5 DEF TypeOK, Watching
<1>7. Dialled(k)'
  BY <1>1, <1>2, <1>3, <1>4, <1>5 DEF Dialled, At
<1>8. OnlyDeclared'
  BY <1>3 DEF CInv, OnlyDeclared
<1> QED BY <1>6, <1>7, <1>8 DEF CInv

(* The watcher dials again only after its connection broke. *)
LEMMA WatchCInv == CInv /\ (Listen \/ Notified) => CInv'
<1> SUFFICES ASSUME CInv, Listen \/ Notified PROVE CInv'
  OBVIOUS
<1> USE DEF Conns
<1>1. PICK k \in Nat : Dialled(k)
  BY DEF CInv
<1>2. PICK pc \in {"wait", "deaf", "dial", "gone"} :
        /\ watcher' = [watcher EXCEPT !.pc = pc]
        /\ pc = "dial" => conns[watcher.conn] = "broken"
  BY DEF Listen, Notified, To
<1>3. /\ TypeOK /\ ~At("dial") /\ ~At("declare")
      /\ UNCHANGED <<conns, declared, current, clients, broker, process, faults>>
  BY DEF Listen, Notified, CInv, At
<1>4. /\ watcher' \in [pc: Watching, conn: Conns \cup {0}]
      /\ watcher'.pc = pc /\ watcher'.conn = watcher.conn
  BY <1>2, <1>3 DEF TypeOK, Watching
<1>5. TypeOK'
  BY <1>3, <1>4 DEF TypeOK
<1>6. Dialled(k)'
  BY <1>1, <1>2, <1>3, <1>4 DEF Dialled, At
<1>7. OnlyDeclared'
  BY <1>3 DEF CInv, OnlyDeclared
<1> QED BY <1>5, <1>6, <1>7 DEF CInv

(* A consumer takes its channel from the current connection. *)
LEMMA ConsumerCInv == ASSUME CInv, NEW c \in Consumers, Consumer(c) PROVE CInv'
<1> USE DEF Conns
<1>1. PICK client \in [pc: Consuming, conn: Conns \cup {0}] :
        /\ clients' = [clients EXCEPT ![c] = client]
        /\ client.pc = "consume" => client.conn = current /\ current # 0
  <2>1. TypeOK
    BY DEF CInv
  <2>2. CASE Consume(c)
    <3> DEFINE client == [pc |-> "consume", conn |-> current]
    <3>1. client \in [pc: Consuming, conn: Conns \cup {0}] /\ client.conn = current /\ current # 0
      BY <2>1, <2>2 DEF Consume, Started, Consuming, TypeOK
    <3>2. clients' = [clients EXCEPT ![c] = client]
      BY <2>2 DEF Consume
    <3> QED BY <3>1, <3>2
  <2>3. CASE Closed(c)
    <3> DEFINE client == [pc |-> "open", conn |-> 0]
    <3>1. client \in [pc: Consuming, conn: Conns \cup {0}] /\ client.pc # "consume"
      BY DEF Consuming
    <3>2. clients' = [clients EXCEPT ![c] = client]
      BY <2>3 DEF Closed
    <3> QED BY <3>1, <3>2
  <2>4. CASE Stopped(c)
    <3> DEFINE client == [pc |-> "stopped", conn |-> 0]
    <3>1. client \in [pc: Consuming, conn: Conns \cup {0}] /\ client.pc # "consume"
      BY DEF Consuming
    <3>2. clients' = [clients EXCEPT ![c] = client]
      BY <2>4 DEF Stopped
    <3> QED BY <3>1, <3>2
  <2> QED BY <2>2, <2>3, <2>4 DEF Consumer
<1>2. /\ TypeOK /\ faults \in Nat /\ faults' \in 0..MaxFaults /\ faults' \in Nat /\ faults <= faults'
      /\ UNCHANGED <<conns, declared, current, watcher, broker, process>>
  BY ConnectionAssumption, FaultFacts DEF CInv, TypeOK, Consumer, Consume, Closed, Stopped
<1>3. TypeOK'
  BY <1>1, <1>2 DEF TypeOK
<1>4. PICK k \in Nat : Dialled(k)
  BY DEF CInv
<1>5. Dialled(k)'
  <2>1. faults' = faults \/ faults' = faults + 1
    BY FaultFacts, <1>2 DEF Consumer, Consume, Closed, Stopped
  <2>2. /\ k <= faults => k <= faults'
        /\ k <= faults + 1 => k <= faults' + 1
    <3>1. faults \in Nat
      BY <1>2
    <3> QED BY <2>1, <3>1
  <2> QED BY <1>2, <1>4, <2>1, <2>2 DEF Dialled, At
<1>6. OnlyDeclared'
  BY <1>1, <1>2 DEF CInv, OnlyDeclared, TypeOK
<1> QED BY <1>3, <1>5, <1>6 DEF CInv

(* Close ends the current connection and no other. *)
LEMMA CloseCInv == CInv /\ Close => CInv'
<1> SUFFICES ASSUME CInv, Close PROVE CInv'
  OBVIOUS
<1> USE DEF Conns
<1>1. /\ TypeOK /\ current \in Conns /\ process' = "closed"
      /\ conns' = [conns EXCEPT ![current] = IF @ = "open" THEN "closed" ELSE @]
      /\ UNCHANGED <<declared, current, watcher, clients, broker, faults>>
  BY DEF CInv, TypeOK, Close, Started
<1>2. /\ Conns' = Conns
      /\ conns' \in [Conns -> {"open", "broken", "closed"}]
      /\ \A n \in Conns : n # current => conns'[n] = conns[n]
      /\ conns'[current] # "open"
      /\ conns[current] # "open" => conns'[current] = conns[current]
      /\ conns'[current] = "broken" => conns[current] = "broken"
  BY <1>1 DEF TypeOK
<1>3. TypeOK'
  BY <1>1, <1>2 DEF TypeOK
<1>4. PICK k \in Nat : Dialled(k)
  BY DEF CInv
<1>5. Dialled(k)'
  BY <1>1, <1>2, <1>4 DEF Dialled, At
<1>6. OnlyDeclared'
  BY <1>1 DEF CInv, OnlyDeclared
<1> QED BY <1>3, <1>5, <1>6 DEF CInv

(* The inductive step: one case for each action. *)
LEMMA NextCInv == CInv /\ [Next]_vars => CInv'
<1> SUFFICES ASSUME CInv, [Next]_vars PROVE CInv'
  OBVIOUS
<1>1. CASE (\E n \in Conns : Break(n)) \/ Down
  BY <1>1, BreakCInv
<1>2. CASE Up \/ Stop \/ UNCHANGED vars
  <2>1. /\ UNCHANGED <<conns, declared, current, watcher, clients, faults>>
        /\ broker' \in {"up", "down"} /\ process' \in {"running", "stopping", "closed"}
    BY <1>2 DEF Up, Stop, vars, CInv, TypeOK
  <2> QED BY <2>1 DEF CInv, TypeOK, OnlyDeclared, Dialled, At, Conns
<1>3. CASE Close
  BY <1>3, CloseCInv
<1>4. CASE Watcher
  BY <1>4, DialCInv, DeclareCInv, DeclareFailsCInv, WatchCInv DEF Watcher
<1>5. ASSUME NEW c \in Consumers, Consumer(c) PROVE CInv'
  BY <1>5, ConsumerCInv
<1> QED BY <1>1, <1>2, <1>3, <1>4, <1>5 DEF Next

(* The connection's invariant holds in every state. *)
THEOREM ConnectionInvariance == Spec => []CInv
  BY InitCInv, NextCInv, PTL DEF Spec

(* Type correctness; in particular, a process dials at most one connection  *)
(* more than there are failures, however watcher and consumers interleave.  *)
THEOREM ConnectionTypeCorrect == Spec => []TypeOK
  BY ConnectionInvariance, PTL DEF CInv

(* However setting up fails, no connection but the current one and the one  *)
(* connect is working on is open.                                           *)
THEOREM ConnectionLeaksNothing == Spec => []NothingLeaks
<1>1. CInv => NothingLeaks
  BY DEF CInv, Dialled, NothingLeaks
<1> QED BY <1>1, ConnectionInvariance, PTL

(* The current connection and every consumer's has its topology declared,   *)
(* before, during and after a reconnect.                                    *)
THEOREM ConnectionOnlyDeclared == Spec => []OnlyDeclared
  BY ConnectionInvariance, PTL DEF CInv
=============================================================================
