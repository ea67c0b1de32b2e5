---------------------------- MODULE MailerProofs ----------------------------
(***************************************************************************)
(* Proofs about Mailer: it implements its endpoint, whose guarantees carry *)
(* over, and claims no email it did not send, for any number of commands,  *)
(* goroutines and failures and any number of retries.                      *)
(***************************************************************************)
EXTENDS Mailer, EndpointProofs

StepNames == {"send", "ack", "retry"} \cup Outcomes

MTypes ==
  /\ DOMAIN pc \subseteq DOMAIN held
  /\ pc \in [DOMAIN pc -> Place]
  /\ stopping \subseteq DOMAIN held
  /\ emails \in [Msgs -> Nat]
  /\ reports \in [Msgs -> SUBSET Outcomes]

(* Where process has built an email, its command is no poison. *)
PoisonIsRejected == \A w \in DOMAIN pc : w \in DOMAIN held /\ held[w].msg \notin Poison

(* What a goroutine that has come to a step knows of its command m: it is   *)
(* in the loop that reports a delivery, or about to ack a notice, because   *)
(* the email is out; and only a verification email's failure is reported.   *)
Warranted(step, m) ==
  /\ step = "delivered" => emails[m] > 0
  /\ step = "failed" => m \in Verification
  /\ step = "ack" => m \in Verification \/ emails[m] > 0

StepsAreWarranted == \A w \in DOMAIN pc : Warranted(pc[w].step, held[w].msg)

(* The inductive invariant: what the endpoint and the types need, and what  *)
(* the claims rest on.                                                      *)
MBase  == EInv /\ MTypes /\ PoisonIsRejected
Claims == StepsAreWarranted /\ NothingClaimedUnsent

(* Moving a goroutine on changes its own place only. *)
LEMMA GotoFacts ==
  ASSUME MTypes, NEW w \in DOMAIN held, NEW step \in StepNames, NEW try \in Nat,
         pc' = Goto(w, step, try), held' = held
  PROVE  /\ DOMAIN pc' = DOMAIN pc \cup {w} /\ DOMAIN pc' \subseteq DOMAIN held'
         /\ pc' \in [DOMAIN pc' -> Place]
         /\ pc'[w].step = step
         /\ \A v \in DOMAIN pc : v # w => pc'[v] = pc[v]
  BY DEF MTypes, Goto, Place, StepNames

(* A goroutine is done with its command; its copy and place are forgotten. *)
LEMMA DoneFacts ==
  ASSUME MTypes, TypeOK, NEW w \in DOMAIN held, Release(w),
         pc' = Drop(pc, w) \/ (w \notin DOMAIN pc /\ pc' = pc)
  PROVE  /\ DOMAIN pc' = DOMAIN pc \ {w} /\ DOMAIN pc' \subseteq DOMAIN held'
         /\ pc' \in [DOMAIN pc' -> Place]
         /\ \A v \in DOMAIN pc' : pc'[v] = pc[v] /\ held'[v] = held[v]
<1>1. /\ DOMAIN held' = DOMAIN held \ {w}
      /\ \A v \in DOMAIN held \ {w} : held'[v] = held[v]
  BY ReleaseFacts
<1>2. /\ DOMAIN pc' = DOMAIN pc \ {w}
      /\ \A v \in DOMAIN pc \ {w} : pc'[v] = pc[v]
      /\ pc' \in [DOMAIN pc' -> Place]
  BY DEF Drop, MTypes
<1> QED BY <1>1, <1>2 DEF MTypes

(* Every way of settling a delivery releases it. *)
LEMMA SettlingReleases ==
  ASSUME NEW w, Ack(w) \/ DeadLetter(w) \/ Retry(w) \/ Crash(w)
  PROVE  w \in DOMAIN held /\ Release(w)
  BY DEF Ack, DeadLetter, Retry, Crash

(* The mailer starts idle, with nothing sent and nothing reported. *)
LEMMA InitMailer == MInit => MBase /\ Claims
<1> SUFFICES ASSUME MInit PROVE MBase /\ Claims
  OBVIOUS
<1>1. EInv
  BY InitEInv DEF MInit
<1>2. MTypes /\ PoisonIsRejected
  BY DEF MInit, MTypes, Init, PoisonIsRejected
<1>3. Claims
  BY DEF MInit, Init, Claims, StepsAreWarranted, NothingClaimedUnsent
<1> QED BY <1>1, <1>2, <1>3 DEF MBase

(* Every step of the mailer is a step of its endpoint, or leaves it alone. *)
LEMMA NextEndpoint == PoisonIsRejected /\ [MNext]_vars => [Next]_evars
<1> SUFFICES ASSUME PoisonIsRejected, [MNext]_vars PROVE [Next]_evars
  OBVIOUS
<1>1. ASSUME NEW w \in Workers, Process(w) PROVE [Next]_evars
  <2>1. CASE RejectPoison(w)
    BY <2>1 DEF RejectPoison, Handle, Next
  <2>2. CASE Begin(w)
    BY <2>2 DEF Begin
  <2>3. CASE SendOk(w)
    BY <2>3 DEF SendOk
  <2>4. CASE SendError(w)
    BY <2>4 DEF SendError, Stumble, Fault, Next, evars
  <2>5. CASE ReportOk(w)
    BY <2>5 DEF ReportOk
  <2>6. CASE ReportError(w)
    BY <2>6 DEF ReportError, Stumble, Fault, Next, evars
  <2>7. CASE Settle(w)
    BY <2>7 DEF Settle, At, PoisonIsRejected, Handle, Next
  <2> QED BY <1>1, <2>1, <2>2, <2>3, <2>4, <2>5, <2>6, <2>7 DEF Process
<1>2. ASSUME NEW w \in Workers, Die(w) \/ Detach(w) PROVE [Next]_evars
  BY <1>2 DEF Die, Next
<1>3. ASSUME NEW w \in Workers, Stop(w) PROVE [Next]_evars
  BY <1>3 DEF Stop, Stumble, Fault, Next
<1>4. ASSUME NEW m \in Msgs, Arrive(m) PROVE [Next]_evars
  BY <1>4 DEF Next
<1>5. ASSUME NEW c \in Copy, Expire(c) \/ \E w \in Workers : Deliver(w, c) PROVE [Next]_evars
  BY <1>5 DEF Next
<1>6. CASE UNCHANGED vars
  BY <1>6 DEF vars, evars
<1> QED BY <1>1, <1>2, <1>3, <1>4, <1>5, <1>6 DEF MNext

(* Steps of the broker, and a shutdown: a goroutine's place and command     *)
(* stay as they are.                                                        *)
LEMMA BrokerStep ==
  ASSUME MBase, UNCHANGED <<pc, emails, reports, acked>>,
         stopping' \subseteq DOMAIN held,
         \/ UNCHANGED held
         \/ \E w \in Workers, c \in Copy : Deliver(w, c)
  PROVE  MTypes' /\ PoisonIsRejected' /\ (Claims => Claims')
<1>1. /\ DOMAIN held \subseteq DOMAIN held'
      /\ \A v \in DOMAIN held : held'[v] = held[v]
  BY DEF Deliver, Hold
<1>2. MTypes' /\ PoisonIsRejected'
  BY <1>1 DEF MBase, MTypes, PoisonIsRejected
<1>3. \A v \in DOMAIN pc : held'[v] = held[v]
  BY <1>1 DEF MBase, MTypes
<1> QED BY <1>2, <1>3 DEF Claims, StepsAreWarranted, Warranted, NothingClaimedUnsent

(* A goroutine settles its command, with an ack only if that is warranted. *)
LEMMA DoneStep ==
  ASSUME MBase, NEW w \in Workers, Ack(w) \/ DeadLetter(w) \/ Retry(w) \/ Crash(w),
         pc' = Drop(pc, w) \/ (w \notin DOMAIN pc /\ pc' = pc),
         stopping' = stopping \ {w}, UNCHANGED <<emails, reports>>,
         \/ acked' = acked
         \/ acked' = acked \cup {held[w].msg} /\ w \in DOMAIN pc /\ pc[w].step = "ack"
  PROVE  MTypes' /\ PoisonIsRejected' /\ (Claims => Claims')
<1>1. w \in DOMAIN held /\ Release(w) /\ TypeOK /\ MTypes
  BY SettlingReleases DEF MBase, EInv
<1>2. /\ DOMAIN pc' = DOMAIN pc \ {w} /\ DOMAIN pc' \subseteq DOMAIN held'
      /\ pc' \in [DOMAIN pc' -> Place]
      /\ \A v \in DOMAIN pc' : pc'[v] = pc[v] /\ held'[v] = held[v]
  BY <1>1, DoneFacts
<1>3. MTypes'
  BY <1>1, <1>2, ReleaseFacts DEF MTypes
<1>4. PoisonIsRejected'
  BY <1>2 DEF MBase, PoisonIsRejected
<1>5. ASSUME Claims PROVE Claims'
  <2>1. StepsAreWarranted'
    BY <1>2, <1>5 DEF Claims, StepsAreWarranted, Warranted
  <2>2. \/ acked' = acked
        \/ /\ acked' = acked \cup {held[w].msg}
           /\ held[w].msg \in Verification \/ emails[held[w].msg] > 0
    BY <1>5 DEF Claims, StepsAreWarranted, Warranted
  <2>3. NothingClaimedUnsent'
    BY <1>5, <2>2 DEF Claims, NothingClaimedUnsent
  <2> QED BY <2>1, <2>3 DEF Claims
<1> QED BY <1>3, <1>4, <1>5

(* A goroutine goes on to a step that is warranted. *)
LEMMA GotoStep ==
  ASSUME MBase, NEW w \in DOMAIN held, NEW step \in StepNames, NEW try \in Nat,
         pc' = Goto(w, step, try), UNCHANGED <<held, acked, stopping>>,
         held[w].msg \notin Poison,
         emails' \in [Msgs -> Nat], \A m \in Msgs : emails[m] > 0 => emails'[m] > 0,
         reports' \in [Msgs -> SUBSET Outcomes],
         Claims => \A m \in Msgs : "delivered" \in reports'[m]
                                     => "delivered" \in reports[m] \/ emails[m] > 0,
         Claims => Warranted(step, held[w].msg)'
  PROVE  MTypes' /\ PoisonIsRejected' /\ (Claims => Claims')
<1>1. /\ DOMAIN pc' = DOMAIN pc \cup {w} /\ DOMAIN pc' \subseteq DOMAIN held'
      /\ pc' \in [DOMAIN pc' -> Place]
      /\ pc'[w].step = step
      /\ \A v \in DOMAIN pc : v # w => pc'[v] = pc[v]
  BY GotoFacts DEF MBase
<1>2. MTypes' /\ PoisonIsRejected'
  BY <1>1 DEF MBase, MTypes, PoisonIsRejected
<1>3. \A v \in DOMAIN held : held[v].msg \in Msgs
  BY DEF MBase, EInv, TypeOK, Copy
<1>4. ASSUME Claims PROVE Claims'
  <2>1. StepsAreWarranted'
    <3>1. ASSUME NEW v \in DOMAIN pc, v # w PROVE Warranted(pc[v].step, held[v].msg)'
      <4>1. Warranted(pc[v].step, held[v].msg) /\ held[v].msg \in Msgs
        BY <1>3, <1>4 DEF Claims, StepsAreWarranted, MBase, MTypes
      <4> QED BY <1>1, <3>1, <4>1 DEF Warranted
    <3>2. Warranted(pc[w].step, held[w].msg)'
      BY <1>1, <1>4 DEF Warranted
    <3> QED BY <1>1, <3>1, <3>2 DEF StepsAreWarranted
  <2>2. NothingClaimedUnsent'
    BY <1>4 DEF Claims, NothingClaimedUnsent
  <2> QED BY <2>1, <2>2 DEF Claims
<1> QED BY <1>2, <1>4

(* The inductive step for process: one case for each of its steps. *)
LEMMA ProcessStep ==
  ASSUME MBase, NEW w \in Workers, Process(w)
  PROVE  MTypes' /\ PoisonIsRejected' /\ (Claims => Claims')
<1> DEFINE m == held[w].msg
<1>1. w \in DOMAIN held => m \in Msgs
  BY DEF MBase, EInv, TypeOK, Copy
<1>2. w \in DOMAIN pc => w \in DOMAIN held /\ m \notin Poison /\ pc[w] \in Place
  BY DEF MBase, MTypes, PoisonIsRejected
<1>3. /\ emails \in [Msgs -> Nat] /\ reports \in [Msgs -> SUBSET Outcomes]
      /\ Outcomes \subseteq StepNames /\ {"send", "ack", "retry"} \subseteq StepNames
      /\ "failed" \in StepNames /\ "delivered" \in StepNames
  BY DEF MBase, MTypes, StepNames, Outcomes
<1>4. ASSUME w \in DOMAIN held
      PROVE  /\ Sent(m) \in [Msgs -> Nat] /\ Sent(m)[m] > 0
             /\ \A n \in Msgs : emails[n] > 0 => Sent(m)[n] > 0
  BY <1>1, <1>3, <1>4 DEF Sent
<1>5. ASSUME w \in DOMAIN held, NEW o \in Outcomes
      PROVE  /\ Reported(m, o) \in [Msgs -> SUBSET Outcomes]
             /\ \A n \in Msgs : Reported(m, o)[n] = reports[n] \cup (IF n = m THEN {o} ELSE {})
  BY <1>1, <1>3, <1>5 DEF Reported
<1>6. CASE RejectPoison(w)
  <2>1. w \notin DOMAIN pc /\ pc' = pc /\ DeadLetter(w) /\ acked' = acked
    BY <1>6 DEF RejectPoison, DeadLetter
  <2> QED BY <1>6, <2>1, DoneStep DEF RejectPoison
<1>7. CASE Begin(w)
  <2>1. /\ w \in DOMAIN held /\ m \notin Poison /\ pc' = Goto(w, "send", 1)
        /\ UNCHANGED <<held, acked, stopping, emails, reports>>
    BY <1>7 DEF Begin, evars
  <2>2. Warranted("send", m)'
    BY DEF Warranted
  <2> QED BY <1>3, <2>1, <2>2, GotoStep
<1>8. CASE SendOk(w)
  <2>1. PICK step \in {"delivered", "ack"} :
          /\ w \in DOMAIN pc /\ emails' = Sent(m) /\ pc' = Goto(w, step, 1)
          /\ UNCHANGED <<held, acked, stopping, reports>>
    BY <1>8 DEF SendOk, At, evars
  <2>2. Warranted(step, held[w].msg)'
    BY <1>2, <1>4, <2>1 DEF Warranted
  <2>3. step \in StepNames
    BY <1>3
  <2> QED BY <1>2, <1>3, <1>4, <2>1, <2>2, <2>3, GotoStep
<1>9. CASE SendError(w)
  <2>1. /\ w \in DOMAIN pc /\ emails' \in {emails, Sent(m)}
        /\ UNCHANGED <<held, acked, stopping, reports>>
    BY <1>9 DEF SendError, At
  <2>2. PICK step \in {"send", "failed", "retry"}, try \in Nat :
          pc' = Goto(w, step, try) /\ (step = "failed" => m \in Verification)
    <3>1. pc[w].try + 1 \in Nat
      BY <1>2, <2>1 DEF Place
    <3> QED BY <1>9, <3>1 DEF SendError
  <2>3. Warranted(step, held[w].msg)'
    BY <2>1, <2>2 DEF Warranted
  <2>4. emails' \in [Msgs -> Nat] /\ \A n \in Msgs : emails[n] > 0 => emails'[n] > 0
    BY <1>2, <1>3, <1>4, <2>1
  <2> QED BY <1>2, <1>3, <2>1, <2>2, <2>3, <2>4, GotoStep
<1>10. CASE ReportOk(w) \/ ReportError(w)
  <2>1. PICK o \in Outcomes :
          /\ w \in DOMAIN pc /\ o = pc[w].step
          /\ reports' \in {reports, Reported(m, o)}
          /\ pc' = Goto(w, "ack", 1) \/ pc' = Goto(w, o, pc[w].try + 1)
          /\ UNCHANGED <<held, acked, stopping, emails>>
    BY <1>10 DEF ReportOk, ReportError, At, evars
  <2>2. PICK step \in {"ack", o}, try \in Nat : pc' = Goto(w, step, try)
    <3>1. pc[w].try + 1 \in Nat
      BY <1>2, <2>1 DEF Place
    <3> QED BY <2>1, <3>1
  <2>3. Claims => Warranted(o, m)
    BY <2>1 DEF Claims, StepsAreWarranted
  <2>4. Claims => Warranted(step, held[w].msg)'
    BY <2>1, <2>2, <2>3 DEF Warranted, Outcomes
  <2>5. /\ reports' \in [Msgs -> SUBSET Outcomes]
        /\ Claims => \A n \in Msgs : "delivered" \in reports'[n]
                                       => "delivered" \in reports[n] \/ emails[n] > 0
    BY <1>2, <1>3, <1>5, <2>1, <2>3 DEF Warranted
  <2>6. /\ emails' \in [Msgs -> Nat] /\ \A n \in Msgs : emails[n] > 0 => emails'[n] > 0
        /\ step \in StepNames
    BY <1>3, <2>1, <2>2
  <2> QED BY <1>2, <2>1, <2>2, <2>4, <2>5, <2>6, GotoStep
<1>11. CASE Settle(w)
  <2>1. /\ w \in DOMAIN pc /\ (Ack(w) \/ Retry(w))
        /\ acked' = acked \/ (acked' = acked \cup {m} /\ pc[w].step = "ack")
    BY <1>11 DEF Settle, At, Ack, Retry, DeadLetter
  <2> QED BY <1>11, <2>1, DoneStep DEF Settle
<1> QED BY <1>6, <1>7, <1>8, <1>9, <1>10, <1>11 DEF Process

(* The inductive step for the whole mailer. *)
LEMMA NextMailer ==
  ASSUME MBase, [MNext]_vars
  PROVE  MTypes' /\ PoisonIsRejected' /\ (Claims => Claims')
<1> DEFINE Kept == MTypes' /\ PoisonIsRejected' /\ (Claims => Claims')
<1>1. ASSUME NEW w \in Workers, Process(w) PROVE Kept
  BY <1>1, ProcessStep
<1>2. ASSUME NEW w \in Workers, Die(w) PROVE Kept
  BY <1>2, DoneStep DEF Die, Crash
<1>3. stopping \subseteq DOMAIN held
  BY DEF MBase, MTypes
<1>4. ASSUME NEW w \in Workers, Stop(w) \/ (Detach(w) /\ UNCHANGED mvars) PROVE Kept
  <2>1. stopping' \subseteq DOMAIN held /\ UNCHANGED <<pc, emails, reports, acked, held>>
    BY <1>3, <1>4 DEF Stop, Detach, mvars
  <2> QED BY <2>1, BrokerStep
<1>5. ASSUME NEW m \in Msgs, Arrive(m), UNCHANGED mvars PROVE Kept
  BY <1>3, <1>5, BrokerStep DEF Arrive, mvars
<1>6. ASSUME NEW c \in Copy, UNCHANGED mvars, Expire(c) PROVE Kept
  BY <1>3, <1>6, BrokerStep DEF Expire, mvars
<1>7. ASSUME NEW c \in Copy, NEW w \in Workers, UNCHANGED mvars, Deliver(w, c) PROVE Kept
  <2>1. UNCHANGED acked
    BY <1>7 DEF Deliver
  <2> QED BY <1>3, <1>7, <2>1, BrokerStep DEF mvars
<1>8. CASE UNCHANGED vars
  BY <1>3, <1>8, BrokerStep DEF vars
<1> QED BY <1>1, <1>2, <1>4, <1>5, <1>6, <1>7, <1>8 DEF MNext

(* The mailer's invariant holds in every state. *)
THEOREM MailerInvariance == MSpec => [](MBase /\ Claims)
<1>1. MBase /\ Claims /\ [MNext]_vars => (MBase /\ Claims)'
  <2> SUFFICES ASSUME MBase, Claims, [MNext]_vars PROVE (MBase /\ Claims)'
    OBVIOUS
  <2>1. EInv'
    BY NextEndpoint, NextEInv DEF MBase
  <2>2. MTypes' /\ PoisonIsRejected' /\ Claims'
    BY NextMailer
  <2> QED BY <2>1, <2>2 DEF MBase
<1> QED BY <1>1, InitMailer, PTL DEF MSpec

(* Type correctness of the mailer. *)
THEOREM MailerTypeCorrect == MSpec => []MTypeOK
<1>1. MBase => MTypeOK
  BY DEF MBase, EInv, MTypes, MTypeOK
<1> QED BY <1>1, MailerInvariance, PTL

(* No delivery is reported and no notice acked for an email the SMTP server *)
(* did not take, whatever crashes, disconnects, shuts down or fails.        *)
THEOREM MailerClaimsNothingUnsent == MSpec => []NothingClaimedUnsent
  BY MailerInvariance, PTL DEF Claims

(* The mailer implements its endpoint: every step of process, on every path *)
(* through SMTP and report errors and shutdowns, is one the endpoint allows *)
(* or leaves the queues alone.                                              *)
THEOREM MailerRefinesEndpoint == MSpec => Spec
<1>1. MInit => Init
  BY DEF MInit
<1>2. MBase /\ [MNext]_vars => [Next]_evars
  BY NextEndpoint DEF MBase
<1> QED BY <1>1, <1>2, MailerInvariance, PTL DEF MSpec, Spec

(* What is proved of the endpoint holds of the mailer: no command is lost   *)
(* before it is acked, and only poison and exhausted commands are parked.   *)
THEOREM MailerLosesNothing == MSpec => [](NothingLost /\ ParkedIsExhausted)
  BY MailerRefinesEndpoint, EndpointLosesNothing, EndpointParksExhausted, PTL
=============================================================================
