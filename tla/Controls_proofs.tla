-------------------------- MODULE Controls_proofs --------------------------
(***************************************************************************)
(* Proofs about what the operator holds the system by: the approvals       *)
(* bridge (Approvals) and the circuit breaker (Breaker).  First how often  *)
(* a waiting request is shown, and that the channel tells what became of   *)
(* it, for any requests, listeners, clicks, failed calls and restarts.     *)
(* Then that the kill switch is never disarmed, for any runs, every bound  *)
(* on the equity and every drawdown limit below 100.                       *)
(***************************************************************************)
EXTENDS Approvals, Breaker, TLAPS

USE DEF Decided, Decision, Silent, Rest, Idle

(***************************************************************************)
(* Types, without the bounds of a run                                      *)
(***************************************************************************)
Typed ==
  /\ gate \in [Request -> {"new", "pending", "expired"} \cup Decided]
  /\ late \subseteq Request
  /\ shown \in [Request -> Nat]
  /\ posted \subseteq Request
  /\ poll \in Poll
  /\ click \in [Listener -> Click]
  /\ restarts \in Nat /\ lost \in Nat

\* Not decided, nor expired.
Open(r) == gate[r] \in {"new", "pending"}

\* What is late is settled, and what a listener is about to drop is, as it says.
Settled ==
  /\ \A r \in late : ~Open(r)
  /\ \A l \in Listener :
       click[l].pc = "pop" =>
         /\ click[l].request \in Request
         /\ click[l].answer \in {"done", "gone"}
         /\ click[l].answer = "done"
              => gate[click[l].request] = Decision[click[l].decision]
         /\ click[l].answer = "gone" => gate[click[l].request] = "expired"
  /\ \A l \in Listener : click[l].pc = "submit" => click[l].request \in Request

\* A message that counts is on record, or about to be.
OnRecord(r) == r \in posted \/ (poll.pc = "record" /\ poll.now = r)

Recorded ==
  /\ poll.pc = "record" => poll.now \in Request
  /\ \A r \in Request :
       Open(r) =>
         shown[r] <= restarts + lost + (IF OnRecord(r) THEN 1 ELSE 0)

IInv == Typed /\ Settled /\ Recorded /\ ToldIsTrue

LEMMA InitHolds == ASSUME Init PROVE IInv
<1>1. Typed
  BY DEF Init, Typed, Poll, Click
<1>2. Settled /\ Recorded /\ ToldIsTrue
  BY ApprovalsAssumption DEF Init, Settled, Recorded, OnRecord, ToldIsTrue
<1> QED
  BY <1>1, <1>2 DEF IInv

(***************************************************************************)
(* The gateway                                                             *)
(***************************************************************************)
LEMMA GatewayHolds ==
  ASSUME IInv, NEW r \in Request, Hold(r) \/ Expire(r) \/ WebDecides(r)
  PROVE  IInv'
<1> USE DEF Hold, Expire, WebDecides, IInv
<1>1. Typed'
  BY DEF Typed
<1>2. \A x \in Request : gate'[x] # gate[x] => Open(x)
  BY DEF Typed, Open
<1>3. \A x \in Request : Open(x)' => Open(x)
  BY <1>2 DEF Open
<1>4. UNCHANGED <<shown, posted, poll, click, restarts, lost>> /\ told' = <<>>
  OBVIOUS
<1>5. \A x \in late' : ~Open(x)'
  BY <1>3 DEF Settled, Typed, Open
<1> HIDE DEF Hold, Expire, WebDecides
<1>6. Settled'
  BY <1>2, <1>4, <1>5 DEF Settled, Typed, Click, Open
<1>7. Recorded'
  BY <1>3, <1>4 DEF Recorded, OnRecord
<1>8. ToldIsTrue'
  BY <1>4, Zenon DEF ToldIsTrue
<1> QED
  BY <1>1, <1>6, <1>7, <1>8

(***************************************************************************)
(* The polling thread                                                      *)
(***************************************************************************)
\* What a round of the polling thread leaves to be shown.
LEMMA PollingKeeps ==
  ASSUME IInv, Unpolled, poll' \in Poll, posted' \subseteq Request,
         shown' \in [Request -> Nat], lost' \in Nat, Recorded'
  PROVE  IInv'
<1> USE DEF IInv, Unpolled
<1>1. Typed'
  BY DEF Typed
<1>2. Settled'
  BY DEF Settled, Open
<1>3. ToldIsTrue'
  BY Zenon DEF ToldIsTrue
<1> QED
  BY <1>1, <1>2, <1>3

LEMMA FoundTyped ==
  ASSUME NEW requests \in SUBSET Request
  PROVE  Found(requests) \in Poll /\ Found(requests).pc # "record"
BY DEF Found, Poll

LEMMA PruneHolds == ASSUME IInv, PruneList \/ PruneOne \/ PruneNothing PROVE IInv'
<1> USE DEF PruneList, PruneOne, PruneNothing
<1>1. poll' \in Poll /\ poll'.pc # "record" /\ posted' \subseteq Request
  <2>1. posted \subseteq Request /\ poll \in Poll
    BY DEF IInv, Typed
  <2>2. CASE PruneList
    BY <2>1, <2>2 DEF Poll
  <2>3. CASE PruneOne
    <3>1. posted' \subseteq Request
      BY <2>1, <2>3
    <3>2. CASE poll' = Rest("prune")
      BY <3>1, <3>2 DEF Poll
    <3>3. CASE \E k \in poll.keys : poll' = [poll EXCEPT !.keys = @ \ {k}, !.now = k]
      <4>1. poll.pc = "prune" /\ poll.keys \subseteq Request
        BY <2>1, <2>3 DEF Poll
      <4> QED
        BY <2>1, <3>1, <3>3, <4>1 DEF Poll
    <3>4. CASE poll' = [Rest("poll") EXCEPT !.keys = posted']
      BY <3>1, <3>4 DEF Poll
    <3> QED
      BY <2>3, <3>2, <3>3, <3>4
  <2>4. CASE PruneNothing
    BY <2>1, <2>4 DEF Poll
  <2> QED
    BY <2>2, <2>3, <2>4
<1>2. \A r \in Request : r \in posted /\ r \notin posted' => r \in late
  OBVIOUS
<1>3. UNCHANGED <<shown, lost>> /\ Unpolled /\ poll.pc # "record"
  OBVIOUS
<1> HIDE DEF PruneList, PruneOne, PruneNothing
<1>4. Recorded'
  <2>1. \A r \in Request : Open(r)' => Open(r)
    BY <1>3 DEF Open, Unpolled
  <2>2. \A r \in Request : Open(r) /\ OnRecord(r) => OnRecord(r)'
    BY <1>2, <1>3 DEF IInv, Settled, OnRecord
  <2>3. \A r \in Request : shown[r] \in Nat /\ restarts \in Nat /\ lost \in Nat
    BY DEF IInv, Typed
  <2> QED
    BY <1>1, <1>3, <2>1, <2>2, <2>3 DEF IInv, Recorded, Unpolled
<1> QED
  BY <1>1, <1>3, <1>4, PollingKeeps DEF IInv, Typed

LEMMA PollHolds ==
  ASSUME IInv, PollAnswers \/ PollFails \/ (\E r \in Request : Skip(r)) PROVE IInv'
<1> USE DEF PollAnswers, PollFails, Skip
<1>1. poll' \in Poll /\ poll'.pc # "record"
  <2>1. CASE PollAnswers
    BY <2>1, FoundTyped
  <2>2. CASE PollFails
    BY <2>2 DEF Poll
  <2>3. CASE \E r \in Request : Skip(r)
    <3>1. poll.found \in SUBSET Request
      BY DEF IInv, Typed, Poll
    <3> QED
      BY <2>3, <3>1, FoundTyped
  <2> QED
    BY <2>1, <2>2, <2>3
<1>2. UNCHANGED <<shown, posted, lost>> /\ Unpolled /\ poll.pc # "record"
  OBVIOUS
<1> HIDE DEF PollAnswers, PollFails, Skip
<1>3. Recorded'
  BY <1>1, <1>2 DEF IInv, Recorded, OnRecord, Open, Unpolled
<1> QED
  BY <1>1, <1>2, <1>3, PollingKeeps DEF IInv, Typed

LEMMA PostHolds == ASSUME IInv, NEW r \in Request, Post(r) PROVE IInv'
<1>1. /\ poll \in Poll /\ poll.pc = "post" /\ r \notin posted /\ UNCHANGED posted
      /\ shown \in [Request -> Nat] /\ lost \in Nat /\ restarts \in Nat
      /\ posted \subseteq Request
  BY DEF Post, IInv, Typed
<1>2. Unpolled
  BY DEF Post
<1>3. Found(poll.found \ {r}) \in Poll /\ Found(poll.found \ {r}).pc # "record"
  BY <1>1, FoundTyped DEF Poll
<1>4. \A x \in Request : ~OnRecord(x) <=> x \notin posted
  BY <1>1 DEF OnRecord
<1>5. CASE shown' = [shown EXCEPT ![r] = @ + 1] /\ UNCHANGED lost
             /\ poll' = [poll EXCEPT !.pc = "record", !.now = r]
  <2>1. poll' \in Poll /\ poll'.pc = "record" /\ poll'.now = r
    BY <1>1, <1>5 DEF Poll
  <2>2. Recorded'
    BY <1>1, <1>2, <1>4, <1>5, <2>1 DEF IInv, Recorded, OnRecord, Open, Unpolled
  <2> QED
    BY <1>1, <1>2, <1>5, <2>1, <2>2, PollingKeeps
<1>6. CASE poll' = Found(poll.found \ {r}) /\ UNCHANGED <<shown, lost>>
  <2>1. Recorded'
    BY <1>1, <1>2, <1>3, <1>4, <1>6 DEF IInv, Recorded, OnRecord, Open, Unpolled
  <2> QED
    BY <1>1, <1>2, <1>3, <1>6, <2>1, PollingKeeps
<1>7. CASE poll' = Found(poll.found \ {r}) /\ shown' = [shown EXCEPT ![r] = @ + 1]
             /\ lost' = lost + 1
  <2>1. Recorded'
    BY <1>1, <1>2, <1>3, <1>4, <1>7 DEF IInv, Recorded, OnRecord, Open, Unpolled
  <2> QED
    BY <1>1, <1>2, <1>3, <1>7, <2>1, PollingKeeps
<1> QED
  BY <1>5, <1>6, <1>7 DEF Post

LEMMA RecordHolds == ASSUME IInv, Record PROVE IInv'
<1>1. poll \in Poll /\ poll.pc = "record" /\ poll.now \in Request
  BY DEF Record, IInv, Typed, Recorded
<1>2. poll' \in Poll /\ poll'.pc # "record" /\ posted' \subseteq Request
  BY <1>1, FoundTyped DEF Record, Poll, IInv, Typed
<1>3. \A r \in Request : OnRecord(r)' <=> OnRecord(r)
  BY <1>1, <1>2 DEF Record, OnRecord
<1>4. Recorded'
  BY <1>2, <1>3 DEF IInv, Recorded, Record, Open, Unpolled
<1> QED
  BY <1>2, <1>4, PollingKeeps DEF Record, IInv, Typed

(***************************************************************************)
(* The listeners                                                           *)
(***************************************************************************)
\* A listener changes its own record, the decision of an open request, and
\* forgets settled requests.
LEMMA ListenerKeeps ==
  ASSUME IInv, UNCHANGED Unclicked, gate' \in [Request -> {"new", "pending", "expired"} \cup Decided],
         posted' \subseteq posted, click' \in [Listener -> Click],
         \A r \in Request : gate'[r] # gate[r] => ~Open(r)' /\ Open(r),
         \A r \in posted \ posted' : ~Open(r)
  PROVE  Typed' /\ Recorded' /\ \A r \in late' : ~Open(r)'
<1> USE DEF Unclicked, IInv
<1>1. Typed'
  BY DEF Typed
<1>2. \A r \in Request : Open(r)' => Open(r)
  BY DEF Open
<1>3. \A r \in Request : Open(r) /\ OnRecord(r) => OnRecord(r)'
  BY DEF OnRecord
<1>4. \A r \in Request : shown[r] \in Nat /\ restarts \in Nat /\ lost \in Nat
  BY DEF Typed
<1>5. Recorded'
  BY <1>2, <1>3, <1>4 DEF Recorded
<1>6. \A r \in late' : ~Open(r)'
  BY <1>2 DEF Settled, Typed
<1> QED
  BY <1>1, <1>5, <1>6

LEMMA ClickHolds ==
  ASSUME IInv, NEW l \in Listener, NEW r \in Request, NEW d \in DOMAIN Decision,
         ClickButton(l, r, d)
  PROVE  IInv'
<1> DEFINE new == [Idle EXCEPT !.pc = "submit", !.request = r, !.decision = d]
<1>1. new \in Click /\ new.pc = "submit" /\ new.request = r
  BY DEF Click
<1>2. /\ click' = [click EXCEPT ![l] = new] /\ UNCHANGED <<gate, posted, Unclicked>>
      /\ told' = <<>>
  BY DEF ClickButton
<1>3. click \in [Listener -> Click] /\ posted \subseteq Request
      /\ gate \in [Request -> {"new", "pending", "expired"} \cup Decided]
  BY DEF IInv, Typed
<1> HIDE DEF new
<1>4. click' \in [Listener -> Click]
  BY <1>1, <1>2, <1>3
<1>5. Typed' /\ Recorded' /\ \A x \in late' : ~Open(x)'
  BY <1>2, <1>3, <1>4, ListenerKeeps
<1>6. Settled'
  BY <1>1, <1>2, <1>3, <1>5 DEF IInv, Settled
<1>7. ToldIsTrue'
  BY <1>2, Zenon DEF ToldIsTrue
<1> QED
  BY <1>5, <1>6, <1>7 DEF IInv

\* What the other listeners rely on survives the decision of an open request.
LEMMA OthersSettled ==
  ASSUME IInv, NEW l \in Listener, NEW new \in Click,
         click' = [click EXCEPT ![l] = new],
         \A r \in Request : gate'[r] # gate[r] => Open(r),
         \A r \in late' : ~Open(r)', new.pc # "submit",
         new.pc = "pop" =>
           /\ new.request \in Request
           /\ new.answer \in {"done", "gone"}
           /\ new.answer = "done" => gate'[new.request] = Decision[new.decision]
           /\ new.answer = "gone" => gate'[new.request] = "expired"
  PROVE  Settled'
<1>1. click \in [Listener -> Click]
  BY DEF IInv, Typed
<1>2. \A k \in Listener : click[k].decision \in {"approve", "deny"}
  BY <1>1 DEF Click
<1>3. \A k \in Listener : click[k].pc = "pop" => ~Open(click[k].request)
  BY <1>2 DEF IInv, Settled, Open
<1>4. \A k \in Listener :
        click[k].pc = "pop" => gate'[click[k].request] = gate[click[k].request]
  BY <1>3 DEF IInv, Settled
<1>5. \A k \in Listener : click'[k] = IF k = l THEN new ELSE click[k]
  BY <1>1
<1> QED
  BY <1>4, <1>5 DEF IInv, Settled

LEMMA SubmitHolds ==
  ASSUME IInv, NEW l \in Listener, Submit(l) \/ SubmitFails(l) PROVE IInv'
<1> DEFINE r == click[l].request
           decision == Decision[click[l].decision]
           waiting == [click[l] EXCEPT !.pc = "pop", !.answer = "done"]
           expired == [click[l] EXCEPT !.pc = "pop", !.answer = "gone"]
<1>1. /\ click \in [Listener -> Click] /\ posted \subseteq Request
      /\ gate \in [Request -> {"new", "pending", "expired"} \cup Decided]
  BY DEF IInv, Typed
<1>2. r \in Request /\ decision \in Decided /\ click[l].decision \in DOMAIN Decision
  BY <1>1 DEF Submit, SubmitFails, IInv, Settled, Click
<1>3. /\ waiting \in Click /\ waiting.pc = "pop" /\ waiting.answer = "done"
      /\ waiting.request = r /\ waiting.decision = click[l].decision
      /\ expired \in Click /\ expired.pc = "pop" /\ expired.answer = "gone"
      /\ expired.request = r
      /\ Idle \in Click
  BY <1>1 DEF Click
<1>4. UNCHANGED <<posted, Unclicked>>
  BY DEF Submit, SubmitFails
<1>5. \/ /\ gate[r] = "pending" /\ gate' = [gate EXCEPT ![r] = decision]
         /\ click' = [click EXCEPT ![l] = waiting] /\ told' = <<>>
      \/ /\ gate[r] = "expired" /\ gate' = gate
         /\ click' = [click EXCEPT ![l] = expired] /\ told' = <<>>
      \/ /\ gate' = gate
         /\ click' = [click EXCEPT ![l] = Idle] /\ told' = <<r, "undelivered">>
      \/ /\ gate[r] = "pending" /\ gate' = [gate EXCEPT ![r] = decision]
         /\ click' = [click EXCEPT ![l] = Idle] /\ told' = <<r, "undelivered">>
  <2>1. CASE Submit(l)
    <3>1. [click EXCEPT ![l].pc = "pop", ![l].answer = "done"]
            = [click EXCEPT ![l] = waiting]
      BY <1>1 DEF Click
    <3>2. [click EXCEPT ![l].pc = "pop", ![l].answer = "gone"]
            = [click EXCEPT ![l] = expired]
      BY <1>1 DEF Click
    <3> QED
      BY <2>1, <3>1, <3>2 DEF Submit
  <2>2. CASE SubmitFails(l)
    BY <2>2 DEF SubmitFails
  <2> QED
    BY <2>1, <2>2
<1> HIDE DEF r, decision, waiting, expired
<1>6. \A x \in Request : gate'[x] # gate[x] => ~Open(x)' /\ Open(x)
  BY <1>1, <1>2, <1>5 DEF Open
<1>7. /\ click' \in [Listener -> Click]
      /\ gate' \in [Request -> {"new", "pending", "expired"} \cup Decided]
  BY <1>1, <1>2, <1>3, <1>5
<1>8. Typed' /\ Recorded' /\ \A x \in late' : ~Open(x)'
  BY <1>4, <1>6, <1>7, ListenerKeeps
<1>9. Settled'
  <2>1. CASE click' = [click EXCEPT ![l] = waiting] /\ gate' = [gate EXCEPT ![r] = decision]
    <3>1. gate'[waiting.request] = Decision[waiting.decision]
      BY <1>1, <1>2, <1>3, <2>1 DEF decision
    <3> QED
      BY <1>2, <1>3, <1>6, <1>8, <2>1, <3>1, OthersSettled
  <2>2. CASE click' = [click EXCEPT ![l] = expired] /\ gate' = gate /\ gate[r] = "expired"
    BY <1>2, <1>3, <1>6, <1>8, <2>2, OthersSettled
  <2>3. CASE click' = [click EXCEPT ![l] = Idle]
    BY <1>3, <1>6, <1>8, <2>3, OthersSettled
  <2> QED
    BY <1>5, <2>1, <2>2, <2>3
<1>10. ToldIsTrue'
  <2>1. CASE told' = <<>>
    BY <2>1, Zenon DEF ToldIsTrue
  <2>2. CASE told' = <<r, "undelivered">>
    BY <2>2 DEF ToldIsTrue
  <2> QED
    BY <1>5, <2>1, <2>2
<1> QED
  BY <1>8, <1>9, <1>10 DEF IInv

LEMMA PopHolds == ASSUME IInv, NEW l \in Listener, Pop(l) PROVE IInv'
<1> DEFINE r == click[l].request
<1>1. /\ click \in [Listener -> Click] /\ posted \subseteq Request
      /\ gate \in [Request -> {"new", "pending", "expired"} \cup Decided]
      /\ Idle \in Click
  BY DEF IInv, Typed, Click
<1>2. /\ r \in Request /\ click[l].answer \in {"done", "gone"}
      /\ click[l].decision \in DOMAIN Decision
      /\ click[l].answer = "done" => gate[r] = Decision[click[l].decision]
      /\ click[l].answer = "gone" => gate[r] = "expired"
  BY <1>1 DEF Pop, IInv, Settled, Click
<1>3. /\ click' = [click EXCEPT ![l] = Idle] /\ posted' = posted \ {r}
      /\ UNCHANGED <<gate, Unclicked>> /\ told' = Answer(l)
  BY DEF Pop
<1>4. ~Open(r)
  BY <1>2 DEF Open
<1> HIDE DEF r
<1>5. Typed' /\ Recorded' /\ \A x \in late' : ~Open(x)'
  BY <1>1, <1>3, <1>4, ListenerKeeps
<1>6. Settled'
  BY <1>1, <1>3, <1>5, OthersSettled
<1>7. ToldIsTrue'
  BY <1>2, <1>3 DEF ToldIsTrue, Answer, r
<1> QED
  BY <1>5, <1>6, <1>7 DEF IInv

(***************************************************************************)
(* The process                                                             *)
(***************************************************************************)
LEMMA ProcessHolds == ASSUME IInv, Stop \/ Start PROVE IInv'
<1> USE DEF Stop, Start, IInv
<1>1. Typed'
  BY DEF Typed, Poll, Click
<1>2. Settled'
  BY DEF Settled, Open
<1>3. Recorded'
  <2>1. CASE Stop
    <3>1. \A r \in Request : shown[r] \in Nat /\ restarts \in Nat /\ lost \in Nat
      BY DEF Typed
    <3>2. \A r \in Request : shown[r] <= restarts + lost + 1 \/ ~Open(r)
      BY <3>1 DEF Recorded
    <3>3. /\ restarts' = restarts + 1 /\ UNCHANGED <<gate, shown, lost>>
          /\ \A r \in Request : ~OnRecord(r)'
      BY <2>1 DEF OnRecord
    <3> QED
      BY <2>1, <3>1, <3>2, <3>3 DEF Recorded, Open
  <2>2. CASE Start
    BY <2>2 DEF Recorded, OnRecord, Open
  <2> QED
    BY <2>1, <2>2
<1>4. told' = <<>>
  OBVIOUS
<1> HIDE DEF Stop, Start, IInv
<1>5. ToldIsTrue'
  BY <1>4, Zenon DEF ToldIsTrue
<1> QED
  BY <1>1, <1>2, <1>3, <1>5 DEF IInv

LEMMA StepHolds == ASSUME IInv, [Next]_vars PROVE IInv'
<1>1. CASE \E r \in Request : Hold(r) \/ Expire(r) \/ WebDecides(r)
  BY <1>1, GatewayHolds
<1>2. CASE Polling \/ PollFails
  BY <1>2, PruneHolds, PollHolds, PostHolds, RecordHolds DEF Polling
<1>3. CASE \E l \in Listener :
             \/ \E r \in Request, d \in DOMAIN Decision : ClickButton(l, r, d)
             \/ Submit(l) \/ SubmitFails(l) \/ Pop(l)
  BY <1>3, ClickHolds, SubmitHolds, PopHolds
<1>4. CASE Stop \/ Start
  BY <1>4, ProcessHolds
<1>5. CASE UNCHANGED vars
  BY <1>5 DEF vars, IInv, Typed, Settled, Recorded, OnRecord, Open, ToldIsTrue
<1> QED
  BY <1>1, <1>2, <1>3, <1>4, <1>5 DEF Next

LEMMA Invariance == Spec => []IInv
<1>1. Init => IInv
  BY InitHolds
<1>2. IInv /\ [Next]_vars => IInv'
  BY StepHolds
<1> QED
  BY <1>1, <1>2, PTL DEF Spec

\* A waiting request is in the channel once, but for restarts and unacknowledged
\* messages: no click, failed submit, expiry or pruning of another makes the bridge
\* forget a request that still waits.
THEOREM ShownOnce == Spec => []OnePending
<1>1. IInv => OnePending
  <2> SUFFICES ASSUME IInv, NEW r \in Request, gate[r] = "pending"
               PROVE  shown[r] <= 1 + restarts + lost
    BY DEF OnePending
  <2> QED
    BY DEF IInv, Typed, Recorded, Open
<1> QED
  BY <1>1, Invariance, PTL

\* When the channel is told that a request was approved, denied or had expired, the
\* gateway holds just that, whoever decided first.  Nothing is said here of the
\* fourth answer, that a decision could not be delivered.
THEOREM Truth == Spec => []ToldIsTrue
<1>1. IInv => ToldIsTrue
  BY DEF IInv
<1> QED
  BY <1>1, Invariance, PTL

Final == {"approved", "denied", "expired"}

\* Only a request that is new or pending changes at the gateway.
LEMMA GatewayFinal ==
  ASSUME NEW r \in Request, NEW a \in Final, IInv, gate[r] = a, [Next]_vars
  PROVE  gate'[r] = a
<1> USE DEF Final, Decided
<1>0. gate \in [Request -> {"new", "pending", "expired"} \cup Decided]
      /\ \A l \in Listener : click[l] \in Click
  BY DEF IInv, Typed
<1>1. CASE \E q \in Request : Hold(q) \/ Expire(q) \/ WebDecides(q)
  BY <1>0, <1>1 DEF Hold, Expire, WebDecides
<1>2. CASE \E l \in Listener : Submit(l) \/ SubmitFails(l)
  <2>1. PICK l \in Listener : Submit(l) \/ SubmitFails(l)
    BY <1>2
  <2>2. \/ gate' = gate
        \/ /\ gate[click[l].request] = "pending"
           /\ gate' = [gate EXCEPT ![click[l].request] = Decision[click[l].decision]]
    BY <2>1 DEF Submit, SubmitFails
  <2> QED
    BY <1>0, <2>2
<1>3. CASE UNCHANGED gate
  BY <1>3
<1>4. Polling \/ PollFails \/ Stop \/ Start \/ UNCHANGED vars => UNCHANGED gate
  BY DEF Polling, PollFails, PruneList, PruneOne, PruneNothing, PollAnswers, Record,
         Skip, Post, Unpolled, Stop, Start, vars
<1>5. (\E l \in Listener : Pop(l) \/ \E q \in Request, d \in DOMAIN Decision : ClickButton(l, q, d))
        => UNCHANGED gate
  BY DEF Pop, ClickButton
<1> QED
  BY <1>1, <1>2, <1>3, <1>4, <1>5 DEF Next

\* And it holds that for good: what the channel was once told to be approved is
\* never denied by a later click, in the web UI or by expiry, nor the reverse.
THEOREM AnswerStands ==
  ASSUME NEW r \in Request, NEW a \in Final
  PROVE  Spec => [](told = <<r, a>> => [](gate[r] = a))
<1>1. IInv => (told = <<r, a>> => gate[r] = a)
  BY DEF IInv, ToldIsTrue, Final, Decided
<1>2. IInv /\ gate[r] = a /\ [Next]_vars => (gate[r] = a)'
  BY GatewayFinal
<1> QED
  BY <1>1, <1>2, Invariance, PTL DEF Spec

-----------------------------------------------------------------------------
(* The breaker: types *)

\* Every step keeps the types.
LEMMA BreakerTypeStep ==
  ASSUME BreakerTypeOK, [BreakerNext]_breakerVars
  PROVE  BreakerTypeOK'
<1> USE EquityAssumption DEF BreakerTypeOK, Equity, EquityOrNone, Goto
<1>1. CASE Market
  BY <1>1 DEF Market
<1>2. ASSUME NEW r \in Run, RunStep(r) PROVE BreakerTypeOK'
  <2>1. CASE Snapshot(r)
    BY <2>1 DEF Snapshot
  <2>2. CASE CheckHalt(r)
    BY <2>2 DEF CheckHalt
  <2>3. CASE TripNotional(r)
    BY <2>3 DEF TripNotional
  <2>4. CASE CheckDrawdown(r)
    BY <2>4 DEF CheckDrawdown
  <2>5. CASE WriteTmp(r)
    BY <2>5 DEF WriteTmp
  <2>6. CASE ReplaceMark(r)
    BY <2>6 DEF ReplaceMark
  <2>7. CASE Pass(r)
    BY <2>7 DEF Pass
  <2>8. CASE Crash(r)
    BY <2>8 DEF Crash
  <2> QED
    BY <1>2, <2>1, <2>2, <2>3, <2>4, <2>5, <2>6, <2>7, <2>8 DEF RunStep
<1>3. CASE HaltTrading
  BY <1>3 DEF HaltTrading
<1>4. CASE ResumeTrading
  BY <1>4 DEF ResumeTrading
<1>5. CASE DivergenceLooks
  BY <1>5 DEF DivergenceLooks
<1>6. CASE DivergenceHalts
  BY <1>6 DEF DivergenceHalts
<1>7. CASE UNCHANGED breakerVars
  BY <1>7 DEF breakerVars
<1> QED
  BY <1>1, <1>2, <1>3, <1>4, <1>5, <1>6, <1>7 DEF BreakerNext

LEMMA BreakerTypeInit == BreakerInit => BreakerTypeOK
  BY EquityAssumption DEF BreakerInit, BreakerTypeOK, Equity, EquityOrNone

\* The files and the runs of the breaker have their types, overlapping or not.
THEOREM BreakerTyped == BreakerSpec => []BreakerTypeOK
<1>1. BreakerInit => BreakerTypeOK
  BY BreakerTypeInit
<1>2. BreakerTypeOK /\ [BreakerNext]_breakerVars => BreakerTypeOK'
  BY BreakerTypeStep
<1> QED
  BY <1>1, <1>2, PTL DEF BreakerSpec

-----------------------------------------------------------------------------
(* The breaker: the kill switch, when runs do not overlap *)

\* At most one run is at the breaker.
OneChecks == \A q, r \in Run : pc[q] # "idle" /\ pc[r] # "idle" => q = r

\* What a run on its way to a new mark knows of it, and the file of what it
\* passed.
Underway ==
  \A r \in Run :
    /\ pc[r] \in {"write", "replace"} => read[r] >= mark
    /\ pc[r] = "replace" => tmp = read[r]
    /\ pc[r] = "pass" => read[r] <= mark

BreakerInv == BreakerTypeOK /\ OneChecks /\ Underway /\ PeakOnFile /\ DrawdownStops

\* A drawdown too far below one mark is too far below every higher one.
LEMMA DrawdownMonotone ==
  ASSUME NEW e \in Nat, NEW m \in Nat, NEW p \in Nat, p <= m, TooFarBelow(e, p)
  PROVE  TooFarBelow(e, m)
<1> DEFINE d == MaxDrawdown
<1>1. d \in Nat /\ d < 100
  BY DrawdownAssumption
<1> HIDE DEF d
<1>2. (100 - d) * p <= (100 - d) * m
  <2>1. 100 - d \in Nat /\ m - p \in Nat
    BY <1>1
  <2>2. (100 - d) * (m - p) \in Nat
    BY <2>1
  <2>3. (100 - d) * (m - p) = (100 - d) * m - (100 - d) * p
    BY <1>1
  <2> QED
    BY <1>1, <2>2, <2>3
<1>3. (100 - d) * p = 100 * p - d * p /\ (100 - d) * m = 100 * m - d * m
  BY <1>1
<1>4. (p - e) * 100 > d * p
  BY DEF TooFarBelow, d
<1>5. (m - e) * 100 > d * m
  <2>1. d * p \in Nat /\ d * m \in Nat
    BY <1>1
  <2> QED
    BY <1>2, <1>3, <1>4, <2>1
<1> QED
  BY <1>5 DEF TooFarBelow, d

LEMMA BreakerStarts == BreakerInit => BreakerInv
  BY BreakerTypeInit DEF BreakerInit, BreakerInv, OneChecks, Underway, PeakOnFile,
     DrawdownStops

\* Every step keeps the invariant of runs that do not overlap.
LEMMA BreakerStep ==
  ASSUME ~Overlap, BreakerInv, [BreakerNext]_breakerVars
  PROVE  BreakerInv'
<1>1. BreakerTypeOK /\ BreakerTypeOK'
  BY BreakerTypeStep DEF BreakerInv
<1>2. OneChecks /\ Underway /\ PeakOnFile /\ DrawdownStops
  BY DEF BreakerInv
<1>3. SUFFICES OneChecks' /\ Underway' /\ PeakOnFile' /\ DrawdownStops'
  BY <1>1 DEF BreakerInv
<1>4. ASSUME UNCHANGED <<mark, tmp, pc, read, peak>>
      PROVE  OneChecks' /\ Underway' /\ PeakOnFile' /\ DrawdownStops'
  BY <1>2, <1>4 DEF OneChecks, Underway, PeakOnFile, DrawdownStops, TooFarBelow
<1>5. ASSUME NEW r \in Run, RunStep(r)
      PROVE  OneChecks' /\ Underway' /\ PeakOnFile' /\ DrawdownStops'
  <2>1. CASE Snapshot(r)
    <3>1. OneChecks'
      BY <1>1, <2>1 DEF Snapshot, Goto, OneChecks, BreakerTypeOK
    <3>2. Underway' /\ PeakOnFile' /\ DrawdownStops'
      BY <1>1, <1>2, <2>1 DEF Snapshot, Goto, Underway, PeakOnFile, DrawdownStops,
           TooFarBelow, BreakerTypeOK
    <3> QED
      BY <3>1, <3>2
  <2>2. ASSUME UNCHANGED <<mark, tmp, read, peak>>, Goto(r, "idle") \/ Goto(r, "mark"),
               pc[r] # "idle"
        PROVE  OneChecks' /\ Underway' /\ PeakOnFile' /\ DrawdownStops'
    BY <1>1, <1>2, <2>2 DEF Goto, OneChecks, Underway, PeakOnFile, DrawdownStops,
         TooFarBelow, BreakerTypeOK
  <2>3. CASE CheckHalt(r)
    BY <2>2, <2>3 DEF CheckHalt
  <2>4. CASE TripNotional(r)
    BY <2>2, <2>4 DEF TripNotional
  <2>5. CASE Crash(r)
    BY <2>2, <2>5 DEF Crash
  <2>6. CASE CheckDrawdown(r)
    <3>1. CASE Goto(r, "idle")
      BY <2>2, <2>6, <3>1 DEF CheckDrawdown
    <3>2. CASE Goto(r, "write") /\ Raise(r)
      BY <1>1, <1>2, <2>6, <3>2 DEF CheckDrawdown, Goto, Raise, OneChecks, Underway,
           PeakOnFile, DrawdownStops, TooFarBelow, BreakerTypeOK, Equity, EquityOrNone
    <3>3. CASE Goto(r, "pass") /\ ~Raise(r)
               /\ ~(mark > read[r] /\ TooFarBelow(read[r], mark))
      <4>1. ~(peak > read[r] /\ TooFarBelow(read[r], peak))
        <5>1. mark \in Nat /\ peak \in Nat /\ read[r] \in Nat
          BY <1>1, EquityAssumption DEF BreakerTypeOK, Equity, EquityOrNone
        <5>2. ASSUME peak > read[r], TooFarBelow(read[r], peak) PROVE FALSE
          <6>1. mark > read[r]
            BY <1>2, <5>1, <5>2 DEF PeakOnFile
          <6>2. TooFarBelow(read[r], mark)
            BY <1>2, <5>1, <5>2, DrawdownMonotone DEF PeakOnFile
          <6> QED
            BY <3>3, <6>1, <6>2
        <5> QED
          BY <5>2
      <4>2. DrawdownStops'
        BY <1>1, <1>2, <2>6, <3>3, <4>1 DEF CheckDrawdown, Goto, DrawdownStops,
             TooFarBelow, BreakerTypeOK
      <4>3. OneChecks' /\ Underway' /\ PeakOnFile'
        BY <1>1, <1>2, <2>6, <3>3 DEF CheckDrawdown, Goto, Raise, OneChecks, Underway,
             PeakOnFile, BreakerTypeOK, Equity, EquityOrNone
      <4> QED
        BY <4>2, <4>3
    <3> QED
      BY <2>6, <3>1, <3>2, <3>3 DEF CheckDrawdown
  <2>7. CASE WriteTmp(r)
    BY <1>1, <1>2, <2>7 DEF WriteTmp, Goto, OneChecks, Underway, PeakOnFile,
         DrawdownStops, TooFarBelow, BreakerTypeOK
  <2>8. CASE ReplaceMark(r)
    <3>1. tmp = read[r] /\ read[r] >= mark /\ read[r] # 0
      BY <1>1, <1>2, <2>8 DEF ReplaceMark, Underway, BreakerTypeOK, Equity
    <3>2. mark' = read[r] /\ Goto(r, "pass") /\ UNCHANGED <<read, peak>>
      BY <2>8, <3>1 DEF ReplaceMark
    <3>3. peak <= read[r]
      BY <1>1, <1>2, <3>1 DEF PeakOnFile, BreakerTypeOK, Equity, EquityOrNone
    <3>4. OneChecks' /\ PeakOnFile'
      BY <1>1, <1>2, <2>8, <3>2, <3>3 DEF ReplaceMark, Goto, OneChecks, PeakOnFile,
         BreakerTypeOK
    <3>5. \A q \in Run : q # r => pc'[q] = "idle"
      BY <1>1, <1>2, <2>8, <3>2 DEF ReplaceMark, Goto, OneChecks, BreakerTypeOK
    <3>6. Underway'
      BY <1>1, <3>2, <3>5 DEF Underway, Goto, BreakerTypeOK, Equity
    <3>7. DrawdownStops'
      BY <1>1, <3>2, <3>3, <3>5 DEF DrawdownStops, Goto, BreakerTypeOK, Equity,
         EquityOrNone
    <3> QED
      BY <3>4, <3>6, <3>7
  <2>9. CASE Pass(r)
    <3>1. read[r] <= mark /\ UNCHANGED <<mark, tmp, read>> /\ Goto(r, "idle")
      BY <1>2, <2>9 DEF Pass, Underway
    <3>2. \A q \in Run : pc'[q] = "idle"
      BY <1>1, <1>2, <2>9 DEF Pass, Goto, OneChecks, BreakerTypeOK
    <3>3. PeakOnFile'
      BY <1>2, <2>9, <3>1 DEF Pass, PeakOnFile
    <3> QED
      BY <3>2, <3>3 DEF OneChecks, Underway, DrawdownStops
  <2> QED
    BY <1>5, <2>1, <2>3, <2>4, <2>5, <2>6, <2>7, <2>8, <2>9 DEF RunStep
<1>6. CASE UNCHANGED breakerVars
  BY <1>4, <1>6 DEF breakerVars
<1>7. CASE Market \/ HaltTrading \/ ResumeTrading \/ DivergenceLooks \/ DivergenceHalts
  BY <1>4, <1>7 DEF Market, HaltTrading, ResumeTrading, DivergenceLooks,
     DivergenceHalts
<1> QED
  BY <1>5, <1>6, <1>7 DEF BreakerNext

\* The high-water mark on file is at least every equity a run has traded on,
\* when the runs come one after the other: crashes between the two writes and
\* stale temporary files included.
THEOREM PeakKept ==
  ASSUME ~Overlap
  PROVE  BreakerSpec => []PeakOnFile
<1>1. BreakerInv /\ [BreakerNext]_breakerVars => BreakerInv'
  BY BreakerStep
<1>2. BreakerInv => PeakOnFile
  BY DEF BreakerInv
<1>3. BreakerInit => BreakerInv
  BY BreakerStarts
<1> QED
  BY <1>1, <1>2, <1>3, PTL DEF BreakerSpec

\* No run trades more than max_drawdown_pct below an equity an earlier run has
\* traded on, when the runs come one after the other.
THEOREM DrawdownHonoured ==
  ASSUME ~Overlap
  PROVE  BreakerSpec => []DrawdownStops
<1>1. BreakerInv /\ [BreakerNext]_breakerVars => BreakerInv'
  BY BreakerStep
<1>2. BreakerInv => DrawdownStops
  BY DEF BreakerInv
<1>3. BreakerInit => BreakerInv
  BY BreakerStarts
<1> QED
  BY <1>1, <1>2, <1>3, PTL DEF BreakerSpec

\* Nor is the mark ever lowered then, as its comment says; two runs at once may
\* write theirs in the other order.
THEOREM MarkRises ==
  ASSUME ~Overlap
  PROVE  BreakerSpec => MarkNeverLowered
<1>1. ASSUME BreakerInv, [BreakerNext]_breakerVars PROVE mark' >= mark
  <2>1. mark \in Nat /\ \A r \in Run : pc[r] = "replace" => tmp >= mark
    BY <1>1, EquityAssumption DEF BreakerInv, BreakerTypeOK, EquityOrNone, Underway
  <2>2. ASSUME NEW r \in Run, RunStep(r) PROVE mark' >= mark
    BY <2>1, <2>2 DEF RunStep, Snapshot, CheckHalt, TripNotional, CheckDrawdown, WriteTmp,
       ReplaceMark, Pass, Crash
  <2> QED
    BY <1>1, <2>1, <2>2 DEF BreakerNext, Market, HaltTrading, ResumeTrading,
       DivergenceLooks, DivergenceHalts, breakerVars
<1>2. BreakerInv /\ [BreakerNext]_breakerVars => BreakerInv'
  BY BreakerStep
<1>3. BreakerInit => BreakerInv
  BY BreakerStarts
<1> QED
  BY <1>1, <1>2, <1>3, PTL DEF BreakerSpec, MarkNeverLowered

\* A run that began under a halt is at the halt file, or has gone.
Held == \A r \in halted : pc[r] = "idle" \/ (pc[r] = "halt" /\ HaltSeen)

\* No run that began under a halt passes before the halt is lifted, whoever
\* halted, and whether runs overlap or not.
THEOREM HaltHonoured == BreakerSpec => []HaltStops
<1>1. BreakerInit => BreakerTypeOK /\ Held
  BY BreakerTypeInit DEF BreakerInit, Held
<1>2. ASSUME BreakerTypeOK, Held, [BreakerNext]_breakerVars
      PROVE  BreakerTypeOK' /\ Held'
  <2>1. BreakerTypeOK'
    BY <1>2, BreakerTypeStep
  <2>2. ASSUME NEW r \in Run, RunStep(r) PROVE Held'
    BY <1>2, <2>2 DEF RunStep, Snapshot, CheckHalt, TripNotional, CheckDrawdown, WriteTmp,
       ReplaceMark, Pass, Crash, Goto, Held, HaltSeen, BreakerTypeOK
  <2>3. ASSUME Market \/ HaltTrading \/ ResumeTrading \/ DivergenceLooks \/ DivergenceHalts
                 \/ UNCHANGED breakerVars
        PROVE  Held'
    BY <1>2, <2>3 DEF Market, HaltTrading, ResumeTrading, DivergenceLooks, DivergenceHalts,
       breakerVars, Held, HaltSeen
  <2> QED
    BY <1>2, <2>1, <2>2, <2>3 DEF BreakerNext
<1>3. Held => HaltStops
  BY DEF Held, HaltStops
<1> QED
  BY <1>1, <1>2, <1>3, PTL DEF BreakerSpec
=============================================================================
