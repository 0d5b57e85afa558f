------------------------------ MODULE Approvals ------------------------------
(***************************************************************************)
(* The approvals bridge (orchestrator/approvals.py).  OneCLI's gateway     *)
(* holds a credentialed request until a human decides or it expires; a     *)
(* thread of the orchestrator long-polls the gateway and posts what is     *)
(* pending to the channel as Approve / Deny buttons, and a listener thread *)
(* per click submits the decision.  What has been posted is remembered in  *)
(* memory only.  The operator may also decide in OneCLI's web UI.          *)
(*                                                                         *)
(* The gateway is external: a request has one identity, is decided at most *)
(* once, and its expiry is a time that both sides read from the same clock.*)
(***************************************************************************)
EXTENDS Naturals, FiniteSets

CONSTANTS
  Request,         \* requests the gateway may ever hold
  Listener,        \* clicks handled at the same time
  HonoursExclude,  \* does the gateway leave out the ids it is asked to?
  MaxFaults,       \* bound on failed calls
  MaxClicks,       \* bound on clicks
  MaxRestarts,     \* bound on restarts of the orchestrator
  None

ASSUME ApprovalsAssumption ==
  /\ HonoursExclude \in BOOLEAN
  /\ MaxFaults \in Nat /\ MaxClicks \in Nat /\ MaxRestarts \in Nat
  /\ None \notin Request

VARIABLES
  gate,      \* each request at the gateway
  late,      \* requests whose expiresAt has passed
  shown,     \* the messages in the channel, per request
  posted,    \* _posted, as a set of request ids
  poll,      \* the polling thread
  click,     \* the listener threads
  told,      \* what the last step answered in the channel: <<request, answer>>
  faults, clicks, restarts,
  lost       \* messages that were posted although the call failed

vars == <<gate, late, shown, posted, poll, click, told, faults, clicks, restarts, lost>>

Decided == {"approved", "denied"}
Decision == [approve |-> "approved", deny |-> "denied"]

\* keys: list(self._posted) of the pruning, or the exclude parameter of the
\* poll; found: the listed requests not yet handled.
Poll == [pc : {"down", "prune", "poll", "post", "record"},
         keys : SUBSET Request, found : SUBSET Request, now : Request \cup {None}]
Rest(pc) == [pc |-> pc, keys |-> {}, found |-> {}, now |-> None]

Click == [pc : {"idle", "submit", "pop"}, request : Request \cup {None},
          decision : DOMAIN Decision, answer : {"none", "done", "gone"}]
Idle == [pc |-> "idle", request |-> None, decision |-> "deny", answer |-> "none"]

TypeOK ==
  /\ gate \in [Request -> {"new", "pending", "expired"} \cup Decided]
  /\ late \subseteq Request
  /\ shown \in [Request -> Nat]
  /\ posted \subseteq Request
  /\ poll \in Poll
  /\ click \in [Listener -> Click]
  /\ told \in (Request \X {"approved", "denied", "expired", "undelivered"}) \cup {<<>>}
  /\ faults \in 0 .. MaxFaults /\ clicks \in 0 .. MaxClicks
  /\ restarts \in 0 .. MaxRestarts
  /\ lost \in 0 .. MaxFaults

Init ==
  /\ gate = [r \in Request |-> "new"]
  /\ late = {}
  /\ shown = [r \in Request |-> 0]
  /\ posted = {}
  /\ poll = Rest("prune")
  /\ click = [l \in Listener |-> Idle]
  /\ told = <<>>
  /\ faults = 0 /\ clicks = 0 /\ restarts = 0 /\ lost = 0

\* Nothing is said to the operator.
Silent == told' = <<>>

Fault == faults < MaxFaults /\ faults' = faults + 1

-----------------------------------------------------------------------------
(* The gateway *)

Hold(r) ==
  /\ gate[r] = "new"
  /\ gate' = [gate EXCEPT ![r] = "pending"]
  /\ UNCHANGED <<late, shown, posted, poll, click, faults, clicks, restarts, lost>> /\ Silent

\* expiresAt passes: what is still pending is denied by timeout.
Expire(r) ==
  /\ gate[r] # "new" /\ r \notin late
  /\ late' = late \cup {r}
  /\ gate' = [gate EXCEPT ![r] = IF @ = "pending" THEN "expired" ELSE @]
  /\ UNCHANGED <<shown, posted, poll, click, faults, clicks, restarts, lost>> /\ Silent

WebDecides(r) ==
  /\ gate[r] = "pending"
  /\ \E d \in Decided : gate' = [gate EXCEPT ![r] = d]
  /\ UNCHANGED <<late, shown, posted, poll, click, faults, clicks, restarts, lost>> /\ Silent

-----------------------------------------------------------------------------
(* The polling thread: _run and poll_once *)

Unpolled == UNCHANGED <<gate, late, click, clicks, restarts>> /\ Silent

\* Faulty variant: nothing is ever pruned.
PruneOneKeeps ==
  /\ poll.pc = "prune" /\ poll.now # None
  /\ posted' = posted
  /\ \/ /\ poll.now \notin posted
        /\ poll' = Rest("prune")
     \/ /\ poll.now \in posted /\ poll.keys # {}
        /\ \E k \in poll.keys : poll' = [poll EXCEPT !.keys = @ \ {k}, !.now = k]
     \/ /\ poll.now \in posted /\ poll.keys = {}
        /\ poll' = [Rest("poll") EXCEPT !.keys = posted']
  /\ UNCHANGED <<shown, faults, lost>> /\ Unpolled

\* _prune_expired: the ids are listed, then looked up one by one; an id that a
\* click has dropped meanwhile is a KeyError, which ends this round.
PruneList ==
  /\ poll.pc = "prune" /\ poll.keys = {} /\ poll.now = None /\ posted # {}
  /\ \E k \in posted : poll' = [poll EXCEPT !.keys = posted \ {k}, !.now = k]
  /\ UNCHANGED <<shown, posted, faults, lost>> /\ Unpolled

PruneOne ==
  /\ poll.pc = "prune" /\ poll.now # None
  /\ posted' = IF poll.now \in late THEN posted \ {poll.now} ELSE posted
  /\ \/ /\ poll.now \notin posted
        /\ poll' = Rest("prune")
     \/ /\ poll.now \in posted /\ poll.keys # {}
        /\ \E k \in poll.keys : poll' = [poll EXCEPT !.keys = @ \ {k}, !.now = k]
     \/ /\ poll.now \in posted /\ poll.keys = {}
        /\ poll' = [Rest("poll") EXCEPT !.keys = posted']
  /\ UNCHANGED <<shown, faults, lost>> /\ Unpolled

PruneNothing ==
  /\ poll.pc = "prune" /\ poll.now = None /\ posted = {}
  /\ poll' = Rest("poll")
  /\ UNCHANGED <<shown, posted, faults, lost>> /\ Unpolled

\* With the requests still to handle; without any, a new round begins.
Found(requests) ==
  IF requests = {} THEN Rest("prune") ELSE [Rest("post") EXCEPT !.found = requests]

\* The pending list as the gateway has it when it answers.
PollAnswers ==
  /\ poll.pc = "poll"
  /\ LET pending == {r \in Request : gate[r] = "pending"}
     IN poll' = Found(IF HonoursExclude THEN pending \ poll.keys ELSE pending)
  /\ UNCHANGED <<shown, posted, faults, lost>> /\ Unpolled

PollFails ==
  /\ poll.pc = "poll" /\ Fault
  /\ poll' = Rest("prune")
  /\ UNCHANGED <<shown, posted, lost>> /\ Unpolled

Skip(r) ==
  /\ poll.pc = "post" /\ r \in poll.found /\ r \in posted
  /\ poll' = Found(poll.found \ {r})
  /\ UNCHANGED <<shown, posted, faults, lost>> /\ Unpolled

\* Faulty variant: the request is recorded before its message is posted.
PostRecordedFirst(r) ==
  /\ poll.pc = "post" /\ r \in poll.found /\ r \notin posted
  /\ posted' = posted \cup {r}
  /\ \/ /\ shown' = [shown EXCEPT ![r] = @ + 1]
        /\ UNCHANGED faults
     \/ Fault /\ UNCHANGED shown
  /\ poll' = Found(poll.found \ {r})
  /\ UNCHANGED <<lost>> /\ Unpolled

\* _post_approval: a failed call is not recorded, so that the next poll retries,
\* whether or not Slack had taken the message.
Post(r) ==
  /\ poll.pc = "post" /\ r \in poll.found /\ r \notin posted
  /\ \/ /\ shown' = [shown EXCEPT ![r] = @ + 1]
        /\ poll' = [poll EXCEPT !.pc = "record", !.now = r]
        /\ UNCHANGED <<faults, lost>>
     \/ /\ Fault
        /\ \/ UNCHANGED <<shown, lost>>
           \/ shown' = [shown EXCEPT ![r] = @ + 1] /\ lost' = lost + 1
        /\ poll' = Found(poll.found \ {r})
  /\ UNCHANGED <<posted>> /\ Unpolled

Record ==
  /\ poll.pc = "record"
  /\ posted' = posted \cup {poll.now}
  /\ poll' = Found(poll.found \ {poll.now})
  /\ UNCHANGED <<shown, faults, lost>> /\ Unpolled

Polling ==
  \/ PruneList \/ PruneOne \/ PruneNothing \/ PollAnswers \/ Record
  \/ \E r \in Request : Skip(r) \/ Post(r)

-----------------------------------------------------------------------------
(* A click: _decide *)

Unclicked == <<late, shown, poll, restarts, lost>>

\* Faulty variant: the click drops the record before it submits.
ClickButtonPops(l, r, d) ==
  /\ poll.pc # "down" /\ click[l].pc = "idle"
  /\ shown[r] > 0 /\ clicks < MaxClicks
  /\ clicks' = clicks + 1
  /\ posted' = posted \ {r}
  /\ click' = [click EXCEPT ![l] = [Idle EXCEPT !.pc = "submit", !.request = r, !.decision = d]]
  /\ UNCHANGED <<gate, faults, Unclicked>> /\ Silent

ClickButton(l, r, d) ==
  /\ poll.pc # "down" /\ click[l].pc = "idle"
  /\ shown[r] > 0 /\ clicks < MaxClicks
  /\ clicks' = clicks + 1
  /\ click' = [click EXCEPT ![l] = [Idle EXCEPT !.pc = "submit", !.request = r, !.decision = d]]
  /\ UNCHANGED <<gate, posted, faults, Unclicked>> /\ Silent

\* The gateway takes the first decision; it answers 410 for what has expired,
\* and another error for what has been decided.
Submit(l) ==
  /\ click[l].pc = "submit"
  /\ LET r == click[l].request
     IN \/ /\ gate[r] = "pending"
           /\ gate' = [gate EXCEPT ![r] = Decision[click[l].decision]]
           /\ click' = [click EXCEPT ![l].pc = "pop", ![l].answer = "done"]
           /\ Silent
        \/ /\ gate[r] = "expired"
           /\ click' = [click EXCEPT ![l].pc = "pop", ![l].answer = "gone"]
           /\ UNCHANGED <<gate>> /\ Silent
        \/ /\ gate[r] \in Decided
           /\ click' = [click EXCEPT ![l] = Idle]
           /\ told' = <<r, "undelivered">>
           /\ UNCHANGED gate
  /\ UNCHANGED <<posted, faults, clicks, Unclicked>>

\* The call fails; a decision that arrived stands nevertheless.
SubmitFails(l) ==
  /\ click[l].pc = "submit" /\ Fault
  /\ LET r == click[l].request
     IN /\ \/ UNCHANGED gate
           \/ /\ gate[r] = "pending"
              /\ gate' = [gate EXCEPT ![r] = Decision[click[l].decision]]
        /\ told' = <<r, "undelivered">>
  /\ click' = [click EXCEPT ![l] = Idle]
  /\ UNCHANGED <<posted, clicks, Unclicked>>

\* Faulty variant: 410 is taken for a success.
AnswerDone(l) == <<click[l].request, Decision[click[l].decision]>>

Answer(l) ==
  LET r == click[l].request
  IN IF click[l].answer = "gone" THEN <<r, "expired">>
     ELSE <<r, Decision[click[l].decision]>>

Pop(l) ==
  /\ click[l].pc = "pop"
  /\ posted' = posted \ {click[l].request}
  /\ told' = Answer(l)
  /\ click' = [click EXCEPT ![l] = Idle]
  /\ UNCHANGED <<gate, faults, clicks, Unclicked>>

-----------------------------------------------------------------------------
(* The process *)

\* The orchestrator stops, at any point; nothing it remembered survives.
Stop ==
  /\ poll.pc # "down" /\ restarts < MaxRestarts
  /\ restarts' = restarts + 1
  /\ poll' = Rest("down")
  /\ posted' = {}
  /\ click' = [l \in Listener |-> Idle]
  /\ UNCHANGED <<gate, late, shown, faults, clicks, lost>> /\ Silent

Start ==
  /\ poll.pc = "down"
  /\ poll' = Rest("prune")
  /\ UNCHANGED <<gate, late, shown, posted, click, faults, clicks, restarts, lost>> /\ Silent

Next ==
  \/ \E r \in Request : Hold(r) \/ Expire(r) \/ WebDecides(r)
  \/ Polling \/ PollFails
  \/ \E l \in Listener :
       \/ \E r \in Request, d \in DOMAIN Decision : ClickButton(l, r, d)
       \/ Submit(l) \/ SubmitFails(l) \/ Pop(l)
  \/ Stop \/ Start

Spec == Init /\ [][Next]_vars

\* The threads run, and the service is started again (Restart=always).  Time is
\* only assumed to pass for requests that are no longer pending: otherwise
\* expiry alone would settle every request.
Fairness ==
  /\ WF_vars(Polling) /\ WF_vars(Start)
  /\ \A l \in Listener : WF_vars(Submit(l) \/ Pop(l))
  /\ \A r \in Request : WF_vars(Expire(r) /\ gate[r] # "pending")

FairSpec == Spec /\ Fairness

-----------------------------------------------------------------------------
(* Properties *)

\* While a request waits for its decision the operator sees one message for it;
\* a second one takes a restart or a message whose acknowledgment was lost
\* (test_same_request_not_posted_twice, and the module's restart semantics).
OnePending ==
  \A r \in Request : gate[r] = "pending" => shown[r] <= 1 + restarts + lost

\* A request the channel says was approved or denied was so at the gateway,
\* whichever listener, button or web UI was first, and what is said to have expired
\* was not released.  That a decision could not be delivered says nothing: it may
\* stand.
ToldIsTrue ==
  \A r \in Request :
    /\ \A d \in Decided : told = <<r, d>> => gate[r] = d
    /\ told = <<r, "expired">> => gate[r] = "expired"

\* A request that waits is shown, whatever fails or restarts a bounded number of
\* times and whatever a click does to the records under the polling thread.
EventuallyShown ==
  \A r \in Request : gate[r] = "pending" ~> (shown[r] > 0 \/ gate[r] # "pending")

\* A request that has been settled is forgotten, also one decided elsewhere or
\* between its message and its record.
Forgotten ==
  \A r \in Request : (gate[r] \in Decided \cup {"expired"}) ~> [](r \notin posted)
=============================================================================
