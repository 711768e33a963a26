--------------------------- MODULE ServiceProofs ----------------------------
(***************************************************************************)
(* The backend services one at a time: their invariants, each with one     *)
(* lemma for the initial states and one for the step.                      *)
(***************************************************************************)
EXTENDS MCBackend, QueueProofs, CollectionProofs

-----------------------------------------------------------------------------
(* One report per effect, for any set of workers.  The row takes a report  *)
(* only while pending and leaves pending with it, and a worker that is     *)
(* about to report has made its call.                                      *)

\* What the row's status says of the reports taken.
Reported ==
  IF effect.status \in {"absent", "pending"} THEN outcomes = <<>> ELSE Len(outcomes) = 1

EffectInv ==
  /\ EffectTypeOK /\ OneOutcome /\ Reported
  /\ \A w \in Deliverer : claim[w] = "report" => w \in sent

LEMMA EffectInvInit == EffectInit => EffectInv
  BY DEF EffectInit, EffectInv, EffectTypeOK, OneOutcome, Reported, EffectStatus

LEMMA EffectInvStep == EffectInv /\ [EffectNext]_effectVars => EffectInv'
<1> SUFFICES ASSUME EffectInv, [EffectNext]_effectVars PROVE EffectInv'
  OBVIOUS
<1> USE DEF EffectInv, EffectTypeOK, OneOutcome, Reported, EffectStatus
<1>1. ASSUME NEW w \in Deliverer, ClaimEffect(w) PROVE EffectInv'
  <2>1. effect' = effect \/ (effect.status = "absent" /\ effect' = Leased(w))
    BY <1>1 DEF ClaimEffect
  <2>2. claim' \in [Deliverer -> {"idle", "readback", "send", "report"}]
        /\ \A v \in Deliverer : claim'[v] = "report" => claim[v] = "report"
    BY <1>1 DEF ClaimEffect
  <2>3. UNCHANGED <<sent, outcomes>>
    BY <1>1 DEF ClaimEffect
  <2>4. CASE effect' = effect
    BY <2>2, <2>3, <2>4
  <2>5. CASE effect.status = "absent" /\ effect' = Leased(w)
    BY <2>2, <2>3, <2>5 DEF Leased
  <2> QED BY <2>1, <2>4, <2>5
<1>2. ASSUME NEW w \in Deliverer, SendEffect(w) PROVE EffectInv'
  BY <1>2 DEF SendEffect
<1>3. ASSUME NEW w \in Deliverer, NEW s \in {"delivered", "ambiguous"}, ReportEffect(w, s)
      PROVE  EffectInv'
  <2>1. CASE Reports(w)
    <3>1. outcomes' = <<s>> /\ effect' = [effect EXCEPT !.status = s] /\ effect.claimedBy = {w}
      BY <1>3, <2>1 DEF ReportEffect, Reports
    <3>2. outcomes' \in Seq(EffectStatus) /\ Len(outcomes') = 1
      BY <3>1
    <3> QED BY <1>3, <3>1, <3>2 DEF ReportEffect
  <2>2. CASE ~ Reports(w)
    BY <1>3, <2>2 DEF ReportEffect
  <2> QED BY <2>1, <2>2
<1>4. ASSUME NEW w \in Deliverer, DelivererCrash(w) PROVE EffectInv'
  BY <1>4 DEF DelivererCrash
<1>5. ASSUME EffectLeaseLapses PROVE EffectInv'
  BY <1>5 DEF EffectLeaseLapses
<1>6. ASSUME NEW w \in Deliverer, ReclaimExpiredLeases(w) PROVE EffectInv'
  BY <1>6 DEF ReclaimExpiredLeases, Leased
<1>7. ASSUME UNCHANGED effectVars PROVE EffectInv'
  BY <1>7 DEF effectVars
<1> QED BY <1>1, <1>2, <1>3, <1>4, <1>5, <1>6, <1>7 DEF EffectNext

\* claimEffect, commitEffect, markAmbiguous and reclaimExpiredLeases: a stolen
\* lease never lets two reports in, nor credits a worker that sent nothing.
THEOREM OneOutcomeHolds == EffectSpec => []OneOutcome
<1>1. EffectInv => OneOutcome
  BY DEF EffectInv
<1> QED BY EffectInvInit, EffectInvStep, <1>1, PTL DEF EffectSpec

-----------------------------------------------------------------------------
(* The lock excludes for every set of calls and every ttl.  A call that    *)
(* has not outrun its ttl still owns the key: its age and what is left of  *)
(* the key add up to the ttl.                                              *)

\* A young call inside fn owns the key.
YoungOwns ==
  \A h \in running : age[h] < LockTtl => key.of = {h} /\ key.left = LockTtl - age[h]

\* key.of is one running call at most, and nobody where the key is unset.
KeyIsOwned ==
  /\ key.of = {} \/ \E h \in running : key.of = {h}
  /\ key.left = 0 => key.of = {}

LockInv == LockTypeOK /\ YoungOwns /\ KeyIsOwned

LEMMA LockInvInit == LockInit => LockInv
  BY LockAssumption DEF LockInit, LockInv, LockTypeOK, YoungOwns, KeyIsOwned, Unset

LEMMA LockInvStep == LockInv /\ [LockNext]_lockVars => LockInv'
<1> SUFFICES ASSUME LockInv, [LockNext]_lockVars PROVE LockInv'
  OBVIOUS
<1> USE LockAssumption DEF LockInv, LockTypeOK, YoungOwns, KeyIsOwned
<1>1. ASSUME NEW h \in Holder, AcquireLock(h) PROVE LockInv'
  <2>1. running = {} \/ \A g \in running : age[g] = LockTtl
    BY <1>1 DEF AcquireLock, Unset
  <2>2. LockTypeOK'
    BY <1>1 DEF AcquireLock, Stamped
  <2>3. YoungOwns'
    BY <1>1, <2>1 DEF AcquireLock, Stamped
  <2>4. KeyIsOwned'
    BY <1>1 DEF AcquireLock, Stamped
  <2> QED BY <2>2, <2>3, <2>4
<1>2. ASSUME NEW h \in Holder, ExtendLock(h) PROVE LockInv'
  <2>1. LockTypeOK'
    BY <1>2 DEF ExtendLock, Stamped
  <2>2. \A g \in running : g # h => age[g] = LockTtl
    BY <1>2 DEF ExtendLock
  <2>3. YoungOwns'
    BY <1>2, <2>2 DEF ExtendLock, Stamped
  <2>4. KeyIsOwned'
    BY <1>2 DEF ExtendLock, Stamped
  <2> QED BY <2>1, <2>3, <2>4
<1>3. ASSUME NEW h \in Holder, LeaveLock(h) PROVE LockInv'
  <2>1. \/ key' = key /\ key.of # {h}
        \/ key' = Unset /\ key.of = {h}
        \/ key' = [key EXCEPT !.of = @ \ {h}]
    BY <1>3 DEF LeaveLock, Freed, Abandoned
  <2>2. LockTypeOK'
    BY <1>3, <2>1 DEF LeaveLock, Unset
  <2>3. ASSUME NEW g \in running', age'[g] < LockTtl
        PROVE  key'.of = {g} /\ key'.left = LockTtl - age'[g]
    BY <1>3, <2>1, <2>3 DEF LeaveLock, Unset
  <2>4. h \notin key'.of
    BY <1>3, <2>1 DEF LeaveLock, Unset
  <2>5. KeyIsOwned'
    BY <1>3, <2>1, <2>4 DEF LeaveLock, Unset
  <2> QED BY <2>2, <2>3, <2>5
<1>4. ASSUME LockTick PROVE LockInv'
  <2>1. LockTypeOK'
    BY <1>4 DEF LockTick, Unset
  <2>2. ASSUME NEW g \in running', age'[g] < LockTtl
        PROVE  key'.of = {g} /\ key'.left = LockTtl - age'[g]
    BY <1>4, <2>2 DEF LockTick, Unset
  <2>3. KeyIsOwned'
    BY <1>4 DEF LockTick, Unset
  <2> QED BY <2>1, <2>2, <2>3
<1>5. ASSUME UNCHANGED lockVars PROVE LockInv'
  BY <1>5 DEF lockVars
<1> QED BY <1>1, <1>2, <1>3, <1>4, <1>5 DEF LockNext

\* withLock and the scripts: no call is let in beside one that is within its
\* ttl, whichever calls release, extend or die in between.
THEOREM LockExcludes == LockSpec => []LockExclusive
<1>1. LockInv => LockExclusive
  BY LockAssumption DEF LockInv, LockTypeOK, YoungOwns, LockExclusive
<1> QED BY LockInvInit, LockInvStep, <1>1, PTL DEF LockSpec

-----------------------------------------------------------------------------
(* Four eyes, for any callers and any number of overlapping transitions.   *)
(* The row's check may be stale, but what it established about the caller  *)
(* travels with the transition: an approval under way is by someone other  *)
(* than the submitter, who never changes, and an application under way     *)
(* has read such an approval.                                              *)

\* Someone other than the submitter has approved.
Seconded == approving \ request.submittedBy # {}

\* What a transition carries from its check to its write.
Carried ==
  \A c \in Change :
    /\ change[c].step = "approve" => change[c].by \ request.submittedBy # {}
    /\ change[c].step \in {"applying", "apply", "act"} => Seconded
    /\ change[c].step # "idle" => request.status # "absent"
    /\ change[c].override => change[c].step \notin {"reject", "cancel"}

\* A row has one submitter, and before it exists nothing was approved.
Created ==
  IF request.status = "absent" THEN ~ acted
                               ELSE \E who \in Identity : request.submittedBy = {who}

ChangeInv == ChangeTypeOK /\ Carried /\ Created /\ FourEyes

LEMMA StepNames == DOMAIN Becomes = {"submit", "approve", "reject", "apply", "cancel"}
  BY DEF Becomes

LEMMA ChangeInvInit == ChangeInit => ChangeInv
<1> SUFFICES ASSUME ChangeInit PROVE ChangeInv
  OBVIOUS
<1>1. ChangeTypeOK
  BY DEF ChangeInit, ChangeTypeOK, Quiet, RequestStatus
<1> QED BY <1>1 DEF ChangeInit, ChangeInv, Carried, Created, FourEyes, Quiet

LEMMA ChangeInvStep == ChangeInv /\ [ChangeNext]_changeVars => ChangeInv'
<1> SUFFICES ASSUME ChangeInv, [ChangeNext]_changeVars PROVE ChangeInv'
  OBVIOUS
<1> USE StepNames DEF ChangeInv, ChangeTypeOK, Carried, Created, FourEyes, Seconded, RequestStatus
<1>1. ASSUME NEW c \in Change, NEW who \in Identity, CreateDraft(c, who) PROVE ChangeInv'
  <2>1. \A d \in Change : change[d].step = "idle"
    BY <1>1 DEF CreateDraft
  <2>2. request'.status = "draft" /\ request'.submittedBy = {who}
    BY <1>1 DEF CreateDraft
  <2>3. request' \in [status : RequestStatus, submittedBy : SUBSET Identity,
                     reviewedBy : SUBSET Identity, override : BOOLEAN]
    BY <1>1 DEF CreateDraft
  <2>4. \/ change' = change
        \/ change' = [change EXCEPT ![c] = [step |-> "submit", by |-> {who}, override |-> TRUE]]
    BY <1>1 DEF CreateDraft, Does
  <2> DEFINE Transition == [step : {"idle", "applying", "act"} \cup DOMAIN Becomes,
                            by : SUBSET Identity, override : BOOLEAN]
  <2> HIDE DEF Transition
  <2>8. [step |-> "submit", by |-> {who}, override |-> TRUE] \in Transition
    BY DEF Transition
  <2>9. change' \in [Change -> Transition]
    BY <2>4, <2>8 DEF Transition
  <2>5. ChangeTypeOK'
    BY <1>1, <2>3, <2>9 DEF CreateDraft, Transition
  <2>6. Carried'
    BY <2>1, <2>2, <2>4
  <2>7. Created' /\ FourEyes'
    BY <1>1, <2>2 DEF CreateDraft
  <2> QED BY <2>5, <2>6, <2>7
<1>2. ASSUME NEW c \in Change, NEW who \in Identity, BeginChange(c, who) PROVE ChangeInv'
  <2>1. PICK step \in DOMAIN Becomes : Allowed(step, who) /\ Does(c, step, who, FALSE)
    BY <1>2 DEF BeginChange
  <2>2. step \in {"submit", "approve", "reject", "apply", "cancel"}
    BY <2>1
  <2>3. request.status # "absent" /\ (step = "approve" => request.submittedBy # {who})
        /\ (step = "apply" => request.status = "approved")
    BY <2>1, <2>2 DEF Allowed, Differs
  <2>4. ChangeTypeOK'
    BY <1>2, <2>1, <2>2 DEF BeginChange, Does
  <2>5. Carried'
    BY <1>2, <2>1, <2>2, <2>3 DEF BeginChange, Does
  <2> QED BY <1>2, <2>4, <2>5 DEF BeginChange
<1>3. ASSUME NEW c \in Change, NEW who \in Identity, BeginOverride(c, who) PROVE ChangeInv'
  <2>1. request.status = "pending_approval" /\ request.submittedBy # {who}
    BY <1>3 DEF BeginOverride, Allowed, Differs
  <2> QED BY <1>3, <2>1 DEF BeginOverride, Does
<1>4. ASSUME NEW c \in Change, WriteChange(c) PROVE ChangeInv'
  <2> DEFINE step == change[c].step
  <2>1. step \in {"submit", "approve", "reject", "apply", "cancel"} /\ request.status # "absent"
    BY <1>4 DEF WriteChange
  <2>2. request'.submittedBy = request.submittedBy /\ request'.status = Becomes[step]
        /\ request'.override = request.override
        /\ request'.reviewedBy \in {change[c].by, request.reviewedBy} /\ DOMAIN request' = DOMAIN request
    BY <1>4, <2>1 DEF WriteChange
  <2>3. Becomes[step] \in RequestStatus \ {"absent"}
        /\ (Becomes[step] \in {"approved", "applied"} <=> step \in {"approve", "apply"})
    BY <2>1 DEF Becomes
  <2>4. approving \subseteq approving' /\ (step = "approve" => approving' = approving \cup change[c].by)
        /\ approving' \subseteq Identity
    BY <1>4 DEF WriteChange
  <2>5. Seconded \/ step = "approve" => Seconded'
    BY <2>2, <2>4
  <2>6. \/ change' = [change EXCEPT ![c] = Quiet]
        \/ step = "approve" /\ change' = [change EXCEPT ![c] = [change[c] EXCEPT !.step = "applying"]]
        \/ step = "apply" /\ change' = [change EXCEPT ![c] = [change[c] EXCEPT !.step = "act"]]
    BY <1>4, <2>1 DEF WriteChange
  <2>7. ChangeTypeOK'
    <3>1. request' \in [status : RequestStatus, submittedBy : SUBSET Identity,
                       reviewedBy : SUBSET Identity, override : BOOLEAN]
      BY <1>4, <2>1, <2>2, <2>3 DEF WriteChange
    <3> DEFINE Row == [step : {"idle", "applying", "act"} \cup DOMAIN Becomes, by : SUBSET Identity,
                       override : BOOLEAN]
    <3>2. change \in [Change -> Row] /\ change[c] \in Row
      OBVIOUS
    <3>3. /\ Quiet \in Row /\ [change[c] EXCEPT !.step = "applying"] \in Row
          /\ [change[c] EXCEPT !.step = "act"] \in Row
      BY <3>2 DEF Quiet
    <3> HIDE DEF Row
    <3>4. change' \in [Change -> Row]
      BY <2>6, <3>2, <3>3
    <3>5. UNCHANGED acted
      BY <1>4 DEF WriteChange
    <3> QED BY <2>4, <3>1, <3>4, <3>5 DEF Row
  <2>8. Carried'
    BY <2>2, <2>3, <2>5, <2>6 DEF Quiet
  <2>9. FourEyes'
    BY <1>4, <2>1, <2>2, <2>3, <2>5 DEF WriteChange
  <2>10. Created'
    BY <2>1, <2>2, <2>3
  <2> QED BY <2>7, <2>8, <2>9, <2>10
<1>5. ASSUME NEW c \in Change, OverrideApplies(c) PROVE ChangeInv'
  BY <1>5 DEF OverrideApplies
<1>6. ASSUME NEW c \in Change, OverrideActs(c) PROVE ChangeInv'
  BY <1>6 DEF OverrideActs, Quiet
<1>7. ASSUME NEW c \in Change, ChangeDies(c) PROVE ChangeInv'
  BY <1>7 DEF ChangeDies, Quiet
<1>8. ASSUME UNCHANGED changeVars PROVE ChangeInv'
  BY <1>8 DEF changeVars
<1> QED BY <1>1, <1>2, <1>3, <1>4, <1>5, <1>6, <1>7, <1>8 DEF ChangeNext

\* approve, applyChange and executeApprovedManualOverride: however their reads
\* and writes interleave, nothing is applied or run on its submitter's word alone.
THEOREM FourEyesHold == ChangeSpec => []FourEyes
<1>1. ChangeInv => FourEyes
  BY DEF ChangeInv
<1> QED BY ChangeInvInit, ChangeInvStep, <1>1, PTL DEF ChangeSpec

-----------------------------------------------------------------------------
(* A delivery and its job, for any deliveries and thresholds. A job that   *)
(* may still call the endpoint has attempts left, one that is being buried *)
(* has none, a status is committed after the answer, and a row in the      *)
(* window has no job.                                                      *)

\* What a row, its job and the history of one delivery satisfy together.
WebhookRow(status, run, buffered, ok, queued) ==
  /\ run.stage \in {"waiting"} \cup Attempting => run.made < DeliveryAttempts
  /\ run.stage \in {"bury", "fold", "count"} => run.made = DeliveryAttempts
  /\ run.stage = "commit" => ok
  /\ status = "success" => ok \/ queued
  /\ status = "failed" /\ run.stage # "none" => /\ run.stage \in {"fold", "count", "done"}
                                               /\ run.made = DeliveryAttempts
  /\ status \in {"absent", "buffered"} => run.stage = "none"
  /\ buffered => status = "buffered"
  /\ run.stage = "none" => run.made = 0

WebhookInv ==
  /\ delivery \in [Delivery -> DeliveryStatus]
  /\ task \in [Delivery -> [made : Nat, stage : Stage]]
  /\ window \subseteq Delivery
  /\ \A d \in Delivery :
       WebhookRow(delivery[d], task[d], d \in window, d \in answered, d \in handed)

LEMMA WebhookInvInit == WebhookInit => WebhookInv
<1> SUFFICES ASSUME WebhookInit PROVE WebhookInv
  OBVIOUS
<1>1. /\ delivery = [d \in Delivery |-> "absent"]
      /\ task = [d \in Delivery |-> [made |-> 0, stage |-> "none"]] /\ window = {}
  BY DEF WebhookInit
<1>2. delivery \in [Delivery -> DeliveryStatus] /\ task \in [Delivery -> [made : Nat, stage : Stage]]
  BY <1>1 DEF DeliveryStatus, Stage
<1>3. ASSUME NEW d \in Delivery
      PROVE  WebhookRow(delivery[d], task[d], d \in window, d \in answered, d \in handed)
  BY <1>1 DEF WebhookRow, Attempting
<1> QED
  BY <1>1, <1>2, <1>3 DEF WebhookInv

LEMMA WebhookInvStep == WebhookInv /\ [WebhookNext]_webhookVars => WebhookInv'
<1> SUFFICES ASSUME WebhookInv, [WebhookNext]_webhookVars PROVE WebhookInv'
  OBVIOUS
<1> USE DEF Stage, Attempting, DeliveryStatus
<1>0. /\ delivery \in [Delivery -> DeliveryStatus]
      /\ task \in [Delivery -> [made : Nat, stage : Stage]] /\ window \subseteq Delivery
      /\ DeliveryAttempts \in Nat \ {0}
      /\ \A d \in Delivery :
           WebhookRow(delivery[d], task[d], d \in window, d \in answered, d \in handed)
  BY WebhookAssumption DEF WebhookInv
\* A step that changes the row or the job of one delivery at most.
<1>1. ASSUME NEW d \in Delivery, NEW status \in DeliveryStatus, NEW run \in [made : Nat, stage : Stage],
             delivery' = [delivery EXCEPT ![d] = status], task' = [task EXCEPT ![d] = run],
             window' \subseteq window \cup {d}, handed' = handed,
             answered \subseteq answered', answered' \subseteq answered \cup {d},
             WebhookRow(status, run, d \in window', d \in answered', d \in handed)
      PROVE  WebhookInv'
  <2>1. delivery' \in [Delivery -> DeliveryStatus] /\ task' \in [Delivery -> [made : Nat, stage : Stage]]
    BY <1>0, <1>1
  <2>2. ASSUME NEW e \in Delivery
        PROVE  WebhookRow(delivery'[e], task'[e], e \in window', e \in answered', e \in handed')
    <3>1. CASE e = d
      BY <1>0, <1>1, <3>1
    <3>2. CASE e # d
      <4>1. /\ delivery'[e] = delivery[e] /\ task'[e] = task[e] /\ (e \in window' => e \in window)
            /\ (e \in answered' <=> e \in answered) /\ (e \in handed' <=> e \in handed)
        BY <1>0, <1>1, <3>2
      <4>2. WebhookRow(delivery[e], task[e], e \in window, e \in answered, e \in handed)
        BY <1>0
      <4> QED
        BY <4>1, <4>2 DEF WebhookRow
    <3> QED
      BY <3>1, <3>2
  <2> QED
    BY <1>0, <1>1, <2>1, <2>2 DEF WebhookInv
<1>2. ASSUME NEW d \in Delivery
      PROVE  /\ delivery[d] \in DeliveryStatus /\ task[d] \in [made : Nat, stage : Stage]
             /\ WebhookRow(delivery[d], task[d], d \in window, d \in answered, d \in handed)
             /\ [delivery EXCEPT ![d] = delivery[d]] = delivery
             /\ [task EXCEPT ![d] = task[d]] = task
             /\ \A s : Marked({d}, s) = [delivery EXCEPT ![d] = s]
  BY <1>0 DEF Marked
<1>3. UNCHANGED <<delivery, task, window, answered, handed>> => WebhookInv'
  BY DEF WebhookInv
\* The stage moves, the row stays.
<1>4. ASSUME NEW d \in Delivery, NEW s \in Stage, ToStage(d, s)
      PROVE  LET run == [task[d] EXCEPT !.stage = s] IN
             /\ task' = [task EXCEPT ![d] = run] /\ run \in [made : Nat, stage : Stage]
             /\ run.made = task[d].made /\ run.stage = s
  BY <1>2, <1>4 DEF ToStage
<1>5. ASSUME NEW d \in Delivery, Fails(d)
      PROVE  LET run == [made |-> task[d].made + 1,
                         stage |-> IF task[d].made + 1 < DeliveryAttempts THEN "waiting" ELSE "bury"] IN
             /\ task' = [task EXCEPT ![d] = run] /\ run \in [made : Nat, stage : Stage]
  <2> DEFINE m == task[d].made
             run == [made |-> m + 1, stage |-> IF m + 1 < DeliveryAttempts THEN "waiting" ELSE "bury"]
  <2>1. task' = [task EXCEPT ![d] = run]
    BY <1>5, Zenon DEF Fails
  <2>2. m \in Nat
    BY <1>2
  <2> HIDE DEF m
  <2>3. run \in [made : Nat, stage : Stage]
    BY <2>2
  <2> QED
    BY <2>1, <2>3 DEF m
<1>6. ASSUME NEW d \in Delivery, Fails(d), UNCHANGED <<delivery, window, handed>>,
             answered \subseteq answered', answered' \subseteq answered \cup {d},
             task[d].stage \in {"waiting"} \cup Attempting
      PROVE  WebhookInv'
  <2> DEFINE run == [made |-> task[d].made + 1,
                     stage |-> IF task[d].made + 1 < DeliveryAttempts THEN "waiting" ELSE "bury"]
  <2>1. task' = [task EXCEPT ![d] = run] /\ run \in [made : Nat, stage : Stage]
    BY <1>5, <1>6
  <2>2. WebhookRow(delivery[d], run, d \in window, d \in answered', d \in handed)
    BY <1>0, <1>2, <1>6 DEF WebhookRow
  <2> HIDE DEF run
  <2>3. /\ delivery' = [delivery EXCEPT ![d] = delivery[d]] /\ delivery[d] \in DeliveryStatus
        /\ window' = window /\ handed' = handed
    BY <1>2, <1>6
  <2> QED
    BY <1>1, <1>6, <2>1, <2>2, <2>3
<1>7. ASSUME NEW d \in Delivery, NEW s \in Stage, ToStage(d, s), UNCHANGED <<delivery, window, handed>>,
             answered \subseteq answered', answered' \subseteq answered \cup {d},
             task[d].stage \in {"waiting"} \cup Attempting, s \in Attempting \cup {"done"},
             s = "commit" => d \in answered'
      PROVE  WebhookInv'
  <2> DEFINE run == [task[d] EXCEPT !.stage = s]
  <2>1. /\ task' = [task EXCEPT ![d] = run] /\ run \in [made : Nat, stage : Stage]
        /\ run.made = task[d].made /\ run.stage = s
    BY <1>4, <1>7
  <2> HIDE DEF run
  <2>2. WebhookRow(delivery[d], run, d \in window, d \in answered', d \in handed)
    BY <1>2, <1>7, <2>1 DEF WebhookRow
  <2>3. /\ delivery' = [delivery EXCEPT ![d] = delivery[d]] /\ delivery[d] \in DeliveryStatus
        /\ window' = window /\ handed' = handed
    BY <1>2, <1>7
  <2> QED
    BY <1>1, <1>7, <2>1, <2>2, <2>3
<1>10. ASSUME NEW d \in Delivery, QueueDelivery(d) PROVE WebhookInv'
  <2>0. delivery[d] = "absent" /\ task[d].stage = "none" /\ d \notin window
        /\ UNCHANGED <<answered, handed>>
    BY <1>2, <1>10 DEF QueueDelivery, WebhookRow
  <2>1. CASE delivery' = Marked({d}, "buffered") /\ window' = window \cup {d} /\ UNCHANGED task
    <3>1. WebhookRow("buffered", task[d], d \in window', d \in answered', d \in handed)
      BY <1>2, <2>0, <2>1 DEF WebhookRow
    <3>2. /\ delivery' = [delivery EXCEPT ![d] = "buffered"] /\ task' = [task EXCEPT ![d] = task[d]]
          /\ task[d] \in [made : Nat, stage : Stage]
      BY <1>2, <2>1
    <3> QED
      BY <1>1, <2>0, <2>1, <3>1, <3>2
  <2>2. CASE delivery' = Marked({d}, "pending") /\ UNCHANGED window /\ UNCHANGED task
    <3>1. WebhookRow("pending", task[d], d \in window', d \in answered', d \in handed)
      BY <1>2, <2>0, <2>2 DEF WebhookRow
    <3>2. /\ delivery' = [delivery EXCEPT ![d] = "pending"] /\ task' = [task EXCEPT ![d] = task[d]]
          /\ task[d] \in [made : Nat, stage : Stage] /\ window' = window
      BY <1>2, <2>2
    <3> QED
      BY <1>1, <2>0, <2>2, <3>1, <3>2
  <2>3. CASE delivery' = Marked({d}, "pending") /\ UNCHANGED window /\ ToStage(d, "waiting")
    <3> DEFINE run == [task[d] EXCEPT !.stage = "waiting"]
    <3>1. /\ task' = [task EXCEPT ![d] = run] /\ run \in [made : Nat, stage : Stage]
          /\ run.made = task[d].made /\ run.stage = "waiting"
      BY <1>4, <2>3
    <3> HIDE DEF run
    <3>2. WebhookRow("pending", run, d \in window', d \in answered', d \in handed)
      BY <1>0, <1>2, <2>0, <2>3, <3>1 DEF WebhookRow
    <3> QED
      BY <1>1, <1>2, <1>10, <2>0, <2>3, <3>1, <3>2 DEF QueueDelivery
  <2> QED
    BY <1>10, <2>1, <2>2, <2>3 DEF QueueDelivery
<1>11. ASSUME NEW b \in Delivery, FlushWindow(b) PROVE WebhookInv'
  <2>1. PICK queued \in BOOLEAN, s \in {"success", "failed", "buffered"}, new \in {"absent", "pending"} :
          /\ s = "success" => queued
          /\ delivery' = [Marked(window, s) EXCEPT ![b] = new]
          /\ IF queued THEN ToStage(b, "waiting") /\ handed' = handed \cup window /\ new = "pending"
                       ELSE UNCHANGED <<task, handed>>
    BY <1>11 DEF FlushWindow
  <2>2. window' = {} /\ answered' = answered /\ delivery[b] = "absent"
    BY <1>11 DEF FlushWindow
  <2>3. b \notin window /\ task[b].stage = "none" /\ task[b].made = 0
    BY <1>2, <2>2 DEF WebhookRow
  <2>4. delivery' = [e \in Delivery |-> IF e = b THEN new ELSE IF e \in window THEN s ELSE delivery[e]]
    BY <2>1 DEF Marked
  <2>5. delivery' \in [Delivery -> DeliveryStatus]
    BY <1>0, <2>4
  <2>6. /\ task' \in [Delivery -> [made : Nat, stage : Stage]]
        /\ \A e \in Delivery : e # b => task'[e] = task[e]
        /\ task'[b].made = 0
        /\ IF queued THEN task'[b].stage = "waiting" ELSE task'[b].stage = "none"
    <3>1. CASE queued
      BY <1>0, <2>1, <2>3, <3>1 DEF ToStage
    <3>2. CASE ~ queued
      BY <1>0, <2>1, <2>3, <3>2
    <3> QED
      BY <3>1, <3>2
  <2>7. \A e \in Delivery : (e \in handed => e \in handed') /\ (queued /\ e \in window => e \in handed')
    BY <2>1
  <2>8. ASSUME NEW e \in Delivery
        PROVE  WebhookRow(delivery'[e], task'[e], e \in window', e \in answered', e \in handed')
    <3>1. CASE e = b
      BY <1>0, <2>1, <2>2, <2>3, <2>4, <2>6, <3>1 DEF WebhookRow
    <3>2. CASE e # b /\ e \notin window
      BY <1>2, <2>2, <2>4, <2>6, <2>7, <3>2 DEF WebhookRow
    <3>3. CASE e # b /\ e \in window
      <4>1. task[e].stage = "none" /\ task[e].made = 0
        BY <1>2, <3>3 DEF WebhookRow
      <4>2. delivery'[e] = s /\ task'[e] = task[e] /\ e \notin window'
        BY <2>2, <2>4, <2>6, <3>3
      <4>3. s = "success" => e \in handed'
        BY <2>1, <2>7, <3>3
      <4> QED
        BY <2>1, <4>1, <4>2, <4>3 DEF WebhookRow
    <3> QED
      BY <3>1, <3>2, <3>3
  <2> QED
    BY <2>2, <2>5, <2>6, <2>8 DEF WebhookInv
<1>12. ASSUME NEW d \in Delivery, BeginAttempt(d) PROVE WebhookInv'
  BY <1>6, <1>7, <1>12 DEF BeginAttempt
<1>13. ASSUME NEW d \in Delivery, SendAttempt(d) PROVE WebhookInv'
  <2>1. PICK r \in Response :
          /\ answered' = answered \cup IF r = "ok" THEN {d} ELSE {}
          /\ \/ r = "ok" /\ ToStage(d, "commit")
             \/ ToStage(d, "auth2")
             \/ Fails(d)
    BY <1>13 DEF SendAttempt, ResponseOk
  <2>2. /\ UNCHANGED <<delivery, window, handed>> /\ task[d].stage \in {"waiting"} \cup Attempting
        /\ answered \subseteq answered' /\ answered' \subseteq answered \cup {d}
    BY <1>13, <2>1 DEF SendAttempt
  <2>3. CASE r = "ok" /\ ToStage(d, "commit")
    BY <1>7, <2>1, <2>2, <2>3
  <2>4. CASE ToStage(d, "auth2")
    BY <1>7, <2>2, <2>4
  <2>5. CASE Fails(d)
    BY <1>6, <2>2, <2>5
  <2> QED
    BY <2>1, <2>3, <2>4, <2>5
<1>14. ASSUME NEW d \in Delivery, CommitAttempt(d) PROVE WebhookInv'
  <2>0. task[d].stage = "commit" /\ UNCHANGED <<window, answered, handed>>
    BY <1>14 DEF CommitAttempt
  <2>1. CASE delivery' = Marked({d}, "success") /\ ToStage(d, "reset")
    <3> DEFINE run == [task[d] EXCEPT !.stage = "reset"]
    <3>1. /\ task' = [task EXCEPT ![d] = run] /\ run \in [made : Nat, stage : Stage]
          /\ run.made = task[d].made /\ run.stage = "reset"
      BY <1>4, <2>1
    <3> HIDE DEF run
    <3>2. WebhookRow("success", run, d \in window', d \in answered', d \in handed)
      BY <1>2, <2>0, <3>1 DEF WebhookRow
    <3> QED
      BY <1>1, <1>2, <2>0, <2>1, <3>1, <3>2
  <2>2. CASE Fails(d) /\ UNCHANGED delivery
    BY <1>6, <2>0, <2>2
  <2> QED
    BY <1>14, <2>1, <2>2 DEF CommitAttempt
<1>15. ASSUME NEW d \in Delivery, RecordSuccess(d) PROVE WebhookInv'
  BY <1>7, <1>15 DEF RecordSuccess
<1>16. ASSUME NEW d \in Delivery, RecordSignatureFailure(d) PROVE WebhookInv'
  BY <1>7, <1>16 DEF RecordSignatureFailure
\* A stage after the last attempt moves on.
<1>8. ASSUME NEW d \in Delivery, NEW s \in {"fold", "count", "done"}, ToStage(d, s),
             task[d].stage \in {"bury", "fold", "count"}, UNCHANGED <<window, answered, handed>>,
             NEW status \in {delivery[d], "failed"}, delivery' = [delivery EXCEPT ![d] = status]
      PROVE  WebhookInv'
  <2> DEFINE run == [task[d] EXCEPT !.stage = s]
  <2>1. /\ task' = [task EXCEPT ![d] = run] /\ run \in [made : Nat, stage : Stage]
        /\ run.made = task[d].made /\ run.stage = s
    BY <1>4, <1>8
  <2> HIDE DEF run
  <2>2. WebhookRow(status, run, d \in window', d \in answered', d \in handed)
    BY <1>2, <1>8, <2>1 DEF WebhookRow
  <2>3. status \in DeliveryStatus
    BY <1>2, <1>8
  <2> QED
    BY <1>1, <1>8, <2>1, <2>2, <2>3
<1>17. ASSUME NEW d \in Delivery, CountFailure(d) PROVE WebhookInv'
  <2>0. UNCHANGED <<delivery, window, answered, handed>> /\ task[d].stage \in Counting
    BY <1>17 DEF CountFailure
  <2>1. CASE task[d].stage = "count2"
    <3>1. ToStage(d, "auth1")
      BY <1>17, <2>1 DEF CountFailure
    <3> QED
      BY <1>7, <2>0, <2>1, <3>1
  <2>2. CASE task[d].stage = "count1"
    <3>1. Fails(d)
      BY <1>17, <2>2 DEF CountFailure
    <3> QED
      BY <1>6, <2>0, <2>2, <3>1
  <2>3. CASE task[d].stage = "count"
    <3>1. ToStage(d, "done")
      BY <1>17, <2>3 DEF CountFailure
    <3> QED
      BY <1>2, <1>8, <2>0, <2>3, <3>1
  <2> QED
    BY <2>0, <2>1, <2>2, <2>3 DEF Counting
<1>18. ASSUME NEW d \in Delivery, BuryDelivery(d) PROVE WebhookInv'
  <2>0. UNCHANGED <<window, answered, handed>>
    BY <1>18 DEF BuryDelivery
  <2>1. CASE /\ task[d].stage = "bury" /\ ToStage(d, "fold")
             /\ delivery' \in {delivery, Marked({d}, "failed")}
    <3>1. CASE delivery' = delivery
      BY <1>2, <1>8, <2>0, <2>1, <3>1
    <3>2. CASE delivery' = Marked({d}, "failed")
      BY <1>2, <1>8, <2>0, <2>1, <3>2
    <3> QED
      BY <2>1, <3>1, <3>2
  <2>2. CASE task[d].stage = "fold" /\ ToStage(d, "count") /\ UNCHANGED delivery
    BY <1>2, <1>8, <2>0, <2>2
  <2> QED
    BY <1>18, <2>1, <2>2 DEF BuryDelivery
<1>19. CASE WebhookCrash
  <2>1. PICK revived \in SUBSET Delivery :
          task' = [d \in Delivery |-> [task[d] EXCEPT !.stage =
            IF @ \in Attempting THEN (IF d \in revived THEN "waiting" ELSE "done")
            ELSE IF @ \in {"bury", "fold", "count"} THEN "done" ELSE @]]
    BY <1>19 DEF WebhookCrash
  <2>2. window' = {} /\ UNCHANGED <<delivery, answered, handed>>
    BY <1>19 DEF WebhookCrash
  <2>3. ASSUME NEW d \in Delivery
        PROVE  /\ task'[d] \in [made : Nat, stage : Stage] /\ task'[d].made = task[d].made
               /\ \/ task'[d].stage = task[d].stage /\ task[d].stage \in {"none", "waiting", "done"}
                  \/ task[d].stage \in Attempting /\ task'[d].stage \in {"waiting", "done"}
                  \/ task[d].stage \in {"bury", "fold", "count"} /\ task'[d].stage = "done"
    BY <1>2, <2>1
  <2>4. task' \in [Delivery -> [made : Nat, stage : Stage]]
    <3>1. task' = [d \in Delivery |-> task'[d]]
      BY <2>1
    <3> QED
      BY <2>3, <3>1
  <2>5. ASSUME NEW d \in Delivery
        PROVE  WebhookRow(delivery'[d], task'[d], d \in window', d \in answered', d \in handed')
    <3>1. /\ delivery'[d] = delivery[d] /\ (d \in answered' <=> d \in answered)
          /\ (d \in handed' <=> d \in handed) /\ d \notin window'
      BY <2>2
    <3>2. WebhookRow(delivery[d], task[d], d \in window, d \in answered, d \in handed)
      BY <1>2
    <3>3. CASE task'[d].stage = task[d].stage /\ task[d].stage \in {"none", "waiting", "done"}
      BY <2>3, <3>1, <3>2, <3>3 DEF WebhookRow
    <3>4. CASE task[d].stage \in Attempting /\ task'[d].stage \in {"waiting", "done"}
      BY <2>3, <3>1, <3>2, <3>4 DEF WebhookRow
    <3>5. CASE task[d].stage \in {"bury", "fold", "count"} /\ task'[d].stage = "done"
      BY <2>3, <3>1, <3>2, <3>5 DEF WebhookRow
    <3> QED
      BY <2>3, <3>3, <3>4, <3>5
  <2> QED
    BY <1>0, <2>2, <2>4, <2>5 DEF WebhookInv
<1>20. CASE UpdateEndpoint
  BY <1>3, <1>20 DEF UpdateEndpoint
<1>21. CASE ResetCircuitBreaker
  BY <1>3, <1>21 DEF ResetCircuitBreaker
<1>22. CASE UNCHANGED webhookVars
  BY <1>3, <1>22 DEF webhookVars
<1> QED
  BY <1>10, <1>11, <1>12, <1>13, <1>14, <1>15, <1>16, <1>17, <1>18, <1>19, <1>20, <1>21, <1>22
  DEF WebhookNext

LEMMA EarnedRows == WebhookInv => StatusIsEarned
<1> SUFFICES ASSUME WebhookInv, NEW d \in Delivery
             PROVE  /\ delivery[d] = "success" => d \in answered \cup handed
                    /\ delivery[d] = "failed" => task[d].stage \notin Attempting \cup {"waiting"}
  BY DEF StatusIsEarned
<1> QED
  BY DEF WebhookInv, WebhookRow, Attempting

(* A delivery's status is earned: success by an answer or a queued batch,  *)
(* and what has failed is not attempted any more.                          *)
THEOREM StatusesAreEarned == WebhookSpec => []StatusIsEarned
  BY WebhookInvInit, WebhookInvStep, EarnedRows, PTL DEF WebhookSpec

-----------------------------------------------------------------------------
(* A proposal and the calls about it, for any administrators and any       *)
(* number of calls. An approval carries the approvals it read, all under   *)
(* different addresses, and so many as are recorded have approved;         *)
(* nothing is executed that did not reach its number. For the              *)
(* administrators that remain the calls between counting and removing are  *)
(* counted too.                                                            *)

\* Approvals under different addresses, all of which have approved.
Distinct(s) ==
  /\ s \in Seq(Admin) /\ Range(s) \subseteq approvers
  /\ \A i, j \in 1 .. Len(s) : s[i] = s[j] => i = j

Quorate == Cardinality(approvers) >= proposal.required

OperationRow ==
  [step : {"idle", "add", "count", "find", "remove", "activate", "roles", "approve", "expire", "mark"},
   who : Admin \cup {NoAdmin}, approvals : Seq(Admin), executes : BOOLEAN]

ProposalRow ==
  [type : ProposalType, target : Admin \cup {NoAdmin}, required : Nat,
   status : {"absent", "pending", "approved", "executed", "rejected", "expired"},
   approvals : Seq(Admin), late : BOOLEAN]

\* An operation under way carries what it read, or the right to execute.
Carries(op) ==
  /\ op.step = "approve" => Distinct(op.approvals) /\ op.who \in Admin \ Range(op.approvals)
  /\ op.executes \/ op.step = "mark" => Quorate
  /\ proposal.status = "absent" => op.step \notin {"approve", "mark"} /\ ~ op.executes

QuorumInv ==
  /\ proposal \in ProposalRow /\ rotation \in [RotationCall -> OperationRow]
  /\ IsFiniteSet(approvers) /\ enacted \in BOOLEAN
  /\ Distinct(proposal.approvals)
  /\ proposal.status \in {"approved", "executed"} \/ enacted => Quorate
  /\ proposal.status = "absent" => ~ enacted
  /\ \A c \in RotationCall : Carries(rotation[c])

\* Removals that have counted the administrators.
Removing(ops) == {c \in RotationCall : ops[c].step \in {"find", "remove"}}

RemovalInv ==
  /\ IsFiniteSet(active)
  /\ Removing(rotation) # {} =>
       Cardinality(active) >= MinimumAdmins + 1 - Cardinality(RotationCall) + Cardinality(Removing(rotation))

(* A sequence without repetitions is as long as its range is large.        *)
LEMMA DistinctCount ==
  ASSUME NEW S, NEW s \in Seq(S), \A i, j \in 1 .. Len(s) : s[i] = s[j] => i = j
  PROVE  IsFiniteSet(Range(s)) /\ Cardinality(Range(s)) = Len(s)
<1>1. IsFiniteSet(1 .. Len(s)) /\ Cardinality(1 .. Len(s)) = Len(s)
  <2>1. 1 \in Int /\ Len(s) \in Int /\ Len(s) \in Nat
    OBVIOUS
  <2> DEFINE n == Len(s)
  <2> HIDE DEF n
  <2>2. IsFiniteSet(1 .. n) /\ Cardinality(1 .. n) = IF 1 > n THEN 0 ELSE n - 1 + 1
    BY <2>1, FS_Interval DEF n
  <2> QED
    BY <2>1, <2>2 DEF n
<1>2. s \in [1 .. Len(s) -> Range(s)] /\ \A t \in Range(s) : \E i \in 1 .. Len(s) : s[i] = t
  BY DEF Range
<1>3. IsInjective(s)
  BY DEF IsInjective
<1>4. s \in Bijection(1 .. Len(s), Range(s))
  BY <1>2, <1>3 DEF Bijection, Injection, Surjection
<1> QED
  BY <1>1, <1>4, FS_Bijection DEF ExistsBijection

LEMMA QuorumInvInit == RotationInit => QuorumInv
<1> SUFFICES ASSUME RotationInit PROVE QuorumInv
  OBVIOUS
<1>1. /\ approvers = {} /\ enacted = FALSE
      /\ proposal = [type |-> "change_roles", target |-> NoAdmin, status |-> "absent",
                     approvals |-> <<>>, required |-> 0, late |-> FALSE]
      /\ rotation = [c \in RotationCall |-> Resting]
  BY DEF RotationInit
<1>2. proposal \in ProposalRow /\ Distinct(proposal.approvals) /\ proposal.status = "absent"
  BY <1>1 DEF ProposalRow, ProposalType, Distinct, Range
<1>3. Resting \in OperationRow
  BY DEF Resting, OperationRow
<1>4. rotation \in [RotationCall -> OperationRow] /\ \A c \in RotationCall : Carries(rotation[c])
  BY <1>1, <1>3 DEF Carries, Resting
<1>5. IsFiniteSet(approvers)
  BY <1>1, FS_EmptySet
<1> QED
  BY <1>1, <1>2, <1>4, <1>5 DEF QuorumInv

\* A call's step that leaves the proposal alone.
LEMMA OneCall ==
  ASSUME QuorumInv, UNCHANGED <<proposal, approvers>>, enacted' \in BOOLEAN,
         enacted' => enacted \/ (Quorate /\ proposal.status # "absent"),
         NEW c \in RotationCall, NEW op \in OperationRow, rotation' = [rotation EXCEPT ![c] = op],
         Carries(op)
  PROVE  QuorumInv'
<1>1. rotation' \in [RotationCall -> OperationRow]
  BY DEF QuorumInv
<1>2. \A d \in RotationCall : Carries(rotation'[d])
  BY DEF QuorumInv
<1>3. Quorate' <=> Quorate
  BY DEF Quorate
<1>4. \A o : Carries(o)' <=> Carries(o)
  BY <1>3, Zenon DEF Carries, Distinct
<1>5. (\A d \in RotationCall : Carries(rotation[d]))'
  BY <1>2, <1>4
<1>6. Distinct(proposal.approvals)'
  BY DEF QuorumInv, Distinct
<1> QED
  BY <1>1, <1>3, <1>5, <1>6 DEF QuorumInv

\* The step of a call changes, what it carries does not.
LEMMA RotationStepKeeps ==
  ASSUME NEW op \in OperationRow, Carries(op),
         NEW s \in {"find", "remove"}
  PROVE  [op EXCEPT !.step = s] \in OperationRow /\ Carries([op EXCEPT !.step = s])
  BY DEF OperationRow, Carries

LEMMA QuorumInvStep == QuorumInv /\ [RotationNext]_rotationVars => QuorumInv'
<1> SUFFICES ASSUME QuorumInv, [RotationNext]_rotationVars PROVE QuorumInv'
  OBVIOUS
<1>0. /\ proposal \in ProposalRow /\ rotation \in [RotationCall -> OperationRow]
      /\ IsFiniteSet(approvers) /\ enacted \in BOOLEAN /\ Distinct(proposal.approvals)
      /\ proposal.status \in {"approved", "executed"} \/ enacted => Quorate
      /\ proposal.status = "absent" => ~ enacted
  BY DEF QuorumInv
<1>1. ASSUME NEW c \in RotationCall PROVE rotation[c] \in OperationRow /\ Carries(rotation[c])
  BY DEF QuorumInv
<1>2. Resting \in OperationRow /\ Carries(Resting)
  BY DEF Resting, OperationRow, Carries
<1>3. Cardinality(approvers) \in Nat
  BY <1>0, FS_CardinalityType
<1>10. ASSUME NEW c \in RotationCall, NEW step \in {"add", "count", "activate", "expire", "roles"},
              NEW who \in Admin \cup {NoAdmin}, NEW executes \in BOOLEAN, Begins(c, step, who, executes),
              executes => Quorate /\ proposal.status # "absent",
              UNCHANGED <<proposal, approvers, enacted>>
       PROVE  QuorumInv'
  <2> DEFINE op == [step |-> step, who |-> who, approvals |-> <<>>, executes |-> executes]
  <2>1. op \in OperationRow /\ Carries(op)
    BY <1>10 DEF OperationRow, Carries
  <2>2. rotation' = [rotation EXCEPT ![c] = op]
    BY <1>10 DEF Begins
  <2> HIDE DEF op
  <2> QED
    BY <1>0, <1>10, <2>1, <2>2, OneCall
<1>11. ASSUME NEW c \in RotationCall, Returns(c), UNCHANGED <<proposal, approvers>>, enacted' \in BOOLEAN,
              enacted' => enacted \/ (Quorate /\ proposal.status # "absent")
       PROVE  QuorumInv'
  BY <1>2, <1>11, OneCall DEF Returns
<1>12. ASSUME NEW c \in RotationCall, Changed(c) PROVE QuorumInv'
  <2>1. enacted' \in BOOLEAN /\ (enacted' => enacted \/ (Quorate /\ proposal.status # "absent"))
    BY <1>0, <1>1, <1>12 DEF Changed, Carries, OperationRow
  <2>2. UNCHANGED <<proposal, approvers>>
    BY <1>12 DEF Changed
  <2>3. CASE rotation[c].executes
    <3> DEFINE op == [rotation[c] EXCEPT !.step = "mark"]
    <3>1. op \in OperationRow /\ Carries(op)
      BY <1>1, <2>3 DEF OperationRow, Carries
    <3>2. rotation' = [rotation EXCEPT ![c] = op]
      BY <1>12, <2>3 DEF Changed, Proceeds
    <3> HIDE DEF op
    <3> QED
      BY <2>1, <2>2, <3>1, <3>2, OneCall
  <2>4. CASE ~ rotation[c].executes
    BY <1>11, <1>12, <2>1, <2>2, <2>4 DEF Changed
  <2> QED
    BY <2>3, <2>4
<1>13. ASSUME NEW c \in RotationCall, NEW who \in Admin, CallDirectly(c, who) PROVE QuorumInv'
  BY <1>10, <1>13 DEF CallDirectly
<1>14. ASSUME NEW c \in RotationCall, AddAdmin(c) PROVE QuorumInv'
  BY <1>12, <1>14 DEF AddAdmin
<1>15. ASSUME NEW c \in RotationCall, RemoveAdmin(c) PROVE QuorumInv'
  <2>1. ASSUME NEW s \in {"find", "remove"}, Proceeds(c, s),
               UNCHANGED <<proposal, approvers, enacted>>
        PROVE  QuorumInv'
    <3> DEFINE op == [rotation[c] EXCEPT !.step = s]
    <3>1. op \in OperationRow /\ Carries(op)
      BY <1>1, RotationStepKeeps
    <3>2. rotation' = [rotation EXCEPT ![c] = op]
      BY <2>1 DEF Proceeds
    <3> HIDE DEF op
    <3> QED
      BY <1>0, <2>1, <3>1, <3>2, OneCall
  <2> QED
    BY <1>12, <1>15, <2>1 DEF RemoveAdmin
<1>16. ASSUME NEW c \in RotationCall, ActivateAdmin(c) \/ ChangeRoles(c) PROVE QuorumInv'
  BY <1>12, <1>16 DEF ActivateAdmin, ChangeRoles
<1>17. ASSUME NEW c \in RotationCall, NEW who \in Admin, ApproveProposal(c, who) PROVE QuorumInv'
  <2>0. UNCHANGED <<proposal, approvers, enacted>> /\ proposal.status = "pending"
    BY <1>17 DEF ApproveProposal
  <2>1. CASE Begins(c, "expire", who, FALSE)
    BY <1>10, <2>0, <2>1
  <2>2. CASE NotYetApproved(who) /\ Begins(c, "approve", who, FALSE)
    <3> DEFINE op == [step |-> "approve", who |-> who, approvals |-> proposal.approvals, executes |-> FALSE]
    <3>1. op \in OperationRow
      BY <1>0 DEF OperationRow, ProposalRow
    <3>2. Carries(op)
      BY <1>0, <2>0, <2>2 DEF Carries, NotYetApproved
    <3>3. rotation' = [rotation EXCEPT ![c] = op]
      BY <2>2 DEF Begins
    <3> HIDE DEF op
    <3> QED
      BY <1>0, <2>0, <3>1, <3>2, <3>3, OneCall
  <2> QED
    BY <1>17, <2>1, <2>2 DEF ApproveProposal
<1>18. ASSUME NEW c \in RotationCall, RecordApproval(c) PROVE QuorumInv'
  <2> DEFINE old == rotation[c].approvals
             who == rotation[c].who
             new == Append(old, who)
             status == IF Len(new) >= proposal.required THEN "approved" ELSE "pending"
  <2>1. rotation[c].step = "approve" /\ Distinct(old) /\ who \in Admin \ Range(old)
        /\ proposal.status # "absent"
    BY <1>1, <1>18 DEF RecordApproval, Carries
  <2>2. /\ proposal' = [proposal EXCEPT !.approvals = new, !.status = status]
        /\ approvers' = approvers \cup {who} /\ Returns(c) /\ enacted' = enacted
    BY <1>18 DEF RecordApproval
  <2> HIDE DEF old, who
  <2>3. /\ new \in Seq(Admin) /\ Range(new) = Range(old) \cup {who}
        /\ \A i, j \in 1 .. Len(new) : new[i] = new[j] => i = j
    <3>1. old \in Seq(Admin) /\ who \in Admin
      BY <2>1 DEF Distinct
    <3>2. /\ new \in Seq(Admin) /\ Len(new) = Len(old) + 1
          /\ \A i \in 1 .. Len(new) : new[i] = IF i = Len(old) + 1 THEN who ELSE old[i]
      BY <3>1
    <3> HIDE DEF new
    <3>3. \A i \in 1 .. Len(old) : old[i] \in Range(old)
      BY <3>1 DEF Range
    <3>4. \A i, j \in 1 .. Len(new) : new[i] = new[j] => i = j
      BY <2>1, <3>1, <3>2, <3>3 DEF Distinct
    <3>5. DOMAIN new = 1 .. Len(new) /\ DOMAIN old = 1 .. Len(old)
      BY <3>1, <3>2
    <3>6. Len(old) + 1 \in 1 .. Len(new) /\ \A i \in 1 .. Len(old) : i \in 1 .. Len(new)
      BY <3>1, <3>2
    <3>7. Range(new) = Range(old) \cup {who}
      BY <3>1, <3>2, <3>5, <3>6 DEF Range
    <3> QED
      BY <3>2, <3>4, <3>7
  <2> HIDE DEF new
  <2>4. /\ Range(new) \subseteq approvers'
        /\ (proposal'.approvals = new => Distinct(proposal.approvals)')
    BY <2>1, <2>2, <2>3 DEF Distinct
  <2>5. IsFiniteSet(approvers') /\ Cardinality(approvers') >= Cardinality(approvers)
    <3>1. IsFiniteSet(approvers \cup {who}) /\ Cardinality(approvers \cup {who}) >= Cardinality(approvers)
      <4>1. /\ IsFiniteSet(approvers \cup {who})
            /\ \/ Cardinality(approvers \cup {who}) = Cardinality(approvers)
               \/ Cardinality(approvers \cup {who}) = Cardinality(approvers) + 1
        BY <1>0, FS_AddElement
      <4> QED
        BY <1>3, <4>1
    <3> QED
      BY <2>2, <3>1
  <2>6. Cardinality(approvers') >= Len(new)
    <3>1. Cardinality(Range(new)) = Len(new)
      BY <2>3, DistinctCount
    <3>2. IsFiniteSet(Range(new)) /\ Cardinality(Range(new)) <= Cardinality(approvers')
      BY <2>4, <2>5, FS_Subset
    <3>3. Cardinality(approvers') \in Nat /\ Len(new) \in Nat
      BY <2>3, <2>5, FS_CardinalityType
    <3> QED
      BY <3>1, <3>2, <3>3
  <2>7. status \in {"approved", "pending"} /\ (status = "approved" => Len(new) >= proposal.required)
    OBVIOUS
  <2>8. /\ proposal' \in ProposalRow /\ proposal'.approvals = new /\ proposal'.status = status
        /\ proposal'.required = proposal.required /\ proposal.required \in Nat
    BY <1>0, <2>2, <2>3, <2>7 DEF ProposalRow
  <2> HIDE DEF status
  <2>9. Quorate => Quorate'
    BY <1>3, <2>5, <2>8, FS_CardinalityType DEF Quorate
  <2>10. status = "approved" => Quorate'
    <3>1. Cardinality(approvers') \in Nat /\ Len(new) \in Nat
      BY <2>3, <2>5, FS_CardinalityType
    <3> QED
      BY <2>6, <2>7, <2>8, <3>1 DEF Quorate
  <2>11. ASSUME NEW d \in RotationCall PROVE Carries(rotation[d])'
    <3>1. CASE rotation'[d] = Resting
      BY <2>8, <3>1 DEF Carries, Resting
    <3>2. CASE rotation'[d] = rotation[d]
      <4>1. \A s : Distinct(s) => Distinct(s)'
        BY <2>2 DEF Distinct
      <4>2. proposal'.status # "absent"
        BY <2>7, <2>8
      <4> QED
        BY <1>1, <2>9, <3>2, <4>1, <4>2 DEF Carries
    <3> QED
      BY <1>0, <2>2, <3>1, <3>2 DEF Returns
  <2>12. rotation' \in [RotationCall -> OperationRow]
    BY <1>0, <1>2, <2>2 DEF Returns
  <2>13. proposal'.status # "absent" /\ proposal'.status # "executed"
    BY <2>7, <2>8
  <2> QED
    BY <1>0, <2>2, <2>4, <2>5, <2>8, <2>9, <2>10, <2>11, <2>12, <2>13 DEF QuorumInv
<1>19. ASSUME NEW c \in RotationCall, ExecuteProposal(c) PROVE QuorumInv'
  <2>1. proposal.status = "approved" /\ UNCHANGED <<proposal, approvers, enacted>> /\ Quorate
        /\ proposal.target \in Admin \cup {NoAdmin} /\ proposal.type \in ProposalType
    BY <1>0, <1>19 DEF ExecuteProposal, ProposalRow
  <2>2. FirstStep[proposal.type] \in {"add", "count", "roles"}
    BY <2>1 DEF FirstStep, ProposalType
  <2>3. \/ Begins(c, "expire", proposal.target, FALSE)
        \/ Begins(c, FirstStep[proposal.type], proposal.target, TRUE)
    BY <1>19 DEF ExecuteProposal
  <2>4. CASE Begins(c, "expire", proposal.target, FALSE)
    BY <1>10, <2>1, <2>4
  <2>5. CASE Begins(c, FirstStep[proposal.type], proposal.target, TRUE)
    <3> DEFINE f == FirstStep[proposal.type]
    <3>1. Begins(c, f, proposal.target, TRUE) /\ f \in {"add", "count", "roles"}
      BY <2>2, <2>5
    <3> HIDE DEF f
    <3> QED
      BY <1>10, <2>1, <3>1
  <2> QED
    BY <2>3, <2>4, <2>5
\* The proposal's status or lateness changes, its approvals and quorum do not.
<1>20. ASSUME proposal' \in ProposalRow, proposal'.approvals = proposal.approvals,
              proposal'.required = proposal.required, UNCHANGED <<approvers, enacted>>,
              rotation' \in [RotationCall -> OperationRow],
              \A c \in RotationCall : rotation'[c] \in {rotation[c], Resting},
              proposal.status # "absent" => proposal'.status # "absent",
              proposal'.status \in {"approved", "executed"} => Quorate,
              proposal'.status = "absent" => proposal.status = "absent"
       PROVE  QuorumInv'
  <2>1. Quorate' <=> Quorate
    BY <1>20 DEF Quorate
  <2>2. Distinct(proposal.approvals)'
    BY <1>0, <1>20 DEF Distinct
  <2>3. ASSUME NEW c \in RotationCall PROVE Carries(rotation[c])'
    <3>1. \A s : Distinct(s)' <=> Distinct(s)
      BY <1>20 DEF Distinct
    <3>2. CASE rotation'[c] = Resting
      BY <3>2 DEF Carries, Resting
    <3>3. CASE rotation'[c] = rotation[c]
      BY <1>1, <1>20, <2>1, <3>1, <3>3 DEF Carries
    <3> QED
      BY <1>20, <3>2, <3>3
  <2> QED
    BY <1>0, <1>20, <2>1, <2>2, <2>3 DEF QuorumInv
<1>21. ASSUME NEW c \in RotationCall, MarkProposal(c) PROVE QuorumInv'
  <2> DEFINE s == IF rotation[c].step = "mark" THEN "executed" ELSE "expired"
  <2>1. /\ proposal' = [proposal EXCEPT !.status = s] /\ Returns(c) /\ UNCHANGED <<approvers, enacted>>
        /\ s \in {"executed", "expired"} /\ (s = "executed" => Quorate)
    BY <1>1, <1>21 DEF MarkProposal, Carries
  <2> HIDE DEF s
  <2>2. /\ proposal' \in ProposalRow /\ proposal'.approvals = proposal.approvals
        /\ proposal'.required = proposal.required /\ proposal'.status = s
    BY <1>0, <2>1 DEF ProposalRow
  <2>3. /\ rotation' \in [RotationCall -> OperationRow]
        /\ \A d \in RotationCall : rotation'[d] \in {rotation[d], Resting}
    BY <1>0, <1>2, <2>1 DEF Returns
  <2> QED
    BY <1>20, <2>1, <2>2, <2>3
<1>22. ASSUME NEW c \in RotationCall, RotationCallDies(c) PROVE QuorumInv'
  BY <1>0, <1>11, <1>22 DEF RotationCallDies
<1>23. ASSUME NEW t \in ProposalType, NEW target \in Admin, NEW who \in Admin, NEW n \in Required,
              CreateProposal(t, target, who, n)
       PROVE  QuorumInv'
  <2>1. /\ proposal.status = "absent" /\ approvers' = {who} /\ UNCHANGED <<rotation, enacted>>
        /\ proposal' = [type |-> t, target |-> target, status |-> "pending", approvals |-> <<who>>,
                        required |-> n, late |-> FALSE]
    BY <1>23 DEF CreateProposal
  <2>2. n \in Nat
    BY RotationAssumption
  <2>3. proposal' \in ProposalRow /\ proposal'.approvals = <<who>> /\ proposal'.status = "pending"
    BY <2>1, <2>2 DEF ProposalRow
  <2>4. Distinct(<<who>>)'
    BY <2>1 DEF Distinct, Range
  <2>5. IsFiniteSet(approvers')
    BY <2>1, FS_Singleton
  <2>6. ASSUME NEW d \in RotationCall PROVE Carries(rotation[d])'
    BY <1>1, <2>1, <2>3 DEF Carries
  <2> QED
    BY <1>0, <2>1, <2>3, <2>4, <2>5, <2>6 DEF QuorumInv
<1>24. CASE ProposalExpires
  <2>1. /\ proposal' \in ProposalRow /\ proposal'.approvals = proposal.approvals
        /\ proposal'.required = proposal.required /\ proposal'.status = proposal.status
    BY <1>0, <1>24 DEF ProposalExpires, ProposalRow
  <2> QED
    BY <1>0, <1>20, <1>24, <2>1 DEF ProposalExpires
<1>25. CASE RejectProposal
  <2>1. /\ proposal' \in ProposalRow /\ proposal'.approvals = proposal.approvals
        /\ proposal'.required = proposal.required /\ proposal'.status = "rejected"
    BY <1>0, <1>25 DEF RejectProposal, ProposalRow
  <2> QED
    BY <1>0, <1>20, <1>25, <2>1 DEF RejectProposal
<1>26. CASE UNCHANGED rotationVars
  BY <1>0, <1>20, <1>26 DEF rotationVars
<1> QED
  BY <1>13, <1>14, <1>15, <1>16, <1>17, <1>18, <1>19, <1>21, <1>22, <1>23, <1>24, <1>25, <1>26
  DEF RotationNext

LEMMA QuorumSound == QuorumInv => ExecutedWithQuorum
  BY DEF QuorumInv, Quorate, ExecutedWithQuorum

(* Overlapping approvals, rejections and executions: a proposal is enacted *)
(* only after approvals under as many addresses as it asked for. Whether   *)
(* an address has an account is not checked (approveProposal).             *)
THEOREM ExecutionsHaveQuorum == RotationSpec => []ExecutedWithQuorum
  BY QuorumInvInit, QuorumInvStep, QuorumSound, PTL DEF RotationSpec

-----------------------------------------------------------------------------

\* The removals under way, one of them in or out.
LEMMA RemovalsCount ==
  ASSUME NEW ops, NEW R \in SUBSET RotationCall, R = Removing(ops)
  PROVE  /\ IsFiniteSet(R) /\ Cardinality(R) \in Nat /\ Cardinality(RotationCall) \in Nat
         /\ Cardinality(R) <= Cardinality(RotationCall)
         /\ \A Q \in SUBSET R : Cardinality(Q) \in Nat /\ Cardinality(Q) <= Cardinality(R)
         /\ \A c \in R : Cardinality(R \ {c}) = Cardinality(R) - 1 /\ Cardinality(R) >= 1
<1>1. IsFiniteSet(RotationCall) /\ Cardinality(RotationCall) \in Nat
  BY RotationAssumption, FS_CardinalityType
<1>2. IsFiniteSet(R) /\ Cardinality(R) \in Nat /\ Cardinality(R) <= Cardinality(RotationCall)
  BY <1>1, FS_Subset, FS_CardinalityType
<1>3. ASSUME NEW Q \in SUBSET R PROVE Cardinality(Q) \in Nat /\ Cardinality(Q) <= Cardinality(R)
  BY <1>2, FS_Subset, FS_CardinalityType
<1>4. ASSUME NEW c \in R PROVE Cardinality(R \ {c}) = Cardinality(R) - 1 /\ Cardinality(R) >= 1
  <2>1. Cardinality(R \ {c}) = Cardinality(R) - 1
    BY <1>2, FS_RemoveElement
  <2>2. Cardinality(R \ {c}) \in Nat
    BY <1>3
  <2> QED
    BY <1>2, <2>1, <2>2
<1> QED
  BY <1>1, <1>2, <1>3, <1>4

LEMMA RemovalInvInit == RotationInit => RemovalInv
<1> SUFFICES ASSUME RotationInit PROVE RemovalInv
  OBVIOUS
<1>1. Removing(rotation) = {}
  BY DEF RotationInit, Removing, Resting
<1>2. IsFiniteSet(active)
  BY FS_EmptySet DEF RotationInit
<1> QED
  BY <1>1, <1>2 DEF RemovalInv

LEMMA RemovalInvStep ==
  QuorumInv /\ RemovalInv /\ [RotationNext]_rotationVars =>
    /\ RemovalInv'
    /\ active' \subseteq active /\ active' # active
         => Cardinality(active') >= MinimumAdmins + 1 - Cardinality(RotationCall)
<1> SUFFICES ASSUME QuorumInv, RemovalInv, [RotationNext]_rotationVars
             PROVE  /\ RemovalInv'
                    /\ active' \subseteq active /\ active' # active
                         => Cardinality(active') >= MinimumAdmins + 1 - Cardinality(RotationCall)
  OBVIOUS
<1> DEFINE N == Cardinality(RotationCall)
           K == Removing(rotation)
           n == Cardinality(active)
<1>0. /\ MinimumAdmins \in Nat /\ N \in Nat /\ n \in Nat /\ IsFiniteSet(active)
      /\ rotation \in [RotationCall -> OperationRow]
      /\ K # {} => n >= MinimumAdmins + 1 - N + Cardinality(K)
      /\ K \in SUBSET RotationCall
  BY RotationAssumption, FS_CardinalityType DEF RemovalInv, QuorumInv, Removing
<1>1. /\ Cardinality(K) \in Nat
      /\ \A Q \in SUBSET K : Cardinality(Q) \in Nat /\ Cardinality(Q) <= Cardinality(K)
      /\ \A c \in K : Cardinality(K \ {c}) = Cardinality(K) - 1 /\ Cardinality(K) >= 1
  BY <1>0, RemovalsCount
\* No removal begins and no administrator goes.
<1>2. ASSUME Removing(rotation') \subseteq K, active \subseteq active', IsFiniteSet(active')
      PROVE  RemovalInv'
  <2>1. n <= Cardinality(active') /\ Cardinality(active') \in Nat
    BY <1>2, FS_Subset, FS_CardinalityType
  <2>2. Cardinality(Removing(rotation')) \in Nat /\ Cardinality(Removing(rotation')) <= Cardinality(K)
    BY <1>1, <1>2
  <2>3. Removing(rotation') # {} => Cardinality(active') >= MinimumAdmins + 1 - N + Cardinality(Removing(rotation'))
    BY <1>0, <1>1, <1>2, <2>1, <2>2
  <2> QED
    BY <1>2, <2>3 DEF RemovalInv, Removing
<1>3. ASSUME NEW c \in RotationCall, Returns(c) PROVE Removing(rotation') \subseteq K \ {c}
  BY <1>0, <1>3 DEF Returns, Resting, Removing
<1>4. ASSUME NEW c \in RotationCall, NEW s, Proceeds(c, s), s \notin {"find", "remove"}
      PROVE  Removing(rotation') \subseteq K \ {c}
  BY <1>0, <1>4 DEF Proceeds, OperationRow, Removing
<1>5. ASSUME NEW c \in RotationCall, NEW s, NEW who, NEW e, Begins(c, s, who, e), s \notin {"find", "remove"}
      PROVE  Removing(rotation') \subseteq K
  BY <1>0, <1>5 DEF Begins, Removing
<1>6. ASSUME NEW c \in RotationCall, Changed(c) PROVE Removing(rotation') \subseteq K \ {c}
  BY <1>3, <1>4, <1>6 DEF Changed
<1>7. ASSUME NEW a PROVE IsFiniteSet(active \cup {a})
  BY <1>0, FS_AddElement
<1> DEFINE Goal == /\ RemovalInv'
                   /\ active' \subseteq active /\ active' # active
                        => Cardinality(active') >= MinimumAdmins + 1 - N
<1>8. ASSUME Removing(rotation') \subseteq K, UNCHANGED active PROVE Goal
  BY <1>0, <1>2, <1>8
<1>9. ASSUME Removing(rotation') \subseteq K, NEW a, active' = active \cup {a} PROVE Goal
  BY <1>2, <1>7, <1>9
<1>10. ASSUME NEW c \in RotationCall, NEW who \in Admin, CallDirectly(c, who) PROVE Goal
  BY <1>5, <1>8, <1>10 DEF CallDirectly
<1>11. ASSUME NEW c \in RotationCall, NEW who \in Admin, ApproveProposal(c, who) PROVE Goal
  BY <1>5, <1>8, <1>11 DEF ApproveProposal
<1>12. ASSUME NEW c \in RotationCall, AddAdmin(c) \/ ActivateAdmin(c) PROVE Goal
  <2>1. active' = active \cup {rotation[c].who} /\ Changed(c)
    BY <1>12 DEF AddAdmin, ActivateAdmin
  <2> QED
    BY <1>6, <1>9, <2>1
<1>13. ASSUME NEW c \in RotationCall, ChangeRoles(c) PROVE Goal
  BY <1>6, <1>8, <1>13 DEF ChangeRoles
<1>14. ASSUME NEW c \in RotationCall, RecordApproval(c) \/ MarkProposal(c) \/ RotationCallDies(c) PROVE Goal
  BY <1>3, <1>8, <1>14 DEF RecordApproval, MarkProposal, RotationCallDies
<1>15. ASSUME NEW c \in RotationCall, ExecuteProposal(c) PROVE Goal
  <2>1. proposal.type \in ProposalType
    BY DEF QuorumInv, ProposalRow
  <2>2. FirstStep[proposal.type] \notin {"find", "remove"}
    BY <2>1 DEF FirstStep, ProposalType
  <2>3. UNCHANGED active
    BY <1>15 DEF ExecuteProposal
  <2>4. \/ Begins(c, "expire", proposal.target, FALSE)
        \/ Begins(c, FirstStep[proposal.type], proposal.target, TRUE)
    BY <1>15 DEF ExecuteProposal
  <2>5. Removing(rotation') \subseteq K
    BY <1>5, <2>2, <2>4
  <2> QED
    BY <1>8, <2>3, <2>5
<1>16. CASE UNCHANGED <<active, rotation>>
  BY <1>8, <1>16
<1>17. ASSUME NEW c \in RotationCall, RemoveAdmin(c) PROVE Goal
  <2>1. CASE rotation[c].step = "count" /\ AboveMinimum(n) /\ Proceeds(c, "find") /\ UNCHANGED active
    <3>1. c \notin K /\ Removing(rotation') = K \cup {c}
      BY <1>0, <2>1 DEF Proceeds, Removing, OperationRow
    <3>2. Cardinality(K \cup {c}) \in Nat /\ Cardinality(K \cup {c}) <= N
      BY <1>0, <3>1, RemovalsCount DEF Removing
    <3>3. n >= MinimumAdmins + 1
      BY <1>0, <2>1 DEF AboveMinimum
    <3>4. n >= MinimumAdmins + 1 - N + Cardinality(K \cup {c})
      BY <1>0, <3>2, <3>3
    <3> QED
      BY <1>0, <2>1, <3>1, <3>4 DEF RemovalInv, Removing
  <2>2. CASE rotation[c].step = "find" /\ Proceeds(c, "remove") /\ UNCHANGED active
    <3>1. Removing(rotation') = K
      BY <1>0, <2>2 DEF Proceeds, Removing, OperationRow
    <3> QED
      BY <1>8, <2>2, <3>1
  <2>3. CASE rotation[c].step = "remove" /\ active' = active \ {rotation[c].who} /\ Changed(c)
    <3>1. c \in K /\ Removing(rotation') \subseteq K \ {c}
      BY <1>6, <2>3 DEF Removing
    <3>2. IsFiniteSet(active') /\ Cardinality(active') \in Nat /\ Cardinality(active') >= n - 1
      <4> DEFINE a == rotation[c].who
      <4>1. /\ IsFiniteSet(active \ {a})
            /\ Cardinality(active \ {a}) = IF a \in active THEN n - 1 ELSE n
        BY <1>0, FS_RemoveElement
      <4>2. Cardinality(active \ {a}) \in Nat
        BY <4>1, FS_CardinalityType
      <4> QED
        BY <1>0, <2>3, <4>1, <4>2
    <3>3. n >= MinimumAdmins + 1 - N + Cardinality(K) /\ Cardinality(K) >= 1
          /\ Cardinality(K \ {c}) = Cardinality(K) - 1
      BY <1>0, <1>1, <3>1
    <3>4. Cardinality(Removing(rotation')) \in Nat /\ Cardinality(Removing(rotation')) <= Cardinality(K) - 1
      <4>1. K \ {c} \in SUBSET RotationCall /\ Removing(rotation') \in SUBSET (K \ {c})
        BY <1>0, <3>1
      <4>2. IsFiniteSet(K \ {c})
        BY <4>1, RotationAssumption, FS_Subset
      <4> QED
        BY <3>3, <4>1, <4>2, FS_Subset, FS_CardinalityType
    <3>5. Cardinality(active') >= MinimumAdmins + 1 - N + Cardinality(Removing(rotation'))
          /\ Cardinality(active') >= MinimumAdmins + 1 - N
      BY <1>0, <1>1, <3>2, <3>3, <3>4
    <3> QED
      BY <3>2, <3>5 DEF RemovalInv, Removing
  <2> QED
    BY <1>17, <2>1, <2>2, <2>3 DEF RemoveAdmin
<1>18. Goal
  <2>1. ASSUME NEW t \in ProposalType, NEW target \in Admin, NEW who \in Admin, NEW k \in Required,
               CreateProposal(t, target, who, k) PROVE Goal
    BY <1>16, <2>1 DEF CreateProposal
  <2>2. CASE ProposalExpires \/ RejectProposal \/ UNCHANGED rotationVars
    <3>1. UNCHANGED <<active, rotation>>
      BY <2>2 DEF ProposalExpires, RejectProposal, rotationVars
    <3> QED
      BY <1>16, <3>1
  <2> HIDE DEF Goal
  <2> QED
    BY <1>10, <1>11, <1>12, <1>13, <1>14, <1>15, <1>17, <2>1, <2>2 DEF RotationNext
<1> QED
  BY <1>18

(* Removals that have counted before one another's write: as many          *)
(* administrators stay as the minimum and one more, less the calls that    *)
(* may be under way.                                                       *)
RemovalFloor ==
  [][active' \subseteq active /\ active' # active
       => Cardinality(active') >= MinimumAdmins + 1 - Cardinality(RotationCall)]_rotationVars

THEOREM AdministratorsRemain == RotationSpec => RemovalFloor
<1> DEFINE Remains == active' \subseteq active /\ active' # active
                        => Cardinality(active') >= MinimumAdmins + 1 - Cardinality(RotationCall)
<1>1. QuorumInv /\ RemovalInv /\ [RotationNext]_rotationVars => RemovalInv' /\ [Remains]_rotationVars
  BY RemovalInvStep
<1>2. RotationSpec => [][Remains]_rotationVars
  <2> HIDE DEF Remains
  <2> QED
    BY QuorumInvInit, QuorumInvStep, RemovalInvInit, <1>1, PTL DEF RotationSpec
<1> QED
  BY <1>2 DEF RemovalFloor

(* removeAdmin keeps to the minimum while no two calls overlap.            *)
THEOREM MinimumKeptAlone ==
  ASSUME Cardinality(RotationCall) = 1
  PROVE  RotationSpec => MinimumKept
<1>1. MinimumAdmins \in Nat
  BY RotationAssumption
<1>2. [active' \subseteq active /\ active' # active
         => Cardinality(active') >= MinimumAdmins + 1 - Cardinality(RotationCall)]_rotationVars
      => [active' \subseteq active /\ active' # active
            => Cardinality(active') >= MinimumAdmins]_rotationVars
  BY <1>1
<1> QED
  BY <1>2, AdministratorsRemain, PTL DEF RemovalFloor, MinimumKept

-----------------------------------------------------------------------------
(* Sequence numbers, for any transactions, aggregates and batches. Of each *)
(* aggregate one transaction at most holds the numbers that follow the     *)
(* visible ones.                                                           *)

PublicationRow ==
  [state : {"none", "open", "committed", "rolled back"}, todo : Seq(Aggregate), drawn : Nat]

EventRow == [of : Aggregate, no : Nat \ {0}, by : Publisher]

Nums(rows) == {r.no : r \in rows}

Own(t, a) == {r \in outboxRow : r.by = t /\ r.of = a}

\* A number drawn whose row is still to be inserted.
Pending(t, a) == IF publication[t].drawn > 0 /\ Head(publication[t].todo) = a THEN 1 ELSE 0

\* An open transaction holds what it has numbered.
Holds(t) ==
  publication[t].drawn > 0 =>
    /\ Open(t) /\ publication[t].todo # <<>>
    /\ t \in locking[Head(publication[t].todo)]
    /\ publication[t].drawn = counter[Head(publication[t].todo)]

Kept(r) ==
  /\ publication[r.by].state \in {"open", "committed"}
  /\ Open(r.by) => r.by \in locking[r.of]

\* The visible numbers end at n, and the holder's follow them.
OrderedTo(a, n) ==
  /\ Nums(Published(a)) = 1 .. n
  /\ locking[a] = {} => counter[a] = n
  /\ \A t \in locking[a] : /\ n <= counter[a] - Pending(t, a)
                           /\ Nums(Own(t, a)) = n + 1 .. counter[a] - Pending(t, a)

PublishTypes ==
  /\ publication \in [Publisher -> PublicationRow]
  /\ counter \in [Aggregate -> Nat] /\ locking \in [Aggregate -> SUBSET Publisher]
  /\ outboxRow \subseteq EventRow

PublishInv ==
  /\ PublishTypes /\ IsFiniteSet(outboxRow)
  /\ \A t \in Publisher : Holds(t)
  /\ \A r \in outboxRow : Kept(r)
  /\ \A a \in Aggregate : \A t, u \in locking[a] : Open(t) /\ t = u
  /\ \A r, s \in outboxRow : r.of = s.of /\ r.no = s.no => r = s
  /\ \A a \in Aggregate : \E n \in Nat : OrderedTo(a, n)

(* Rows with the numbers lo .. hi, no two alike, are hi - lo + 1.          *)
LEMMA NumberedCount ==
  ASSUME NEW S, IsFiniteSet(S), \A r, s \in S : r.no = s.no => r = s,
         NEW lo \in Int, NEW hi \in Int, lo <= hi + 1, Nums(S) = lo .. hi
  PROVE  Cardinality(S) = hi + 1 - lo
<1> DEFINE f == [r \in S |-> r.no]
<1>1. f \in Bijection(S, lo .. hi)
  <2>1. f \in [S -> lo .. hi] /\ \A n \in lo .. hi : \E r \in S : f[r] = n
    BY DEF Nums
  <2>2. IsInjective(f)
    BY DEF IsInjective
  <2> HIDE DEF f
  <2> QED
    BY <2>1, <2>2 DEF Bijection, Injection, Surjection
<1>2. Cardinality(lo .. hi) = Cardinality(S)
  BY <1>1, FS_Bijection DEF ExistsBijection
<1>3. Cardinality(lo .. hi) = IF lo > hi THEN 0 ELSE hi - lo + 1
  BY FS_Interval
<1> QED
  BY <1>2, <1>3

LEMMA PublishInvInit == PublishInit => PublishInv
<1> SUFFICES ASSUME PublishInit PROVE PublishInv
  OBVIOUS
<1>1. /\ publication = [t \in Publisher |-> [state |-> "none", todo |-> <<>>, drawn |-> 0]]
      /\ counter = [a \in Aggregate |-> 0] /\ locking = [a \in Aggregate |-> {}] /\ outboxRow = {}
  BY DEF PublishInit
<1>2. PublishTypes
  BY <1>1 DEF PublishTypes, PublicationRow
<1>3. IsFiniteSet(outboxRow)
  BY <1>1, FS_EmptySet
<1>4. \A t \in Publisher : Holds(t)
  BY <1>1 DEF Holds
<1>5. \A a \in Aggregate : OrderedTo(a, 0)
  BY <1>1 DEF OrderedTo, Nums, Published
<1> QED
  BY <1>1, <1>2, <1>3, <1>4, <1>5 DEF PublishInv

\* What an open transaction has numbered is what it holds the lock of.
LEMMA OwnIsHeld ==
  ASSUME PublishInv, NEW t \in Publisher, NEW a \in Aggregate, publication[t].state # "committed",
         t \notin locking[a]
  PROVE  Own(t, a) = {} /\ Pending(t, a) = 0
<1>1. Own(t, a) = {}
  BY DEF PublishInv, Own, Kept, Open
<1>2. Holds(t)
  BY DEF PublishInv
<1>3. ~ (publication[t].drawn > 0 /\ Head(publication[t].todo) = a)
  BY <1>2 DEF Holds
<1> QED
  BY <1>1, <1>3 DEF Pending

\* What a holder has drawn is what the counter is ahead of the visible numbers.
LEMMA DrawnIsAhead ==
  ASSUME PublishInv, NEW t \in Publisher, NEW a \in Aggregate, NEW n \in Nat, OrderedTo(a, n),
         Open(t)
  PROVE  IF t \in locking[a] THEN Drawn(t, a) = counter[a] - n ELSE Drawn(t, a) = 0
<1>1. Drawn(t, a) = Cardinality(Own(t, a)) + Pending(t, a)
  BY DEF Drawn, Own, Pending
<1>2. CASE t \in locking[a]
  <2>1. Pending(t, a) \in Nat /\ counter[a] \in Nat
    BY DEF Pending, PublishInv, PublishTypes
  <2> DEFINE hi == counter[a] - Pending(t, a)
  <2>2. n + 1 \in Int /\ hi \in Int /\ n + 1 <= hi + 1 /\ Nums(Own(t, a)) = n + 1 .. hi
    BY <1>2, <2>1 DEF OrderedTo
  <2> HIDE DEF hi
  <2>3. IsFiniteSet(Own(t, a)) /\ \A r, s \in Own(t, a) : r.no = s.no => r = s
    <3>1. Own(t, a) \subseteq outboxRow
      BY DEF Own
    <3> QED
      BY <3>1, FS_Subset DEF PublishInv, Own
  <2>4. Cardinality(Own(t, a)) = hi + 1 - (n + 1)
    BY <2>2, <2>3, NumberedCount
  <2> QED
    BY <1>1, <1>2, <2>1, <2>4 DEF hi
<1>3. CASE t \notin locking[a]
  <2>1. Own(t, a) = {} /\ Pending(t, a) = 0
    BY <1>3, OwnIsHeld DEF Open
  <2>2. Cardinality({}) = 0
    BY FS_EmptySet
  <2> QED
    BY <1>1, <1>3, <2>1, <2>2
<1> QED
  BY <1>2, <1>3

LEMMA PublishInvStep == PublishInv /\ [PublishNext]_publishVars => PublishInv'
<1> SUFFICES ASSUME PublishInv, [PublishNext]_publishVars PROVE PublishInv'
  OBVIOUS
<1>0. /\ publication \in [Publisher -> PublicationRow]
      /\ counter \in [Aggregate -> Nat] /\ locking \in [Aggregate -> SUBSET Publisher]
      /\ outboxRow \subseteq EventRow /\ IsFiniteSet(outboxRow)
      /\ \A r, s \in outboxRow : r.of = s.of /\ r.no = s.no => r = s
  BY DEF PublishInv, PublishTypes
<1>1. ASSUME NEW t \in Publisher
      PROVE  /\ publication[t] \in PublicationRow /\ Holds(t)
             /\ publication[t].drawn \in Nat /\ publication[t].todo \in Seq(Aggregate)
             /\ publication[t].todo # <<>> => Head(publication[t].todo) \in Aggregate
  <2>1. publication[t] \in PublicationRow /\ Holds(t)
    BY DEF PublishInv, PublishTypes
  <2>2. publication[t].drawn \in Nat /\ publication[t].todo \in Seq(Aggregate)
    BY <2>1 DEF PublicationRow
  <2>3. \A s \in Seq(Aggregate) : s # <<>> => Head(s) \in Aggregate
    OBVIOUS
  <2> QED
    BY <2>1, <2>2, <2>3
<1>2. \A a \in Aggregate : \A t, u \in locking[a] : Open(t) /\ t = u
  BY DEF PublishInv
<1>3. \A r \in outboxRow : Kept(r) /\ r \in EventRow
  BY <1>0 DEF PublishInv
<1>4. ASSUME NEW a \in Aggregate PROVE \E n \in Nat : OrderedTo(a, n)
  BY DEF PublishInv
\* Nothing of aggregate a moves.
<1>5. ASSUME NEW a \in Aggregate, Published(a)' = Published(a), locking'[a] = locking[a],
             counter'[a] = counter[a],
             \A t \in locking[a] : Own(t, a)' = Own(t, a) /\ Pending(t, a)' = Pending(t, a)
      PROVE  (\E n \in Nat : OrderedTo(a, n))'
  <2>1. PICK n \in Nat : OrderedTo(a, n)
    BY <1>4
  <2>2. OrderedTo(a, n)'
    BY <1>5, <2>1 DEF OrderedTo
  <2> QED
    BY <2>2
<1>10. ASSUME NEW t \in Publisher, NEW batch \in Batch, BeginPublish(t, batch) PROVE PublishInv'
  <2>1. /\ publication[t].state = "none" /\ UNCHANGED <<counter, locking, outboxRow>>
        /\ publication' = [publication EXCEPT ![t] = [state |-> "open", todo |-> batch, drawn |-> 0]]
    BY <1>10 DEF BeginPublish
  <2>2. batch \in Seq(Aggregate)
    <3>1. PICK k \in 1 .. MaxBatch : batch \in [1 .. k -> Aggregate]
      BY DEF Batch
    <3>2. k \in Nat
      BY PublishAssumption, <3>1
    <3> QED
      BY <3>1, <3>2, IsASeq
  <2>3. /\ publication' \in [Publisher -> PublicationRow]
        /\ publication'[t].drawn = 0 /\ publication'[t].state = "open"
        /\ \A u \in Publisher : u # t => publication'[u] = publication[u]
    BY <1>0, <2>1, <2>2 DEF PublicationRow
  <2>4. /\ \A r \in outboxRow : r.by # t /\ r.by \in Publisher
        /\ \A a \in Aggregate : t \notin locking[a] /\ locking[a] \subseteq Publisher
    BY <1>0, <1>2, <1>3, <2>1 DEF Kept, Open, EventRow
  <2>5. ASSUME NEW u \in Publisher PROVE Holds(u)'
    BY <1>1, <2>1, <2>3 DEF Holds, Open
  <2>6. ASSUME NEW r \in outboxRow PROVE Kept(r)'
    BY <1>3, <2>1, <2>3, <2>4 DEF Kept, Open
  <2>7. ASSUME NEW a \in Aggregate PROVE (\E n \in Nat : OrderedTo(a, n))'
    <3>1. Published(a)' = Published(a)
      BY <2>1, <2>3, <2>4 DEF Published
    <3>2. \A u \in locking[a] : Own(u, a)' = Own(u, a) /\ Pending(u, a)' = Pending(u, a)
      BY <2>1, <2>3, <2>4 DEF Own, Pending
    <3> QED
      BY <1>5, <2>1, <3>1, <3>2
  <2>8. \A a \in Aggregate : \A u, v \in locking'[a] : Open(u)' /\ u = v
    BY <1>2, <2>1, <2>3, <2>4 DEF Open
  <2> QED
    BY <1>0, <2>1, <2>3, <2>5, <2>6, <2>7, <2>8 DEF PublishInv, PublishTypes
<1>11. ASSUME NEW t \in Publisher, NextSequence(t) PROVE PublishInv'
  <2>h. PICK a \in Aggregate : a = Head(publication[t].todo)
    BY <1>1, <1>11 DEF NextSequence
  <2>c. PICK c : c = counter[a] + 1
    OBVIOUS
  <2>1. /\ Open(t) /\ publication[t].todo # <<>> /\ publication[t].drawn = 0
        /\ locking[a] \subseteq {t} /\ outboxRow' = outboxRow
        /\ counter' = [counter EXCEPT ![a] = counter[a] + 1]
        /\ locking' = [locking EXCEPT ![a] = locking[a] \cup {t}]
        /\ publication' = [publication EXCEPT ![t].drawn = counter'[a]]
    BY <1>11, <2>h DEF NextSequence, Grantable
  <2>2. a \in Aggregate
    OBVIOUS
  <2>3. /\ c \in Nat /\ c > 0 /\ counter'[a] = c /\ counter' \in [Aggregate -> Nat]
        /\ \A b \in Aggregate : b # a => counter'[b] = counter[b] /\ locking'[b] = locking[b]
        /\ locking'[a] = {t} /\ locking' \in [Aggregate -> SUBSET Publisher]
    BY <1>0, <2>1, <2>2, <2>c
  <2>4. /\ publication' \in [Publisher -> PublicationRow]
        /\ publication'[t].drawn = c /\ publication'[t].todo = publication[t].todo
        /\ publication'[t].state = publication[t].state
        /\ \A u \in Publisher : u # t => publication'[u] = publication[u]
        /\ \A u \in Publisher : publication'[u].state = publication[u].state
    <3>1. publication' = [publication EXCEPT ![t] = [publication[t] EXCEPT !.drawn = c]]
      BY <2>1, <2>3
    <3> DEFINE new == [publication[t] EXCEPT !.drawn = c]
    <3>2. /\ new \in PublicationRow /\ new.drawn = c /\ new.todo = publication[t].todo
          /\ new.state = publication[t].state
      BY <1>1, <2>3 DEF PublicationRow
    <3> HIDE DEF new
    <3>3. publication' \in [Publisher -> PublicationRow] /\ publication'[t] = new
          /\ \A u \in Publisher : u # t => publication'[u] = publication[u]
      BY <1>0, <3>1, <3>2 DEF new
    <3> QED
      BY <3>2, <3>3
  <2>5. ASSUME NEW u \in Publisher PROVE Holds(u)'
    <3>1. CASE u = t
      BY <2>1, <2>3, <2>4, <2>h, <3>1 DEF Holds, Open
    <3>2. CASE u # t
      <4> SUFFICES ASSUME publication[u].drawn > 0 PROVE Holds(u)'
        BY <2>4, <3>2 DEF Holds
      <4> DEFINE b == Head(publication[u].todo)
      <4>1. Open(u) /\ publication[u].todo # <<>> /\ u \in locking[b] /\ publication[u].drawn = counter[b]
        BY <1>1 DEF Holds
      <4>2. b \in Aggregate
        BY <1>1, <4>1
      <4>3. b # a
        BY <2>1, <3>2, <4>1
      <4>4. counter'[b] = counter[b] /\ locking'[b] = locking[b]
        BY <2>3, <4>2, <4>3
      <4> QED
        BY <2>4, <3>2, <4>1, <4>4 DEF Holds, Open
    <3> QED
      BY <3>1, <3>2
  <2>6. ASSUME NEW r \in outboxRow PROVE Kept(r)'
    <3>1. r.by \in Publisher /\ r.of \in Aggregate
      BY <1>3 DEF EventRow
    <3>2. locking[r.of] \subseteq locking'[r.of]
      BY <2>1, <2>3, <3>1
    <3> QED
      BY <1>3, <2>4, <3>1, <3>2 DEF Kept, Open
  <2>7. ASSUME NEW b \in Aggregate PROVE Published(b)' = Published(b)
    BY <1>3, <2>1, <2>4 DEF Published, EventRow
  <2>8. \A u, b : Own(u, b)' = Own(u, b)
    BY <2>1 DEF Own
  <2>9. ASSUME NEW b \in Aggregate PROVE (\E n \in Nat : OrderedTo(b, n))'
    <3>1. CASE b # a
      <4>1. ASSUME NEW u \in locking[b] PROVE Pending(u, b)' = Pending(u, b)
        <5>1. u \in Publisher
          BY <1>0
        <5> QED
          BY <2>1, <2>4, <2>h, <3>1, <5>1 DEF Pending
      <4> QED
        BY <1>5, <2>3, <2>7, <2>8, <3>1, <4>1
    <3>2. CASE b = a
      <4>1. PICK n \in Nat : OrderedTo(a, n)
        BY <1>4, <2>2
      <4>2. Pending(t, a)' = 1 /\ Pending(t, a) = 0
        BY <2>1, <2>3, <2>4, <2>h DEF Pending
      <4>3. n <= counter[a] /\ Nums(Own(t, a)) = n + 1 .. counter[a]
        <5>1. CASE locking[a] = {}
          <6>1. Own(t, a) = {} /\ counter[a] = n
            BY <2>1, <2>2, <4>1, <5>1, OwnIsHeld DEF OrderedTo, Open
          <6> QED
            BY <6>1 DEF Nums
        <5>2. CASE t \in locking[a]
          <6>1. n <= counter[a] - Pending(t, a) /\ Nums(Own(t, a)) = n + 1 .. counter[a] - Pending(t, a)
            BY <4>1, <5>2 DEF OrderedTo
          <6>2. counter[a] - Pending(t, a) = counter[a]
            BY <1>0, <2>2, <4>2
          <6> QED
            BY <6>1, <6>2
        <5> QED
          BY <2>1, <5>1, <5>2
      <4>4. counter'[a] - Pending(t, a)' = counter[a]
        BY <1>0, <2>2, <2>3, <2>c, <4>2
      <4>5. OrderedTo(a, n)'
        BY <2>2, <2>3, <2>7, <2>8, <4>1, <4>3, <4>4 DEF OrderedTo
      <4> QED
        BY <3>2, <4>5
    <3> QED
      BY <3>1, <3>2
  <2>10. \A b \in Aggregate : \A u, v \in locking'[b] : Open(u)' /\ u = v
    <3>1. ASSUME NEW b \in Aggregate, NEW u \in locking'[b], NEW v \in locking'[b]
          PROVE  Open(u)' /\ u = v
      <4>1. u \in Publisher
        BY <2>3
      <4> QED
        BY <1>2, <2>1, <2>3, <2>4, <4>1 DEF Open
    <3> QED
      BY <3>1
  <2> QED
    BY <1>0, <2>1, <2>3, <2>4, <2>5, <2>6, <2>9, <2>10 DEF PublishInv, PublishTypes
<1>12. ASSUME NEW t \in Publisher, InsertEvent(t) PROVE PublishInv'
  <2>a. publication[t].todo # <<>> /\ publication[t].drawn > 0
    BY <1>1, <1>12 DEF InsertEvent, Holds
  <2>b. PICK a \in Aggregate : a = Head(publication[t].todo)
    BY <1>1, <2>a
  <2>c. PICK n0 \in Nat : n0 = publication[t].drawn
    BY <1>1
  <2>d. PICK row : row = [of |-> a, no |-> n0, by |-> t]
    OBVIOUS
  <2>1. /\ Open(t) /\ n0 > 0 /\ outboxRow' = outboxRow \cup {row} /\ UNCHANGED <<counter, locking>>
        /\ \A r \in outboxRow : ~ (r.of = a /\ r.no = n0)
        /\ publication' = [publication EXCEPT ![t].todo = Tail(publication[t].todo), ![t].drawn = 0]
    BY <1>12, <2>b, <2>c, <2>d DEF InsertEvent
  <2>2. publication[t].todo # <<>> /\ t \in locking[a] /\ n0 = counter[a]
    BY <1>1, <2>1, <2>b, <2>c DEF Holds
  <2>3. a \in Aggregate /\ n0 \in Nat /\ Tail(publication[t].todo) \in Seq(Aggregate)
    BY <1>1, <2>2
  <2>h. a = Head(publication[t].todo) /\ n0 = publication[t].drawn /\ row \in EventRow
        /\ row.of = a /\ row.no = n0 /\ row.by = t
    BY <2>1, <2>3, <2>b, <2>c, <2>d DEF EventRow
  <2>4. /\ publication' \in [Publisher -> PublicationRow] /\ publication'[t].drawn = 0
        /\ \A u \in Publisher : u # t => publication'[u] = publication[u]
        /\ \A u \in Publisher : publication'[u].state = publication[u].state
    <3> DEFINE new == [publication[t] EXCEPT !.todo = Tail(publication[t].todo), !.drawn = 0]
    <3>1. publication[t] \in PublicationRow /\ publication' = [publication EXCEPT ![t] = new]
      BY <1>0, <2>1
    <3>2. new \in PublicationRow /\ new.drawn = 0 /\ new.state = publication[t].state
      BY <2>3, <3>1 DEF PublicationRow
    <3> HIDE DEF new
    <3>3. publication' \in [Publisher -> PublicationRow] /\ publication'[t] = new
          /\ \A u \in Publisher : u # t => publication'[u] = publication[u]
      BY <1>0, <3>1, <3>2
    <3> QED
      BY <3>2, <3>3
  <2>5. ASSUME NEW u \in Publisher PROVE Holds(u)'
    <3>1. CASE u = t
      BY <2>4, <3>1 DEF Holds
    <3>2. CASE u # t
      <4>1. publication'[u] = publication[u] /\ UNCHANGED <<counter, locking>>
        BY <2>1, <2>4, <3>2
      <4>2. Holds(u)
        BY <1>1
      <4> QED
        BY <4>1, <4>2 DEF Holds, Open
    <3> QED
      BY <3>1, <3>2
  <2>6. ASSUME NEW r \in outboxRow' PROVE Kept(r)'
    <3>1. r.by \in Publisher
      BY <1>3, <2>1, <2>h DEF EventRow
    <3>2. CASE r \in outboxRow
      BY <1>3, <2>1, <2>4, <3>1, <3>2 DEF Kept, Open
    <3>3. CASE r = row
      BY <2>1, <2>2, <2>4, <2>h, <3>1, <3>3 DEF Kept, Open
    <3> QED
      BY <2>1, <3>2, <3>3
  <2>7. ASSUME NEW b \in Aggregate PROVE Published(b)' = Published(b)
    <3>1. publication'[row.by].state # "committed"
      BY <2>1, <2>4, <2>h DEF Open
    <3> QED
      BY <1>3, <2>1, <2>4, <3>1 DEF Published, EventRow
  <2>8. ASSUME NEW b \in Aggregate PROVE (\E n \in Nat : OrderedTo(b, n))'
    <3>1. CASE b # a
      <4>1. ASSUME NEW u \in locking[b] PROVE Own(u, b)' = Own(u, b) /\ Pending(u, b)' = Pending(u, b)
        <5>1. u \in Publisher
          BY <1>0
        <5>2. Own(u, b)' = Own(u, b)
          BY <2>1, <2>h, <3>1 DEF Own
        <5>3. Pending(u, b)' = Pending(u, b)
          BY <2>1, <2>4, <2>h, <3>1, <5>1 DEF Pending
        <5> QED
          BY <5>2, <5>3
      <4> QED
        BY <1>5, <2>1, <2>7, <3>1, <4>1
    <3>2. CASE b = a
      <4>1. PICK n \in Nat : OrderedTo(a, n)
        BY <1>4, <2>3
      <4>2. Pending(t, a) = 1 /\ Pending(t, a)' = 0
        BY <2>1, <2>4, <2>h DEF Pending
      <4>3. n <= counter[a] - 1 /\ Nums(Own(t, a)) = n + 1 .. counter[a] - 1
        BY <2>2, <4>1, <4>2 DEF OrderedTo
      <4>4. Own(t, a)' = Own(t, a) \cup {row}
        BY <2>1, <2>h DEF Own
      <4>5. Nums(Own(t, a) \cup {row}) = Nums(Own(t, a)) \cup {n0}
        BY <2>h DEF Nums
      <4>6. (n + 1 .. counter[a] - 1) \cup {counter[a]} = n + 1 .. counter[a] /\ counter[a] - 0 = counter[a]
        <5>1. counter[a] \in Nat
          BY <1>0, <2>3
        <5> QED
          BY <4>3, <5>1
      <4>7. \A u \in locking[a] : u = t
        BY <1>2, <2>2, <2>3
      <4>8. n <= counter[a]
        BY <1>0, <2>3, <4>3
      <4>9. OrderedTo(a, n)'
        <5>1. Published(a)' = Published(a) /\ counter'[a] = counter[a] /\ locking'[a] = locking[a]
          BY <2>1, <2>3, <2>7
        <5>2. Nums(Own(t, a)') = n + 1 .. counter[a]
          BY <2>2, <4>3, <4>4, <4>5, <4>6
        <5>3. \A u \in locking'[a] : u = t
          BY <4>7, <5>1
        <5>4. Nums(Published(a)) = 1 .. n /\ locking[a] # {}
          BY <2>2, <4>1 DEF OrderedTo
        <5>5. counter'[a] - Pending(t, a)' = counter[a]
          BY <4>2, <4>6, <5>1
        <5>6. \A u \in locking'[a] : /\ n <= counter'[a] - Pending(u, a)'
                                     /\ Nums(Own(u, a)') = n + 1 .. counter'[a] - Pending(u, a)'
          BY <4>8, <5>2, <5>3, <5>5
        <5> QED
          BY <5>1, <5>4, <5>6 DEF OrderedTo, Nums
      <4> QED
        BY <3>2, <4>9
    <3> QED
      BY <3>1, <3>2
  <2>9. \A b \in Aggregate : \A u, v \in locking'[b] : Open(u)' /\ u = v
    BY <1>0, <1>2, <2>1, <2>4 DEF Open
  <2>10. IsFiniteSet(outboxRow')
    BY <1>0, <2>1, FS_AddElement
  <2>11. \A r, s \in outboxRow' : r.of = s.of /\ r.no = s.no => r = s
    BY <1>0, <2>1, <2>h
  <2>12. outboxRow' \subseteq EventRow
    BY <1>0, <2>1, <2>h
  <2> QED
    BY <1>0, <2>1, <2>4, <2>5, <2>6, <2>8, <2>9, <2>10, <2>11, <2>12 DEF PublishInv, PublishTypes
\* A transaction ends: what it held is free.
<1>6. ASSUME NEW t \in Publisher, locking' = Unlocked(t)
      PROVE  /\ locking' \in [Aggregate -> SUBSET Publisher]
             /\ \A a \in Aggregate : /\ t \notin locking'[a] /\ locking'[a] \subseteq locking[a]
                                     /\ t \in locking[a] => locking'[a] = {}
                                     /\ t \notin locking[a] => locking'[a] = locking[a]
                                     /\ \A u \in locking[a] : u # t => u \in locking'[a]
  <2>1. ASSUME NEW a \in Aggregate PROVE locking'[a] = locking[a] \ {t}
    BY <1>6 DEF Unlocked
  <2>2. locking' \in [Aggregate -> SUBSET Publisher]
    BY <1>0, <1>6 DEF Unlocked
  <2>3. ASSUME NEW a \in Aggregate, t \in locking[a] PROVE locking'[a] = {}
    BY <1>2, <2>1, <2>3
  <2>4. ASSUME NEW a \in Aggregate, t \notin locking[a] PROVE locking'[a] = locking[a]
    BY <2>1, <2>4
  <2> QED
    BY <2>1, <2>2, <2>3, <2>4
<1>7. ASSUME NEW t \in Publisher, locking' = Unlocked(t),
             \A u \in Publisher : u # t => publication'[u] = publication[u]
      PROVE  \A a \in Aggregate : \A u, v \in locking'[a] : Open(u)' /\ u = v
  <2>1. ASSUME NEW a \in Aggregate, NEW u \in locking'[a], NEW v \in locking'[a]
        PROVE  Open(u)' /\ u = v
    <3>1. u \in locking[a] /\ v \in locking[a] /\ u # t /\ u \in Publisher
      BY <1>0, <1>6, <1>7
    <3> QED
      BY <1>2, <1>7, <3>1 DEF Open
  <2> QED
    BY <2>1
<1>13. ASSUME NEW t \in Publisher, CommitPublish(t) PROVE PublishInv'
  <2>1. /\ Open(t) /\ publication[t].todo = <<>> /\ locking' = Unlocked(t)
        /\ UNCHANGED <<counter, outboxRow>>
        /\ publication' = [publication EXCEPT ![t].state = "committed"]
    BY <1>13 DEF CommitPublish
  <2>2. publication[t].drawn = 0
    BY <1>1, <2>1 DEF Holds
  <2>3. /\ publication' \in [Publisher -> PublicationRow]
        /\ publication'[t].state = "committed" /\ publication'[t].drawn = 0
        /\ \A u \in Publisher : u # t => publication'[u] = publication[u]
    BY <1>0, <2>1, <2>2 DEF PublicationRow
  <2>4. ASSUME NEW u \in Publisher PROVE Holds(u)'
    <3> SUFFICES ASSUME u # t, publication[u].drawn > 0 PROVE Holds(u)'
      BY <2>3 DEF Holds
    <3> DEFINE b == Head(publication[u].todo)
    <3>1. Open(u) /\ publication[u].todo # <<>> /\ u \in locking[b] /\ publication[u].drawn = counter[b]
      BY <1>1 DEF Holds
    <3>2. b \in Aggregate
      BY <1>1, <3>1
    <3>3. u \in locking'[b]
      BY <1>6, <2>1, <3>1, <3>2
    <3> QED
      BY <2>1, <2>3, <3>1, <3>3 DEF Holds, Open
  <2>5. ASSUME NEW r \in outboxRow PROVE Kept(r)'
    <3>1. r.by \in Publisher /\ r.of \in Aggregate /\ Kept(r)
      BY <1>3 DEF EventRow
    <3>2. CASE r.by = t
      BY <2>3, <3>2 DEF Kept, Open
    <3>3. CASE r.by # t
      <4>1. publication'[r.by] = publication[r.by]
        BY <2>3, <3>1, <3>3
      <4>2. r.by \in locking[r.of] => r.by \in locking'[r.of]
        BY <1>6, <2>1, <3>1, <3>3
      <4> QED
        BY <3>1, <4>1, <4>2 DEF Kept, Open
    <3> QED
      BY <3>2, <3>3
  <2>6. ASSUME NEW b \in Aggregate PROVE (\E n \in Nat : OrderedTo(b, n))'
    <3>0. Published(b)' = Published(b) \cup Own(t, b)
      BY <1>3, <2>1, <2>3 DEF Published, Own, EventRow, Open
    <3>1. CASE t \notin locking[b]
      <4>1. Published(b)' = Published(b)
        BY <2>1, <3>0, <3>1, OwnIsHeld DEF Open
      <4>2. ASSUME NEW u \in locking[b] PROVE Own(u, b)' = Own(u, b) /\ Pending(u, b)' = Pending(u, b)
        <5>1. u \in Publisher /\ u # t
          BY <1>0, <3>1
        <5> QED
          BY <2>1, <2>3, <5>1 DEF Own, Pending
      <4>3. locking'[b] = locking[b]
        BY <1>6, <2>1, <3>1
      <4> QED
        BY <1>5, <2>1, <4>1, <4>2, <4>3
    <3>2. CASE t \in locking[b]
      <4>1. PICK n \in Nat : OrderedTo(b, n)
        BY <1>4
      <4>2. Pending(t, b) = 0 /\ counter[b] \in Nat
        BY <1>0, <2>2 DEF Pending
      <4>3. Nums(Published(b)) = 1 .. n /\ n <= counter[b] /\ Nums(Own(t, b)) = n + 1 .. counter[b]
        <5>1. counter[b] - Pending(t, b) = counter[b]
          BY <4>2
        <5> QED
          BY <3>2, <4>1, <5>1 DEF OrderedTo
      <4>4. Nums(Published(b) \cup Own(t, b)) = Nums(Published(b)) \cup Nums(Own(t, b))
        BY DEF Nums
      <4>5. (1 .. n) \cup (n + 1 .. counter[b]) = 1 .. counter[b]
        BY <4>2, <4>3
      <4>6. locking'[b] = {} /\ counter'[b] = counter[b]
        BY <1>6, <2>1, <3>2
      <4>7. OrderedTo(b, counter[b])' <=>
              /\ Nums(Published(b)') = 1 .. counter'[b]
              /\ locking'[b] = {} => counter'[b] = counter'[b]
              /\ \A u \in locking'[b] : /\ counter'[b] <= counter'[b] - Pending(u, b)'
                                        /\ Nums(Own(u, b)') = counter'[b] + 1 .. counter'[b] - Pending(u, b)'
        BY DEF OrderedTo, Nums
      <4>8. Nums(Published(b)') = 1 .. counter[b]
        BY <3>0, <4>3, <4>4, <4>5
      <4>9. OrderedTo(b, counter[b])'
        BY <4>6, <4>7, <4>8
      <4> QED
        BY <4>2, <4>6, <4>9
    <3> QED
      BY <3>1, <3>2
  <2> QED
    BY <1>0, <1>6, <1>7, <2>1, <2>3, <2>4, <2>5, <2>6 DEF PublishInv, PublishTypes
<1>14. ASSUME NEW t \in Publisher, RollbackPublish(t) PROVE PublishInv'
  <2>1. /\ Open(t) /\ locking' = Unlocked(t) /\ outboxRow' = {r \in outboxRow : r.by # t}
        /\ counter' = [a \in Aggregate |-> counter[a] - Drawn(t, a)]
        /\ publication' = [publication EXCEPT ![t] = [state |-> "rolled back", todo |-> <<>>, drawn |-> 0]]
    BY <1>14 DEF RollbackPublish
  <2>2. /\ publication' \in [Publisher -> PublicationRow]
        /\ publication'[t].state = "rolled back" /\ publication'[t].drawn = 0
        /\ \A u \in Publisher : u # t => publication'[u] = publication[u]
    <3>1. [state |-> "rolled back", todo |-> <<>>, drawn |-> 0] \in PublicationRow
      BY DEF PublicationRow
    <3> QED
      BY <1>0, <2>1, <3>1
  <2>3. ASSUME NEW b \in Aggregate
        PROVE  /\ counter'[b] \in Nat
               /\ t \in locking[b] => \E n \in Nat : OrderedTo(b, n) /\ counter'[b] = n
               /\ t \notin locking[b] => counter'[b] = counter[b]
    <3>1. PICK n \in Nat : OrderedTo(b, n)
      BY <1>4
    <3>2. IF t \in locking[b] THEN Drawn(t, b) = counter[b] - n ELSE Drawn(t, b) = 0
      BY <2>1, <3>1, DrawnIsAhead
    <3>3. counter'[b] = counter[b] - Drawn(t, b) /\ counter[b] \in Nat
      BY <1>0, <2>1
    <3>4. t \in locking[b] => counter'[b] = n
      BY <3>2, <3>3
    <3>5. t \notin locking[b] => counter'[b] = counter[b]
      BY <3>2, <3>3
    <3> QED
      BY <3>1, <3>3, <3>4, <3>5
  <2>4. counter' \in [Aggregate -> Nat]
    BY <2>1, <2>3
  <2>5. ASSUME NEW u \in Publisher PROVE Holds(u)'
    <3>a. CASE u = t
      <4>0. publication'[t].drawn = 0
        BY <2>2
      <4>1. ~ (publication'[u].drawn > 0)
        BY <3>a, <4>0
      <4> QED
        BY <4>1 DEF Holds
    <3>b. CASE u # t /\ ~ (publication[u].drawn > 0)
      BY <2>2, <3>b DEF Holds
    <3> SUFFICES ASSUME u # t, publication[u].drawn > 0 PROVE Holds(u)'
      BY <3>a, <3>b
    <3> DEFINE b == Head(publication[u].todo)
    <3>1. Open(u) /\ publication[u].todo # <<>> /\ u \in locking[b] /\ publication[u].drawn = counter[b]
      BY <1>1 DEF Holds
    <3>2. b \in Aggregate
      BY <1>1, <3>1
    <3>3. u \in locking'[b] /\ t \notin locking[b]
      BY <1>2, <1>6, <2>1, <3>1, <3>2
    <3>4. counter'[b] = counter[b]
      BY <2>3, <3>2, <3>3
    <3> QED
      BY <2>2, <3>1, <3>3, <3>4 DEF Holds, Open
  <2>6. ASSUME NEW r \in outboxRow' PROVE Kept(r)'
    <3>1. r \in outboxRow /\ r.by # t
      BY <2>1
    <3>2. r.by \in Publisher /\ r.of \in Aggregate /\ Kept(r)
      BY <1>3, <3>1 DEF EventRow
    <3>3. publication'[r.by] = publication[r.by]
      BY <2>2, <3>1, <3>2
    <3>a. \A v \in locking[r.of] : v # t => v \in locking'[r.of]
      BY <1>6, <2>1, <3>2
    <3>4. r.by \in locking[r.of] => r.by \in locking'[r.of]
      BY <3>1, <3>a
    <3> QED
      BY <3>2, <3>3, <3>4 DEF Kept, Open
  <2>7. ASSUME NEW b \in Aggregate PROVE (\E n \in Nat : OrderedTo(b, n))'
    <3>0. Published(b)' = Published(b)
      BY <1>3, <2>1, <2>2 DEF Published, EventRow, Open
    <3>1. CASE t \notin locking[b]
      <4>1. ASSUME NEW u \in locking[b] PROVE Own(u, b)' = Own(u, b) /\ Pending(u, b)' = Pending(u, b)
        <5>1. u \in Publisher /\ u # t
          BY <1>0, <3>1
        <5> QED
          BY <2>1, <2>2, <5>1 DEF Own, Pending
      <4>2. locking'[b] = locking[b]
        BY <1>6, <2>1, <3>1
      <4> QED
        BY <1>5, <2>3, <3>0, <3>1, <4>1, <4>2
    <3>2. CASE t \in locking[b]
      <4>1. PICK n \in Nat : OrderedTo(b, n) /\ counter'[b] = n
        BY <2>3, <3>2
      <4>2. locking'[b] = {}
        BY <1>6, <2>1, <3>2
      <4>3. OrderedTo(b, n)'
        BY <3>0, <4>1, <4>2 DEF OrderedTo
      <4> QED
        BY <4>3
    <3> QED
      BY <3>1, <3>2
  <2>8. IsFiniteSet(outboxRow') /\ outboxRow' \subseteq outboxRow
    BY <1>0, <2>1, FS_Subset
  <2>9. /\ \A r, s \in outboxRow' : r.of = s.of /\ r.no = s.no => r = s
        /\ outboxRow' \subseteq EventRow
    BY <1>0, <2>8
  <2> QED
    BY <1>6, <1>7, <2>1, <2>2, <2>4, <2>5, <2>6, <2>7, <2>8, <2>9 DEF PublishInv, PublishTypes
<1>15. CASE UNCHANGED publishVars
  <2>1. UNCHANGED <<publication, counter, locking, outboxRow>>
    BY <1>15 DEF publishVars
  <2>2. ASSUME NEW a \in Aggregate PROVE (\E n \in Nat : OrderedTo(a, n))'
    BY <1>5, <2>1 DEF Published, Own, Pending
  <2>3. \A t \in Publisher : Holds(t)'
    BY <1>1, <2>1 DEF Holds, Open
  <2>4. \A r \in outboxRow' : Kept(r)'
    BY <1>3, <2>1 DEF Kept, Open
  <2>5. \A a \in Aggregate : \A t, u \in locking'[a] : Open(t)' /\ t = u
    BY <1>2, <2>1 DEF Open
  <2> QED
    BY <1>0, <2>1, <2>2, <2>3, <2>4, <2>5 DEF PublishInv, PublishTypes
<1> QED
  BY <1>10, <1>11, <1>12, <1>13, <1>14, <1>15 DEF PublishNext

LEMMA OrderIsVisible == PublishInv => PublishedInOrder
<1> SUFFICES ASSUME PublishInv, NEW a \in Aggregate
             PROVE  LET n == Cardinality(Published(a)) IN
                    /\ {r.no : r \in Published(a)} = 1 .. n
                    /\ locking[a] = {} => counter[a] = n
  BY DEF PublishedInOrder
<1>1. PICK n \in Nat : OrderedTo(a, n)
  BY DEF PublishInv
<1>2. IsFiniteSet(Published(a)) /\ \A r, s \in Published(a) : r.no = s.no => r = s
  <2>1. Published(a) \subseteq outboxRow
    BY DEF Published
  <2> QED
    BY <2>1, FS_Subset DEF PublishInv, Published
<1>3. Nums(Published(a)) = 1 .. n /\ 1 \in Int /\ n \in Int /\ 1 <= n + 1
  BY <1>1 DEF OrderedTo
<1>4. Cardinality(Published(a)) = n + 1 - 1
  BY <1>2, <1>3, NumberedCount
<1>5. Cardinality(Published(a)) = n
  BY <1>1, <1>4
<1> QED
  BY <1>1, <1>5 DEF OrderedTo, Nums

(* However transactions interleave and roll back, an aggregate's visible   *)
(* numbers are 1 .. n and the sequence goes on from there.                 *)
THEOREM PublishingIsOrdered == PublishSpec => []PublishedInOrder
  BY PublishInvInit, PublishInvStep, OrderIsVisible, PTL DEF PublishSpec

-----------------------------------------------------------------------------
(* The services side by side.  They share no row but the leases, which the *)
(* reaper of the queue moves as well; a service that is not at work stands *)
(* still, so each behaves as its own specification says.                   *)

LEMMA EachServiceSteps ==
  ASSUME MCNext
  PROVE  /\ [LeaseNext]_leaseVars   /\ [EffectNext]_effectVars     /\ [LockNext]_lockVars
         /\ [DrainNext]_drainVars   /\ [WebhookNext]_webhookVars   /\ [RotationNext]_rotationVars
         /\ [ChangeNext]_changeVars /\ [PublishNext]_publishVars
         /\ [QueueNext]_<<leaseVars, queueVars>> \/ UNCHANGED queueVars
<1>1. [LeaseNext]_leaseVars /\ ([QueueNext]_<<leaseVars, queueVars>> \/ UNCHANGED queueVars)
  <2>1. CASE service = "lease"
    <3>1. LeaseAlone
      BY <2>1 DEF MCNext, At
    <3> QED BY <3>1 DEF LeaseAlone
  <2>2. CASE service = "queue"
    <3>1. QueueAlone
      BY <2>2 DEF MCNext, At
    <3>2. QueueNext
      BY <3>1 DEF QueueAlone
    <3>3. ReapLease => EvictZombie
      BY DEF ReapLease
    <3> QED BY <3>2, <3>3 DEF QueueNext, LeaseNext
  <2>3. CASE service \notin {"lease", "queue"}
    <3>1. UNCHANGED <<leaseVars, queueVars>>
      BY <2>3 DEF MCNext, Untouched
    <3> QED BY <3>1
  <2> QED BY <2>1, <2>2, <2>3
<1>2. [EffectNext]_effectVars
  BY DEF MCNext, At, Untouched
<1>3. [LockNext]_lockVars
  BY DEF MCNext, At, Untouched
<1>4. [DrainNext]_drainVars
  BY DEF MCNext, At, Untouched
<1>5. [WebhookNext]_webhookVars
  BY DEF MCNext, At, Untouched
<1>6. [RotationNext]_rotationVars
  <2>1. RotationAlone => RotationNext
    BY DEF RotationAlone
  <2> QED BY <2>1 DEF MCNext, At, Untouched
<1>7. [ChangeNext]_changeVars
  BY DEF MCNext, At, Untouched
<1>8. [PublishNext]_publishVars
  BY DEF MCNext, At, Untouched
<1> QED BY <1>1, <1>2, <1>3, <1>4, <1>5, <1>6, <1>7, <1>8

LEMMA EachServiceStays ==
  ASSUME [MCNext]_<<service, leaseVars, queueVars, rest>>
  PROVE  /\ [LeaseNext]_leaseVars   /\ [EffectNext]_effectVars     /\ [LockNext]_lockVars
         /\ [DrainNext]_drainVars   /\ [WebhookNext]_webhookVars   /\ [RotationNext]_rotationVars
         /\ [ChangeNext]_changeVars /\ [PublishNext]_publishVars
         /\ [QueueNext]_<<leaseVars, queueVars>> \/ UNCHANGED queueVars
<1>1. CASE MCNext
  BY <1>1, EachServiceSteps
<1>2. CASE UNCHANGED <<service, leaseVars, queueVars, rest>>
  BY <1>2 DEF rest
<1> QED BY <1>1, <1>2

\* backend/src: among the others each service still behaves as its own
\* specification says, the drain with its fairness, so that every theorem about
\* one of them is a theorem about all of them together.
THEOREM ServicesCompose ==
  MCSpec => /\ LeaseSpec /\ EffectSpec /\ LockSpec /\ DrainSpec /\ WebhookSpec /\ RotationSpec
            /\ ChangeSpec /\ PublishSpec
<1>1. MCInit => /\ LeaseInit /\ EffectInit /\ LockInit /\ DrainInit /\ WebhookInit
                /\ RotationInit /\ ChangeInit /\ PublishInit
  BY DEF MCInit
<1>2. [MCNext]_<<service, leaseVars, queueVars, rest>>
        => /\ [LeaseNext]_leaseVars   /\ [EffectNext]_effectVars     /\ [LockNext]_lockVars
           /\ [DrainNext]_drainVars   /\ [WebhookNext]_webhookVars   /\ [RotationNext]_rotationVars
           /\ [ChangeNext]_changeVars /\ [PublishNext]_publishVars
  BY EachServiceStays
<1> QED
  BY <1>1, <1>2, PTL
     DEF MCSpec, LeaseSpec, EffectSpec, LockSpec, DrainSpec, WebhookSpec, RotationSpec,
         ChangeSpec, PublishSpec

\* The queue's tables are among the others what they are by themselves: an
\* eviction that no queue hears of leaves them alone.
LEMMA QueueKept ==
  QueueInv /\ ([QueueNext]_<<leaseVars, queueVars>> \/ UNCHANGED queueVars) => QueueInv'
<1>1. QueueInv /\ UNCHANGED queueVars => QueueInv'
  BY DEF queueVars, QueueInv, QueueTables, CallsDrawn, MovesHoldBoth, OneMover, NoJobLost,
         Present, Moving
<1> QED BY <1>1, QueueInvStep

\* Among all services and on top of leases that anybody evicts, no job is
\* lost (ingestionQueueManager.service.ts).
THEOREM NoJobIsLostAmongServices == MCSpec => []NoJobLost
<1>1. MCInit => QueueInv
  BY QueueInvInit DEF MCInit
<1>2. QueueInv /\ [MCNext]_<<service, leaseVars, queueVars, rest>> => QueueInv'
  BY EachServiceStays, QueueKept
<1>3. QueueInv => NoJobLost
  BY DEF QueueInv
<1> QED BY <1>1, <1>2, <1>3, PTL DEF MCSpec

-----------------------------------------------------------------------------
(* The types of the services' rows and fields, where the invariants above  *)
(* do not need them.                                                       *)

LeaseFields == clock \in 0 .. MaxClock /\ beating \subseteq Worker

LEMMA LeaseFieldsStep == LeaseFields /\ [LeaseNext]_leaseVars => LeaseFields'
<1> SUFFICES ASSUME LeaseFields, [LeaseNext]_leaseVars PROVE LeaseFields'
  OBVIOUS
<1> USE DEF LeaseFields
<1>1. ASSUME NEW w \in Worker, NEW m \in Work, Acquire(w, m) PROVE LeaseFields'
  BY <1>1 DEF Acquire
<1>2. ASSUME NEW w \in Worker, Renew(w) \/ Release(w) \/ WorkerCrash(w) \/ Write(w)
      PROVE  LeaseFields'
  BY <1>2 DEF Renew, Release, WorkerCrash, Write
<1>3. CASE FindZombieLeases \/ EvictZombie
  BY <1>3 DEF FindZombieLeases, EvictZombie
<1>4. CASE Tick
  BY <1>4, LeaseAssumption DEF Tick
<1>5. CASE UNCHANGED leaseVars
  BY <1>5 DEF leaseVars
<1> QED BY <1>1, <1>2, <1>3, <1>4, <1>5 DEF LeaseNext, WorkerStep

LEMMA LeaseTypes == LeaseInv /\ LeaseFields => LeaseTypeOK
<1> SUFFICES ASSUME LeaseInv, LeaseFields PROVE LeaseTypeOK
  OBVIOUS
<1>1. turn \in [Worker -> Nat] /\ accepted \in Nat /\ turns \in Seq(Worker)
  BY DEF LeaseInv, TokensIssued, LeaseRow, LeaseRows
<1> QED BY <1>1 DEF LeaseInv, LeaseFields, LeaseTypeOK, LeaseRow, LeaseRows

\* What the reaper holds between its two halves.
Reaping == reaped \in Work \cup {None}

LEMMA ReapingStep ==
  LeaseInv /\ Reaping /\ ([QueueNext]_<<leaseVars, queueVars>> \/ UNCHANGED queueVars) => Reaping'
<1> SUFFICES ASSUME LeaseInv, Reaping, [QueueNext]_<<leaseVars, queueVars>> \/ UNCHANGED queueVars
             PROVE  Reaping'
  OBVIOUS
<1>1. UNCHANGED reaped => Reaping'
  BY DEF Reaping
<1>2. CASE ReapLease
  <2>1. zombie.meta \in Work \cup {None}
    BY DEF LeaseInv
  <2> QED BY <1>2, <2>1 DEF ReapLease, Reaping
<1>3. CASE RequeueReaped
  BY <1>3 DEF RequeueReaped, Reaping
<1>4. ASSUME NEW j \in Job, EnqueueJob(j) PROVE Reaping'
  BY <1>1, <1>4 DEF EnqueueJob
<1>5. ASSUME NEW c \in Call,
             \/ \E j \in Job : Pick(c, j)
             \/ StartJob(c) \/ FinishJob(c) \/ FailJob(c) \/ MoveToDeadLetter(c)
             \/ RequeueDeadLetter(c) \/ CallDies(c)
      PROVE  Reaping'
  BY <1>1, <1>5 DEF Pick, StartJob, FinishJob, FailJob, MoveToDeadLetter, RequeueDeadLetter, CallDies
<1>6. ASSUME NEW S \in SUBSET Job, SweepStuck(S) PROVE Reaping'
  BY <1>1, <1>6 DEF SweepStuck
<1>7. CASE UNCHANGED queueVars
  BY <1>1, <1>7 DEF queueVars
<1> QED BY <1>2, <1>3, <1>4, <1>5, <1>6, <1>7 DEF QueueNext, QueueStep

LEMMA QueueTypes == LeaseTypeOK /\ QueueInv /\ Reaping => QueueTypeOK
BY DEF QueueInv, QueueTables, Reaping, QueueTypeOK, Rows, Calls

\* Drains by any number of calls.
LEMMA DrainTypesStep == DrainTypeOK /\ [DrainNext]_drainVars => DrainTypeOK'
<1> SUFFICES ASSUME DrainTypeOK, [DrainNext]_drainVars PROVE DrainTypeOK'
  OBVIOUS
<1> USE DEF DrainTypeOK, DrainState
<1>1. CASE RequestArrives
  BY <1>1, DrainAssumption DEF RequestArrives
<1>2. CASE RequestFinishes
  BY <1>2, DrainAssumption DEF RequestFinishes
<1>3. CASE ForceShutdown
  BY <1>3 DEF ForceShutdown, ClearTimer
<1>4. ASSUME NEW c \in DrainCall, StartDrain(c) PROVE DrainTypeOK'
  BY <1>4 DEF StartDrain, Awaits
<1>5. ASSUME NEW c \in DrainCall, WorkersStopped(c) PROVE DrainTypeOK'
  BY <1>5 DEF WorkersStopped, Awaits, CompleteDrain
<1>6. ASSUME NEW c \in DrainCall, CancelDrain(c) PROVE DrainTypeOK'
  BY <1>6 DEF CancelDrain, Awaits, ClearTimer
<1>7. ASSUME NEW c \in DrainCall, TimerFires(c) PROVE DrainTypeOK'
  BY <1>7 DEF TimerFires, Awaits
<1>8. ASSUME NEW c \in DrainCall, HandleDrainTimeout(c) PROVE DrainTypeOK'
  BY <1>8 DEF HandleDrainTimeout, Awaits, CompleteDrain
<1>9. CASE UNCHANGED drainVars
  BY <1>9 DEF drainVars
<1> QED BY <1>1, <1>2, <1>3, <1>4, <1>5, <1>6, <1>7, <1>8, <1>9 DEF DrainNext

\* While a node drains a call is on its way to end it: starting puts one
\* there, a stopped session hands over to its timer and a timer to its
\* handler, and whoever clears a timer has ended the drain (drainProtocol
\* .service.ts).  With fair timers this is why drains end, once the workers
\* have stopped.
THEOREM DrainsAreAttended == DrainSpec => []EndUnderWay
<1>1. DrainInit => DrainTypeOK /\ EndUnderWay
  BY DrainAssumption DEF DrainInit, DrainTypeOK, DrainState, EndUnderWay
<1>2. DrainTypeOK /\ EndUnderWay /\ [DrainNext]_drainVars => EndUnderWay'
  <2> SUFFICES ASSUME DrainTypeOK, EndUnderWay, [DrainNext]_drainVars, drainState' = "DRAINING"
               PROVE  \E c \in DrainCall : drainCall'[c] \in {"stopping", "timeout"} \/ c \in armed'
    BY DEF EndUnderWay
  <2> USE DEF DrainTypeOK, EndUnderWay
  <2>1. CASE RequestArrives \/ RequestFinishes
    BY <2>1 DEF RequestArrives, RequestFinishes
  <2>2. CASE ForceShutdown
    BY <2>2 DEF ForceShutdown
  <2>3. ASSUME NEW c \in DrainCall, StartDrain(c) PROVE drainCall'[c] = "stopping"
    BY <2>3 DEF StartDrain, Awaits
  <2>4. ASSUME NEW c \in DrainCall, WorkersStopped(c) PROVE c \in armed'
    BY <2>4 DEF WorkersStopped, CompleteDrain
  <2>5. ASSUME NEW c \in DrainCall, CancelDrain(c) PROVE FALSE
    BY <2>5 DEF CancelDrain
  <2>6. ASSUME NEW c \in DrainCall, TimerFires(c) PROVE drainCall'[c] = "timeout"
    BY <2>6 DEF TimerFires, Awaits
  <2>7. ASSUME NEW c \in DrainCall, HandleDrainTimeout(c)
        PROVE  \E d \in DrainCall : drainCall'[d] \in {"stopping", "timeout"} \/ d \in armed'
    BY <2>7 DEF HandleDrainTimeout, CompleteDrain
  <2>8. CASE UNCHANGED drainVars
    BY <2>8 DEF drainVars
  <2> QED BY <2>1, <2>2, <2>3, <2>4, <2>5, <2>6, <2>7, <2>8 DEF DrainNext
<1> QED BY <1>1, <1>2, DrainTypesStep, PTL DEF DrainSpec

\* The breaker opens with the count that reaches the threshold, and a failure
\* counted from a stale read never gets beyond it.
Counted(r) == r.failures \in 0 .. FailureThreshold /\ (r.failures < FailureThreshold \/ r.open)

WebhookFields ==
  /\ \A d \in Delivery : task[d].made <= DeliveryAttempts
  /\ seen \in [Delivery -> [open : BOOLEAN, failures : Nat, pause : BOOLEAN]]
  /\ endpoint \in [active : BOOLEAN, open : BOOLEAN, failures : Nat, batching : BOOLEAN]
  /\ Counted(endpoint) /\ \A d \in Delivery : Counted(seen[d])
  /\ authFailures \in 0 .. SignatureThreshold
  /\ answered \subseteq Delivery /\ handed \subseteq Delivery

LEMMA WebhookFieldsInit == WebhookInit => WebhookFields
<1> SUFFICES ASSUME WebhookInit PROVE WebhookFields
  OBVIOUS
<1>1. Counted(endpoint) /\ \A d \in Delivery : Counted(seen[d])
  BY WebhookAssumption DEF WebhookInit, Counted, Blank
<1> QED BY <1>1, WebhookAssumption DEF WebhookInit, WebhookFields, Blank

\* A step that changes the job of one delivery at most, to attempts in bounds.
LEMMA AttemptsKept ==
  ASSUME WebhookInv, WebhookFields, NEW d \in Delivery,
         \/ UNCHANGED task
         \/ \E s \in Stage : ToStage(d, s)
         \/ Fails(d) /\ task[d].stage \in {"waiting"} \cup Attempting
  PROVE  \A e \in Delivery : task'[e].made <= DeliveryAttempts
<1>1. /\ task \in [Delivery -> [made : Nat, stage : Stage]]
      /\ \A e \in Delivery : task[e].made <= DeliveryAttempts /\ task[e].made \in Nat
      /\ DeliveryAttempts \in Nat
      /\ task[d].stage \in {"waiting"} \cup Attempting => task[d].made < DeliveryAttempts
  BY WebhookAssumption DEF WebhookInv, WebhookFields, WebhookRow
<1>2. CASE UNCHANGED task
  BY <1>1, <1>2
<1>3. ASSUME NEW s \in Stage, ToStage(d, s)
      PROVE  \A e \in Delivery : task'[e].made <= DeliveryAttempts
  BY <1>1, <1>3 DEF ToStage
<1>4. CASE Fails(d) /\ task[d].stage \in {"waiting"} \cup Attempting
  <2>1. task[d].made + 1 <= DeliveryAttempts
    BY <1>1, <1>4
  <2>2. /\ task'[d].made = task[d].made + 1
        /\ \A e \in Delivery : e # d => task'[e] = task[e]
    BY <1>1, <1>4 DEF Fails
  <2> QED BY <1>1, <2>1, <2>2
<1> QED BY <1>2, <1>3, <1>4

LEMMA WebhookFieldsStep ==
  WebhookInv /\ WebhookFields /\ [WebhookNext]_webhookVars => WebhookFields'
<1> SUFFICES ASSUME WebhookInv, WebhookFields, [WebhookNext]_webhookVars PROVE WebhookFields'
  OBVIOUS
<1>s. {"send", "commit", "reset", "auth2", "auth1", "count2", "count1", "waiting", "bury", "fold",
       "count", "done"} \subseteq Stage
  BY DEF Stage, Attempting
<1>n. FailureThreshold \in Nat \ {0} /\ SignatureThreshold \in Nat \ {0}
  BY WebhookAssumption
<1>e. endpoint \in [active : BOOLEAN, open : BOOLEAN, failures : Nat, batching : BOOLEAN]
  BY DEF WebhookFields
<1>m. \A e \in Delivery : task[e].made <= DeliveryAttempts
  BY DEF WebhookFields
<1>1. ASSUME \A e \in Delivery : task'[e].made <= DeliveryAttempts,
             UNCHANGED <<seen, endpoint, authFailures>>,
             answered' \subseteq Delivery, handed' \subseteq Delivery
      PROVE  WebhookFields'
  BY <1>1 DEF WebhookFields, Counted
<1>2. ASSUME NEW d \in Delivery, QueueDelivery(d) PROVE WebhookFields'
  <2>1. \A e \in Delivery : task'[e].made <= DeliveryAttempts
    BY <1>2, <1>s, AttemptsKept DEF QueueDelivery
  <2> QED BY <1>1, <1>2, <2>1 DEF QueueDelivery, WebhookFields
<1>3. ASSUME NEW d \in Delivery, FlushWindow(d) PROVE WebhookFields'
  <2>1. \A e \in Delivery : task'[e].made <= DeliveryAttempts
    BY <1>3, <1>s, AttemptsKept DEF FlushWindow
  <2>2. handed' \subseteq Delivery
    BY <1>3 DEF FlushWindow, WebhookFields, WebhookInv
  <2> QED BY <1>1, <1>3, <2>1, <2>2 DEF FlushWindow, WebhookFields
<1>4. ASSUME NEW d \in Delivery, BeginAttempt(d) PROVE WebhookFields'
  <2>1. \A e \in Delivery : task'[e].made <= DeliveryAttempts
    BY <1>4, <1>s, AttemptsKept DEF BeginAttempt
  <2> QED BY <1>1, <1>4, <2>1 DEF BeginAttempt, WebhookFields
<1>5. ASSUME NEW d \in Delivery, SendAttempt(d) PROVE WebhookFields'
  <2>1. \A e \in Delivery : task'[e].made <= DeliveryAttempts
    BY <1>5, <1>s, AttemptsKept DEF SendAttempt, Attempting
  <2>2. answered' \subseteq Delivery
    BY <1>5 DEF SendAttempt, WebhookFields
  <2> QED BY <1>1, <1>5, <2>1, <2>2 DEF SendAttempt, WebhookFields
<1>6. ASSUME NEW d \in Delivery, CommitAttempt(d) PROVE WebhookFields'
  <2>1. \A e \in Delivery : task'[e].made <= DeliveryAttempts
    BY <1>6, <1>s, AttemptsKept DEF CommitAttempt, Attempting
  <2> QED BY <1>1, <1>6, <2>1 DEF CommitAttempt, WebhookFields
<1>7. ASSUME NEW d \in Delivery, RecordSuccess(d) PROVE WebhookFields'
  <2>1. \A e \in Delivery : task'[e].made <= DeliveryAttempts
    BY <1>7, <1>s, AttemptsKept DEF RecordSuccess
  <2>2. Counted(endpoint') /\ endpoint' \in [active : BOOLEAN, open : BOOLEAN, failures : Nat, batching : BOOLEAN]
    BY <1>7, <1>n, <1>e DEF RecordSuccess, WebhookFields, Counted
  <2> QED BY <1>7, <1>n, <2>1, <2>2 DEF RecordSuccess, WebhookFields
<1>8. ASSUME NEW d \in Delivery, RecordSignatureFailure(d) PROVE WebhookFields'
  <2>1. \A e \in Delivery : task'[e].made <= DeliveryAttempts
    BY <1>8, <1>s, AttemptsKept DEF RecordSignatureFailure
  <2>2. authFailures' \in 0 .. SignatureThreshold
    BY <1>8, <1>n DEF RecordSignatureFailure, WebhookFields
  <2>3. PICK pause \in BOOLEAN : Reads(d, pause)
    BY <1>8 DEF RecordSignatureFailure
  <2>4. /\ seen' \in [Delivery -> [open : BOOLEAN, failures : Nat, pause : BOOLEAN]]
        /\ \A e \in Delivery : Counted(seen'[e])
    BY <1>e, <2>3 DEF Reads, WebhookFields, Counted
  <2> QED BY <1>8, <2>1, <2>2, <2>4 DEF RecordSignatureFailure, WebhookFields
<1>9. ASSUME NEW d \in Delivery, CountFailure(d) PROVE WebhookFields'
  <2>1. \A e \in Delivery : task'[e].made <= DeliveryAttempts
    BY <1>9, <1>s, AttemptsKept DEF CountFailure, Counting, Attempting
  <2>2. /\ seen' \in [Delivery -> [open : BOOLEAN, failures : Nat, pause : BOOLEAN]]
        /\ \A e \in Delivery : Counted(seen'[e])
    BY <1>9, <1>n DEF CountFailure, Blank, WebhookFields, Counted
  <2>3. /\ seen[d].open \in BOOLEAN /\ seen[d].failures \in Nat /\ seen[d].pause \in BOOLEAN
        /\ Counted(seen[d]) /\ Counted(endpoint)
    BY DEF WebhookFields
  <2> DEFINE count == seen[d].failures + 1
             trips == ~ seen[d].open /\ count >= FailureThreshold
             f == IF seen[d].open THEN endpoint.failures ELSE count
             o == endpoint.open \/ trips
             a == endpoint.active /\ ~ trips /\ ~ seen[d].pause
  <2>e. endpoint' = [endpoint EXCEPT !.failures = f, !.open = o, !.active = a]
    BY <1>9 DEF CountFailure
  <2>f. f \in Nat /\ o \in BOOLEAN /\ a \in BOOLEAN
    BY <1>e, <2>3
  <2>c. f <= FailureThreshold /\ (f < FailureThreshold \/ o)
    BY <1>n, <1>e, <2>3 DEF Counted
  <2> HIDE DEF f, o, a
  <2>4. endpoint' \in [active : BOOLEAN, open : BOOLEAN, failures : Nat, batching : BOOLEAN]
        /\ endpoint'.failures = f /\ endpoint'.open = o
    BY <1>e, <2>e, <2>f
  <2>5. Counted(endpoint')
    BY <1>n, <2>4, <2>f, <2>c DEF Counted
  <2> QED BY <1>9, <2>1, <2>2, <2>4, <2>5 DEF CountFailure, WebhookFields
<1>10. ASSUME NEW d \in Delivery, BuryDelivery(d) PROVE WebhookFields'
  <2>1. \A e \in Delivery : task'[e].made <= DeliveryAttempts
    BY <1>10, <1>s, AttemptsKept DEF BuryDelivery
  <2>2. CASE UNCHANGED seen
    BY <1>1, <1>10, <2>1, <2>2 DEF BuryDelivery, WebhookFields
  <2>3. CASE Reads(d, FALSE)
    <3>1. /\ seen' \in [Delivery -> [open : BOOLEAN, failures : Nat, pause : BOOLEAN]]
          /\ \A e \in Delivery : Counted(seen'[e])
      BY <1>e, <2>3 DEF Reads, WebhookFields, Counted
    <3> QED BY <1>10, <2>1, <3>1 DEF BuryDelivery, WebhookFields
  <2> QED BY <1>10, <2>2, <2>3 DEF BuryDelivery
<1>11. CASE WebhookCrash
  <2>1. \A e \in Delivery : task'[e].made <= DeliveryAttempts
    BY <1>11, <1>m DEF WebhookCrash, WebhookInv
  <2>2. /\ seen' \in [Delivery -> [open : BOOLEAN, failures : Nat, pause : BOOLEAN]]
        /\ \A e \in Delivery : Counted(seen'[e])
    BY <1>11, <1>n DEF WebhookCrash, Blank, Counted
  <2> QED BY <1>11, <1>n, <2>1, <2>2 DEF WebhookCrash, WebhookFields
<1>12. CASE UpdateEndpoint
  <2>1. endpoint' \in [active : BOOLEAN, open : BOOLEAN, failures : Nat, batching : BOOLEAN]
        /\ endpoint'.open = endpoint.open /\ endpoint'.failures = endpoint.failures
    BY <1>12, <1>e DEF UpdateEndpoint
  <2>2. Counted(endpoint')
    BY <2>1 DEF WebhookFields, Counted
  <2> QED BY <1>12, <2>1, <2>2 DEF UpdateEndpoint, WebhookFields
<1>13. CASE ResetCircuitBreaker
  <2>1. endpoint' \in [active : BOOLEAN, open : BOOLEAN, failures : Nat, batching : BOOLEAN]
        /\ endpoint'.failures = 0
    BY <1>13, <1>e DEF ResetCircuitBreaker
  <2>2. Counted(endpoint')
    BY <1>n, <2>1 DEF Counted
  <2> QED BY <1>13, <2>1, <2>2 DEF ResetCircuitBreaker, WebhookFields
<1>14. CASE UNCHANGED webhookVars
  BY <1>1, <1>14, <1>m DEF webhookVars, WebhookFields
<1> QED
  BY <1>2, <1>3, <1>4, <1>5, <1>6, <1>7, <1>8, <1>9, <1>10, <1>11, <1>12, <1>13, <1>14 DEF WebhookNext

LEMMA WebhookTypes == WebhookInv /\ WebhookFields => WebhookTypeOK
<1> SUFFICES ASSUME WebhookInv, WebhookFields PROVE WebhookTypeOK
  OBVIOUS
<1>1. task \in [Delivery -> [made : 0 .. DeliveryAttempts, stage : Stage]]
  BY WebhookAssumption DEF WebhookInv, WebhookFields
<1>2. endpoint \in [active : BOOLEAN, open : BOOLEAN, failures : 0 .. FailureThreshold, batching : BOOLEAN]
  BY DEF WebhookFields, Counted
<1> QED BY <1>1, <1>2 DEF WebhookInv, WebhookFields, WebhookTypeOK

\* The accounts, and the addresses that calls under way are about.
RotationFields ==
  /\ active \subseteq known /\ known \subseteq Admin /\ approvers \subseteq Admin
  /\ proposal.required \in Required \cup {0}
  /\ proposal.status # "absent" => proposal.target \in Admin
  /\ \A c \in RotationCall : /\ rotation[c].step # "idle" => rotation[c].who \in Admin
                             /\ rotation[c].step = "activate" => rotation[c].who \in known
                             /\ rotation[c].step = "expire" => proposal.status # "absent"

\* Call c goes on with a row about an administrator, or rests.
Reworked(c, row) ==
  /\ rotation' = [rotation EXCEPT ![c] = row]
  /\ row.step # "idle" => row.who \in Admin
  /\ row.step = "activate" => row.who \in known
  /\ row.step = "expire" => proposal.status # "absent"

LEMMA RotationFieldsKept ==
  ASSUME QuorumInv, RotationFields, active' \subseteq known', known \subseteq known',
         known' \subseteq Admin, approvers' \subseteq Admin,
         proposal'.required = proposal.required, proposal'.target = proposal.target,
         proposal.status # "absent" <=> proposal'.status # "absent",
         \/ UNCHANGED rotation
         \/ \E c \in RotationCall : \E row : Reworked(c, row)
  PROVE  RotationFields'
<1>1. rotation \in [RotationCall -> OperationRow]
  BY DEF QuorumInv
<1>2. \A c \in RotationCall : /\ rotation'[c].step # "idle" => rotation'[c].who \in Admin
                              /\ rotation'[c].step = "activate" => rotation'[c].who \in known'
                              /\ rotation'[c].step = "expire" => proposal'.status # "absent"
  <2>1. CASE UNCHANGED rotation
    BY <2>1 DEF RotationFields
  <2>2. ASSUME NEW c \in RotationCall, NEW row, Reworked(c, row), NEW e \in RotationCall
        PROVE  /\ rotation'[e].step # "idle" => rotation'[e].who \in Admin
               /\ rotation'[e].step = "activate" => rotation'[e].who \in known'
               /\ rotation'[e].step = "expire" => proposal'.status # "absent"
    <3>1. CASE e = c
      BY <1>1, <2>2, <3>1 DEF Reworked
    <3>2. CASE e # c
      BY <1>1, <2>2, <3>2 DEF Reworked, RotationFields
    <3> QED BY <3>1, <3>2
  <2> QED BY <2>1, <2>2
<1> QED BY <1>2 DEF RotationFields

LEMMA CallsRework ==
  ASSUME QuorumInv, RotationFields, NEW c \in RotationCall
  PROVE  /\ Returns(c) => Reworked(c, Resting)
         /\ \A s : Proceeds(c, s) /\ rotation[c].step # "idle" /\ s \notin {"activate", "expire"}
                     => Reworked(c, [rotation[c] EXCEPT !.step = s])
         /\ \A s, who, x : Begins(c, s, who, x) /\ who \in Admin
                             /\ (s = "activate" => who \in known)
                             /\ (s = "expire" => proposal.status # "absent")
                           => \E row : Reworked(c, row)
<1>1. Returns(c) => Reworked(c, Resting)
  BY DEF Returns, Reworked, Resting
<1>2. ASSUME NEW s, Proceeds(c, s), rotation[c].step # "idle", s \notin {"activate", "expire"}
      PROVE  Reworked(c, [rotation[c] EXCEPT !.step = s])
  <2>1. rotation[c] \in OperationRow
    BY DEF QuorumInv
  <2>2. rotation[c].who \in Admin
    BY <1>2 DEF RotationFields
  <2>3. /\ [rotation[c] EXCEPT !.step = s].who = rotation[c].who
        /\ [rotation[c] EXCEPT !.step = s].step = s
    BY <2>1 DEF OperationRow
  <2>4. rotation' = [rotation EXCEPT ![c] = [rotation[c] EXCEPT !.step = s]]
    BY <1>2 DEF Proceeds, QuorumInv
  <2> QED BY <1>2, <2>2, <2>3, <2>4 DEF Reworked
<1>3. ASSUME NEW s, NEW who, NEW x, Begins(c, s, who, x), who \in Admin,
             s = "activate" => who \in known, s = "expire" => proposal.status # "absent"
      PROVE  \E row : Reworked(c, row)
  <2> DEFINE row == [step |-> s, who |-> who,
                     approvals |-> IF s = "approve" THEN proposal.approvals ELSE <<>>, executes |-> x]
  <2>1. rotation' = [rotation EXCEPT ![c] = row] /\ row.step = s /\ row.who = who
    BY <1>3 DEF Begins
  <2> HIDE DEF row
  <2>2. Reworked(c, row)
    BY <1>3, <2>1 DEF Reworked
  <2> QED BY <2>2
<1> QED BY <1>1, <1>2, <1>3

LEMMA RotationFieldsStep == QuorumInv /\ RotationFields /\ [RotationNext]_rotationVars => RotationFields'
<1> SUFFICES ASSUME QuorumInv, RotationFields, [RotationNext]_rotationVars PROVE RotationFields'
  OBVIOUS
<1>0. /\ active \subseteq known /\ known \subseteq Admin /\ approvers \subseteq Admin
      /\ proposal.required \in Required \cup {0} /\ proposal \in ProposalRow
      /\ proposal.status # "absent" => proposal.target \in Admin
      /\ \A c \in RotationCall : /\ rotation[c].step # "idle" => rotation[c].who \in Admin
                                 /\ rotation[c].step = "activate" => rotation[c].who \in known
                                 /\ rotation[c].step = "expire" => proposal.status # "absent"
  BY DEF RotationFields, QuorumInv
\* A step of a call that leaves the proposal alone.
<1>1. ASSUME NEW c \in RotationCall, NEW row, Reworked(c, row), UNCHANGED <<proposal, approvers>>,
             active' \subseteq known', known \subseteq known', known' \subseteq Admin
      PROVE  RotationFields'
  BY <1>0, <1>1, RotationFieldsKept
<1>2. ASSUME NEW c \in RotationCall, Changed(c), rotation[c].step # "idle",
             active' \subseteq known', known \subseteq known', known' \subseteq Admin
      PROVE  RotationFields'
  <2>1. \E row : Reworked(c, row)
    BY <1>2, CallsRework DEF Changed
  <2> QED BY <1>1, <1>2, <2>1 DEF Changed
<1>3. ASSUME NEW c \in RotationCall, NEW s, NEW who \in Admin, NEW x, Begins(c, s, who, x),
             s = "activate" => who \in known, s = "expire" => proposal.status # "absent",
             UNCHANGED <<known, active, proposal, approvers, enacted>>
      PROVE  RotationFields'
  <2>1. \E row : Reworked(c, row)
    BY <1>3, CallsRework
  <2> QED BY <1>0, <1>1, <1>3, <2>1
<1>4. ASSUME NEW c \in RotationCall, NEW who \in Admin, CallDirectly(c, who) PROVE RotationFields'
  BY <1>3, <1>4 DEF CallDirectly
<1>5. ASSUME NEW c \in RotationCall, NEW who \in Admin, ApproveProposal(c, who) PROVE RotationFields'
  BY <1>3, <1>5 DEF ApproveProposal
<1>6. ASSUME NEW c \in RotationCall, AddAdmin(c) PROVE RotationFields'
  BY <1>0, <1>2, <1>6 DEF AddAdmin
<1>7. ASSUME NEW c \in RotationCall, RemoveAdmin(c) PROVE RotationFields'
  <2>1. CASE rotation[c].step = "remove" /\ active' = active \ {rotation[c].who} /\ UNCHANGED known /\ Changed(c)
    BY <1>0, <1>2, <2>1
  <2>2. ASSUME NEW s \in {"find", "remove"}, Proceeds(c, s), rotation[c].step \in {"count", "find"},
               UNCHANGED <<known, active, proposal, approvers, enacted>>
        PROVE  RotationFields'
    <3>1. Reworked(c, [rotation[c] EXCEPT !.step = s])
      BY <2>2, CallsRework
    <3> QED BY <1>0, <1>1, <2>2, <3>1
  <2> QED BY <1>7, <2>1, <2>2 DEF RemoveAdmin
<1>8. ASSUME NEW c \in RotationCall, ActivateAdmin(c) PROVE RotationFields'
  BY <1>0, <1>2, <1>8 DEF ActivateAdmin
<1>9. ASSUME NEW c \in RotationCall, ChangeRoles(c) PROVE RotationFields'
  BY <1>0, <1>2, <1>9 DEF ChangeRoles
<1>10. ASSUME NEW c \in RotationCall, RecordApproval(c) PROVE RotationFields'
  <2>1. /\ approvers' \subseteq Admin /\ UNCHANGED <<known, active>>
        /\ Reworked(c, Resting)
    BY <1>0, <1>10, CallsRework DEF RecordApproval
  <2>2. /\ proposal'.required = proposal.required /\ proposal'.target = proposal.target
        /\ proposal'.status \in {"approved", "pending"}
    BY <1>0, <1>10 DEF RecordApproval, ProposalRow
  <2>3. proposal.status # "absent"
    BY <1>10 DEF RecordApproval, QuorumInv, Carries
  <2> QED BY <1>0, <2>1, <2>2, <2>3, RotationFieldsKept
<1>11. ASSUME NEW c \in RotationCall, ExecuteProposal(c) PROVE RotationFields'
  <2>1. proposal.target \in Admin
    BY <1>0, <1>11 DEF ExecuteProposal
  <2>2. FirstStep[proposal.type] # "activate"
    BY <1>0 DEF FirstStep, ProposalRow, ProposalType
  <2> QED BY <1>3, <1>11, <2>1, <2>2 DEF ExecuteProposal
<1>12. ASSUME NEW c \in RotationCall, MarkProposal(c) PROVE RotationFields'
  <2>1. UNCHANGED <<known, active, approvers>> /\ Reworked(c, Resting)
    BY <1>12, CallsRework DEF MarkProposal
  <2>2. /\ proposal'.required = proposal.required /\ proposal'.target = proposal.target
        /\ proposal'.status \in {"executed", "expired"}
    BY <1>0, <1>12 DEF MarkProposal, ProposalRow
  <2>3. proposal.status # "absent"
    <3>1. Carries(rotation[c])
      BY DEF QuorumInv
    <3> QED BY <1>0, <1>12, <3>1 DEF MarkProposal, Carries
  <2> QED BY <1>0, <2>1, <2>2, <2>3, RotationFieldsKept
<1>13. ASSUME NEW c \in RotationCall, RotationCallDies(c) PROVE RotationFields'
  <2>1. Reworked(c, Resting)
    BY <1>13, CallsRework DEF RotationCallDies
  <2> QED BY <1>0, <1>1, <1>13, <2>1 DEF RotationCallDies
<1>14. ASSUME NEW t \in ProposalType, NEW target \in Admin, NEW who \in Admin, NEW n \in Required,
              CreateProposal(t, target, who, n)
       PROVE  RotationFields'
  BY <1>0, <1>14 DEF CreateProposal, RotationFields
<1>15. CASE ProposalExpires \/ RejectProposal
  <2>1. UNCHANGED <<known, active, approvers, rotation>>
    BY <1>15 DEF ProposalExpires, RejectProposal
  <2>2. /\ proposal'.required = proposal.required /\ proposal'.target = proposal.target
        /\ proposal.status # "absent" <=> proposal'.status # "absent"
    BY <1>0, <1>15 DEF ProposalExpires, RejectProposal, ProposalRow
  <2> QED BY <1>0, <2>1, <2>2, RotationFieldsKept
<1>16. CASE UNCHANGED rotationVars
  BY <1>16 DEF rotationVars, RotationFields
<1> QED
  BY <1>4, <1>5, <1>6, <1>7, <1>8, <1>9, <1>10, <1>11, <1>12, <1>13, <1>14, <1>15, <1>16 DEF RotationNext

LEMMA RotationTypes == QuorumInv /\ RotationFields => RotationTypeOK
<1> SUFFICES ASSUME QuorumInv, RotationFields PROVE RotationTypeOK
  OBVIOUS
<1>1. proposal \in [type : ProposalType, target : Admin \cup {NoAdmin}, required : Required \cup {0},
                    status : {"absent", "pending", "approved", "executed", "rejected", "expired"},
                    approvals : Seq(Admin), late : BOOLEAN]
  BY DEF QuorumInv, RotationFields, ProposalRow
<1> QED BY <1>1 DEF QuorumInv, RotationFields, RotationTypeOK, OperationRow

\* Every service's rows and fields keep their types while the others run
\* beside it (backend/src), for any workers, calls, thresholds and bounds.
THEOREM BackendTypeCorrect == MCSpec => []BackendTypeOK
<1>1. MCSpec => []QueueTypeOK
  <2>1. MCInit => LeaseInv /\ LeaseFields /\ QueueInv /\ Reaping
    <3>1. LeaseInit => LeaseFields
      BY LeaseAssumption DEF LeaseInit, LeaseFields
    <3>2. QueueInit => Reaping
      BY DEF QueueInit, Reaping
    <3> QED BY <3>1, <3>2, LeaseInvInit, QueueInvInit DEF MCInit
  <2>2. (LeaseInv /\ LeaseFields /\ QueueInv /\ Reaping)
          /\ [MCNext]_<<service, leaseVars, queueVars, rest>>
        => LeaseInv' /\ LeaseFields' /\ QueueInv' /\ Reaping'
    BY EachServiceStays, LeaseInvStep, LeaseFieldsStep, QueueKept, ReapingStep
  <2>3. LeaseInv /\ LeaseFields /\ QueueInv /\ Reaping => QueueTypeOK
    BY LeaseTypes, QueueTypes
  <2> QED BY <2>1, <2>2, <2>3, PTL DEF MCSpec
<1>2. EffectSpec => []EffectTypeOK
  <2>1. EffectInv => EffectTypeOK
    BY DEF EffectInv
  <2> QED BY <2>1, EffectInvInit, EffectInvStep, PTL DEF EffectSpec
<1>3. LockSpec => []LockTypeOK
  <2>1. LockInv => LockTypeOK
    BY DEF LockInv
  <2> QED BY <2>1, LockInvInit, LockInvStep, PTL DEF LockSpec
<1>4. DrainSpec => []DrainTypeOK
  <2>1. DrainInit => DrainTypeOK
    BY DrainAssumption DEF DrainInit, DrainTypeOK, DrainState
  <2> QED BY <2>1, DrainTypesStep, PTL DEF DrainSpec
<1>5. WebhookSpec => []WebhookTypeOK
  BY WebhookInvInit, WebhookInvStep, WebhookFieldsInit, WebhookFieldsStep, WebhookTypes, PTL
     DEF WebhookSpec
<1>6. RotationSpec => []RotationTypeOK
  <2>1. RotationInit => RotationFields
    BY DEF RotationInit, RotationFields, Resting
  <2> QED BY <2>1, QuorumInvInit, QuorumInvStep, RotationFieldsStep, RotationTypes, PTL
             DEF RotationSpec
<1>7. ChangeSpec => []ChangeTypeOK
  <2>1. ChangeInv => ChangeTypeOK
    BY DEF ChangeInv
  <2> QED BY <2>1, ChangeInvInit, ChangeInvStep, PTL DEF ChangeSpec
<1>8. PublishSpec => []PublishTypeOK
  <2>1. PublishInv => PublishTypeOK
    BY DEF PublishInv, PublishTypes, PublishTypeOK, PublicationRow, EventRow
  <2> QED BY <2>1, PublishInvInit, PublishInvStep, PTL DEF PublishSpec
<1> QED
  BY <1>1, <1>2, <1>3, <1>4, <1>5, <1>6, <1>7, <1>8, ServicesCompose, PTL DEF BackendTypeOK

\* With all of them at work, none loses what the theorems above say of it by
\* itself.
THEOREM ServicesAreSafe ==
  MCSpec => /\ [](/\ NoJobLost /\ OneOutcome /\ LockExclusive /\ StatusIsEarned
                  /\ ExecutedWithQuorum /\ FourEyes /\ PublishedInOrder /\ EndUnderWay)
            /\ LeaseFenced
BY ServicesCompose, NoJobIsLostAmongServices, OneOutcomeHolds, LockExcludes, StatusesAreEarned,
   ExecutionsHaveQuorum, FourEyesHold, PublishingIsOrdered, DrainsAreAttended, LeasesAreFenced,
   PTL
=============================================================================
