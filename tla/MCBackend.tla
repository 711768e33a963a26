------------------------------ MODULE MCBackend ------------------------------
(***************************************************************************)
(* Small instances of the backend's coordination services for TLC.  They   *)
(* share no row, so a behaviour exercises one of them, `service', and      *)
(* leaves the others at rest; the queue uses the leases and moves both.    *)
(***************************************************************************)
EXTENDS IngestionQueue, AlertEffectGuard, DistributedLock, DrainProtocol, WebhookDelivery,
        AdminRotation, ChangeApproval, OutboxPublish, TLC

CONSTANTS node1, node2, node3, meta1, meta2, job1

VARIABLE service

MCJobOf == meta1 :> job1 @@ meta2 :> None

rest == <<effectVars, lockVars, drainVars, webhookVars, rotationVars, changeVars, publishVars>>

MCInit ==
  /\ service \in {"lease", "queue", "effect", "lock", "drain", "webhook", "rotation", "change",
                 "publish"}
  /\ LeaseInit /\ QueueInit /\ EffectInit /\ LockInit /\ DrainInit /\ WebhookInit
  /\ RotationInit /\ ChangeInit /\ PublishInit

\* The leases by themselves; under the queue, one worker's single lease.
LeaseAlone == LeaseNext /\ lease'.meta # meta2 /\ UNCHANGED queueVars
QueueAlone == QueueNext /\ clock' <= 2 /\ turns' \in {<<>>, <<node1>>}

\* Up to the names of the administrators, the accounts a proposal may be about.
RotationAlone ==
  /\ RotationNext
  /\ proposal'.status # "absent" => proposal'.target = node1 /\ proposal'.approvals[1] = node2

At(name) == service = name
Untouched(names, vars) == service \notin names => UNCHANGED vars

MCNext ==
  /\ \/ At("lease")    /\ LeaseAlone
     \/ At("queue")    /\ QueueAlone
     \/ At("effect")   /\ EffectNext
     \/ At("lock")     /\ LockNext
     \/ At("drain")    /\ DrainNext
     \/ At("webhook")  /\ WebhookNext
     \/ At("rotation") /\ RotationAlone
     \/ At("change")   /\ ChangeNext
     \/ At("publish")  /\ PublishNext
  /\ Untouched({"lease", "queue"}, <<leaseVars, queueVars>>) /\ Untouched({"effect"}, effectVars)
  /\ Untouched({"lock"}, lockVars)         /\ Untouched({"drain"}, drainVars)
  /\ Untouched({"webhook"}, webhookVars)   /\ Untouched({"rotation"}, rotationVars)
  /\ Untouched({"change"}, changeVars)
  /\ Untouched({"publish"}, publishVars)   /\ UNCHANGED service

MCSpec ==
  MCInit /\ [][MCNext]_<<service, leaseVars, queueVars, rest>> /\ DrainFairness

\* Every service's rows and fields keep their types.
BackendTypeOK ==
  /\ QueueTypeOK /\ EffectTypeOK /\ LockTypeOK /\ DrainTypeOK /\ WebhookTypeOK
  /\ RotationTypeOK /\ ChangeTypeOK /\ PublishTypeOK
=============================================================================
