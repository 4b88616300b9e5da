# TLA+ models of the Instana agent operator

The operator keeps an Instana agent installation in line with an `InstanaAgent`
(or `InstanaAgentRemote`) custom resource. This directory holds TLA+ models of
its controller logic, TLC configurations that check them on small instances, and
TLAPS proofs of the central properties for instances of any size.

## The system and its parts

| Part | Source | State |
| --- | --- | --- |
| InstanaAgent controller: queue, finalizers, deletion, apply | `controllers/{instanaagent_controller,agent,cleanup,finalizer,reconcile_result}.go` | modelled |
| Lifecycle manager: the record of dependents and its retry loop | `pkg/k8s/operator/lifecycle/dependent_lifecycle_manager.go` | modelled |
| Operator utils: dry run, record, apply, clean up | `pkg/k8s/operator/operator_utils/operator_utils.go` | modelled |
| Client wrapper: forced server-side apply, deletion with a deadline | `pkg/k8s/client/client.go` | modelled as used |
| Event filter, recovery from panics | `controllers/event_filter.go`, `pkg/recovery` | modelled |
| Removal of a 2.x Helm installation | `controllers/reconciliation/helm` | modelled |
| InstanaAgentRemote controller, its lifecycle manager and operator utils | `controllers/remote*.go`, `.../remote_*.go` | modelled |
| Status managers of both kinds of CR | `pkg/k8s/operator/status` | modelled |
| ETCD monitoring: discovery of targets, copies of the OpenShift certificates | `controllers/apply.go`, `controllers/etcd_*.go` | modelled |
| Builders of DaemonSets, Deployments, Secrets, ConfigMaps, volumes and variables | `pkg/k8s/object/builders` | what objects have to agree on |
| Persistence of the host id | `controllers/util.go` | modelled |
| Removal of the old operator, leader election | `main.go` | modelled |
| API types | `api/v1` | as features of a CR |
| RBAC and Service literals, process set-up, library packages | builders, `main.go`, `pkg` | not modelled |

A reconcile is triggered by an event that passes the filter. One worker reads
the CR from the informer cache. Under deletion it uninstalls a Helm release
left by version 2.x, deletes the dependents and removes its finalizer; otherwise
it makes sure of its finalizer and calls `ApplyAll`: a dry run of every object,
an entry in the ConfigMap `<name>-dependents` under `<version>_<generation>`,
the objects themselves, and then the deletion of everything an older entry lists
and the current generation does not. The ConfigMap is the only memory the
operator has: what it does not list is never deleted. Whatever the outcome, the
reconcile ends by computing and patching the status; an error there counts as an
error of the reconcile. An `InstanaAgentRemote` goes through the same steps in a
controller of its own. Before any of this, `main` removes the operator it
replaces and waits for the leader lock.

## Modules

* `KubeCluster` is the part of Kubernetes the controller meets: the CR with its
  generation and finalizers, the dependents with their deletion in two steps, the
  ConfigMap, the informers' copies, the queue. It is external to the repository
  and modelled from its use. A resourceVersion is only ever compared with the
  server's, so a copy carries one bit that says whether it is current.
* `DependentLifecycleManager` has one action per API call of
  `UpdateDependentLifecycleInfo` and `CleanupDependents`: the cached read
  (`UpdateGet`, `CleanupGet`), the apply (`UpdateApply`, `CleanupApply`), the
  deletes of one key (`DeleteDeprecated`) and the wait for them
  (`VerifyDeletion`). `RetryConflict` is `retry`. A server-side apply with an old
  resourceVersion conflicts; without one it is unconditional and drops the keys
  it does not mention, because the operator is the field owner of all of them.
* `InstanaAgentReconciler` adds the controller: `StartReconcile` takes the
  request and the cached CR, `handleDeletion` and `addOrUpdateFinalizers` choose
  the way, `updateAgent` is the merge patch of the finalizers, `DryRun`,
  `ApplyObject` and `ApplyDone` are `ApplyAll`; `Restart` is a crash or an
  upgrade. The properties are at the end of this module.
* `DependentRegistry` is the abstract specification: dependents are recorded
  before they exist, exist only under the guard of the finalizer, and are
  forgotten only when they are gone.
* `ReconcilerInvariants` holds the inductive invariants and the refinement
  mapping; `MCReconciler` the small instances.
* `ReconcilerLagProofs` and `ReconcilerSafetyProofs` hold the proofs.
* `OpenShiftEtcd` is `setupOpenShiftETCDMonitoring`: two reads
  (`StartReconcile`, `FetchCert`), validation, two copies (`CopyCA`, `CopyCert`)
  or two deletions (`DeleteCA`, `DeleteCert`), and the apply of a Deployment that
  mounts the copies if the context says so. Errors of the copies and deletions
  are logged only; an error of the apply requeues. A certificate is a revision
  and whether it is valid. `OpenShiftEtcdProofs` holds the proofs.
* `EtcdTargets` is the same on other clusters: one action per step of
  `DiscoverETCDEndpoints`, the comparison with the cached Deployment
  (`compareAndUpdateETCDTargets`) and the ETCD part of the Deployment builder.
  A target is an address and the Service that gives it scheme and port. A
  failing step of the discovery is a nil context (`DiscoveryFails`). The apply
  refuses a list with two entries of one name (`Accepted`), as a server-side
  apply does. `MCEtcdTargets` lists the sets of Services, `EtcdTargetsProofs` holds
  the proofs. Additional backends (their Deployments are built from the same
  context) and restarts (nothing is kept between reconciles) are left out here.
* `RemoteReconciler` is the controller of `InstanaAgentRemote` on the cluster of
  `KubeCluster`: the same steps with its own lifecycle manager, which does not
  retry. A conflict (`Conflict`) ends the reconcile with an error, and so does a
  finalizer patch on a CR that is gone. All its dependents are owned by the CR
  (`GarbageCollect`). It implements the same `DependentRegistry`. `MCRemote` is
  the instance, `RemoteReconcilerProofs` holds the proofs.
* `AgentStatus` is `UpdateAgentStatus` of both managers (`kind` says which) and what
  it depends on: the body of the reconcile is reduced to how it ends
  (`AddFinalizer`, `HandleDeletion`, `ReconcileApply`: success, error or panic, at
  which point), then `ComputeStatus` reads workloads from the informers and
  `PatchStatus` sends the difference to the copy of the CR the reconcile started
  with (`Merged`). `Finish` decides on the requeue. `KubeStatus` is Kubernetes
  reporting on a workload, `wasModifiedByOther` the filter on such reports: a report
  in the same second as the operator's write does not pass. Reasons, messages and
  user events are left out. `MCAgentStatus` holds the instances, `AgentStatusProofs`
  the proofs.
* `AgentObjects` and `RemoteObjects` are the builders as pure functions of the CR, a
  set of features after `Default()`: which objects it asks for and in which order
  (`buildObjects`, a concatenation of the builders that build something), the entries
  of Secrets and ConfigMaps (`keysData`, `data`), the volumes and variables of each
  pod (`getSensorVolumes`, `EnvBuild`, ...) and what a pod cannot start without
  (`DaemonSetReferences`, `SensorReferences`, `remoteReferences`). An object is its
  role and the suffix of its name, `"none"` for the plain name. The path and the Secret
  of a CA are features of their own: variables follow the one, volumes the other. The variables of a
  container are a list of the groups the code appends to each other; a name that is
  in two groups comes twice.
* `Workloads` runs these builders while the CR changes: a dry run of all objects,
  the record, one apply at a time (`ApplyObject`), cleanup of what earlier values
  asked for. `live` remembers which value of the CR an object was applied from, so
  an object left over from another value is told from a current one. `Accepts` is
  the server's refusal of lists in which a name comes twice and of empty mount paths. The lifecycle record
  is one set here; its keys are the business of `DependentLifecycleManager`.
  `shouldSetPersistHostUniqueIDEnvVar` is the decision on the host id, which is
  read back from cached DaemonSets. `MCWorkloads` lists the initial CRs,
  `WorkloadsProofs` holds the proofs.
* `OperatorStart` is `cleanupOldOperator`, one action per API call, and the wait for
  the leader lock, next to the old operator's pods and leases. Others may write the
  same common names at any moment (`OtherWrites`), with or without the marks the
  operator looks for; a `Delete` removes what has the name by then, and the history
  variable `changed` remembers which names were written since the start read them.
  `OperatorStartProofs` holds the proofs. It takes
  `--leader-elect` to be given, as the operator's Deployment does.

In the controller modules objects are model values: their content does not matter
there, only which of them a version and a generation ask for (the constant `Deps`)
and whether they carry an owner reference (`Owned`; cluster-scoped objects carry
none). Every API call can fail for reasons outside the model (`Fault`, or `Event`
where one bound counts all disturbances), which also stands for the errors of the
reads between the finalizer and the dry run.

## Assumptions on the informer

What the operator reads back comes from a cache. Four constants say what is
assumed of it:

* `BackoffSuffices`: within the backoff of `retry` (100 ms, doubled four times)
  the informer catches up, so the last attempt is not stale.
* `CreationSeen`: a ConfigMap created by one reconcile is in the cache when the
  next one starts.
* `StatusSeen`: the status written by one reconcile is in the cache when the next
  one starts. Otherwise a field equal to the stale copy is not sent.
* `OwnWritesSeen`: the DaemonSets applied by one reconcile are in the cache when the
  next one starts. Otherwise a DaemonSet just created looks like a new deployment
  again, or an old one like an upgrade, and the variable can flip.

None is guaranteed by Kubernetes. With the first two, the record is complete
(`Reconciler`, and the proofs of `ReconcilerSafetyProofs`, which state
them as hypotheses); `ReconcilerLag` and `ReconcilerLagProofs` do without them, and
`RetryExhausted` drops `BackoffSuffices`. `RegistrySpec` of the remote controller
rests on `CreationSeen`, in the run and in its proof; its
`RecordedBeforeApply` is proved for any cache, and so is `StatusAdvances`, which its
run checks under `StatusSeen` only.

## Runs

| Run | Shows |
| --- | --- |
| `reconciler` | every dependent is recorded (`Tracked`) and guarded (`FinalizerGuardsDependents`), recorded before applied, never dropped by an update; the controller implements `DependentRegistry`; the dependents converge to the latest accepted generation (`Settles`), a deleted CR goes away (`DeletionCompletes`) |
| `reconciler_lag` | without any assumption on the informer: shared dependents are never deleted, creations find the finalizer on the server, cleanup forgets only what is gone, a 2.x release keeps its finalizer |
| `retry_exhausted` | violation: after five conflicts `retry` returns nil, and objects are applied that are not recorded |
| `openshift_etcd` | the k8sensor mounts the copies only as a complete pair, never keeps mounting one that is gone, and follows the sources while reconciles come |
| `etcd_targets` | while reconciles come, targets of the CR prevail, gone ones leave, discoverable ones return |
| `targets_dropped` | violation: a reconcile that finds the targets unchanged removes them |
| `remote_reconciler` | recorded before applied without a retry; `DependentRegistry` is implemented; the dependents converge (`Settles`); a deleted CR goes away and the controller comes to rest (`DeletionEnds`) |
| `agent_status` | the status tells how the last reconcile ended, and one that panicked is repeated (`OutcomeReported`); it never goes back (`StatusAdvances`), the conditions follow the workloads (`ConditionsFollow`), faults, panics and restarts are overcome (`Recovers`) |
| `status_messages` | violation (`SomeMessageHolds`): after a panic the status says "most recent reconcile of agent CR completed without issue", because the status is written before the panic is recovered, and "All desired k8sensors are available" is said of the last backend alone; both are false at once |
| `sensor_disabled` | violation: a disabled k8sensor is "intentionally skipped, not an actual error", but its sentinel is returned and requeued for ever |
| `workloads` | every pod finds the objects, entries, files, variables and, with the exceptions below, directories it refers to (`ReferencesResolve`, `CredentialsDelivered`), cleanup leaves them (`CleanupKeepsReferenced`), a CR refused in part changes nothing (`RejectedAsAWhole`), a DaemonSet keeps its decision on the host id (`HostIdStable`) |
| `operator_start` | the new operator gets the lock (`GetsTheLock`) and leads only without its predecessor (`LeadsAlone`); objects of others stay unless they take a name between a check and its delete (`OthersKept`) |

Consequences that were read from the code and have no run of their own:

* An uninstall leaves behind what `retry_exhausted` left unrecorded, and a cache
  without the ConfigMap leads to an apply that erases recorded entries.
* A failed copy of the OpenShift Secret, or a rotation of the sources, is taken up
  only when something else queues the CR, while
  `docs/adr-openshift-etcd-resource-copying.md` counts on a periodic reconcile.
* `FindETCDService` looks at the label `component=etcd` only on `etcd` and
  `etcd-metrics`, while `docs/control-plane-and-etcd-metrics.md` speaks of any
  Service.
* A discovered `etcd-ca` Secret adds a second `ETCD_CA_FILE`, and without
  `useSecretMounts` the variables of `agent.env` come twice in the k8sensor
  Deployment: the dry run is refused in every reconcile.
* With the OpenShift copies in use and an ETCD CA named in the CR, `ETCD_CA_FILE`
  points into a directory that is not mounted. Likewise for a CA with a `mountPath`
  and no `secretName`: `ETCD_CA_FILE` and `CONTROL_PLANE_CA_FILE` follow the path, the
  volume follows the Secret. `ReferencesResolve` excepts these directories by name
  (`LeftUnmounted`). A `secretName` for the REST client without a `mountPath`, which
  has no default, asks for a volume mounted at no path: every dry run is refused.
* With `keysSecret` and `useSecretMounts`, proxy and mirror credentials of the CR do
  not reach the DaemonSet, and a proxy makes the k8sensor ask the user's Secret for
  an entry `httpsProxy`; `CredentialsDelivered` excludes a `keysSecret`.
* A remote agent with `serviceAccount.create: false` still uses the account
  `instana-agent-remote`, which the operator deletes if it made it before, and which
  all remote agents of a namespace share (`LeftToUser`).
* A failed list or delete in `cleanupOldOperator` is logged and not tried again until
  the next start; `GetsTheLock` and `LeadsAlone` exclude it. Two operators in different namespaces
  hold different locks.
* `cleanupOldOperator` takes an object for the old operator's by its name and one mark
  (a label, a rule for `instana.io`, a subject `instana-agent-operator` of any
  namespace) and deletes it by name, without a UID precondition. Objects of others
  that carry the mark are deleted, and so is one that takes the name between the
  check and the delete; `OthersKept` says that nothing else is.

Bounds. Three dependents are enough for one without owner, one that comes and
goes with the generation and one that comes with the operator version. `MaxGen`
of 3 or 4 gives one or two edits and the deletion; one fault and one restart can
fall between any two calls, and two versions make the restart an upgrade.
`Attempts` is 2 in the passing runs (a first and a last attempt; 3 attempts with
two faults pass as well and take a minute) and 5, as in the code, in
`RetryExhausted`. In `OpenShiftEtcd` two revisions of each source let every pair
of reads and copies meet a rotation, with one fault and one restart anywhere; in
`EtcdTargets` one address suffices because targets are compared as whole lists,
and two changes allow an appearance and a disappearance. `Remote` has two
dependents, of which one comes and goes with the generation and one comes with the
version, two edits or an edit and the deletion, one fault and one restart.
`AgentStatus` has two generations of which the second is rejected, the DaemonSets of
two zones, two k8sensor backends (the status knows the last one only), a version that parses
and one that does not, and two events anywhere: a failing call, a panic, a restart
or a report on a workload. `StatusMessages` needs one generation and one DaemonSet, `SensorDisabled` no event.
`Workloads` starts from three CRs of each kind, applied before or not, and changes
any one of the 31 features at any moment, with one fault, restart or deletion by
hand; the three CRs differ in secrets as files or variables, zones, backends, CAs and
OpenShift. `OperatorStart` has two namespaces, any of the four kinds of object under
each name at the start, and three events: failing calls, crashes or writes of others.
Deadlock is checked except in `AgentStatus`, `StatusMessages`, `SensorDisabled` and
`OperatorStart`, where the system may
stop: the CR is gone and nothing is queued, or the operator leads.

Fairness. `Reconcile` is weakly fair: the worker takes what is queued and goes on.
The informers are fair because a watch delivers eventually, and objects under
deletion disappear. In `OperatorStart` the pods of a deleted Deployment stop and the
leases of dead pods expire; an old operator owes nothing. Edits, reports on
workloads, faults, restarts and other events owe nothing.
There is no periodic reconcile (no `RequeueAfter`, no `SyncPeriod`), so the ETCD
properties that need one say so: `[]<>queued => ...`. `TargetsReturn` can only ask
for "again and again", because every second reconcile drops the targets, and
excludes an `etcd-ca` Secret, with which the apply is refused.
`DeletionCompletes` asks for an existing ConfigMap: a CR deleted after its
finalizer was set and before its first record makes `CleanupDependents` apply a
ConfigMap without a name, which is refused in every reconcile. `DeletionEnds` asks
the same of the remote controller. `ConditionsFollow` speaks of workloads that were
reported on in a later second than the operator wrote them, because earlier reports
do not pass the filter; of the k8sensors it says that the condition becomes True when
all are available and is not True for good while that of the last backend is not. `Recovers` leaves
out rest for a disabled k8sensor, see `sensor_disabled`.

## Proofs

All theorems hold for any sets of objects and versions, any bounds and any
number of attempts, under the named assumptions on the constants.

* `TypeCorrect`: `TypeOK` is invariant; it is inductive as it stands.
* `LagInvariant`: `LagInv` adds what the program counter says about the copy of
  the CR in use (`PhaseInv`), how the three copies of the CR are ordered
  (`FinalizerInv`: deletion is permanent, `finalizerV3` is on the server whenever
  a copy not under deletion shows it) and how a current local ConfigMap relates to
  the server's (`CopyInv`). From it follow `HelmReleaseCorrect`,
  `CreationCorrect`, `CleanupCorrect` and `CommonDependentsCorrect`.
* `SafetyInvariant`, under `BackoffSuffices` and `CreationSeen`: `Tracked` is not
  inductive. `DataInv` says that a key lists no more than its generation asks for
  (so a dirty entry may be overwritten), `WriteAheadInv` that the current entry
  is on the server from the first apply on, `CleanupInv` that visited keys list
  nothing deprecated and that the finalizer is removed only when nothing is left.
  From it follow `TrackedCorrect`, `FinalizerCorrect`, `WriteAheadCorrect` and
  `UpdateCorrect`.
* `RegistryRefinement`: the initial states map to initial states of
  `DependentRegistry`, every step to a step or a stutter.
* `EtcdInvariant`: `EtcdInv` adds to the types that only valid sources are being
  copied, and that the context announces the pair only while both copies are in
  place. From it follow `DanglingMountCorrect` and `MountCorrect`.
* `RemoteReconcilerProofs`: `TypeCorrect`, and `RecordedBeforeApplyTheorem` without
  any assumption on the informer. `RecordedBeforeApply` is not inductive: the
  ConfigMap could be collected while objects are applied. `CopyInv` says that a CR
  whose objects are being applied still has its finalizer on the server, so it is
  there; `WriteAhead` that the value to be written lists the current dependents.
  `RegistryRefinement` shows, under `CreationSeen`, that every step is one of
  `DependentRegistry` or a stutter. It rests on `SafetyInv`, which adds `RecordInv`:
  a current copy of the ConfigMap is the server's (`RecordCopies`), keys list no more
  than their generation asks for (`DataInv`), the entry of the generation that is
  applied stays (`KeptInv`), and keys that were visited without an error list nothing
  deprecated that exists, nor is the finalizer removed before the dependents
  (`CleanupInv`). `DependentsRecordedAndGuarded` states what that means for the
  cluster: every dependent is recorded, and there is a CR with `finalizerV3`.
* `AgentStatusProofs`: `TypeCorrect`; `StatusAdvancesTheorem` for any delay of the
  informers, from `Copies` (the generations of the server, the cache and the copy in
  use are ordered, and no status is ahead of the copy in use);
  `OutcomeReportedTheorem` under `StatusSeen`, from `Carried` (the status cannot
  change between the read and the patch, so what the difference leaves out is right
  on the server; a reconcile that patches has seen a CR). After a panic the status is
  wrong; the theorem says that the CR is then queued.
* `WorkloadsProofs`: `HostIdStableTheorem` under `OwnWritesSeen`, from `HostIdInv`
  (the cache differs from the server only by deletions, so the decision fits every
  DaemonSet that still exists); `RejectedAsAWholeTheorem`, from `DryRunInv` (every
  object stems from a CR whose dry run succeeded). `WorkloadsTypeCorrect`,
  `ReferencesResolveTheorem`, `CleanupKeepsReferencedTheorem` and
  `CredentialsDeliveredTheorem` hold for every set of features as CR and any sequence
  of edits, where the run edits three CRs of each kind once. Their proof has
  two halves. The first is about the builders only: lemmas say which objects a CR has
  (`AgentElements`, `RemoteElements`), what their pods mount and which entries those
  objects hold, and that this is closed: what a pod of a CR refers to is among
  `Kept(s)`, the objects of that same CR other than DaemonSets (`PodsClosed`), and
  what it has to be given is in their entries (`AgentFiles`, `SensorFiles`,
  `RemoteFiles`, `SensorNames`). The second is the inductive invariant `WorkInv`: as
  long as no apply has failed, an object of the CR that is worked on is still to be
  applied or stems from that CR, and all do when the cleanup starts. Neither
  `ReferencesResolve` nor `CredentialsDelivered` is inductive, since both say nothing
  before the last apply.
* `EtcdTargetsProofs`: `TypeCorrect`, which says among others that the server never
  holds a Deployment with two `ETCD_CA_FILE` or two volumes `etcd-ca`, and
  `TargetsOfOneSource`: `ETCD_TARGETS` never mixes targets of the CR with discovered
  ones or those of two Services, from `DiscoveryInv` (what was found belongs to the
  Service that was found, also when the Services change during the discovery).
* `OperatorStartProofs`: `TypeCorrect`; `OthersKeptTheorem`, from `Found` (what is
  about to be deleted carries the marks, or others have written its name since it was
  read); `LeadsAloneTheorem`, the safety that `GetsTheLock` builds on:
  controllers run only with the lock held and the old Deployments gone, unless one
  could not be listed or deleted at this start, from `CleanupInv` (every old
  Deployment is on the list while the loop runs, and nothing creates one again).

Every safety invariant, action property and refinement of the passing runs is proved.
Model-checked only are the liveness properties (`Settles` of both controllers,
`DeletionCompletes`, `DeletionEnds`, `Synchronises`, `SpecTargetsPrevail`,
`GoneTargetsLeave`, `TargetsReturn`, `ConditionsFollow`, `Recovers`, `GetsTheLock`):
fairness and ENABLED are outside the prover. `OneSource`,
`DependentsRecordedAndGuarded` and the types of the remote controller are proved and
have no run of their own.

## Not modelled

* `cleanupNodeLabels`, which both controllers call in `handleDeletion`: it runs an
  external `kubectl`, its errors are only logged and nothing reads the result.
* The namespaces ConfigMap's content, RBAC rules, the Service and headless Service,
  probes, resources, affinity, tolerations, host paths: values that no other object
  and no later step depends on.
* `Default()` and the conversion of CRs: pure functions without interaction; the
  models take CRs after them. `remoteagent_types.go` repeats the agent's types.
* The content and the reading of a user's own Secrets: they are not watched and their
  read errors are only logged. Properties that would depend on them exempt them.
* `getCacheOptions` and the rest of `main`: configuration of controller-runtime.
* An `InstanaAgent` and an `InstanaAgentRemote` of one name in one namespace, which
  share the ConfigMap `<name>-dependents`, and several remote agents in a namespace:
  the code keeps no rule that would separate them.
* `pkg/optional`, `pkg/result`, `pkg/multierror` and the collections: containers for
  values and errors, whose effect is part of the actions that use them.
