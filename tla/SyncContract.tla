---------------------------- MODULE SyncContract ----------------------------
(***************************************************************************)
(* What bundle-sync promises to a pod that waits for it and to everybody   *)
(* who uses the IT Feature Service, with no places, reads and answers in   *)
(* sight: only a feature of FEATURES is ever touched, by a container that  *)
(* may, and is given the list that the bundles.yml this container has      *)
(* read wants for it; and a container succeeds only when it has seen, at   *)
(* one moment or another since it started, every feature that wants SKUs   *)
(* with exactly these.                                                     *)
(***************************************************************************)
EXTENDS SyncConfig

VARIABLES
  deployed,  \* the version of bundles.yml in the ConfigMap
  rules,     \* the Feature Service: registered feature -> SKU list
  phase,     \* "start", "running", "done" or "failed"
  loaded,    \* the version of bundles.yml a container has read
  seen       \* the features it has seen in sync since it started

vars == <<deployed, rules, phase, loaded, seen>>

Config(p) == Configs[loaded[p]]

\* A feature has the SKUs that a container wants for it.
IsSynced(f, p) == f \in DOMAIN rules /\ rules[f] = Wanted(Config(p), f)

Goto(p, step) == phase' = [phase EXCEPT ![p] = step]

Init ==
  /\ deployed = 1
  /\ rules \in Registered
  /\ phase = [p \in Pods |-> "start"]
  /\ loaded = [p \in Pods |-> 1]
  /\ seen = [p \in Pods |-> {}]

----------------------------------------------------------------------------
\* With RUN_BUNDLE_SYNC=false there is nothing to do.
Skip(p) ==
  /\ phase[p] = "start"
  /\ p \notin SyncPods
  /\ Goto(p, "done")
  /\ UNCHANGED <<deployed, rules, loaded, seen>>

Start(p) ==
  /\ phase[p] = "start"
  /\ p \in SyncPods
  /\ Goto(p, "running")
  /\ loaded' = [loaded EXCEPT ![p] = deployed]
  /\ UNCHANGED <<deployed, rules, seen>>

\* A feature is given the list it wants.
Update(p) ==
  /\ p \in Syncing
  /\ \E i \in Endpoints(Config(p)) :
       rules' = [f \in DOMAIN rules \cup {FeatureAt(i)} |->
                   IF f = FeatureAt(i) THEN Wanted(Config(p), f) ELSE rules[f]]

\* A container goes on, perhaps after an update, and may be through.  One that
\* posts remembers what it has seen in sync.
Work(p) ==
  /\ phase[p] = "running" /\ phase'[p] \in {"running", "done"}
  /\ \A q \in Pods \ {p} : phase'[q] = phase[q] /\ seen'[q] = seen[q]
  /\ UNCHANGED <<deployed, loaded>>
  /\ rules' = rules \/ Update(p)
  /\ \A f \in seen'[p] \ seen[p] : IsSynced(f, p)'
  /\ p \in Syncing /\ phase'[p] = "done" => seen'[p] = Wanting[loaded[p]]

\* A container fails before it has begun, or at work, perhaps after an update.
Fail(p) ==
  /\ phase[p] \in {"start", "running"}
  /\ Goto(p, "failed")
  /\ seen' = [seen EXCEPT ![p] = {}]
  /\ rules' = rules \/ (phase[p] = "running" /\ Update(p))
  /\ UNCHANGED <<deployed, loaded>>

\* Kubernetes starts the container of a pod that failed, or of a new pod.
Again(p) ==
  /\ phase[p] \in {"failed", "done"}
  /\ Goto(p, "start")
  /\ seen' = [seen EXCEPT ![p] = {}]
  /\ UNCHANGED <<deployed, rules, loaded>>

Deploy ==
  /\ deployed < Len(Configs)
  /\ deployed' = deployed + 1
  /\ UNCHANGED <<rules, phase, loaded, seen>>

Next ==
  \/ \E p \in Pods : Skip(p) \/ Start(p) \/ Work(p) \/ Fail(p) \/ Again(p)
  \/ Deploy

Spec == Init /\ [][Next]_vars
=============================================================================
