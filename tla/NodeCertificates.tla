-------------------------- MODULE NodeCertificates --------------------------
(***************************************************************************)
(* TLS between the nodes of a HumioCluster.  The operator makes a key pair *)
(* of its own authority, an issuer that uses it, a certificate of the      *)
(* cluster and one for each pod, which has the certificate's name; the     *)
(* certificate manager answers each certificate with a secret.  When a     *)
(* certificate has no pod any more it is removed, and all goes when TLS is *)
(* turned off.                                                             *)
(*                                                                         *)
(* One node pool.  Pods and secrets are seen as they are, certificates     *)
(* through a cache.  Which mismatched pods go first is another module's    *)
(* matter (NodePoolRollout): here any of them may.                         *)
(***************************************************************************)
EXTENDS Integers, FiniteSets

CONSTANTS
  Nodes,           \* how many pods the pool has
  Names,           \* what certificates, and the pods that have them, may be named
  FirstPool,       \* is it the pool that is named as the cluster is?
  CacheLags,       \* may a reconcile start before it sees what became of the certificates?
  PodsWait,        \* may pods stay that do not match (OnDelete, minReadySeconds)?
  CertsGo, CAGoes, \* may others delete a certificate, the authority's key pair?
  MaxEdits, MaxFaults, MaxHurts

NodesAssumption == Nodes \in Nat \ {0} /\ Nodes < Cardinality(Names) /\ MaxEdits \in Nat

Cluster == "cluster"                    \* the certificate of the whole cluster
AllNames == Names \cup {Cluster}
None == 0
NoSecret == [ca |-> None, hosts |-> None]

VARIABLES
  tls, hosts,    \* the spec: is TLS on, and a number for the hostnames
  ca, made,      \* the key pair of the authority, by number, and how many were made
  issuer,
  certs, seen,   \* the hostnames of each certificate: as it is, and in the cache
  secrets,       \* by which authority, and for which hostnames, each was issued
  pods, plain,   \* the hostnames each pod was told of its certificate; how many have none
  proc,          \* the reconcile
  edits, faults, hurts

vars == <<tls, hosts, ca, made, issuer, certs, seen, secrets, pods, plain, proc, edits, faults, hurts>>

Idle == [pc |-> "idle"]
Hosts == 1..(MaxEdits + 1)

TypeOK ==
  /\ tls \in BOOLEAN /\ hosts \in Hosts
  /\ made \in Nat /\ ca \in 0..made
  /\ issuer \in BOOLEAN
  /\ certs \in [AllNames -> Hosts \cup {None}]
  /\ seen \in [AllNames -> Hosts \cup {None}]
  /\ secrets \in [AllNames -> [ca : 1..made, hosts : Hosts] \cup {NoSecret}]
  /\ pods \in [Names -> Hosts \cup {None}] /\ plain \in Nat
  /\ Cardinality({n \in Names : pods[n] # None}) + plain <= Nodes

Init ==
  /\ tls \in BOOLEAN /\ hosts = 1
  /\ ca = None /\ made = 0 /\ issuer = FALSE
  /\ certs = [n \in AllNames |-> None] /\ seen = certs
  /\ secrets = [n \in AllNames |-> NoSecret]
  /\ pods = [n \in Names |-> None] /\ plain = 0
  /\ proc = Idle /\ edits = 0 /\ faults = 0 /\ hurts = 0

(***************************************************************************)
(* A reconcile                                                             *)
(***************************************************************************)
Alone == UNCHANGED <<tls, hosts, edits, faults, hurts>>
Goto(pc) == proc' = [proc EXCEPT !.pc = pc]

Pods == {n \in Names : pods[n] # None}
PodCount == Cardinality(Pods) + plain
NodeCerts(c) == {n \in Names : c[n] # None}
Fresh == {n \in Names : pods[n] = None /\ certs[n] = None /\ seen[n] = None /\ secrets[n] = NoSecret}

StartReconcile ==
  /\ proc = Idle /\ (CacheLags \/ seen = certs)
  /\ proc' = [pc |-> "ca", tls |-> tls, hosts |-> hosts, todo |-> 0, expect |-> 0]
  /\ UNCHANGED <<ca, made, issuer, certs, seen, secrets, pods, plain>> /\ Alone

EnsureValidCASecret ==
  /\ proc.pc = "ca"
  /\ IF proc.tls /\ ca = None THEN made' = made + 1 /\ ca' = made' ELSE UNCHANGED <<ca, made>>
  /\ Goto("mismatched")
  /\ UNCHANGED <<issuer, certs, seen, secrets, pods, plain>> /\ Alone

Mismatched == {n \in Pods : ~proc.tls \/ pods[n] # proc.hosts}
MismatchedPlain == IF proc.tls THEN plain ELSE 0

\* The pods of S and k of those without TLS are deleted, and the reconcile goes on to replace them.
\* None goes while the last replaced are young, or when others are to delete them.
DeleteMismatchedPods ==
  /\ proc.pc = "mismatched"
  /\ \E S \in SUBSET Mismatched, k \in 0..MismatchedPlain :
       /\ S # {} \/ k # 0 \/ PodsWait \/ (Mismatched = {} /\ MismatchedPlain = 0)
       /\ pods' = [n \in Names |-> IF n \in S THEN None ELSE pods[n]]
       /\ plain' = plain - k
  /\ Goto("issuer")
  /\ UNCHANGED <<ca, made, issuer, certs, seen, secrets>> /\ Alone

\* Issuer and cluster certificate are only ever made, never changed.
EnsureIssuerAndBundle ==
  /\ proc.pc = "issuer"
  /\ issuer' = (issuer \/ proc.tls)
  /\ IF ~proc.tls THEN Goto("pods") /\ UNCHANGED certs
     ELSE IF seen[Cluster] # None THEN Goto("certs") /\ UNCHANGED certs
     ELSE IF certs[Cluster] # None THEN proc' = Idle /\ UNCHANGED certs
     ELSE certs' = [certs EXCEPT ![Cluster] = proc.hosts] /\ Goto("certs")
  /\ UNCHANGED <<ca, made, seen, secrets, pods, plain>> /\ Alone

\* Mutant: a certificate stays as it was made.
OldCerts_None == {}

\* Certificates seen with other hostnames than the spec's.
OldCerts == {n \in NodeCerts(seen) : seen[n] # proc.hosts}

\* A certificate that has changed since it was seen is a conflict, one that is gone is passed over.
UpdateNodeCertificates ==
  /\ proc.pc = "certs"
  /\ certs' = [n \in AllNames |-> IF n \in OldCerts /\ certs[n] = seen[n] THEN proc.hosts ELSE certs[n]]
  /\ LET count == Cardinality(NodeCerts(seen))
     IN proc' = IF \E n \in OldCerts : certs[n] \notin {seen[n], None} THEN Idle
                ELSE IF count >= Nodes THEN [proc EXCEPT !.pc = "pods"]
                ELSE [proc EXCEPT !.pc = "cert", !.todo = Nodes - count, !.expect = count + 1]
  /\ UNCHANGED <<ca, made, issuer, seen, secrets, pods, plain>> /\ Alone

\* Without a name left, which is a bound of the model, the reconcile ends.
CreateNodeCertificate ==
  /\ proc.pc = "cert"
  /\ \/ /\ \E n \in Fresh : certs' = [certs EXCEPT ![n] = proc.hosts]
        /\ proc' = [proc EXCEPT !.pc = "wait", !.todo = proc.todo - 1]
     \/ Fresh = {} /\ proc' = Idle /\ UNCHANGED certs
  /\ UNCHANGED <<ca, made, issuer, seen, secrets, pods, plain>> /\ Alone

\* Each wait is for the same count, one more than were seen at first. It is given up when some of
\* those were gone already.
WaitForNewNodeCertificate ==
  /\ proc.pc = "wait"
  /\ \/ /\ Cardinality(NodeCerts(seen)) >= proc.expect
        /\ IF proc.todo = 0 THEN Goto("pods") ELSE Goto("cert")
     \/ seen = certs /\ Cardinality(NodeCerts(seen)) < proc.expect /\ proc' = Idle
  /\ UNCHANGED <<ca, made, issuer, certs, seen, secrets, pods, plain>> /\ Alone

\* A new pod takes the name of a certificate that no pod has, and is told its hostnames as seen; it
\* has a name of its own when there is no TLS.
EnsurePodsExist ==
  /\ proc.pc = "pods"
  /\ \/ PodCount >= Nodes /\ Goto("ready") /\ UNCHANGED <<pods, plain>>
     \/ /\ PodCount < Nodes /\ proc.tls /\ NodeCerts(seen) \subseteq Pods
        /\ proc' = Idle /\ UNCHANGED <<pods, plain>>
     \/ /\ PodCount < Nodes
        /\ \/ ~proc.tls /\ plain' = plain + 1 /\ UNCHANGED pods
           \/ /\ proc.tls /\ UNCHANGED plain
              /\ \E n \in NodeCerts(seen) \ Pods : pods' = [pods EXCEPT ![n] = seen[n]]
        /\ proc' = IF PodCount + 1 = Nodes THEN Idle ELSE proc
  /\ UNCHANGED <<ca, made, issuer, certs, seen, secrets>> /\ Alone

\* A pod starts when the secret of its certificate is there.
PodsReady ==
  /\ proc.pc = "ready"
  /\ IF \A n \in Pods : secrets[n] # NoSecret THEN Goto("clean certs") ELSE proc' = Idle
  /\ UNCHANGED <<ca, made, issuer, certs, seen, secrets, pods, plain>> /\ Alone

\* Mutant: a certificate is the cluster's, whatever its name.
Unused_Cluster(n) == ~proc.tls

\* Names of other pools than the first are taken for the cluster's.
Unused(n) == IF n = Cluster \/ ~FirstPool THEN ~proc.tls ELSE pods[n] = None

\* One certificate is removed,
CleanupCertificates ==
  /\ proc.pc = "clean certs"
  /\ LET U == {n \in AllNames : seen[n] # None /\ Unused(n)}
     IN IF U = {} THEN Goto("clean secrets") /\ UNCHANGED certs
        ELSE \E n \in U : IF certs[n] = None THEN proc' = Idle /\ UNCHANGED certs
                          ELSE certs' = [certs EXCEPT ![n] = None] /\ Goto("clean secrets")
  /\ UNCHANGED <<ca, made, issuer, seen, secrets, pods, plain>> /\ Alone

\* the key pair with TLS off, and one secret,
CleanupSecrets ==
  /\ proc.pc = "clean secrets"
  /\ ca' = IF proc.tls THEN ca ELSE None
  /\ LET U == {n \in AllNames : secrets[n] # NoSecret /\ Unused(n)}
     IN IF U = {} THEN UNCHANGED secrets ELSE \E n \in U : secrets' = [secrets EXCEPT ![n] = NoSecret]
  /\ Goto("clean issuer")
  /\ UNCHANGED <<made, issuer, certs, seen, pods, plain>> /\ Alone

\* and the issuer with TLS off.
CleanupIssuer ==
  /\ proc.pc = "clean issuer"
  /\ issuer' = (issuer /\ proc.tls)
  /\ proc' = Idle
  /\ UNCHANGED <<ca, made, certs, seen, secrets, pods, plain>> /\ Alone

Work ==
  \/ EnsureValidCASecret \/ DeleteMismatchedPods \/ EnsureIssuerAndBundle
  \/ UpdateNodeCertificates \/ CreateNodeCertificate \/ WaitForNewNodeCertificate
  \/ EnsurePodsExist \/ PodsReady
  \/ CleanupCertificates \/ CleanupSecrets \/ CleanupIssuer

(***************************************************************************)
(* The certificate manager, the cache, failures and others                 *)
(***************************************************************************)
\* A certificate is answered once for its hostnames; another key pair is no reason to do it again.
Issue(n) ==
  /\ certs[n] # None /\ secrets[n].hosts # certs[n]
  /\ issuer /\ ca # None
  /\ secrets' = [secrets EXCEPT ![n] = [ca |-> ca, hosts |-> certs[n]]]
  /\ UNCHANGED <<tls, hosts, ca, made, issuer, certs, seen, pods, plain, proc, edits, faults, hurts>>

CatchUp ==
  /\ seen # certs /\ seen' = certs
  /\ UNCHANGED <<tls, hosts, ca, made, issuer, certs, secrets, pods, plain, proc, edits, faults, hurts>>

\* A call fails, a wait times out, or the operator is restarted.
Fault ==
  /\ proc # Idle
  /\ faults < MaxFaults /\ faults' = faults + 1
  /\ proc' = Idle
  /\ UNCHANGED <<tls, hosts, ca, made, issuer, certs, seen, secrets, pods, plain, edits, hurts>>

Edit ==
  /\ edits < MaxEdits /\ edits' = edits + 1
  /\ UNCHANGED <<ca, made, issuer, certs, seen, secrets, pods, plain, proc, faults, hurts>>
ToggleTLS == Edit /\ tls' = ~tls /\ UNCHANGED hosts
EditHostnames == Edit /\ hosts' = hosts + 1 /\ UNCHANGED tls

Hurt ==
  /\ hurts < MaxHurts /\ hurts' = hurts + 1
  /\ UNCHANGED <<tls, hosts, made, issuer, seen, secrets, plain, proc, edits, faults>>
LosePod(n) == Hurt /\ pods[n] # None /\ pods' = [pods EXCEPT ![n] = None] /\ UNCHANGED <<ca, certs>>
LoseCert(n) == Hurt /\ CertsGo /\ certs[n] # None /\ certs' = [certs EXCEPT ![n] = None] /\ UNCHANGED <<ca, pods>>
LoseCA == Hurt /\ CAGoes /\ ca # None /\ ca' = None /\ UNCHANGED <<certs, pods>>

Others ==
  \/ \E n \in AllNames : Issue(n) \/ LoseCert(n)
  \/ \E n \in Names : LosePod(n)
  \/ CatchUp \/ Fault \/ ToggleTLS \/ EditHostnames \/ LoseCA

Next == StartReconcile \/ Work \/ Others

\* The queue, the cache and the certificate manager go on.
Fairness ==
  /\ WF_vars(StartReconcile) /\ WF_vars(Work) /\ WF_vars(CatchUp)
  /\ \A n \in AllNames : WF_vars(Issue(n))

Spec == Init /\ [][Next]_vars /\ Fairness

(***************************************************************************)
(* Properties                                                              *)
(***************************************************************************)
(* The operator takes no secret, and no certificate, from a pod that serves with it: neither in a
   clean-up for want of a pod, nor when TLS is turned off and the pods go one after the other, or stay. *)
ServingKept ==
  hurts' = hurts => \A n \in Names :
    pods[n] # None /\ pods'[n] = pods[n] =>
      /\ secrets[n] # NoSecret => secrets'[n] # NoSecret
      /\ certs[n] # None => certs'[n] # None

\* Has a pod its certificate, and is there the secret for it?
AsAsked(n) == pods[n] = hosts /\ certs[n] = hosts /\ secrets[n].hosts = hosts

(* In the end all pods are there, with or without TLS as the spec says, and with it each has its
   certificate for the hostnames asked for: whenever TLS is toggled, hostnames are edited, pods are
   lost or a reconcile is cut short. *)
Settled ==
  /\ PodCount = Nodes
  /\ IF tls THEN plain = 0 /\ \A n \in Pods : AsAsked(n) ELSE Pods = {}

(* Nothing is left in the end that has no use: no certificate or secret without its pod, and none at
   all, no issuer and no key pair, once TLS is off. *)
Clean ==
  /\ \A n \in AllNames : certs[n] # None \/ secrets[n] # NoSecret => tls /\ n \in Pods \cup {Cluster}
  /\ ca # None \/ issuer => tls
=============================================================================
