---------------------------- MODULE HumioClients ----------------------------
(***************************************************************************)
(* How the controllers reach Humio.  For each reconcile a configuration is *)
(* put together from several objects, read one after the other: the        *)
(* cluster (twice, when the operator manages it), the secret with the      *)
(* token, the secret with the authority.  A client with it is then taken   *)
(* from a table that all controllers share, whose entries go by namespace  *)
(* and name of the resource, whatever its kind and its cluster, and keep a *)
(* transport with its connections.  The controller of external clusters    *)
(* makes one call and shows whether it worked.                             *)
(***************************************************************************)
EXTENDS Integers

CONSTANTS
  Resources,      \* resources, each of a kind with a controller of its own
  NameOf,         \* their names
  ClusterOf,      \* their clusters
  Clusters, Ext,  \* clusters, one of which is external
  Watcher,        \* the resource that stands for the external cluster
  Slash,          \* does the URL of the external cluster end with a slash?
  SecretGoes,     \* may the secret with its token be deleted?
  MaxEdits, MaxFaults

ClustersAssumption ==
  /\ Ext \in Clusters /\ Watcher \in Resources
  /\ ClusterOf \in [Resources -> Clusters] /\ ClusterOf[Watcher] = Ext
  /\ Slash \in BOOLEAN /\ MaxEdits \in Nat

VARIABLES
  tls, authority,   \* of each cluster: is TLS on, and whose certificates it has
  token, secret,    \* the token it accepts, and the one in the secret (0: no secret)
  slots,            \* the table of clients, by name
  proc, worked,     \* the reconcile of each resource, and whether its last call worked
  state,            \* the state shown of the external cluster
  edits, faults

vars == <<tls, authority, token, secret, slots, proc, worked, state, edits, faults>>

Numbers == 1..(MaxEdits + 1)
Idle == [pc |-> "idle"]
NoClient == [config |-> 0]
Names == {NameOf[r] : r \in Resources}

Configs == [cluster : Clusters, https : BOOLEAN, slash : BOOLEAN, token : Numbers, ca : {0} \cup Numbers, insecure : BOOLEAN]
Transports == [id : {0, 1}, ca : {0} \cup Numbers, insecure : BOOLEAN]
HumioClient == [config : Configs, transport : Transports]

TypeOK ==
  /\ tls \in [Clusters -> BOOLEAN] /\ authority \in [Clusters -> Numbers]
  /\ token \in [Clusters -> Numbers] /\ secret \in [Clusters -> {0} \cup Numbers]
  /\ slots \in [Names -> HumioClient \cup {NoClient}]
  /\ \A r \in Resources : proc[r].pc = "call" => proc[r].config \in Configs /\ proc[r].client \in HumioClient
  /\ worked \in [Resources -> BOOLEAN] /\ state \in {"", "Unknown", "Ready"}

Init ==
  /\ tls = [c \in Clusters |-> TRUE] /\ authority = [c \in Clusters |-> 1]
  /\ token = [c \in Clusters |-> 1] /\ secret = token
  /\ slots = [n \in Names |-> NoClient]
  /\ proc = [r \in Resources |-> Idle] /\ worked = [r \in Resources |-> FALSE]
  /\ state = "" /\ edits = 0 /\ faults = 0

(***************************************************************************)
(* The configuration                                                       *)
(***************************************************************************)
Outside == UNCHANGED <<tls, authority, token, secret, edits, faults>>
Step(r, p) == proc' = [proc EXCEPT ![r] = p]
With(r, pc, config) == Step(r, [proc[r] EXCEPT !.pc = pc, !.config = config])

\* The external cluster shows a state from its first reconcile on.
StartReconcile(r) ==
  /\ proc[r] = Idle
  /\ LET c == ClusterOf[r]
     IN Step(r, [pc |-> IF c = Ext THEN "token" ELSE "url", tls |-> tls[c], client |-> NoClient,
                 config |-> [cluster |-> c, https |-> tls[c], slash |-> IF c = Ext THEN Slash ELSE TRUE,
                             token |-> 0, ca |-> 0, insecure |-> FALSE]])
  /\ state' = IF r = Watcher /\ state = "" THEN "Unknown" ELSE state
  /\ UNCHANGED <<slots, worked>> /\ Outside

\* The cluster is read again for its URL.
ReadUrl(r) ==
  /\ proc[r].pc = "url"
  /\ With(r, "token", [proc[r].config EXCEPT !.https = tls[ClusterOf[r]]])
  /\ UNCHANGED <<slots, worked, state>> /\ Outside

\* Without the secret the reconcile ends, and whatever state was shown stays.
ReadToken(r) ==
  /\ proc[r].pc = "token"
  /\ LET s == secret[ClusterOf[r]]
     IN \/ s = 0 /\ Step(r, Idle) /\ worked' = [worked EXCEPT ![r] = FALSE]
        \/ s # 0 /\ With(r, "ca", [proc[r].config EXCEPT !.token = s]) /\ UNCHANGED worked
  /\ UNCHANGED <<slots, state>> /\ Outside

\* With TLS as it was first read, the authority is read, and otherwise nothing is verified.
ReadCA(r) ==
  /\ proc[r].pc = "ca"
  /\ With(r, "client", [proc[r].config EXCEPT !.ca = IF proc[r].tls THEN authority[ClusterOf[r]] ELSE 0,
                                              !.insecure = ~proc[r].tls])
  /\ UNCHANGED <<slots, worked, state>> /\ Outside

(***************************************************************************)
(* The client                                                              *)
(***************************************************************************)
\* A client's own configuration has the slash that its URL may have lacked.
Slashed(config) == [config EXCEPT !.slash = TRUE]

\* Mutant: what a client verifies is not compared.
Same_Address(c, d) == c.cluster = d.cluster /\ c.https = d.https /\ c.slash = d.slash /\ c.token = d.token

\* Do the configuration c of a client and d ask for the same transport?
Same(c, d) == c = d

\* Under a lock: the transport is kept for the same configuration, the client is always new.
GetHumioHttpClient(r) ==
  /\ proc[r].pc = "client"
  /\ LET n == NameOf[r]
         config == proc[r].config
         fresh == [id |-> IF slots[n] = NoClient THEN 0 ELSE 1 - slots[n].transport.id,
                   ca |-> config.ca, insecure |-> config.insecure]
         kept == slots[n] # NoClient /\ Same(slots[n].config, config)
         client == [config |-> Slashed(config), transport |-> IF kept THEN slots[n].transport ELSE fresh]
     IN /\ slots' = [slots EXCEPT ![n] = client]
        /\ Step(r, [proc[r] EXCEPT !.pc = "call", !.client = client])
  /\ UNCHANGED <<worked, state>> /\ Outside

\* Humio answers when it is reached as it is to be, with its token, and its certificate is accepted.
Answered(client) ==
  LET c == client.config
  IN /\ c.https = tls[c.cluster] /\ c.token = token[c.cluster]
     /\ tls[c.cluster] => client.transport.insecure \/ client.transport.ca = authority[c.cluster]

Call(r) ==
  /\ proc[r].pc = "call"
  /\ LET ok == Answered(proc[r].client)
     IN /\ worked' = [worked EXCEPT ![r] = ok]
        /\ Step(r, IF r = Watcher THEN [pc |-> "show", shown |-> IF ok THEN "Ready" ELSE "Unknown"] ELSE Idle)
  /\ UNCHANGED <<slots, state>> /\ Outside

\* What the call told of the external cluster is written.
ShowState ==
  /\ proc[Watcher].pc = "show"
  /\ state' = proc[Watcher].shown
  /\ Step(Watcher, Idle)
  /\ UNCHANGED <<slots, worked>> /\ Outside

Work(r) ==
  \/ StartReconcile(r) \/ ReadUrl(r) \/ ReadToken(r) \/ ReadCA(r) \/ GetHumioHttpClient(r) \/ Call(r)
  \/ r = Watcher /\ ShowState

(***************************************************************************)
(* Failures and others                                                     *)
(***************************************************************************)
\* A read or a write fails.
Fault(r) ==
  /\ proc[r] # Idle
  /\ faults < MaxFaults /\ faults' = faults + 1
  /\ Step(r, Idle)
  /\ UNCHANGED <<tls, authority, token, secret, slots, worked, state, edits>>

\* The operator starts again with an empty table.
Restart ==
  /\ faults < MaxFaults /\ faults' = faults + 1
  /\ proc' = [r \in Resources |-> Idle] /\ slots' = [n \in Names |-> NoClient]
  /\ UNCHANGED <<tls, authority, token, secret, worked, state, edits>>

Edit ==
  /\ edits < MaxEdits /\ edits' = edits + 1
  /\ UNCHANGED <<slots, proc, worked, state, faults>>

ToggleTLS(c) == Edit /\ c # Ext /\ tls' = [tls EXCEPT ![c] = ~@] /\ UNCHANGED <<authority, token, secret>>
RenewAuthority(c) == Edit /\ authority' = [authority EXCEPT ![c] = @ + 1] /\ UNCHANGED <<tls, token, secret>>
\* The operator puts a new token of a cluster it manages into the secret; others do it elsewhere.
RenewToken(c) ==
  /\ Edit /\ token' = [token EXCEPT ![c] = @ + 1]
  /\ secret' = IF c = Ext THEN secret ELSE [secret EXCEPT ![c] = token'[c]]
  /\ UNCHANGED <<tls, authority>>
WriteSecret == Edit /\ secret' = [secret EXCEPT ![Ext] = token[Ext]] /\ UNCHANGED <<tls, authority, token>>
DeleteSecret == Edit /\ SecretGoes /\ secret' = [secret EXCEPT ![Ext] = 0] /\ UNCHANGED <<tls, authority, token>>

Others ==
  \/ \E r \in Resources : Fault(r)
  \/ \E c \in Clusters : ToggleTLS(c) \/ RenewAuthority(c) \/ RenewToken(c)
  \/ Restart \/ WriteSecret \/ DeleteSecret

Next == (\E r \in Resources : Work(r)) \/ Others

\* The queue of each controller goes on.
Spec == Init /\ [][Next]_vars /\ \A r \in Resources : WF_vars(Work(r))

(***************************************************************************)
(* Properties                                                              *)
(***************************************************************************)
(* A reconcile calls with the client it put together: with the address and token it read, over a
   transport that verifies as it is to, although resources of the same name share an entry of the
   table, for different clusters, and others take it between the lock and the call. *)
OwnClient ==
  \A r \in Resources : proc[r].pc = "call" =>
    LET client == proc[r].client
    IN /\ client.config = Slashed(proc[r].config)
       /\ client.transport.ca = client.config.ca /\ client.transport.insecure = client.config.insecure

(* In the end every reconcile is answered by its cluster, if the secret of an external one has the
   token: whatever was read while it changed, and whatever transport an entry had. *)
Reached ==
  \A r \in Resources : worked[r] <=> secret[ClusterOf[r]] = token[ClusterOf[r]]

(* In the end the state shown of the external cluster tells whether the operator can call it. *)
StateFollows == state = "Ready" <=> secret[Ext] = token[Ext]
=============================================================================
