---------------------------- MODULE IngestTokens ----------------------------
(***************************************************************************)
(* An ingest token is made in a repository, is given a parser, and is told *)
(* to those who send by a secret that the resource names and owns.  Humio  *)
(* makes the tokens, which are numbered here.  One worker handles all.     *)
(***************************************************************************)
EXTENDS Integers

CONSTANTS
  CRs,                  \* the resources: each describes the token of its name
  Repos,
  RepoGoes,             \* may a repository be deleted?
  Specs,                \* what a resource may ask for
  MaxTokens,            \* bound on tokens made
  MaxEdits, MaxFaults

Parsers == 0..1         \* 0: none
NoSecret == "no secret"
SecretNames == {s.secret : s \in Specs} \ {NoSecret}
None == [token |-> 0]

IngestAssumption ==
  /\ MaxTokens \in Nat /\ MaxEdits \in Nat /\ MaxFaults \in Nat /\ RepoGoes \in BOOLEAN
  /\ \A s \in Specs : s.repo \in Repos /\ s.parser \in Parsers

VARIABLES
  cr, spec,      \* the resources
  repos,         \* repositories that are there
  tokens,        \* the token of a repository and a resource's name, with its parser
  made,          \* how many were made
  secrets,       \* what the secrets tell, and whose they are
  proc,          \* the worker
  edits, faults

vars == <<cr, spec, repos, tokens, made, secrets, proc, edits, faults>>

Idle == [pc |-> "idle"]
(* Every variable has its type. *)
TypeOK ==
  /\ cr \in [CRs -> {"there", "deleted", "gone"}] /\ spec \in [CRs -> Specs]
  /\ repos \subseteq Repos
  /\ tokens \in [Repos \X CRs -> [token : 1..made, parser : Parsers] \cup {None}]
  /\ made \in 0..MaxTokens
  /\ secrets \in [SecretNames -> [token : 0..made, owner : CRs] \cup {None}]
  /\ \/ proc = Idle
     \/ proc \in [pc : {"create", "parser", "token", "secret", "delete"}, cr : CRs, spec : Specs, token : 0..made]
  /\ edits \in 0..MaxEdits /\ faults \in 0..MaxFaults

Init ==
  /\ cr = [c \in CRs |-> "there"] /\ spec \in [CRs -> Specs]
  /\ repos = Repos
  /\ tokens = [p \in Repos \X CRs |-> None] /\ made = 0
  /\ secrets = [s \in SecretNames |-> None]
  /\ proc = Idle /\ edits = 0 /\ faults = 0

(***************************************************************************)
(* The worker                                                              *)
(***************************************************************************)
Alone == UNCHANGED <<spec, repos, edits, faults>>
Goto(pc, c) == [pc |-> pc, cr |-> c, spec |-> spec[c], token |-> 0]
TokenAt(c, s) == tokens[s.repo, c]
Place == <<proc.spec.repo, proc.cr>>

\* ensureTokenSecretExists has nothing to do for a resource that names no secret.
AfterUpdate(c) == IF spec[c].secret = NoSecret THEN Idle ELSE Goto("token", c)

\* The list of a repository that is not there is an error.
Reconcile(c) ==
  /\ proc = Idle /\ cr[c] = "there" /\ spec[c].repo \in repos
  /\ proc' = IF TokenAt(c, spec[c]) = None THEN Goto("create", c)
             ELSE IF TokenAt(c, spec[c]).parser # spec[c].parser THEN Goto("parser", c)
             ELSE AfterUpdate(c)
  /\ UNCHANGED <<cr, tokens, made, secrets>> /\ Alone

AddIngestToken ==
  /\ proc.pc = "create" /\ made < MaxTokens
  /\ IF proc.spec.repo \in repos /\ tokens[Place] = None
     THEN /\ made' = made + 1
          /\ tokens' = [tokens EXCEPT ![Place] = [token |-> made + 1, parser |-> proc.spec.parser]]
     ELSE UNCHANGED <<made, tokens>>
  /\ proc' = Idle
  /\ UNCHANGED <<cr, secrets>> /\ Alone

\* Mutant: the token is made anew with the parser.
UpdateIngestToken_Anew ==
  /\ proc.pc = "parser" /\ made < MaxTokens
  /\ IF tokens[Place] = None THEN proc' = Idle /\ UNCHANGED <<tokens, made>>
     ELSE /\ made' = made + 1
          /\ tokens' = [tokens EXCEPT ![Place] = [token |-> made + 1, parser |-> proc.spec.parser]]
          /\ proc' = IF proc.spec.secret = NoSecret THEN Idle ELSE [proc EXCEPT !.pc = "token"]
  /\ UNCHANGED <<cr, secrets>> /\ Alone

UpdateIngestToken ==
  /\ proc.pc = "parser"
  /\ IF tokens[Place] = None THEN proc' = Idle /\ UNCHANGED tokens
     ELSE /\ tokens' = [tokens EXCEPT ![Place].parser = proc.spec.parser]
          /\ proc' = IF proc.spec.secret = NoSecret THEN Idle ELSE [proc EXCEPT !.pc = "token"]
  /\ UNCHANGED <<cr, made, secrets>> /\ Alone

\* The token is read again for the secret.
GetIngestToken ==
  /\ proc.pc = "token"
  /\ proc' = IF tokens[Place] = None THEN Idle
             ELSE [proc EXCEPT !.pc = "secret", !.token = tokens[Place].token]
  /\ UNCHANGED <<cr, tokens, made, secrets>> /\ Alone

\* Mutant: the secret is told the next token.
Desired_Next(c, t) == [token |-> t + 1, owner |-> c]

Desired(c, t) == [token |-> t, owner |-> c]

SecretDiffers(s, t) == s = None \/ s.token # t

\* A secret that tells something else is replaced, whosever it is.
EnsureSecret ==
  /\ proc.pc = "secret"
  /\ LET s == proc.spec.secret
     IN secrets' = IF SecretDiffers(secrets[s], proc.token)
                   THEN [secrets EXCEPT ![s] = Desired(proc.cr, proc.token)]
                   ELSE secrets
  /\ proc' = Idle
  /\ UNCHANGED <<cr, tokens, made>> /\ Alone

\* The finalizer goes when the token is not in its repository; without the repository nothing can
\* be asked.
ReconcileDeleted(c) ==
  /\ proc = Idle /\ cr[c] = "deleted" /\ spec[c].repo \in repos
  /\ IF TokenAt(c, spec[c]) = None
     THEN cr' = [cr EXCEPT ![c] = "gone"] /\ UNCHANGED proc
     ELSE proc' = Goto("delete", c) /\ UNCHANGED cr
  /\ UNCHANGED <<tokens, made, secrets>> /\ Alone

DeleteIngestToken ==
  /\ proc.pc = "delete"
  /\ tokens' = [tokens EXCEPT ![Place] = None]
  /\ proc' = Idle
  /\ UNCHANGED <<cr, made, secrets>> /\ Alone

Work == AddIngestToken \/ UpdateIngestToken \/ GetIngestToken \/ EnsureSecret \/ DeleteIngestToken

(***************************************************************************)
(* Failures, and others                                                    *)
(***************************************************************************)
\* A secret goes with the resource that owns it.
CollectSecret(s) ==
  /\ secrets[s] # None /\ cr[secrets[s].owner] = "gone"
  /\ secrets' = [secrets EXCEPT ![s] = None]
  /\ UNCHANGED <<cr, spec, repos, tokens, made, proc, edits, faults>>

\* A call fails, or the operator is restarted.
Fault ==
  /\ proc # Idle
  /\ faults < MaxFaults /\ faults' = faults + 1
  /\ proc' = Idle
  /\ UNCHANGED <<cr, spec, repos, tokens, made, secrets, edits>>

Edit == edits < MaxEdits /\ edits' = edits + 1 /\ UNCHANGED <<made, proc, faults>>

EditSpec(c) ==
  /\ cr[c] = "there" /\ Edit
  /\ \E s \in Specs \ {spec[c]} : spec' = [spec EXCEPT ![c] = s]
  /\ UNCHANGED <<cr, repos, tokens, secrets>>

DeleteResource(c) ==
  /\ cr[c] = "there" /\ Edit
  /\ cr' = [cr EXCEPT ![c] = "deleted"]
  /\ UNCHANGED <<spec, repos, tokens, secrets>>

\* Somebody deletes a token in Humio,
RevokeToken(p) ==
  /\ tokens[p] # None /\ Edit
  /\ tokens' = [tokens EXCEPT ![p] = None]
  /\ UNCHANGED <<cr, spec, repos, secrets>>

\* or a secret,
DeleteSecret(s) ==
  /\ secrets[s] # None /\ Edit
  /\ secrets' = [secrets EXCEPT ![s] = None]
  /\ UNCHANGED <<cr, spec, repos, tokens>>

\* or a repository with all its tokens.
DeleteRepo(r) ==
  /\ RepoGoes /\ r \in repos /\ Edit
  /\ repos' = repos \ {r}
  /\ tokens' = [p \in Repos \X CRs |-> IF p[1] = r THEN None ELSE tokens[p]]
  /\ UNCHANGED <<cr, spec, secrets>>

Others ==
  \/ Fault
  \/ \E c \in CRs : EditSpec(c) \/ DeleteResource(c)
  \/ \E p \in Repos \X CRs : RevokeToken(p)
  \/ \E s \in SecretNames : CollectSecret(s) \/ DeleteSecret(s)
  \/ \E r \in Repos : DeleteRepo(r)

Next == (\E c \in CRs : Reconcile(c) \/ ReconcileDeleted(c)) \/ Work \/ Others

\* The queue gives every resource its turn again and again.
Fairness ==
  /\ WF_vars(Work)
  /\ \A c \in CRs : SF_vars(Reconcile(c)) /\ SF_vars(ReconcileDeleted(c))
  /\ \A s \in SecretNames : WF_vars(CollectSecret(s))

Spec == Init /\ [][Next]_vars /\ Fairness

(***************************************************************************)
(* Properties                                                              *)
(***************************************************************************)
(* Those who send with a token may go on: the operator takes no token away and replaces none, but
   that of a deleted resource, whatever else of it changes. *)
TokensKept ==
  edits' = edits =>
    \A p \in Repos \X CRs :
      tokens[p] # None => \/ tokens'[p] # None /\ tokens'[p].token = tokens[p].token
                          \/ cr[p[2]] = "deleted"

\* Is all as a resource asks for, as long as its repository is there?
AsAsked(c) ==
  LET t == TokenAt(c, spec[c])
  IN /\ t # None /\ t.parser = spec[c].parser
     /\ spec[c].secret # NoSecret => secrets[spec[c].secret] = Desired(c, t.token)

(* In the end every resource has its token, with its parser, and its secret tells that token: after
   a token was revoked, a secret deleted or the resource edited at any moment of an update. *)
Settled == \A c \in CRs : cr[c] = "there" /\ spec[c].repo \in repos => AsAsked(c)

(* A resource that is deleted goes in the end, and its secret with it. *)
Gone ==
  \A c \in CRs : /\ cr[c] # "deleted"
                 /\ \A s \in SecretNames : secrets[s] # None => cr[secrets[s].owner] # "gone"
=============================================================================
