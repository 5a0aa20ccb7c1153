---------------------------- MODULE WebhookSetup ----------------------------
(***************************************************************************)
(* The webhook operator makes the certificate it serves with when it       *)
(* starts, and then tells the API server to trust it: in the               *)
(* ValidatingWebhookConfiguration and in the resource definition that is   *)
(* converted by it.  A container that restarts finds the files of the last *)
(* one, a new pod finds none.  Certificates are numbered as they are made. *)
(***************************************************************************)
EXTENDS Integers

CONSTANTS
  FaultKinds, MaxFaults,  \* which failures may happen, and a bound on how many
  MaxEdits                \* bound on writes of the resource definition by others

maxRetries == 3
MaxGenerated == MaxFaults + 1
Numbers == 0..MaxGenerated

WebhookAssumption == MaxFaults \in Nat /\ MaxEdits \in Nat

VARIABLES
  files,      \* the certificate and the key on disk: 0 if there is none, -1 for an empty file
  generated,  \* the number of the last certificate
  service,    \* is the service there?
  vwc, crd,   \* the certificates that they trust, 0 for none
  proc,       \* the process: where it is, what it read; fresh: its copy of crd is the current one
  faults, edits

vars == <<files, generated, service, vwc, crd, proc, faults, edits>>

Stages == {"check", "cert", "open", "key", "watch", "service", "vwc", "list", "crd", "up"}
Proc == [pc : Stages, ca : Numbers, attempt : 1..maxRetries, fresh : BOOLEAN]

(* Every variable has its type. *)
TypeOK ==
  /\ files \in [cert : Numbers, key : Numbers \cup {-1}]
  /\ generated \in Numbers /\ service \in BOOLEAN
  /\ vwc \in Numbers /\ crd \in Numbers /\ proc \in Proc
  /\ faults \in 0..MaxFaults /\ edits \in 0..MaxEdits

NoFiles == [cert |-> 0, key |-> 0]
Started == [pc |-> "check", ca |-> 0, attempt |-> 1, fresh |-> FALSE]

Init ==
  /\ files = NoFiles /\ generated = 0
  /\ service = FALSE /\ vwc = 0 /\ crd = 0
  /\ proc = Started
  /\ faults = 0 /\ edits = 0

At(stage) == proc.pc = stage
Goto(stage) == proc' = [proc EXCEPT !.pc = stage]
Quiet == UNCHANGED <<faults, edits>>

(***************************************************************************)
(* GenerateIfNotExists                                                     *)
(***************************************************************************)
\* certificatesValid: both files are there and the certificate is one; the key is not read.
CertificatesValid == files.cert > 0 /\ files.key # 0

CheckFiles ==
  /\ At("check")
  /\ Goto(IF CertificatesValid THEN "watch" ELSE "cert")
  /\ UNCHANGED <<files, generated, service, vwc, crd>> /\ Quiet

WriteCertificate ==
  /\ At("cert")
  /\ generated < MaxGenerated /\ generated' = generated + 1
  /\ files' = [files EXCEPT !.cert = generated + 1]
  /\ Goto("open")
  /\ UNCHANGED <<service, vwc, crd>> /\ Quiet

\* A file is opened, which empties it, and then written.
OpenKey ==
  /\ At("open")
  /\ files' = [files EXCEPT !.key = -1]
  /\ Goto("key")
  /\ UNCHANGED <<generated, service, vwc, crd>> /\ Quiet

WriteKey ==
  /\ At("key")
  /\ files' = [files EXCEPT !.key = generated]
  /\ Goto("watch")
  /\ UNCHANGED <<generated, service, vwc, crd>> /\ Quiet

\* The certificate watcher does not start with a key that is not the certificate's.
StartServer ==
  /\ At("watch")
  /\ proc' = IF files.key = files.cert THEN [proc EXCEPT !.pc = "service", !.ca = files.cert] ELSE Started
  /\ UNCHANGED <<files, generated, service, vwc, crd>> /\ Quiet

(***************************************************************************)
(* Start                                                                   *)
(***************************************************************************)
CreateOrUpdateService ==
  /\ At("service")
  /\ service' = TRUE
  /\ Goto("vwc")
  /\ UNCHANGED <<files, generated, vwc, crd>> /\ Quiet

CreateOrUpdateConfiguration ==
  /\ At("vwc")
  /\ vwc' = proc.ca
  /\ Goto("list")
  /\ UNCHANGED <<files, generated, service, crd>> /\ Quiet

\* A definition that has the certificate is left as it is.
ListCRDs ==
  /\ At("list")
  /\ proc' = [proc EXCEPT !.pc = IF crd = proc.ca THEN "up" ELSE "crd", !.fresh = TRUE]
  /\ UNCHANGED <<files, generated, service, vwc, crd>> /\ Quiet

\* updateCRDWithRetry: the definition is read again, from the cache, and tried again; after the
\* last attempt the error is logged.
Refused ==
  IF proc.attempt < maxRetries THEN [proc EXCEPT !.attempt = @ + 1, !.fresh = TRUE]
  ELSE [proc EXCEPT !.pc = "up"]

UpdateCRD ==
  /\ At("crd")
  /\ crd' = IF proc.fresh THEN proc.ca ELSE crd
  /\ proc' = IF proc.fresh THEN [proc EXCEPT !.pc = "up"] ELSE Refused
  /\ UNCHANGED <<files, generated, service, vwc>> /\ Quiet

Run ==
  \/ CheckFiles \/ WriteCertificate \/ OpenKey \/ WriteKey \/ StartServer
  \/ CreateOrUpdateService \/ CreateOrUpdateConfiguration \/ ListCRDs \/ UpdateCRD

(***************************************************************************)
(* Failures, and others                                                    *)
(***************************************************************************)
Fault(f) == f \in FaultKinds /\ faults < MaxFaults /\ faults' = faults + 1 /\ UNCHANGED edits

\* Calls for service and configuration are tried five times, and then the process ends.
CallFails ==
  /\ proc.pc \in {"service", "vwc", "list", "crd"}
  /\ Fault("call")
  /\ proc' = IF At("crd") THEN Refused ELSE Started
  /\ UNCHANGED <<files, generated, service, vwc, crd>>

\* The container is restarted: between two steps, or when the key is open.
Restart ==
  /\ \/ ~At("key") /\ Fault("restart")
     \/ At("key") /\ Fault("torn")
  /\ proc' = Started
  /\ UNCHANGED <<files, generated, service, vwc, crd>>

\* Another pod takes over, which has no files.
Replace ==
  /\ Fault("replace")
  /\ proc' = Started /\ files' = NoFiles
  /\ UNCHANGED <<generated, service, vwc, crd>>

\* The definition is applied again, without the conversion, before the operator has set it.
ApplyCRD ==
  /\ ~At("up")
  /\ edits < MaxEdits /\ edits' = edits + 1
  /\ crd' = 0
  /\ proc' = [proc EXCEPT !.fresh = FALSE]
  /\ UNCHANGED <<files, generated, service, vwc, faults>>

Next == Run \/ CallFails \/ Restart \/ Replace \/ ApplyCRD

\* Kubernetes restarts a container that ends.
Fairness == WF_vars(Run)

Spec == Init /\ [][Next]_vars /\ Fairness

(***************************************************************************)
(* Properties                                                              *)
(***************************************************************************)
(* In the end the webhook serves with the certificate that validation and conversion trust,
   whatever failed on the way. *)
Works == At("up") /\ files.key = files.cert /\ vwc = files.cert /\ crd = files.cert
=============================================================================
