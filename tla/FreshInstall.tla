---------------------------- MODULE FreshInstall ----------------------------
(***************************************************************************)
(* fresh-install.sh with its checkpoint (tools/fresh_install_state.py),    *)
(* the PostgreSQL bootstrap it calls and install-services.sh, interrupted  *)
(* between any two commands and resumed.  Passwords are generations: 1 is  *)
(* that of a deployment which already used the database server, and every  *)
(* resume-secrets file that is made has the next one; 0 is no password.    *)
(***************************************************************************)
EXTENDS Naturals, Sequences, SequencesExt

CONSTANTS FreshBackends,   \* "sqlite", "postgres"
          FreshFaults      \* bound on interruptions and service failures
ASSUME FreshAssumption == FreshFaults \in Nat

VARIABLES
  freshBackend, inPlace,   \* the configured backend; SOURCE is TARGET
  unpacked,                \* the target holds the source tree
  checkpoint,              \* .fresh-install-state.json's phase or "none"
  pinned,                  \* db-config.json still has the checkpoint's hash
  made, secrets,           \* passwords made so far; those in the resume file
  objects,                 \* public objects: "none", "foreign", "ours", "adopted"
  ownerPw, runtimePw,      \* passwords of the owner and the runtime roles
  credFiles,               \* passwords in the component credential files
  services,                \* "absent", "installed", "up", "down"
  resuming, script,        \* --resume was given; the commands left
  mishaps

database == <<objects, ownerPw, runtimePw>>
freshVars == <<freshBackend, inPlace, unpacked, checkpoint, pinned, made,
               secrets, database, credFiles, services, resuming, script,
               mishaps>>

FreshPhases == <<"STAGED", "OWNER_READY", "DATABASE_READY", "SCHEMA_MIGRATED",
                 "SCHEMA_VERIFIED", "RUNTIME_CREDENTIALS_READY",
                 "SERVICES_INSTALLED", "OPERATIONAL">>
Nth(p) == CHOOSE i \in DOMAIN FreshPhases : FreshPhases[i] = p

Bootstrap == <<"secrets", "inspect", "owner", "OWNER_READY", "DATABASE_READY",
               "migrate", "SCHEMA_MIGRATED", "SCHEMA_VERIFIED", "roles",
               "config", "credentials", "RUNTIME_CREDENTIALS_READY">>
InstallDropsFirst ==
  <<"units", "SERVICES_INSTALLED", "start", "dropSecrets", "check", "OPERATIONAL">>
Install == <<"units", "SERVICES_INSTALLED", "start", "check", "OPERATIONAL",
             "dropSecrets">>
Remaining(first) ==
  first \o (IF freshBackend = "postgres" THEN Bootstrap ELSE <<>>) \o Install

FreshInit ==
  /\ freshBackend \in FreshBackends /\ inPlace \in BOOLEAN
  /\ unpacked = inPlace /\ checkpoint = "none" /\ pinned = TRUE
  /\ made = 1 /\ secrets = 0
  /\ ownerPw \in {0, 1} /\ runtimePw = ownerPw
  /\ objects = IF ownerPw = 1 THEN "foreign" ELSE "none"
  /\ credFiles = 0 /\ services = "absent"
  /\ resuming = FALSE /\ script = <<>> /\ mishaps = 0

\* refuses units, a checkpoint, credential files and a non-empty target
StartFresh ==
  /\ script = <<>> /\ services = "absent" /\ checkpoint = "none"
  /\ credFiles = 0 /\ unpacked = inPlace
  /\ resuming' = FALSE
  /\ script' = Remaining((IF inPlace THEN <<>> ELSE <<"unpack">>) \o <<"STAGED">>)
  /\ UNCHANGED <<freshBackend, inPlace, unpacked, checkpoint, pinned, made,
                 secrets, database, credFiles, services, mishaps>>
\* validate_resume, and the comparison of the two db-config.json
MayResume == checkpoint \notin {"none", "OPERATIONAL"}
Resume ==
  /\ script = <<>> /\ MayResume
  /\ services # "up" /\ pinned
  /\ resuming' = TRUE /\ script' = Remaining(<<>>)
  /\ UNCHANGED <<freshBackend, inPlace, unpacked, checkpoint, pinned, made,
                 secrets, database, credFiles, services, mishaps>>

Cmd == Head(script)
MayUseServer == resuming \/ (objects = "none" /\ ownerPw = 0)
OwnerLogsIn == ownerPw = secrets
\* what a command checks before it changes anything
Accepted ==
  /\ Cmd = "secrets" => secrets # 0 \/ ~resuming
  /\ Cmd = "inspect" => MayUseServer
  /\ Cmd = "migrate" => OwnerLogsIn
  /\ Cmd = "RUNTIME_CREDENTIALS_READY" => credFiles = runtimePw
  /\ Cmd = "check" => services = "up"

NewSecrets == IF Cmd = "secrets" /\ secrets = 0 THEN made + 1
              ELSE IF Cmd = "dropSecrets" THEN 0 ELSE secrets
\* the owner's password is never rotated, the runtime roles' are set again
Database ==
  /\ ownerPw' = IF Cmd = "owner" /\ ownerPw = 0 THEN secrets ELSE ownerPw
  /\ objects' = CASE Cmd = "migrate" /\ objects = "none" -> "ours"
                  [] Cmd = "migrate" /\ objects = "foreign" -> "adopted"
                  [] OTHER -> objects
  /\ runtimePw' = IF Cmd = "roles" THEN secrets ELSE runtimePw
\* _phase and fresh_phase never take a checkpoint back
Advance == IF /\ Cmd \in ToSet(FreshPhases)
              /\ checkpoint = "none" \/ Nth(checkpoint) < Nth(Cmd)
           THEN Cmd ELSE checkpoint

Execute ==
  /\ script # <<>> /\ Accepted
  /\ unpacked' = (unpacked \/ Cmd = "unpack")
  /\ checkpoint' = Advance
  /\ pinned' = (pinned /\ Cmd # "config")
  /\ secrets' = NewSecrets
  /\ made' = IF Cmd = "secrets" /\ secrets = 0 THEN made + 1 ELSE made
  /\ Database
  /\ credFiles' = IF Cmd = "credentials" THEN secrets ELSE credFiles
  /\ services' = CASE Cmd = "units" /\ services = "absent" -> "installed"
                   [] Cmd = "start" -> "up"
                   [] OTHER -> services
  /\ script' = Tail(script)
  /\ UNCHANGED <<freshBackend, inPlace, resuming, mishaps>>
StopScript ==
  /\ script' = <<>>
  /\ UNCHANGED <<freshBackend, inPlace, unpacked, checkpoint, pinned, made,
                 secrets, database, credFiles, resuming>>
Reject == script # <<>> /\ ~Accepted /\ StopScript /\ UNCHANGED <<services, mishaps>>
Mishap == mishaps < FreshFaults /\ mishaps' = mishaps + 1
\* a failing command or a kill; mark_interrupted only changes the status
Interrupt == script # <<>> /\ Mishap /\ StopScript /\ UNCHANGED services
\* a service fails, or systemd starts an enabled one again
Flip == /\ services \in {"up", "down"} /\ Mishap
        /\ services' = IF services = "up" THEN "down" ELSE "up"
        /\ UNCHANGED <<freshBackend, inPlace, unpacked, checkpoint, pinned,
                       made, secrets, database, credFiles, resuming, script>>

FreshNext == StartFresh \/ Resume \/ Execute \/ Reject \/ Interrupt \/ Flip
FreshSpec == FreshInit /\ [][FreshNext]_freshVars
FreshFair == WF_freshVars(Execute) /\ WF_freshVars(Reject) /\ WF_freshVars(Resume)

FreshTypeOK ==
  /\ freshBackend \in FreshBackends /\ inPlace \in BOOLEAN
  /\ unpacked \in BOOLEAN /\ pinned \in BOOLEAN /\ resuming \in BOOLEAN
  /\ checkpoint \in ToSet(FreshPhases) \cup {"none"}
  /\ {made, secrets, ownerPw, runtimePw, credFiles} \subseteq 0..2
  /\ objects \in {"none", "foreign", "ours", "adopted"}
  /\ services \in {"absent", "installed", "up", "down"}
  /\ mishaps \in 0..FreshFaults

(* A database another deployment uses is neither migrated nor are its       *)
(* runtime passwords changed, also not by a --resume after the refusal.     *)
ForeignUntouched == objects # "adopted" /\ (objects = "foreign" => runtimePw = 1)

(* However often the installation is interrupted and resumed, services only *)
(* run with the passwords their roles have, on a schema it has migrated.    *)
ServicesCanLogIn ==
  freshBackend = "postgres" /\ services \in {"up", "down"} =>
    credFiles = runtimePw /\ credFiles # 0 /\ objects = "ours"

(* Passwords the database has already got can still be given to a resume.   *)
SecretsOutlive ==
  objects = "ours" /\ checkpoint # "OPERATIONAL" => secrets = ownerPw

(* Wherever the installation is cut off, passwords, roles and schema fit    *)
(* together, and what is not its own is left alone.                         *)
InstallSafe == ForeignUntouched /\ ServicesCanLogIn /\ SecretsOutlive

(* An interrupted SQLite installation is resumed to its end.                *)
SqliteResumes ==
  []<>(freshBackend = "sqlite" /\ checkpoint # "none"
         => checkpoint = "OPERATIONAL" \/ services = "up")
(* An installation that was interrupted after a database step is resumed    *)
(* past it.                                                                 *)
MigratedAdvances == []<>(checkpoint # "SCHEMA_MIGRATED")
=============================================================================
