-------------------------- MODULE PersistedUploads --------------------------
(***************************************************************************)
(* Persistent uploads (services/persistence.ts): a directory of a clone    *)
(* that an app writes uploads to is replaced by a link into the service's  *)
(* data volume, so that a deploy, which resets the clone to the head of    *)
(* its branch, does not take them away.  One service of type process or    *)
(* static and one such path; the deploy (services/deploy.ts) removes the   *)
(* link before git runs and makes it again after, and so does every start  *)
(* of the service (services/runtime.ts).                                   *)
(*                                                                         *)
(* Linking is synchronous: nothing else of the control plane runs in       *)
(* between.  But the app is a process of its own, which a stop may leave,  *)
(* and the control plane can be killed between any two calls.              *)
(*                                                                         *)
(* Simplifications.                                                        *)
(*  - The contents of a file are told apart by where they come from: the   *)
(*    repository, the last write of the app, an earlier one, a copy cut    *)
(*    short, or one of a file that the app wrote meanwhile.  The app       *)
(*    deletes no file.                                                     *)
(*  - The configuration of the path does not change.  Rollbacks, which do  *)
(*    not touch the link, are left out.                                    *)
(***************************************************************************)
EXTENDS Naturals, FiniteSets

CONSTANTS
    File,           \* file names below the path
    NoFile,
    MaxFaults       \* bound: calls that fail, apps that survive, kills

ASSUME FileAssumption == NoFile \notin File
ASSUME BoundsAssumption == MaxFaults \in Nat

VARIABLES
    auto,           \* the path is one of DEFAULT_UPLOAD_DIRS, or else configured
    head,           \* the files of the path in the commit that is checked out
    clone,          \* what is at the path in the clone
    files,          \* what is in it, if it is a directory
    volume,         \* the directory of the path in the data volume
    app,            \* the process of the service
    deploy,         \* the deploy in progress
    ensure,         \* ensurePersistedPaths in progress
    uploads,        \* for the properties: the files the app has written
    faults

vars == <<auto, head, clone, files, volume, app, deploy, ensure, uploads, faults>>

Content == {"none", "torn", "mixed", "committed", "old", "new"}

\* todo: the files the listing found and that are not seeded yet; now: the one
\* that is being copied.  For the properties, missed: the files it did not find
\* because a directory could not be read; late: files the app wrote meanwhile.
EnsureType ==
    [by : {"nobody", "deploy", "start"}, at : {"idle", "resolve", "seed", "copy", "link"},
     todo : SUBSET File, now : File \cup {NoFile}, missed : SUBSET File, late : SUBSET File]

Idle == [by |-> "nobody", at |-> "idle", todo |-> {}, now |-> NoFile, missed |-> {}, late |-> {}]
Empty == [f \in File |-> "none"]

TypeOK ==
    /\ auto \in BOOLEAN
    /\ head \subseteq File
    /\ clone \in {"absent", "dir", "link"}
    /\ files \in [File -> Content]
    /\ volume \in [File -> Content]
    /\ app \in {"down", "tracked", "leftover"}
    /\ deploy \in {"idle", "git", "link", "build"}
    /\ ensure \in EnsureType
    /\ uploads \subseteq File
    /\ faults \in 0..MaxFaults
    \* Files are in the clone if and only if a directory is, and the path is
    \* linked to the volume only after they have all gone.
    /\ clone = "dir" <=> files # Empty
    /\ ensure.at = "copy" <=> ensure.now # NoFile
    /\ ensure.by = "deploy" <=> deploy = "link"

------------------------------------------------------------------------------

NoFault == UNCHANGED faults
Fault == faults < MaxFaults /\ faults' = faults + 1

(* What the volume has of f after the app wrote f beside it: an earlier     *)
(* version, or a copy in progress that may have parts of both.              *)
Aged(f) ==
    CASE ensure.now = f -> [volume EXCEPT ![f] = "mixed"]
      [] ensure.now # f /\ volume[f] = "new" -> [volume EXCEPT ![f] = "old"]
      [] OTHER -> volume

(* The app writes f at the path, through the link if there is one. *)
AppWrites(f) ==
    /\ app # "down"
    /\ uploads' = uploads \cup {f}
    /\ IF clone = "link"
       THEN /\ volume' = [volume EXCEPT ![f] = "new"]
            /\ UNCHANGED <<clone, files>>
       ELSE /\ clone' = "dir"
            /\ files' = [files EXCEPT ![f] = "new"]
            /\ volume' = Aged(f)
    /\ ensure' = IF ensure.at \in {"seed", "copy"} THEN [ensure EXCEPT !.late = @ \cup {f}] ELSE ensure
    /\ UNCHANGED <<auto, head, app, deploy, faults>>

AppEnds ==
    /\ app # "down"
    /\ app' = "down"
    /\ UNCHANGED <<auto, head, clone, files, volume, deploy, ensure, uploads, faults>>

(* The control plane is killed; a process it started goes on. *)
Kill ==
    /\ Fault
    /\ app' = IF app = "tracked" THEN "leftover" ELSE app
    /\ deploy' = "idle"
    /\ ensure' = Idle
    /\ UNCHANGED <<auto, head, clone, files, volume, uploads>>

(* Boot adopts a process that is still there, as it is. *)
Adopt ==
    /\ app = "leftover" /\ deploy = "idle" /\ ensure = Idle
    /\ app' = "tracked"
    /\ UNCHANGED <<auto, head, clone, files, volume, deploy, ensure, uploads, faults>>

------------------------------------------------------------------------------
(* deployFromGit *)

(* unlinkPersistedSymlinks *)
Unlinked == IF clone = "link" THEN "absent" ELSE clone

(* The service is stopped when its row says that it runs, and the link is   *)
(* removed.                                                                 *)
DeployBegins ==
    /\ deploy = "idle" /\ ensure = Idle
    /\ \/ app' = "down" /\ NoFault
       \/ app # "down" /\ app' = "leftover" /\ Fault
    /\ clone' = Unlinked
    /\ deploy' = "git"
    /\ UNCHANGED <<auto, head, files, volume, ensure, uploads>>

(* Tracked files become those of the commit, others stay. *)
TreeBecomes(commit) ==
    /\ head' = commit
    /\ files' = [f \in File |-> CASE f \in commit -> "committed"
                                  [] f \in head \ commit -> "none"
                                  [] OTHER -> files[f]]
    /\ clone' = IF files' = Empty THEN "absent" ELSE "dir"

(* checkout -f, of what the clone has of the branch. *)
GitChecksOut(commit) ==
    /\ deploy = "git"
    /\ TreeBecomes(commit)
    /\ UNCHANGED <<auto, volume, app, deploy, ensure, uploads, faults>>

(* reset --hard, to the branch of the remote. *)
GitResets(commit) ==
    /\ deploy = "git"
    /\ TreeBecomes(commit)
    /\ deploy' = "link"
    /\ ensure' = [Idle EXCEPT !.by = "deploy", !.at = "resolve"]
    /\ UNCHANGED <<auto, volume, app, uploads, faults>>

(* The fetch, the checkout or the reset fails. *)
GitFails ==
    /\ deploy = "git"
    /\ Fault
    /\ deploy' = "idle"
    /\ UNCHANGED <<auto, head, clone, files, volume, app, ensure, uploads>>

(* The service is started after a deploy, or again after a build that failed,*)
(* or not: a start of its own.                                              *)
BuildEnds ==
    /\ deploy = "build"
    /\ deploy' = "idle"
    /\ UNCHANGED <<auto, head, clone, files, volume, app, ensure, uploads, faults>>

(* startProcessService: a service that is tracked is not started. *)
Start ==
    /\ app # "tracked" /\ deploy = "idle" /\ ensure = Idle
    /\ ensure' = [Idle EXCEPT !.by = "start", !.at = "resolve"]
    /\ UNCHANGED <<auto, head, clone, files, volume, app, deploy, uploads, faults>>

------------------------------------------------------------------------------
(* ensurePersistedPaths.  An error of a call is logged, and what comes after*)
(* it is not done; the deploy or the start goes on.  Only the error of a    *)
(* listing is swallowed.                                                    *)

EnsureEnds ==
    /\ ensure' = Idle
    /\ IF ensure.by = "deploy" THEN deploy' = "build" /\ UNCHANGED app
                               ELSE app' = "tracked" /\ UNCHANGED deploy

Continues(at) ==
    /\ ensure' = at
    /\ UNCHANGED <<app, deploy>>

(* resolvePersistedRelPaths: a conventional path must be there. *)
Resolved == ~auto \/ clone # "absent"

Resolve ==
    /\ ensure.at = "resolve"
    /\ \/ ~Resolved /\ NoFault /\ EnsureEnds /\ UNCHANGED clone
       \/ Fault /\ EnsureEnds /\ UNCHANGED clone
       \/ /\ Resolved /\ clone # "dir" /\ NoFault
          /\ clone' = Unlinked
          /\ Continues([ensure EXCEPT !.at = "link"])
    /\ UNCHANGED <<auto, head, files, volume, uploads>>

(* readdirSync of the path and of the directories below it: what is below   *)
(* one that cannot be read is passed over in silence.                       *)
There == {f \in File : files[f] # "none"}

Lists(missed) ==
    /\ ensure.at = "resolve" /\ clone = "dir"
    /\ missed \subseteq There
    /\ IF missed = {} THEN NoFault ELSE Fault
    /\ Continues([ensure EXCEPT !.at = "seed", !.todo = There \ missed, !.missed = missed])
    /\ UNCHANGED <<auto, head, clone, files, volume, uploads>>

SeedAll(f) == TRUE \* mutant: a seed overwrites a file of the volume
Absent(f) == volume[f] = "none"

(* seedCopyIfAbsent: a copy begins as a file that is not complete. *)
Seed(f) ==
    /\ ensure.at = "seed" /\ f \in ensure.todo
    /\ IF Absent(f)
       THEN /\ volume' = [volume EXCEPT ![f] = "torn"]
            /\ ensure' = [ensure EXCEPT !.at = "copy", !.now = f]
       ELSE /\ ensure' = [ensure EXCEPT !.todo = @ \ {f}]
            /\ UNCHANGED volume
    /\ UNCHANGED <<auto, head, clone, files, app, deploy, uploads, faults>>

(* copyFileSync takes an incomplete copy back when it fails.  A copy of a   *)
(* file that is written meanwhile has either version, or parts of both.     *)
Copied ==
    /\ ensure.at = "copy"
    /\ \/ /\ NoFault
          /\ \E copy \in IF volume[ensure.now] = "mixed"
                        THEN {"mixed", "old", "new"} ELSE {files[ensure.now]} :
                volume' = [volume EXCEPT ![ensure.now] = copy]
          /\ Continues([ensure EXCEPT !.at = "seed", !.todo = @ \ {ensure.now}, !.now = NoFile])
       \/ /\ Fault
          /\ volume' = [volume EXCEPT ![ensure.now] = "none"]
          /\ EnsureEnds
    /\ UNCHANGED <<auto, head, clone, files, uploads>>

RemainsOfHead == [f \in File |-> IF f \in head THEN files[f] ELSE "none"] \* mutant: rm fails silently
Remains == Empty

(* rmSync: the directory, with what has been added since it was listed. *)
Remove ==
    /\ ensure.at = "seed" /\ ensure.todo = {}
    /\ \/ /\ NoFault
          /\ files' = Remains
          /\ clone' = "absent"
          /\ Continues([ensure EXCEPT !.at = "link"])
       \/ Fault /\ EnsureEnds /\ UNCHANGED <<files, clone>>
    /\ UNCHANGED <<auto, head, volume, uploads>>

(* symlinkSync, which refuses when the path is there again. *)
Link ==
    /\ ensure.at = "link"
    /\ \/ NoFault /\ clone' = IF clone = "absent" THEN "link" ELSE clone
       \/ Fault /\ UNCHANGED clone
    /\ EnsureEnds
    /\ UNCHANGED <<auto, head, files, volume, uploads>>

------------------------------------------------------------------------------

(* The first deploy has cloned the repository. *)
Init ==
    /\ auto \in BOOLEAN
    /\ head \in SUBSET File
    /\ files = [f \in File |-> IF f \in head THEN "committed" ELSE "none"]
    /\ clone = IF head = {} THEN "absent" ELSE "dir"
    /\ volume = Empty
    /\ app = "down"
    /\ deploy = "link"
    /\ ensure = [Idle EXCEPT !.by = "deploy", !.at = "resolve"]
    /\ uploads = {}
    /\ faults = 0

Next ==
    \/ \E f \in File : AppWrites(f)
    \/ AppEnds
    \/ Kill
    \/ Adopt
    \/ DeployBegins
    \/ \E commit \in SUBSET File : GitChecksOut(commit) \/ GitResets(commit)
    \/ GitFails
    \/ BuildEnds
    \/ Start
    \/ Resolve
    \/ \E missed \in SUBSET File : Lists(missed)
    \/ \E f \in File : Seed(f)
    \/ Copied
    \/ Remove
    \/ Link

Spec == Init /\ [][Next]_vars

------------------------------------------------------------------------------
(* Properties *)

(* What linking the path shows of f: the volume wins. *)
Shown(f) == IF clone = "dir" /\ (volume[f] = "none" \/ ensure.now = f) THEN files[f] ELSE volume[f]

Lost(f) == f \in uploads /\ Shown(f) # "new"

(* f is written beside the link, where the volume or git has one of the     *)
(* same name.                                                               *)
WrittenBeside(f) == clone # "link" /\ volume[f] # "none" /\ AppWrites(f)
ResetByGit(f) == deploy = "git" /\ deploy' \in {"git", "link"} /\ f \in head \cup head'

(* The copy of f ends, or its directory is removed, after the app wrote f.  *)
WrittenMeanwhile(f) ==
    /\ f \in ensure.late
    /\ \/ clone' = "absent"
       \/ ensure.now = f /\ ensure'.now = NoFile

(* "A deploy never overwrites a file the app/admin wrote at runtime": what  *)
(* the app wrote last is what the path shows once it is linked, unless it   *)
(* was written to a directory that was not linked, the app survived a stop  *)
(* and wrote while the directory was being replaced, the control plane was  *)
(* killed while it copied the file (the incomplete copy then wins), or the  *)
(* directory it is in could not be read and was removed all the same.       *)
(* And an app that is started sees the volume, unless the path is a         *)
(* conventional one that is not in the repository (the deploy that removes  *)
(* its link does not make it again), a call failed or the path was there    *)
(* again.                                                                   *)
UploadsKept ==
    [][/\ \A f \in File : (Lost(f)' /\ ~Lost(f)) =>
            \/ WrittenBeside(f)
            \/ ResetByGit(f)
            \/ WrittenMeanwhile(f)
            \/ f \in ensure.missed /\ clone' = "absent"
            \/ ensure.now = f /\ ensure' = Idle /\ deploy' = "idle" /\ faults' # faults
       /\ (ensure.by = "start" /\ app # "tracked" /\ app' = "tracked" /\ volume # Empty) =>
            \/ clone' = "link"
            \/ auto /\ clone = "absent"
            \/ faults' # faults
            \/ ensure.at = "link" /\ clone = "dir"]_vars
=============================================================================
