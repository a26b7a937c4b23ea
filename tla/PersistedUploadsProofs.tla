----------------------- MODULE PersistedUploadsProofs -----------------------
(***************************************************************************)
(* Theorems about PersistedUploads: type correctness, and that an upload   *)
(* is hidden or lost in the listed ways only, for any files and any number *)
(* of faults.                                                              *)
(***************************************************************************)
EXTENDS PersistedUploads, TLAPS

Replacing == ensure.at \in {"seed", "copy"}

(* While the directory is being replaced it is there, and whatever has been *)
(* in it since it was listed, and was found then, is still to be copied or  *)
(* has a name in the volume.                                                *)
Sound ==
    /\ ensure.at = "idle" => ensure = Idle
    /\ ensure.by = "nobody" <=> ensure.at = "idle"
    /\ ensure.by = "start" => deploy = "idle"
    /\ ensure.at = "copy" => ensure.now \in ensure.todo
    /\ ensure.now # NoFile /\ volume[ensure.now] = "mixed" => ensure.now \in ensure.late
    /\ Replacing =>
        /\ clone = "dir"
        /\ \A f \in ensure.todo : files[f] # "none"
        /\ \A f \in File \ (ensure.late \cup ensure.missed) :
              files[f] # "none" => f \in ensure.todo \/ volume[f] # "none"

IInv == TypeOK /\ Sound

------------------------------------------------------------------------------

LEMMA InitSound == Init => IInv
<1> SUFFICES ASSUME Init PROVE IInv
  OBVIOUS
<1> USE FileAssumption, BoundsAssumption DEF Init
<1>1. clone = "dir" <=> files # Empty
  <2>1. CASE head = {}
    BY <2>1 DEF Empty
  <2>2. CASE head # {}
    <3>1. PICK f \in File : f \in head
      BY <2>2
    <3>2. files[f] # Empty[f]
      BY <3>1 DEF Empty
    <3> QED BY <2>2, <3>2
  <2> QED BY <2>1, <2>2
<1>2. ensure = [by |-> "deploy", at |-> "resolve", todo |-> {},
              now |-> NoFile, missed |-> {}, late |-> {}]
  BY DEF Idle
<1>3. TypeOK
  <2>1. files \in [File -> Content] /\ volume \in [File -> Content]
    BY DEF Content, Empty
  <2>2. ensure \in EnsureType
    BY <1>2 DEF EnsureType
  <2>3. /\ ensure.at = "copy" <=> ensure.now # NoFile
        /\ ensure.by = "deploy" <=> deploy = "link"
    <3> deploy = "link" OBVIOUS
    <3> HIDE DEF Init
    <3> QED BY <1>2
  <2>4. faults \in 0..MaxFaults
    <3> faults = 0 OBVIOUS
    <3> HIDE DEF Init
    <3> QED OBVIOUS
  <2>5. /\ auto \in BOOLEAN
        /\ clone \in {"absent", "dir", "link"}
        /\ head \subseteq File /\ uploads \subseteq File
    OBVIOUS
  <2>6. app = "down" /\ deploy = "link"
    OBVIOUS
  <2> HIDE DEF Init
  <2> QED BY <1>1, <2>1, <2>2, <2>3, <2>4, <2>5, <2>6 DEF TypeOK
<1>4. Sound
  <2> HIDE DEF Init
  <2> QED BY <1>2 DEF Sound, Replacing, Idle
<1> QED
  BY <1>3, <1>4 DEF IInv

(* The end of ensurePersistedPaths, by the deploy or the start it serves.   *)
LEMMA EnsureEndsSound ==
    ASSUME TypeOK, Sound, ensure.at # "idle", EnsureEnds
    PROVE  /\ ensure' = Idle
           /\ ensure'.at = "idle" /\ ensure'.by = "nobody" /\ ensure'.now = NoFile
           /\ ensure' \in EnsureType
           /\ app' \in {"down", "tracked", "leftover"}
           /\ deploy' \in {"idle", "git", "build"}
BY FileAssumption DEF TypeOK, Sound, EnsureEnds, Idle, EnsureType

LEMMA StepSound == IInv /\ [Next]_vars => IInv'
<1> SUFFICES ASSUME IInv, [Next]_vars PROVE IInv'
  OBVIOUS
<1> USE FileAssumption, BoundsAssumption
<1>0. TypeOK /\ Sound
  BY DEF IInv
<1>f. ASSUME Fault PROVE faults' \in 0..MaxFaults
  BY <1>0, <1>f DEF Fault, TypeOK
<1>n. ASSUME NoFault PROVE faults' \in 0..MaxFaults
  BY <1>0, <1>n DEF NoFault, TypeOK
<1>1. ASSUME NEW f \in File, AppWrites(f) PROVE IInv'
  <2>1. TypeOK'
    BY <1>0, <1>1 DEF TypeOK, AppWrites, Aged, EnsureType, Content, Empty
  <2>2. Sound'
    BY <1>0, <1>1 DEF TypeOK, Sound, Replacing, AppWrites, Aged, EnsureType, Content, Idle
  <2> QED BY <2>1, <2>2 DEF IInv
<1>2. CASE AppEnds
  BY <1>0, <1>2 DEF IInv, TypeOK, Sound, Replacing, AppEnds
<1>3. CASE Kill
  BY <1>0, <1>3, <1>f DEF IInv, TypeOK, Sound, Replacing, Kill, Idle, EnsureType
<1>4. CASE Adopt
  BY <1>0, <1>4 DEF IInv, TypeOK, Sound, Replacing, Adopt
<1>5. CASE DeployBegins
  BY <1>0, <1>5, <1>f, <1>n DEF IInv, TypeOK, Sound, Replacing, DeployBegins, Unlinked, Idle
<1>6. ASSUME NEW commit \in SUBSET File, GitResets(commit) PROVE IInv'
  BY <1>0, <1>6 DEF IInv, TypeOK, Sound, Replacing, GitResets, TreeBecomes, Idle, EnsureType, Content
<1>7. CASE GitFails
  BY <1>0, <1>7, <1>f DEF IInv, TypeOK, Sound, Replacing, GitFails
<1>8. CASE BuildEnds
  BY <1>0, <1>8 DEF IInv, TypeOK, Sound, Replacing, BuildEnds
<1>9. CASE Start
  BY <1>0, <1>9 DEF IInv, TypeOK, Sound, Replacing, Start, Idle, EnsureType
<1>16. ASSUME NEW commit \in SUBSET File, GitChecksOut(commit) PROVE IInv'
  <2>1. ensure = Idle /\ ensure.at = "idle" /\ ensure.now = NoFile
    BY <1>0, <1>16 DEF TypeOK, Sound, GitChecksOut, EnsureType, Idle
  <2>2. TypeOK'
    BY <1>0, <1>16 DEF TypeOK, GitChecksOut, TreeBecomes, Content
  <2>3. Sound'
    BY <1>0, <1>16, <2>1 DEF Sound, Replacing, GitChecksOut
  <2> QED BY <2>2, <2>3 DEF IInv
<1>17. ASSUME NEW missed \in SUBSET File, Lists(missed) PROVE IInv'
  <2>1. ensure' = [ensure EXCEPT !.at = "seed", !.todo = There \ missed, !.missed = missed]
    BY <1>17 DEF Lists, Continues
  <2>2. /\ ensure' \in EnsureType /\ ensure'.at = "seed" /\ ensure'.now = NoFile
        /\ ensure'.by = ensure.by /\ ensure'.todo = There \ missed
        /\ ensure'.missed = missed
    BY <1>0, <1>17, <2>1 DEF TypeOK, EnsureType, There, Lists
  <2>3. TypeOK'
    BY <1>0, <1>17, <1>f, <1>n, <2>2 DEF TypeOK, Lists, Continues
  <2>4. Sound'
    BY <1>0, <1>17, <2>2 DEF TypeOK, Sound, Replacing, Lists, Continues, There
  <2> QED BY <2>3, <2>4 DEF IInv
<1>10. CASE Resolve
  <2>1. CASE EnsureEnds /\ UNCHANGED clone /\ (NoFault \/ Fault)
    <3> ensure.at # "idle" BY <1>10 DEF Resolve
    <3> QED BY <1>0, <1>10, <1>f, <1>n, <2>1, EnsureEndsSound
            DEF IInv, TypeOK, Sound, Replacing, Resolve
  <2>2. CASE Resolved /\ NoFault /\ clone' = Unlinked /\ clone # "dir"
             /\ Continues([ensure EXCEPT !.at = "link"])
    BY <1>0, <1>10, <1>n, <2>2
       DEF IInv, TypeOK, Sound, Replacing, Resolve, Continues, Unlinked, EnsureType
  <2> QED BY <1>10, <2>1, <2>2 DEF Resolve
<1>11. ASSUME NEW f \in File, Seed(f) PROVE IInv'
  <2>0. /\ ensure \in EnsureType /\ ensure.at = "seed" /\ ensure.now = NoFile /\ f \in ensure.todo
        /\ Replacing /\ UNCHANGED <<auto, head, clone, files, app, deploy, uploads, faults>>
    BY <1>0, <1>11 DEF TypeOK, Seed, Replacing
  <2>1. CASE Absent(f)
    <3>1. ensure' = [ensure EXCEPT !.at = "copy", !.now = f] /\ volume' = [volume EXCEPT ![f] = "torn"]
      BY <1>11, <2>1 DEF Seed
    <3>2. /\ ensure' \in EnsureType /\ ensure'.at = "copy" /\ ensure'.now = f
          /\ ensure'.by = ensure.by /\ ensure'.todo = ensure.todo /\ ensure'.late = ensure.late
      BY <2>0, <3>1 DEF EnsureType
    <3>3. TypeOK'
      BY <1>0, <2>0, <3>1, <3>2 DEF TypeOK, Content
    <3>4. Sound'
      BY <1>0, <2>0, <3>1, <3>2 DEF TypeOK, Sound, Replacing
    <3> QED BY <3>3, <3>4 DEF IInv
  <2>2. CASE ~Absent(f)
    <3>1. ensure' = [ensure EXCEPT !.todo = @ \ {f}] /\ UNCHANGED volume
      BY <1>11, <2>2 DEF Seed
    <3>2. /\ ensure' \in EnsureType /\ ensure'.at = "seed" /\ ensure'.now = NoFile
          /\ ensure'.by = ensure.by /\ ensure'.todo = ensure.todo \ {f} /\ ensure'.late = ensure.late
      BY <2>0, <3>1 DEF EnsureType
    <3>3. TypeOK'
      BY <1>0, <2>0, <3>1, <3>2 DEF TypeOK
    <3>4. Sound'
      BY <1>0, <2>0, <2>2, <3>1, <3>2 DEF TypeOK, Sound, Replacing, Absent
    <3> QED BY <3>3, <3>4 DEF IInv
  <2> QED BY <2>1, <2>2
<1>12. CASE Copied
  <2>1. CASE /\ NoFault
             /\ Continues([ensure EXCEPT !.at = "seed", !.todo = @ \ {ensure.now}, !.now = NoFile])
             /\ \E copy \in {"mixed", "old", "new", files[ensure.now]} :
                   volume' = [volume EXCEPT ![ensure.now] = copy]
    <3>1. PICK copy \in {"mixed", "old", "new", files[ensure.now]} :
            volume' = [volume EXCEPT ![ensure.now] = copy]
      BY <2>1
    <3>2. /\ ensure \in EnsureType /\ ensure.at = "copy" /\ ensure.now \in ensure.todo
          /\ ensure.now \in File /\ copy \in Content \ {"none"}
      BY <1>0, <1>12, <3>1 DEF TypeOK, Sound, Replacing, Copied, EnsureType, Content
    <3>3. /\ ensure' \in EnsureType /\ ensure'.at = "seed" /\ ensure'.now = NoFile
          /\ ensure'.by = ensure.by /\ ensure'.todo = ensure.todo \ {ensure.now}
          /\ ensure'.late = ensure.late /\ ensure'.missed = ensure.missed
      BY <2>1, <3>2 DEF Continues, EnsureType
    <3>4. TypeOK'
      BY <1>0, <1>12, <1>n, <2>1, <3>1, <3>2, <3>3 DEF TypeOK, Copied, Continues
    <3>5. Sound'
      BY <1>0, <1>12, <2>1, <3>1, <3>2, <3>3 DEF TypeOK, Sound, Replacing, Copied, Continues
    <3> QED BY <3>4, <3>5 DEF IInv
  <2>2. CASE Fault /\ volume' = [volume EXCEPT ![ensure.now] = "none"] /\ EnsureEnds
    <3> ensure.at # "idle" BY <1>12 DEF Copied
    <3> QED BY <1>0, <1>12, <1>f, <2>2, EnsureEndsSound
            DEF IInv, TypeOK, Sound, Replacing, Copied, Content
  <2> QED BY <1>12, <2>1, <2>2 DEF Copied
<1>13. CASE Remove
  <2>1. CASE NoFault /\ files' = Remains /\ clone' = "absent" /\ Continues([ensure EXCEPT !.at = "link"])
    BY <1>0, <1>13, <1>n, <2>1
       DEF IInv, TypeOK, Sound, Replacing, Remove, Remains, Continues, EnsureType, Empty, Content
  <2>2. CASE Fault /\ EnsureEnds /\ UNCHANGED <<files, clone>>
    <3> ensure.at # "idle" BY <1>13 DEF Remove
    <3> QED BY <1>0, <1>13, <1>f, <2>2, EnsureEndsSound
            DEF IInv, TypeOK, Sound, Replacing, Remove
  <2> QED BY <1>13, <2>1, <2>2 DEF Remove
<1>14. CASE Link
  <2> ensure.at # "idle" BY <1>14 DEF Link
  <2> QED BY <1>0, <1>14, <1>f, <1>n, EnsureEndsSound
          DEF IInv, TypeOK, Sound, Replacing, Link
<1>15. CASE UNCHANGED vars
  BY <1>0, <1>15 DEF IInv, TypeOK, Sound, Replacing, vars
<1> QED
  BY <1>1, <1>2, <1>3, <1>4, <1>5, <1>6, <1>7, <1>8, <1>9, <1>10, <1>11, <1>12, <1>13,
     <1>14, <1>15, <1>16, <1>17 DEF Next

LEMMA AlwaysSound == Spec => []IInv
BY InitSound, StepSound, PTL DEF Spec

(* Type correctness: the path is linked to the volume only after its        *)
(* directory has gone, whatever fails or is killed in between.              *)
THEOREM UploadsTypes == Spec => []TypeOK
BY AlwaysSound, PTL DEF IInv

------------------------------------------------------------------------------

(* What a step that is sound does to a file the app has written.            *)
KeptBy(f) ==
    (Lost(f)' /\ ~Lost(f)) =>
        \/ WrittenBeside(f)
        \/ ResetByGit(f)
        \/ WrittenMeanwhile(f)
        \/ f \in ensure.missed /\ clone' = "absent"
        \/ ensure.now = f /\ ensure' = Idle /\ deploy' = "idle" /\ faults' # faults

LinkedAtStart ==
    (ensure.by = "start" /\ app # "tracked" /\ app' = "tracked" /\ volume # Empty) =>
        \/ clone' = "link"
        \/ auto /\ clone = "absent"
        \/ faults' # faults
        \/ ensure.at = "link" /\ clone = "dir"

(* A file of which neither the path, the volume nor the copy in progress    *)
(* changes is as lost as it was.                                            *)
LEMMA Untouched ==
    ASSUME NEW f, UNCHANGED <<clone, files, volume, uploads>>,
           ensure'.now = f <=> ensure.now = f
    PROVE  Lost(f)' <=> Lost(f)
BY DEF Lost, Shown

LEMMA StepKeeps ==
    ASSUME IInv, IInv', [Next]_vars, NEW f \in File
    PROVE  KeptBy(f)
<1> USE FileAssumption, BoundsAssumption
<1>0. TypeOK /\ Sound /\ TypeOK' /\ Sound'
  BY DEF IInv
<1> f # NoFile
  OBVIOUS
<1>1. ASSUME NEW g \in File, AppWrites(g) PROVE KeptBy(f)
  <2>1. CASE g = f
    BY <1>0, <1>1, <2>1 DEF KeptBy, TypeOK, Sound, Lost, Shown, WrittenBeside, AppWrites, Aged, EnsureType
  <2>2. CASE g # f
    <3>1. /\ volume'[f] = volume[f] /\ files'[f] = files[f] /\ ensure'.now = ensure.now
          /\ f \in uploads' <=> f \in uploads
      BY <1>0, <1>1, <2>2 DEF TypeOK, AppWrites, Aged, EnsureType
    <3>2. /\ clone = "link" => clone' = "link"
          /\ clone # "link" => clone' = "dir"
      BY <1>1 DEF AppWrites
    <3>3. clone # "dir" => files[f] = "none" /\ ensure.now # f
      BY <1>0 DEF TypeOK, Sound, Replacing, Empty
    <3> QED BY <1>0, <3>1, <3>2, <3>3 DEF KeptBy, TypeOK, Lost, Shown
  <2> QED BY <2>1, <2>2
<1>2. CASE AppEnds
  BY <1>2, Untouched DEF KeptBy, AppEnds
<1>3. CASE Kill
  BY <1>0, <1>3 DEF KeptBy, TypeOK, Sound, Replacing, Lost, Shown, Kill, Idle, Fault
<1>4. CASE Adopt
  BY <1>4, Untouched DEF KeptBy, Adopt
<1>5. CASE DeployBegins
  BY <1>0, <1>5 DEF KeptBy, TypeOK, Sound, Lost, Shown, DeployBegins, Unlinked, Idle
<1>6. ASSUME NEW commit \in SUBSET File, GitResets(commit) \/ GitChecksOut(commit) PROVE KeptBy(f)
  <2>1. CASE f \in head \cup head'
    BY <1>6, <2>1 DEF KeptBy, ResetByGit, GitResets, GitChecksOut
  <2>2. CASE f \notin head \cup head'
    <3>1. /\ files'[f] = files[f] /\ volume' = volume /\ uploads' = uploads
          /\ ensure'.now \in {ensure.now, NoFile}
      BY <1>6, <2>2 DEF GitResets, GitChecksOut, TreeBecomes, Idle
    <3>2. ensure.now = NoFile
      BY <1>0, <1>6 DEF TypeOK, Sound, GitResets, GitChecksOut, EnsureType
    <3>3. /\ clone # "dir" => files[f] = "none"
          /\ clone' # "dir" => files'[f] = "none"
      BY <1>0 DEF TypeOK, Empty
    <3> QED BY <3>1, <3>2, <3>3 DEF KeptBy, Lost, Shown
  <2> QED BY <2>1, <2>2
<1>7. CASE GitFails
  BY <1>7, Untouched DEF KeptBy, GitFails
<1>8. CASE BuildEnds
  BY <1>8, Untouched DEF KeptBy, BuildEnds
<1>9. CASE Start
  BY <1>9, Untouched DEF KeptBy, Start, Idle
<1>10. CASE Resolve
  <2>1. ensure \in EnsureType /\ ensure.now = NoFile
    BY <1>0, <1>10 DEF TypeOK, Resolve
  <2>2. ensure'.now = NoFile
    <3>1. CASE ensure' = Idle
      BY <3>1 DEF Idle
    <3>2. CASE ensure' = [ensure EXCEPT !.at = "link"]
      BY <2>1, <3>2 DEF EnsureType
    <3> QED BY <1>10, <3>1, <3>2 DEF Resolve, EnsureEnds, Continues
  <2>3. /\ clone' = "dir" <=> clone = "dir"
        /\ UNCHANGED <<files, volume, uploads>>
    BY <1>10 DEF Resolve, Unlinked
  <2> QED BY <2>1, <2>2, <2>3 DEF KeptBy, Lost, Shown
<1>16. ASSUME NEW missed \in SUBSET File, Lists(missed) PROVE KeptBy(f)
  <2>1. UNCHANGED <<clone, files, volume, uploads>> /\ ensure'.now = ensure.now
    BY <1>0, <1>16 DEF TypeOK, EnsureType, Lists, Continues
  <2> QED BY <2>1, Untouched DEF KeptBy
<1>11. ASSUME NEW g \in File, Seed(g) PROVE KeptBy(f)
  <2>0. /\ ensure \in EnsureType /\ volume \in [File -> Content] /\ ensure.now = NoFile
        /\ clone = "dir" /\ UNCHANGED <<clone, files, uploads>>
    BY <1>0, <1>11 DEF TypeOK, Sound, Replacing, Seed
  <2>1. CASE Absent(g)
    <3>1. ensure' = [ensure EXCEPT !.at = "copy", !.now = g] /\ volume' = [volume EXCEPT ![g] = "torn"]
      BY <1>11, <2>1 DEF Seed
    <3>2. ensure'.now = g
      BY <2>0, <3>1 DEF EnsureType
    <3>3. g # f => volume'[f] = volume[f]
      BY <2>0, <3>1
    <3> QED BY <2>0, <2>1, <3>2, <3>3 DEF KeptBy, Lost, Shown, Absent
  <2>2. CASE ~Absent(g)
    <3>1. ensure' = [ensure EXCEPT !.todo = @ \ {g}] /\ UNCHANGED volume
      BY <1>11, <2>2 DEF Seed
    <3>2. ensure'.now = NoFile
      BY <2>0, <3>1 DEF EnsureType
    <3> QED BY <2>0, <3>1, <3>2 DEF KeptBy, Lost, Shown
  <2> QED BY <2>1, <2>2
<1>12. CASE Copied
  <2>0. /\ ensure \in EnsureType /\ ensure.now \in File /\ volume \in [File -> Content]
        /\ clone = "dir"
    BY <1>0, <1>12 DEF TypeOK, Sound, Replacing, Copied, EnsureType
  <2>1. ensure'.now = NoFile /\ UNCHANGED <<clone, files, uploads>>
    <3>1. CASE ensure' = Idle
      BY <1>12, <3>1 DEF Idle, Copied
    <3>2. CASE ensure' = [ensure EXCEPT !.at = "seed", !.todo = @ \ {ensure.now}, !.now = NoFile]
      BY <1>12, <2>0, <3>2 DEF EnsureType, Copied
    <3> QED BY <1>12, <3>1, <3>2 DEF Copied, EnsureEnds, Continues
  <2>2. CASE ensure.now = f
    <3>1. CASE f \in ensure.late
      BY <2>1, <2>2, <3>1, FileAssumption DEF KeptBy, WrittenMeanwhile
    <3>2. CASE f \notin ensure.late
      <4>1. volume[f] # "mixed"
        BY <1>0, <2>2, <3>2 DEF Sound
      <4>2. volume'[f] \in {"none", files[f]}
        BY <1>12, <2>0, <2>2, <4>1 DEF Copied
      <4> QED BY <2>0, <2>1, <2>2, <4>2 DEF KeptBy, Lost, Shown
    <3> QED BY <3>1, <3>2
  <2>3. CASE ensure.now # f
    <3>1. volume'[f] = volume[f]
      BY <1>12, <2>0, <2>3 DEF Copied
    <3> QED BY <2>0, <2>1, <2>3, <3>1 DEF KeptBy, Lost, Shown
  <2> QED BY <2>2, <2>3
<1>13. CASE Remove
  <2>0. /\ ensure \in EnsureType /\ ensure.now = NoFile /\ ensure.todo = {} /\ clone = "dir"
        /\ files[f] # "none" => f \in ensure.late \cup ensure.missed \/ volume[f] # "none"
        /\ UNCHANGED <<volume, uploads>>
    BY <1>0, <1>13 DEF TypeOK, Sound, Replacing, Remove
  <2>1. ensure'.now = NoFile
    BY <1>13, <2>0 DEF Remove, Continues, EnsureEnds, Idle, EnsureType
  <2>2. CASE UNCHANGED <<files, clone>>
    BY <2>0, <2>1, <2>2 DEF KeptBy, Lost, Shown
  <2>3. CASE clone' = "absent"
    <3>1. CASE f \in ensure.late \cup ensure.missed
      BY <2>3, <3>1 DEF KeptBy, WrittenMeanwhile
    <3>2. CASE files[f] = "none" \/ volume[f] # "none"
      BY <2>0, <2>1, <2>3, <3>2 DEF KeptBy, Lost, Shown
    <3> QED BY <2>0, <3>1, <3>2
  <2> QED BY <1>13, <2>2, <2>3 DEF Remove
<1>14. CASE Link
  BY <1>0, <1>14 DEF KeptBy, TypeOK, Sound, Lost, Shown, Link, EnsureEnds, Idle, EnsureType
<1>15. CASE UNCHANGED vars
  BY <1>15, Untouched DEF KeptBy, vars
<1> QED
  BY <1>1, <1>2, <1>3, <1>4, <1>5, <1>6, <1>7, <1>8, <1>9, <1>10, <1>11, <1>12, <1>13,
     <1>14, <1>15, <1>16 DEF Next

LEMMA StepLinks ==
    ASSUME IInv, Next
    PROVE  LinkedAtStart
<1> USE FileAssumption, BoundsAssumption
<1>0. TypeOK /\ Sound
  BY DEF IInv
<1>1. CASE Resolve
  BY <1>0, <1>1 DEF LinkedAtStart, TypeOK, Sound, Resolve, Resolved, EnsureEnds, Continues, Fault
<1>2. CASE Copied
  BY <1>0, <1>2 DEF LinkedAtStart, TypeOK, Sound, Copied, EnsureEnds, Continues, Fault
<1>3. CASE Remove
  BY <1>0, <1>3 DEF LinkedAtStart, TypeOK, Sound, Remove, EnsureEnds, Continues, Fault
<1>4. CASE Link
  BY <1>0, <1>4 DEF LinkedAtStart, TypeOK, Sound, Link, EnsureEnds, Fault
<1>5. CASE Adopt
  BY <1>0, <1>5 DEF LinkedAtStart, Sound, Adopt, Idle
<1>6. CASE \/ \E f \in File : AppWrites(f) \/ Seed(f)
           \/ \E commit \in SUBSET File : GitChecksOut(commit) \/ GitResets(commit)
           \/ \E missed \in SUBSET File : Lists(missed)
           \/ AppEnds \/ Kill \/ DeployBegins \/ GitFails \/ BuildEnds \/ Start
  BY <1>6 DEF LinkedAtStart, AppWrites, Seed, GitChecksOut, GitResets, Lists, Continues, AppEnds, Kill, DeployBegins, GitFails,
              BuildEnds, Start
<1> QED
  BY <1>1, <1>2, <1>3, <1>4, <1>5, <1>6 DEF Next

(* What the app wrote last is what the path shows once it is linked, apart  *)
(* from the listed ways, and an app that is started sees the volume.        *)
THEOREM UploadsStay == Spec => UploadsKept
<1>1. IInv /\ IInv' /\ [Next]_vars =>
        [(\A f \in File : KeptBy(f)) /\ LinkedAtStart]_vars
  BY StepKeeps, StepLinks
<1>2. [(\A f \in File : KeptBy(f)) /\ LinkedAtStart]_vars =>
      [/\ \A f \in File : (Lost(f)' /\ ~Lost(f)) =>
            \/ WrittenBeside(f)
            \/ ResetByGit(f)
            \/ WrittenMeanwhile(f)
            \/ f \in ensure.missed /\ clone' = "absent"
            \/ ensure.now = f /\ ensure' = Idle /\ deploy' = "idle" /\ faults' # faults
       /\ (ensure.by = "start" /\ app # "tracked" /\ app' = "tracked" /\ volume # Empty) =>
            \/ clone' = "link"
            \/ auto /\ clone = "absent"
            \/ faults' # faults
            \/ ensure.at = "link" /\ clone = "dir"]_vars
  BY DEF KeptBy, LinkedAtStart
<1> QED
  BY <1>1, <1>2, AlwaysSound, PTL DEF Spec, UploadsKept
=============================================================================
