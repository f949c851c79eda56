------------------------- MODULE SourceExportProofs -------------------------
(***************************************************************************)
(* For every source, machines of any number of disks, any number of        *)
(* attempts and of restarts: what is listed before it is made stays        *)
(* listed, a disk is copied only from what exists, nothing is left behind  *)
(* by a job none of whose calls failed, and the machine is only stopped    *)
(* with consent.  For an instance of any number of volumes, any number of  *)
(* calls that fail and of restarts: an OVA export makes only calls OCI     *)
(* accepts, reads volumes at rest, and is COMPLETED with the instance      *)
(* whole.                                                                  *)
(*                                                                         *)
(* The proofs of the first rest on what the scripts have in common         *)
(* (Shape): which steps stand where, what comes directly before and after  *)
(* a Create.  Those of the second follow the call the task makes next:     *)
(* what has been taken apart before it, what has been put back (OvaExport).*)
(***************************************************************************)
EXTENDS MCSources, SequenceTheorems, TLAPS

(* What a source makes for its machine, for each attempt of a disk, and to *)
(* find the regions that hold data                                         *)
EnterKinds(x) == CASE x = "vsphere" -> {"lease"}
                   [] x = "azure" -> {"snapshot", "grant"}
                   [] x = "aws" -> {"snapshot"}
                   [] x = "gcp" -> {"snapshot", "object"}
                   [] OTHER -> {}
OpenKinds(x) == CASE x = "olvm" -> {"transfer"}
                  [] x \in {"nutanix", "prism_element"} -> {"image"}
                  [] x = "proxmox" -> {"nbd"}
                  [] OTHER -> {}
RegionKinds(x) == CASE x = "nutanix" -> {"point"}
                    [] x = "prism_element" -> {"domain"}
                    [] OTHER -> {}

(* What a source lists before it makes it *)
First(x) == CASE x \in {"azure", "gcp"} -> "snapshot"
              [] x = "proxmox" -> "nbd"
              [] x = "prism_element" -> "domain"
              [] OTHER -> "-"

Making(w) == {Note(w), Create(w), Keep(w), Wait(w)}
Taking(w) == {Drop(w), Try(w)}

(* The steps a script may have, by the place it is run at *)
Allowed(x, p) ==
  CASE p = "down" -> {Ask, TurnOff, Off}
    [] p = "enter" -> {Read, Check} \cup UNION {Making(w) : w \in EnterKinds(x)}
    [] p = "regions" -> {Read, Check} \cup UNION {Making(w) \cup Taking(w) : w \in RegionKinds(x)}
    [] p = "mapped" -> {Try(w) : w \in RegionKinds(x)}
    [] p = "open" -> {Read, Check} \cup UNION {Making(w) \cup Taking(w) : w \in OpenKinds(x)}
    [] p \in {"finish", "failing"} -> UNION {Taking(w) : w \in OpenKinds(x)}
    [] OTHER -> {}

(* What is listed first is listed directly before it is made; what only    *)
(* the export object knows is remembered directly after it; nothing is     *)
(* taken away after something was made.                                    *)
Shape(x, p, s) ==
  /\ s \in Seq(Step)
  /\ \A i \in 1..Len(s) : s[i] \in Allowed(x, p)
  /\ \A i \in 2..Len(s) : s[i] = Create(First(x)) => s[i - 1] = Note(First(x))
  /\ \A i, j \in 1..Len(s) : i < j /\ s[i][1] = "create" => s[j][1] \notin {"drop", "try"}
  /\ x \in {"vsphere", "olvm"} =>
       /\ \A i \in 1..Len(s) : s[i][1] = "create" => i < Len(s) /\ s[i + 1] = Keep(s[i][2])
  /\ x = "vsphere" => \A i \in 1..Len(s) : s[i] # Check

Creates(s, w) == \E i \in 1..Len(s) : s[i] = Create(w)
Takes(s) == \E i \in 1..Len(s) : s[i][1] \in {"drop", "try"}

(* A script that is yet to be run, and what it makes *)
Fresh(x, p, s, kinds) ==
  /\ Shape(x, p, s)
  /\ s # <<>> => Head(s) # Create(First(x)) /\ Head(s)[1] # "keep"
  /\ \A w \in kinds : Creates(s, w)

(* What the copy of a disk is read from, by the script of __enter__ that   *)
(* makes it, and the number of those scripts                               *)
Needs(x, mode, n) ==
  CASE x = "vsphere" -> {"lease"}
    [] x = "azure" -> IF mode = "snapshot" /\ n = 1 THEN {"snapshot"} ELSE {"grant"}
    [] x = "aws" -> {"snapshot"}
    [] x = "gcp" -> {"object"}
    [] OTHER -> {}
Scripts(x, mode) == CASE x = "azure" -> IF mode = "snapshot" THEN 2 ELSE 1
                      [] x \in {"vsphere", "aws", "gcp"} -> 1
                      [] OTHER -> 0
Last(x) == IF x = "vsphere" THEN 1 ELSE DisksOf[x]

-----------------------------------------------------------------------------
(* The inductive invariant. *)

(* The task runs a script of its source, for a disk of the machine. *)
Placed ==
  /\ Shape(src, at, todo)
  /\ at \in {"enter", "regions", "mapped", "open", "copy", "finish", "failing"} => disk <= Disks
  /\ at = "enter" => disk <= Last(src) /\ round <= Scripts(src, capture)
  /\ at \in {"regions", "mapped"} => src \in {"nutanix", "prism_element"}

(* Only with consent is a machine brought down. *)
AskedFor ==
  /\ at = "down" => consent /\ ~(src = "vsphere" /\ vm = "suspended")
  /\ vm = "stopping" => consent

(* What is listed first is in the task's record and in the stored one. *)
ListedIn(l) == \A r \in world : r[1] = First(src) => r \in l
Traced ==
  /\ ListedIn(record)
  /\ at # "ended" => ListedIn(info)
  /\ todo # <<>> /\ Head(todo) = Create(First(src)) =>
       Made(First(src)) \in info /\ Made(First(src)) \in record

(* What is made once exists from its script on; what is made for an        *)
(* attempt exists, or is still to be made.                                 *)
MadeUpTo(x, mode, n, d, W) ==
  /\ \A m \in 1..n, w \in What, e \in 1..Last(x) :
       m < n /\ w \in Needs(x, mode, m) => <<w, e, 1>> \in W
  /\ \A w \in What, e \in 1..Last(x) :
       e < d /\ w \in Needs(x, mode, n) => <<w, e, 1>> \in W
Sourced ==
  /\ at = "enter" =>
       /\ MadeUpTo(src, capture, round, disk, world)
       /\ \A w \in Needs(src, capture, round) : <<w, disk, 1>> \in world \/ Creates(todo, w)
  /\ at \in {"disk", "open", "copy", "finish", "failing"} =>
       MadeUpTo(src, capture, Scripts(src, capture) + 1, 1, world)
  /\ at = "open" => \A w \in OpenKinds(src) :
       Creates(todo, w) \/ (Made(w) \in world /\ ~Takes(todo))
  /\ at = "copy" => \A w \in OpenKinds(src) : Made(w) \in world

(* As long as no call failed: what there is will be found by the release. *)
Unkept == {Made(w) : w \in {v \in What : /\ src \in {"vsphere", "olvm"}
                                        /\ todo # <<>> /\ Head(todo) = Keep(v)}}
Found ==
  /\ at \in {"power", "down", "left", "fixup", "release", "ended"} => world = {}
  /\ at = "leave" => world \subseteq pending
  /\ at \in {"enter", "disk", "open", "copy", "finish", "failing"} =>
       world \subseteq ToRelease(info) \cup Unkept
  /\ at \in {"failing", "leave"} => outcome # "failed"
Tidy == src \in NamesWhatItMakes /\ ~trouble => Found

SourceInv == TypeOK /\ Placed /\ AskedFor /\ Traced /\ Sourced /\ Tidy

-----------------------------------------------------------------------------
(* The scripts. *)

(* Every step a script is written with is a step. *)
LEMMA StepsTyped ==
  /\ {Check, Read, Ask, TurnOff, Off} \subseteq Step
  /\ \A w \in What : {Note(w), Create(w), Keep(w), Wait(w), Drop(w), Try(w)} \subseteq Step
<1>1. Op \X {"-"} \subseteq Step /\ Op \X What \subseteq Step
  BY DEF Step
<1>2. {Check, Read, Ask, TurnOff, Off} \subseteq Op \X {"-"}
  BY DEF Check, Read, Ask, TurnOff, Off, Op
<1>3. ASSUME NEW w \in What
      PROVE  {Note(w), Create(w), Keep(w), Wait(w), Drop(w), Try(w)} \subseteq Op \X What
  BY DEF Note, Create, Keep, Wait, Drop, Try, Op
<1>. QED
  BY <1>1, <1>2, <1>3

(* What two scripts are one after the other *)
LEMMA ConcatIs ==
  ASSUME NEW a \in Seq(Step), NEW b \in Seq(Step), NEW c \in Seq(Step),
         Len(c) = Len(a) + Len(b),
         \A i \in 1..Len(a) : c[i] = a[i], \A i \in 1..Len(b) : c[Len(a) + i] = b[i]
  PROVE  a \o b = c
<1>1. Len(a) \in Nat /\ Len(b) \in Nat
  BY LenProperties
<1>2. /\ a \o b \in Seq(Step) /\ Len(a \o b) = Len(a) + Len(b)
      /\ \A i \in 1..Len(a) + Len(b) : (a \o b)[i] = IF i <= Len(a) THEN a[i] ELSE b[i - Len(a)]
  BY ConcatProperties
<1>3. ASSUME NEW i \in 1..Len(a) + Len(b), ~(i <= Len(a))
      PROVE  c[i] = b[i - Len(a)]
  <2>1. i - Len(a) \in 1..Len(b) /\ Len(a) + (i - Len(a)) = i
    BY <1>1, <1>3
  <2>. QED
    BY <2>1
<1>4. \A i \in 1..Len(a) + Len(b) : (a \o b)[i] = c[i]
  BY <1>1, <1>2, <1>3
<1>. QED
  BY <1>2, <1>4, SeqEqual

(* The scripts that are put together, step by step *)
LEMMA AzureSnapshotsScript == AzureCreateSnapshots =
  <<Check, Read, Note("snapshot"), Create("snapshot"), Wait("snapshot")>>
<1> DEFINE p1 == <<Check, Read, Note("snapshot")>>
           p2 == <<Create("snapshot"), Wait("snapshot")>>
           q2 == <<Check, Read, Note("snapshot"), Create("snapshot"), Wait("snapshot")>>
<1>1. p1 \o p2 = q2
  <2>1. /\ p1 \in Seq(Step) /\ p2 \in Seq(Step) /\ q2 \in Seq(Step)
        /\ Len(p1) = 3 /\ Len(p2) = 2 /\ Len(q2) = 5
    BY StepsTyped DEF What
  <2>2. \A i \in 1..Len(p1) : q2[i] = p1[i]
    OBVIOUS
  <2>3. \A i \in 1..Len(p2) : q2[Len(p1) + i] = p2[i]
    OBVIOUS
  <2> HIDE DEF p1, p2, q2
  <2>4. Len(q2) = Len(p1) + Len(p2)
    BY <2>1
  <2>. QED
    BY <2>1, <2>2, <2>3, <2>4, ConcatIs, Zenon
<1>. QED
  BY <1>1 DEF AzureCreateSnapshots, AzureSnapshot

LEMMA AzureGrantScript == AzureGrant =
  <<Check, Create("grant"), Wait("grant"), Note("grant")>>
<1> DEFINE p1 == <<Check>>
           p2 == <<Create("grant"), Wait("grant")>>
           p3 == <<Note("grant")>>
           q2 == <<Check, Create("grant"), Wait("grant")>>
           q3 == <<Check, Create("grant"), Wait("grant"), Note("grant")>>
<1>1. p1 \o p2 = q2
  <2>1. /\ p1 \in Seq(Step) /\ p2 \in Seq(Step) /\ q2 \in Seq(Step)
        /\ Len(p1) = 1 /\ Len(p2) = 2 /\ Len(q2) = 3
    BY StepsTyped DEF What
  <2>2. \A i \in 1..Len(p1) : q2[i] = p1[i]
    OBVIOUS
  <2>3. \A i \in 1..Len(p2) : q2[Len(p1) + i] = p2[i]
    OBVIOUS
  <2> HIDE DEF p1, p2, p3, q2, q3
  <2>4. Len(q2) = Len(p1) + Len(p2)
    BY <2>1
  <2>. QED
    BY <2>1, <2>2, <2>3, <2>4, ConcatIs, Zenon
<1>2. q2 \o p3 = q3
  <2>1. /\ q2 \in Seq(Step) /\ p3 \in Seq(Step) /\ q3 \in Seq(Step)
        /\ Len(q2) = 3 /\ Len(p3) = 1 /\ Len(q3) = 4
    BY StepsTyped DEF What
  <2>2. \A i \in 1..Len(q2) : q3[i] = q2[i]
    OBVIOUS
  <2>3. \A i \in 1..Len(p3) : q3[Len(q2) + i] = p3[i]
    OBVIOUS
  <2> HIDE DEF p1, p2, p3, q2, q3
  <2>4. Len(q3) = Len(q2) + Len(p3)
    BY <2>1
  <2>. QED
    BY <2>1, <2>2, <2>3, <2>4, ConcatIs, Zenon
<1>. QED
  BY <1>1, <1>2 DEF AzureGrant, AzureBeginGetAccess

LEMMA AwsScript == AwsCreateSnapshots =
  <<Check, Create("snapshot"), Wait("snapshot"), Note("snapshot")>>
<1> DEFINE p1 == <<Check>>
           p2 == <<Create("snapshot"), Wait("snapshot")>>
           p3 == <<Note("snapshot")>>
           q2 == <<Check, Create("snapshot"), Wait("snapshot")>>
           q3 == <<Check, Create("snapshot"), Wait("snapshot"), Note("snapshot")>>
<1>1. p1 \o p2 = q2
  <2>1. /\ p1 \in Seq(Step) /\ p2 \in Seq(Step) /\ q2 \in Seq(Step)
        /\ Len(p1) = 1 /\ Len(p2) = 2 /\ Len(q2) = 3
    BY StepsTyped DEF What
  <2>2. \A i \in 1..Len(p1) : q2[i] = p1[i]
    OBVIOUS
  <2>3. \A i \in 1..Len(p2) : q2[Len(p1) + i] = p2[i]
    OBVIOUS
  <2> HIDE DEF p1, p2, p3, q2, q3
  <2>4. Len(q2) = Len(p1) + Len(p2)
    BY <2>1
  <2>. QED
    BY <2>1, <2>2, <2>3, <2>4, ConcatIs, Zenon
<1>2. q2 \o p3 = q3
  <2>1. /\ q2 \in Seq(Step) /\ p3 \in Seq(Step) /\ q3 \in Seq(Step)
        /\ Len(q2) = 3 /\ Len(p3) = 1 /\ Len(q3) = 4
    BY StepsTyped DEF What
  <2>2. \A i \in 1..Len(q2) : q3[i] = q2[i]
    OBVIOUS
  <2>3. \A i \in 1..Len(p3) : q3[Len(q2) + i] = p3[i]
    OBVIOUS
  <2> HIDE DEF p1, p2, p3, q2, q3
  <2>4. Len(q3) = Len(q2) + Len(p3)
    BY <2>1
  <2>. QED
    BY <2>1, <2>2, <2>3, <2>4, ConcatIs, Zenon
<1>. QED
  BY <1>1, <1>2 DEF AwsCreateSnapshots, AwsSnapshot

LEMMA GcpScript == GcpEnsureSnapshotAndExport =
  <<Check, Note("snapshot"), Create("snapshot"), Wait("snapshot"), Read, Note("object"),
    Create("object"), Wait("object")>>
<1> DEFINE p1 == <<Check, Note("snapshot")>>
           p2 == <<Create("snapshot"), Wait("snapshot"), Read>>
           p3 == <<Note("object")>>
           p4 == <<Create("object"), Wait("object")>>
           q2 == <<Check, Note("snapshot"), Create("snapshot"), Wait("snapshot"), Read>>
           q3 == <<Check, Note("snapshot"), Create("snapshot"), Wait("snapshot"), Read, Note("object")>>
           q4 == <<Check, Note("snapshot"), Create("snapshot"), Wait("snapshot"), Read, Note("object"), Create("object"), Wait("object")>>
<1>1. p1 \o p2 = q2
  <2>1. /\ p1 \in Seq(Step) /\ p2 \in Seq(Step) /\ q2 \in Seq(Step)
        /\ Len(p1) = 2 /\ Len(p2) = 3 /\ Len(q2) = 5
    BY StepsTyped DEF What
  <2>2. \A i \in 1..Len(p1) : q2[i] = p1[i]
    OBVIOUS
  <2>3. \A i \in 1..Len(p2) : q2[Len(p1) + i] = p2[i]
    OBVIOUS
  <2> HIDE DEF p1, p2, p3, p4, q2, q3, q4
  <2>4. Len(q2) = Len(p1) + Len(p2)
    BY <2>1
  <2>. QED
    BY <2>1, <2>2, <2>3, <2>4, ConcatIs, Zenon
<1>2. q2 \o p3 = q3
  <2>1. /\ q2 \in Seq(Step) /\ p3 \in Seq(Step) /\ q3 \in Seq(Step)
        /\ Len(q2) = 5 /\ Len(p3) = 1 /\ Len(q3) = 6
    BY StepsTyped DEF What
  <2>2. \A i \in 1..Len(q2) : q3[i] = q2[i]
    OBVIOUS
  <2>3. \A i \in 1..Len(p3) : q3[Len(q2) + i] = p3[i]
    OBVIOUS
  <2> HIDE DEF p1, p2, p3, p4, q2, q3, q4
  <2>4. Len(q3) = Len(q2) + Len(p3)
    BY <2>1
  <2>. QED
    BY <2>1, <2>2, <2>3, <2>4, ConcatIs, Zenon
<1>3. q3 \o p4 = q4
  <2>1. /\ q3 \in Seq(Step) /\ p4 \in Seq(Step) /\ q4 \in Seq(Step)
        /\ Len(q3) = 6 /\ Len(p4) = 2 /\ Len(q4) = 8
    BY StepsTyped DEF What
  <2>2. \A i \in 1..Len(q3) : q4[i] = q3[i]
    OBVIOUS
  <2>3. \A i \in 1..Len(p4) : q4[Len(q3) + i] = p4[i]
    OBVIOUS
  <2> HIDE DEF p1, p2, p3, p4, q2, q3, q4
  <2>4. Len(q4) = Len(q3) + Len(p4)
    BY <2>1
  <2>. QED
    BY <2>1, <2>2, <2>3, <2>4, ConcatIs, Zenon
<1>. QED
  BY <1>1, <1>2, <1>3 DEF GcpEnsureSnapshotAndExport, GcpSnapshot, GcpExport

LEMMA OlvmScript == CopyOlvmDisk.open =
  <<Try("transfer"), Check, Read, Drop("transfer"), Create("transfer"), Keep("transfer"),
    Wait("transfer"), Read>>
<1> DEFINE p1 == <<Try("transfer"), Check, Read, Drop("transfer"), Create("transfer"), Keep("transfer"), Wait("transfer")>>
           p2 == <<Read>>
           q2 == <<Try("transfer"), Check, Read, Drop("transfer"), Create("transfer"), Keep("transfer"), Wait("transfer"), Read>>
<1>1. p1 \o p2 = q2
  <2>1. /\ p1 \in Seq(Step) /\ p2 \in Seq(Step) /\ q2 \in Seq(Step)
        /\ Len(p1) = 7 /\ Len(p2) = 1 /\ Len(q2) = 8
    BY StepsTyped DEF What
  <2>2. \A i \in 1..Len(p1) : q2[i] = p1[i]
    OBVIOUS
  <2>3. \A i \in 1..Len(p2) : q2[Len(p1) + i] = p2[i]
    OBVIOUS
  <2> HIDE DEF p1, p2, q2
  <2>4. Len(q2) = Len(p1) + Len(p2)
    BY <2>1
  <2>. QED
    BY <2>1, <2>2, <2>3, <2>4, ConcatIs, Zenon
<1>. QED
  BY <1>1 DEF CopyOlvmDisk, OlvmOpen

LEMMA NutanixScript ==
  ASSUME src = "nutanix"
  PROVE  NutanixOpen =
    <<Check, Read, Try("image"), Create("image"), Note("image"), Wait("image"), Read,
      Note("image"), Read>>
<1> DEFINE p1 == <<Check, Read, Try("image"), Create("image")>>
           p2 == <<Note("image")>>
           p3 == <<Wait("image"), Read, Note("image"), Read>>
           q2 == <<Check, Read, Try("image"), Create("image"), Note("image")>>
           q3 == <<Check, Read, Try("image"), Create("image"), Note("image"), Wait("image"), Read, Note("image"), Read>>
<1>1. p1 \o p2 = q2
  <2>1. /\ p1 \in Seq(Step) /\ p2 \in Seq(Step) /\ q2 \in Seq(Step)
        /\ Len(p1) = 4 /\ Len(p2) = 1 /\ Len(q2) = 5
    BY StepsTyped DEF What
  <2>2. \A i \in 1..Len(p1) : q2[i] = p1[i]
    OBVIOUS
  <2>3. \A i \in 1..Len(p2) : q2[Len(p1) + i] = p2[i]
    OBVIOUS
  <2> HIDE DEF p1, p2, p3, q2, q3
  <2>4. Len(q2) = Len(p1) + Len(p2)
    BY <2>1
  <2>. QED
    BY <2>1, <2>2, <2>3, <2>4, ConcatIs, Zenon
<1>2. q2 \o p3 = q3
  <2>1. /\ q2 \in Seq(Step) /\ p3 \in Seq(Step) /\ q3 \in Seq(Step)
        /\ Len(q2) = 5 /\ Len(p3) = 4 /\ Len(q3) = 9
    BY StepsTyped DEF What
  <2>2. \A i \in 1..Len(q2) : q3[i] = q2[i]
    OBVIOUS
  <2>3. \A i \in 1..Len(p3) : q3[Len(q2) + i] = p3[i]
    OBVIOUS
  <2> HIDE DEF p1, p2, p3, q2, q3
  <2>4. Len(q3) = Len(q2) + Len(p3)
    BY <2>1
  <2>. QED
    BY <2>1, <2>2, <2>3, <2>4, ConcatIs, Zenon
<1>. QED
  BY <1>1, <1>2 DEF NutanixOpen

LEMMA PrismScript ==
  ASSUME src # "nutanix"
  PROVE  NutanixOpen =
    <<Check, Read, Try("image"), Create("image"), Wait("image"), Read, Note("image"), Read>>
<1> DEFINE p1 == <<Check, Read, Try("image"), Create("image")>>
           p2 == <<>>
           p3 == <<Wait("image"), Read, Note("image"), Read>>
           q2 == <<Check, Read, Try("image"), Create("image")>>
           q3 == <<Check, Read, Try("image"), Create("image"), Wait("image"), Read, Note("image"), Read>>
<1>1. p1 \o p2 = q2
  <2>1. /\ p1 \in Seq(Step) /\ p2 \in Seq(Step) /\ q2 \in Seq(Step)
        /\ Len(p1) = 4 /\ Len(p2) = 0 /\ Len(q2) = 4
    BY StepsTyped DEF What
  <2>2. \A i \in 1..Len(p1) : q2[i] = p1[i]
    OBVIOUS
  <2>3. \A i \in 1..Len(p2) : q2[Len(p1) + i] = p2[i]
    OBVIOUS
  <2> HIDE DEF p1, p2, p3, q2, q3
  <2>4. Len(q2) = Len(p1) + Len(p2)
    BY <2>1
  <2>. QED
    BY <2>1, <2>2, <2>3, <2>4, ConcatIs, Zenon
<1>2. q2 \o p3 = q3
  <2>1. /\ q2 \in Seq(Step) /\ p3 \in Seq(Step) /\ q3 \in Seq(Step)
        /\ Len(q2) = 4 /\ Len(p3) = 4 /\ Len(q3) = 8
    BY StepsTyped DEF What
  <2>2. \A i \in 1..Len(q2) : q3[i] = q2[i]
    OBVIOUS
  <2>3. \A i \in 1..Len(p3) : q3[Len(q2) + i] = p3[i]
    OBVIOUS
  <2> HIDE DEF p1, p2, p3, q2, q3
  <2>4. Len(q3) = Len(q2) + Len(p3)
    BY <2>1
  <2>. QED
    BY <2>1, <2>2, <2>3, <2>4, ConcatIs, Zenon
<1>. QED
  BY <1>1, <1>2 DEF NutanixOpen

(* Each of them has the shape of the scripts of its place. *)
LEMMA AzureSnapshotsFresh == Fresh("azure", "enter", AzureCreateSnapshots, {"snapshot"})
<1> DEFINE s == <<Check, Read, Note("snapshot"), Create("snapshot"), Wait("snapshot")>>
<1> USE DEF Allowed, Making, Taking, EnterKinds, First, Check, Read, Note, Create, Keep, Wait,
            Drop, Try
<1>1. s \in Seq(Step) /\ Len(s) = 5 /\ s # <<>> /\ Head(s) = Check
  BY StepsTyped DEF What
<1>2. \A i \in 1..5 : s[i] \in Allowed("azure", "enter")
  OBVIOUS
<1>3. /\ First("azure") = "snapshot" /\ Head(s) # Create("snapshot") /\ Head(s)[1] # "keep"
      /\ \A i \in 2..5 : s[i] = Create("snapshot") => s[i - 1] = Note("snapshot")
  BY <1>1
<1>7. \A i, j \in 1..5 : i < j /\ s[i][1] = "create" => s[j][1] \notin {"drop", "try"}
  OBVIOUS
<1>8. 4 \in 1..5 /\ s[4] = Create("snapshot")
  OBVIOUS
<1> HIDE DEF s
<1>6. Fresh("azure", "enter", s, {"snapshot"})
  BY <1>1, <1>2, <1>3, <1>7, <1>8 DEF Fresh, Shape, Creates
<1>. QED
  BY <1>6, AzureSnapshotsScript DEF s

LEMMA AzureGrantFresh == Fresh("azure", "enter", AzureGrant, {"grant"})
<1> DEFINE s == <<Check, Create("grant"), Wait("grant"), Note("grant")>>
<1> USE DEF Allowed, Making, Taking, EnterKinds, First, Check, Read, Note, Create, Keep, Wait,
            Drop, Try
<1>1. s \in Seq(Step) /\ Len(s) = 4 /\ s # <<>> /\ Head(s) = Check
  BY StepsTyped DEF What
<1>2. \A i \in 1..4 : s[i] \in Allowed("azure", "enter")
  OBVIOUS
<1>3. /\ First("azure") = "snapshot" /\ Head(s) # Create("snapshot") /\ Head(s)[1] # "keep"
      /\ \A i \in 2..4 : s[i] = Create("snapshot") => s[i - 1] = Note("snapshot")
  BY <1>1
<1>7. \A i, j \in 1..4 : i < j /\ s[i][1] = "create" => s[j][1] \notin {"drop", "try"}
  OBVIOUS
<1>8. 2 \in 1..4 /\ s[2] = Create("grant")
  OBVIOUS
<1> HIDE DEF s
<1>6. Fresh("azure", "enter", s, {"grant"})
  BY <1>1, <1>2, <1>3, <1>7, <1>8 DEF Fresh, Shape, Creates
<1>. QED
  BY <1>6, AzureGrantScript DEF s

LEMMA AwsFresh == Fresh("aws", "enter", AwsCreateSnapshots, {"snapshot"})
<1> DEFINE s == <<Check, Create("snapshot"), Wait("snapshot"), Note("snapshot")>>
<1> USE DEF Allowed, Making, Taking, EnterKinds, First, Check, Read, Note, Create, Keep, Wait,
            Drop, Try
<1>1. s \in Seq(Step) /\ Len(s) = 4 /\ s # <<>> /\ Head(s) = Check
  BY StepsTyped DEF What
<1>2. \A i \in 1..4 : s[i] \in Allowed("aws", "enter")
  OBVIOUS
<1>3. /\ First("aws") = "-" /\ Head(s) # Create("-") /\ Head(s)[1] # "keep"
      /\ \A i \in 2..4 : s[i] = Create("-") => s[i - 1] = Note("-")
  BY <1>1
<1>7. \A i, j \in 1..4 : i < j /\ s[i][1] = "create" => s[j][1] \notin {"drop", "try"}
  OBVIOUS
<1>8. 2 \in 1..4 /\ s[2] = Create("snapshot")
  OBVIOUS
<1> HIDE DEF s
<1>6. Fresh("aws", "enter", s, {"snapshot"})
  BY <1>1, <1>2, <1>3, <1>7, <1>8 DEF Fresh, Shape, Creates
<1>. QED
  BY <1>6, AwsScript DEF s

LEMMA GcpFresh == Fresh("gcp", "enter", GcpEnsureSnapshotAndExport, {"object"})
<1> DEFINE s == <<Check, Note("snapshot"), Create("snapshot"), Wait("snapshot"), Read,
                  Note("object"), Create("object"), Wait("object")>>
<1> USE DEF Allowed, Making, Taking, EnterKinds, First, Check, Read, Note, Create, Keep, Wait,
            Drop, Try
<1>1. s \in Seq(Step) /\ Len(s) = 8 /\ s # <<>> /\ Head(s) = Check
  BY StepsTyped DEF What
<1>2. \A i \in 1..8 : s[i] \in Allowed("gcp", "enter")
  OBVIOUS
<1>3. /\ First("gcp") = "snapshot" /\ Head(s) # Create("snapshot") /\ Head(s)[1] # "keep"
      /\ \A i \in 2..8 : s[i] = Create("snapshot") => s[i - 1] = Note("snapshot")
  BY <1>1
<1>7. \A i, j \in 1..8 : i < j /\ s[i][1] = "create" => s[j][1] \notin {"drop", "try"}
  OBVIOUS
<1>8. 7 \in 1..8 /\ s[7] = Create("object")
  OBVIOUS
<1> HIDE DEF s
<1>6. Fresh("gcp", "enter", s, {"object"})
  BY <1>1, <1>2, <1>3, <1>7, <1>8 DEF Fresh, Shape, Creates
<1>. QED
  BY <1>6, GcpScript DEF s

LEMMA VsphereFresh == Fresh("vsphere", "enter", NfcEnter, {"lease"})
<1> DEFINE s == <<Create("lease"), Keep("lease"), Wait("lease")>>
<1> USE DEF Allowed, Making, Taking, EnterKinds, First, Check, Read, Note, Create, Keep, Wait,
            Drop, Try
<1>1. s \in Seq(Step) /\ Len(s) = 3 /\ s # <<>> /\ Head(s) = Create("lease")
  BY StepsTyped DEF What
<1>2. \A i \in 1..3 : s[i] \in Allowed("vsphere", "enter")
  OBVIOUS
<1>3. /\ First("vsphere") = "-" /\ Head(s) # Create("-") /\ Head(s)[1] # "keep"
      /\ \A i \in 2..3 : s[i] = Create("-") => s[i - 1] = Note("-")
  BY <1>1
<1>4. \A i \in 1..3 : s[i][1] = "create" => i < 3 /\ s[i + 1] = Keep(s[i][2])
  OBVIOUS
<1>5. \A i \in 1..3 : s[i] # Check
  OBVIOUS
<1>7. \A i, j \in 1..3 : i < j /\ s[i][1] = "create" => s[j][1] \notin {"drop", "try"}
  OBVIOUS
<1>8. 1 \in 1..3 /\ s[1] = Create("lease")
  OBVIOUS
<1> HIDE DEF s
<1>6. Fresh("vsphere", "enter", s, {"lease"})
  BY <1>1, <1>2, <1>3, <1>4, <1>5, <1>7, <1>8 DEF Fresh, Shape, Creates
<1>. QED
  BY <1>6 DEF s, NfcEnter

LEMMA RecoveryPointFresh == Fresh("nutanix", "regions", MapRecoveryPoint, {})
<1> DEFINE s == <<Create("point"), Wait("point"), Note("point"), Read, Check, Read>>
<1> USE DEF Allowed, Making, Taking, RegionKinds, First, Check, Read, Note, Create, Keep, Wait,
            Drop, Try
<1>1. s \in Seq(Step) /\ Len(s) = 6 /\ s # <<>> /\ Head(s) = Create("point")
  BY StepsTyped DEF What
<1>2. \A i \in 1..6 : s[i] \in Allowed("nutanix", "regions")
  OBVIOUS
<1>3. /\ First("nutanix") = "-" /\ Head(s) # Create("-") /\ Head(s)[1] # "keep"
      /\ \A i \in 2..6 : s[i] = Create("-") => s[i - 1] = Note("-")
  BY <1>1
<1>7. \A i, j \in 1..6 : i < j /\ s[i][1] = "create" => s[j][1] \notin {"drop", "try"}
  OBVIOUS
<1> HIDE DEF s
<1>6. Fresh("nutanix", "regions", s, {})
  BY <1>1, <1>2, <1>3, <1>7 DEF Fresh, Shape, Creates
<1>. QED
  BY <1>6 DEF s, MapRecoveryPoint

LEMMA ProtectionDomainFresh == Fresh("prism_element", "regions", MapProtectionDomain, {})
<1> DEFINE s == <<Read, Try("domain"), Note("domain"), Create("domain"), Wait("domain"), Check,
                  Read>>
<1> USE DEF Allowed, Making, Taking, RegionKinds, First, Check, Read, Note, Create, Keep, Wait,
            Drop, Try
<1>1. s \in Seq(Step) /\ Len(s) = 7 /\ s # <<>> /\ Head(s) = Read
  BY StepsTyped DEF What
<1>2. \A i \in 1..7 : s[i] \in Allowed("prism_element", "regions")
  OBVIOUS
<1>3. /\ First("prism_element") = "domain" /\ Head(s) # Create("domain") /\ Head(s)[1] # "keep"
      /\ \A i \in 2..7 : s[i] = Create("domain") => s[i - 1] = Note("domain")
  BY <1>1
<1>7. \A i, j \in 1..7 : i < j /\ s[i][1] = "create" => s[j][1] \notin {"drop", "try"}
  OBVIOUS
<1> HIDE DEF s
<1>6. Fresh("prism_element", "regions", s, {})
  BY <1>1, <1>2, <1>3, <1>7 DEF Fresh, Shape, Creates
<1>. QED
  BY <1>6 DEF s, MapProtectionDomain

LEMMA OlvmFresh == Fresh("olvm", "open", CopyOlvmDisk.open, {"transfer"})
<1> DEFINE s == <<Try("transfer"), Check, Read, Drop("transfer"), Create("transfer"),
                  Keep("transfer"), Wait("transfer"), Read>>
<1> USE DEF Allowed, Making, Taking, OpenKinds, First, Check, Read, Note, Create, Keep, Wait,
            Drop, Try
<1>1. s \in Seq(Step) /\ Len(s) = 8 /\ s # <<>> /\ Head(s) = Try("transfer")
  BY StepsTyped DEF What
<1>2. \A i \in 1..8 : s[i] \in Allowed("olvm", "open")
  OBVIOUS
<1>3. /\ First("olvm") = "-" /\ Head(s) # Create("-") /\ Head(s)[1] # "keep"
      /\ \A i \in 2..8 : s[i] = Create("-") => s[i - 1] = Note("-")
  BY <1>1
<1>4. \A i \in 1..8 : s[i][1] = "create" => i < 8 /\ s[i + 1] = Keep(s[i][2])
  OBVIOUS
<1>7. \A i, j \in 1..8 : i < j /\ s[i][1] = "create" => s[j][1] \notin {"drop", "try"}
  OBVIOUS
<1>8. 5 \in 1..8 /\ s[5] = Create("transfer")
  OBVIOUS
<1> HIDE DEF s
<1>6. Fresh("olvm", "open", s, {"transfer"})
  BY <1>1, <1>2, <1>3, <1>4, <1>7, <1>8 DEF Fresh, Shape, Creates
<1>. QED
  BY <1>6, OlvmScript DEF s

LEMMA NutanixFresh ==
  ASSUME src = "nutanix"
  PROVE  Fresh("nutanix", "open", NutanixOpen, {"image"})
<1> DEFINE s == <<Check, Read, Try("image"), Create("image"), Note("image"), Wait("image"),
                  Read, Note("image"), Read>>
<1> USE DEF Allowed, Making, Taking, OpenKinds, First, Check, Read, Note, Create, Keep, Wait,
            Drop, Try
<1>1. s \in Seq(Step) /\ Len(s) = 9 /\ s # <<>> /\ Head(s) = Check
  BY StepsTyped DEF What
<1>2. \A i \in 1..9 : s[i] \in Allowed("nutanix", "open")
  OBVIOUS
<1>3. /\ First("nutanix") = "-" /\ Head(s) # Create("-") /\ Head(s)[1] # "keep"
      /\ \A i \in 2..9 : s[i] = Create("-") => s[i - 1] = Note("-")
  BY <1>1
<1>7. \A i, j \in 1..9 : i < j /\ s[i][1] = "create" => s[j][1] \notin {"drop", "try"}
  OBVIOUS
<1>8. 4 \in 1..9 /\ s[4] = Create("image")
  OBVIOUS
<1> HIDE DEF s
<1>6. Fresh("nutanix", "open", s, {"image"})
  BY <1>1, <1>2, <1>3, <1>7, <1>8 DEF Fresh, Shape, Creates
<1>. QED
  BY <1>6, NutanixScript DEF s

LEMMA PrismFresh ==
  ASSUME src # "nutanix"
  PROVE  Fresh("prism_element", "open", NutanixOpen, {"image"})
<1> DEFINE s == <<Check, Read, Try("image"), Create("image"), Wait("image"), Read,
                  Note("image"), Read>>
<1> USE DEF Allowed, Making, Taking, OpenKinds, First, Check, Read, Note, Create, Keep, Wait,
            Drop, Try
<1>1. s \in Seq(Step) /\ Len(s) = 8 /\ s # <<>> /\ Head(s) = Check
  BY StepsTyped DEF What
<1>2. \A i \in 1..8 : s[i] \in Allowed("prism_element", "open")
  OBVIOUS
<1>3. /\ First("prism_element") = "domain" /\ Head(s) # Create("domain") /\ Head(s)[1] # "keep"
      /\ \A i \in 2..8 : s[i] = Create("domain") => s[i - 1] = Note("domain")
  BY <1>1
<1>7. \A i, j \in 1..8 : i < j /\ s[i][1] = "create" => s[j][1] \notin {"drop", "try"}
  OBVIOUS
<1>8. 4 \in 1..8 /\ s[4] = Create("image")
  OBVIOUS
<1> HIDE DEF s
<1>6. Fresh("prism_element", "open", s, {"image"})
  BY <1>1, <1>2, <1>3, <1>7, <1>8 DEF Fresh, Shape, Creates
<1>. QED
  BY <1>6, PrismScript DEF s

LEMMA ProxmoxFresh == Fresh("proxmox", "open", ProxmoxOpen, {"nbd"})
<1> DEFINE s == <<Check, Read, Check, Read, Drop("nbd"), Note("nbd"), Create("nbd"),
                  Keep("nbd")>>
<1> USE DEF Allowed, Making, Taking, OpenKinds, First, Check, Read, Note, Create, Keep, Wait,
            Drop, Try
<1>1. s \in Seq(Step) /\ Len(s) = 8 /\ s # <<>> /\ Head(s) = Check
  BY StepsTyped DEF What
<1>2. \A i \in 1..8 : s[i] \in Allowed("proxmox", "open")
  OBVIOUS
<1>3. /\ First("proxmox") = "nbd" /\ Head(s) # Create("nbd") /\ Head(s)[1] # "keep"
      /\ \A i \in 2..8 : s[i] = Create("nbd") => s[i - 1] = Note("nbd")
  BY <1>1
<1>7. \A i, j \in 1..8 : i < j /\ s[i][1] = "create" => s[j][1] \notin {"drop", "try"}
  OBVIOUS
<1>8. 7 \in 1..8 /\ s[7] = Create("nbd")
  OBVIOUS
<1> HIDE DEF s
<1>6. Fresh("proxmox", "open", s, {"nbd"})
  BY <1>1, <1>2, <1>3, <1>7, <1>8 DEF Fresh, Shape, Creates
<1>. QED
  BY <1>6 DEF s, ProxmoxOpen

-----------------------------------------------------------------------------
(* Steps and scripts in general. *)

(* Where each step may stand, and what it is about *)
LEMMA AllowedIs ==
  ASSUME NEW x \in AllSources, NEW p \in Places, NEW t \in Allowed(x, p)
  PROVE  /\ t = <<t[1], t[2]>> /\ t[1] \in Op
         /\ t[1] \in {"ask", "force", "off"} <=> p = "down"
         /\ t[1] = "check" => t = Check
         /\ t[1] \in {"check", "read", "record", "create", "keep", "wait"} =>
              p \in {"enter", "regions", "open"}
         /\ t[1] = "drop" => p \in {"regions", "open", "finish", "failing"}
         /\ t[1] = "try" => p \in {"regions", "mapped", "open", "finish", "failing"}
         /\ t[1] \in {"record", "create", "keep", "wait", "drop", "try"} =>
              /\ t[2] \in What
              /\ p = "enter" => t[2] \in EnterKinds(x)
              /\ p \in {"regions", "mapped"} => t[2] \in RegionKinds(x)
              /\ p \in {"open", "finish", "failing"} => t[2] \in OpenKinds(x)
<1> USE DEF Check, Read, Note, Create, Keep, Wait, Drop, Try, Ask, TurnOff, Off, Op
<1> DEFINE Kinds == EnterKinds(x) \cup RegionKinds(x) \cup OpenKinds(x)
<1>1. Kinds \subseteq What
  BY DEF EnterKinds, RegionKinds, OpenKinds, What
<1>2. CASE p = "down"
  BY <1>2 DEF Allowed
<1>3. CASE p = "enter"
  BY <1>1, <1>3 DEF Allowed, Making
<1>4. CASE p = "regions"
  BY <1>1, <1>4 DEF Allowed, Making, Taking
<1>5. CASE p = "mapped"
  BY <1>1, <1>5 DEF Allowed
<1>6. CASE p = "open"
  BY <1>1, <1>6 DEF Allowed, Making, Taking
<1>7. CASE p \in {"finish", "failing"}
  BY <1>1, <1>7 DEF Allowed, Taking
<1>8. CASE p \notin {"down", "enter", "regions", "mapped", "open", "finish", "failing"}
  BY <1>8 DEF Allowed
<1>. QED
  BY <1>2, <1>3, <1>4, <1>5, <1>6, <1>7, <1>8, Zenon

(* A script that is over has every shape. *)
LEMMA EmptyShape ==
  ASSUME NEW x, NEW p
  PROVE  Shape(x, p, <<>>)
BY DEF Shape

LEMMA NoScript ==
  ASSUME NEW x, NEW p, NEW s, Shape(x, p, s), Allowed(x, p) = {}
  PROVE  s = <<>>
<1>1. s \in Seq(Step) /\ \A i \in 1..Len(s) : FALSE
  BY DEF Shape
<1>2. Len(s) \in Nat
  BY <1>1, LenProperties
<1>3. Len(s) = 0
  BY <1>1, <1>2
<1>. QED
  BY <1>1, <1>3, EmptySeq

(* The one deletion of a finally or an exit *)
LEMMA TryShape ==
  ASSUME NEW x, NEW p, NEW w \in What, Try(w) \in Allowed(x, p)
  PROVE  Shape(x, p, <<Try(w)>>) /\ Head(<<Try(w)>>) = Try(w) /\ <<Try(w)>> # <<>>
<1>1. <<Try(w)>> \in Seq(Step)
  BY StepsTyped
<1>2. Try(w) # Check /\ Try(w)[1] = "try"
  BY DEF Try, Check
<1>. QED
  BY <1>1, <1>2 DEF Shape

(* The rest of a script, and its next step *)
LEMMA TailShape ==
  ASSUME NEW x, NEW p, NEW s, Shape(x, p, s), s # <<>>
  PROVE  /\ Shape(x, p, Tail(s))
         /\ Head(s) \in Allowed(x, p)
         /\ Tail(s) # <<>> /\ Head(Tail(s)) = Create(First(x)) => Head(s) = Note(First(x))
         /\ x \in {"vsphere", "olvm"} /\ Head(s)[1] = "create" =>
              Tail(s) # <<>> /\ Head(Tail(s)) = Keep(Head(s)[2])
         /\ x = "vsphere" => Head(s) # Check
         /\ Head(s)[1] = "create" => ~Takes(Tail(s))
         /\ Takes(Tail(s)) => Takes(s)
         /\ Head(s)[1] \in {"drop", "try"} => Takes(s)
         /\ \A w : Creates(s, w) /\ Head(s) # Create(w) => Creates(Tail(s), w)
<1> DEFINE t == Tail(s)
<1>1. /\ s \in Seq(Step) /\ Len(s) \in Nat \ {0} /\ Head(s) = s[1]
      /\ t \in Seq(Step) /\ Len(t) = Len(s) - 1
      /\ \A i \in 1..Len(t) : t[i] = s[i + 1]
      /\ \A i \in 1..Len(t) : i + 1 \in 1..Len(s)
  BY HeadTailProperties, LenProperties DEF Shape
<1>2. 1 \in 1..Len(s)
  BY <1>1
<1>3. t # <<>> => 1 \in 1..Len(t) /\ Head(t) = t[1] /\ t[1] = s[2] /\ 2 \in 2..Len(s)
  BY <1>1
<1> HIDE DEF t
<1>4. Shape(x, p, t)
  <2>1. \A i \in 2..Len(t) : t[i] = Create(First(x)) => t[i - 1] = Note(First(x))
    <3> SUFFICES ASSUME NEW i \in 2..Len(t), t[i] = Create(First(x))
                 PROVE  t[i - 1] = Note(First(x))
      OBVIOUS
    <3>1. i + 1 \in 2..Len(s) /\ i \in 1..Len(t) /\ i - 1 \in 1..Len(t) /\ i + 1 - 1 = i
          /\ i - 1 + 1 = i
      BY <1>1
    <3>2. s[i + 1] = Create(First(x)) /\ t[i - 1] = s[i]
      BY <1>1, <3>1
    <3>. QED
      BY <3>1, <3>2 DEF Shape
  <2>2. \A i, j \in 1..Len(t) : i < j /\ t[i][1] = "create" => t[j][1] \notin {"drop", "try"}
    <3> SUFFICES ASSUME NEW i \in 1..Len(t), NEW j \in 1..Len(t), i < j, t[i][1] = "create"
                 PROVE  t[j][1] \notin {"drop", "try"}
      OBVIOUS
    <3>1. i + 1 < j + 1 /\ s[i + 1] = t[i] /\ s[j + 1] = t[j]
      BY <1>1
    <3>. QED
      BY <1>1, <3>1 DEF Shape
  <2>3. ASSUME x \in {"vsphere", "olvm"}, NEW i \in 1..Len(t), t[i][1] = "create"
        PROVE  i < Len(t) /\ t[i + 1] = Keep(t[i][2])
    <3>1. i + 1 < Len(s) /\ s[i + 1 + 1] = Keep(s[i + 1][2])
      BY <1>1, <2>3 DEF Shape
    <3>. QED
      BY <1>1, <3>1
  <2>. QED
    BY <1>1, <2>1, <2>2, <2>3 DEF Shape
<1>5. Head(s) \in Allowed(x, p) /\ (x = "vsphere" => Head(s) # Check)
  BY <1>1, <1>2 DEF Shape
<1>6. t # <<>> /\ Head(t) = Create(First(x)) => Head(s) = Note(First(x))
  BY <1>1, <1>3 DEF Shape
<1>7. x \in {"vsphere", "olvm"} /\ Head(s)[1] = "create" => t # <<>> /\ Head(t) = Keep(Head(s)[2])
  <2> SUFFICES ASSUME x \in {"vsphere", "olvm"}, Head(s)[1] = "create"
               PROVE  t # <<>> /\ Head(t) = Keep(Head(s)[2])
    OBVIOUS
  <2>1. 1 < Len(s) /\ s[1 + 1] = Keep(s[1][2])
    BY <1>1, <1>2 DEF Shape
  <2>2. t # <<>>
    BY <1>1, <2>1
  <2>. QED
    BY <1>1, <1>3, <2>1, <2>2
<1>8. Head(s)[1] = "create" => ~Takes(t)
  <2> SUFFICES ASSUME Head(s)[1] = "create", NEW j \in 1..Len(t)
               PROVE  t[j][1] \notin {"drop", "try"}
    BY DEF Takes
  <2>1. 1 < j + 1 /\ j + 1 \in 1..Len(s) /\ s[j + 1] = t[j]
    BY <1>1
  <2>. QED
    BY <1>1, <1>2, <2>1 DEF Shape
<1>9. (Takes(t) => Takes(s)) /\ (Head(s)[1] \in {"drop", "try"} => Takes(s))
  BY <1>1, <1>2 DEF Takes
<1>10. ASSUME NEW w, Creates(s, w), Head(s) # Create(w)
       PROVE  Creates(t, w)
  <2>1. PICK i \in 1..Len(s) : s[i] = Create(w)
    BY <1>10 DEF Creates
  <2>2. i # 1 /\ i - 1 \in 1..Len(t) /\ i - 1 + 1 = i
    BY <1>1, <1>10, <2>1
  <2>. QED
    BY <1>1, <2>1, <2>2 DEF Creates
<1>. QED
  BY <1>4, <1>5, <1>6, <1>7, <1>8, <1>9, <1>10 DEF t

(* What a source runs to bring the machine down, to enter its export, for  *)
(* the regions and for a disk                                              *)
LEMMA RunIs ==
  ASSUME src \in AllSources, capture \in {"off", "snapshot"}
  PROVE  /\ Shape(src, "down", Run.stop)
         /\ Run.enter \in Seq(Seq(Step)) /\ Len(Run.enter) = Scripts(src, capture)
         /\ \A n \in 1..Scripts(src, capture) :
              Fresh(src, "enter", Run.enter[n], Needs(src, capture, n))
         /\ Run.regions # <<>> => src \in {"nutanix", "prism_element"}
         /\ Fresh(src, "regions", Run.regions, {})
         /\ Fresh(src, "open", Run.copy.open, OpenKinds(src))
         /\ Shape(src, "finish", Run.copy.finish)
         /\ Run.copy.finish # <<>> => Head(Run.copy.finish)[1] \in {"drop", "try"}
         /\ First(src) \notin Run.exit.forgets
<1> DEFINE Claim(r) ==
         /\ Shape(src, "down", r.stop)
         /\ r.enter \in Seq(Seq(Step)) /\ Len(r.enter) = Scripts(src, capture)
         /\ \A n \in 1..Scripts(src, capture) :
              Fresh(src, "enter", r.enter[n], Needs(src, capture, n))
         /\ r.regions # <<>> => src \in {"nutanix", "prism_element"}
         /\ Fresh(src, "regions", r.regions, {})
         /\ Fresh(src, "open", r.copy.open, OpenKinds(src))
         /\ Shape(src, "finish", r.copy.finish)
         /\ r.copy.finish # <<>> => Head(r.copy.finish)[1] \in {"drop", "try"}
         /\ First(src) \notin r.exit.forgets
<1>1. ASSUME NEW x \in AllSources
      PROVE  Shape(x, "down", <<Ask, Off, TurnOff, Off>>) /\ Shape(x, "down", <<TurnOff, Off>>)
  <2>1. <<Ask, Off, TurnOff, Off>> \in Seq(Step) /\ <<TurnOff, Off>> \in Seq(Step)
    BY StepsTyped
  <2>. QED
    BY <2>1 DEF Shape, Allowed, Ask, TurnOff, Off, Create, Check
<1>2. ASSUME NEW x, NEW p
      PROVE  Fresh(x, p, <<>>, {}) /\ Shape(x, p, <<>>)
  BY EmptyShape DEF Fresh
<1>3. ASSUME NEW x, NEW p, p \in {"open"}, OpenKinds(x) = {}
      PROVE  Fresh(x, p, <<Read>>, {})
  <2>1. <<Read>> \in Seq(Step)
    BY StepsTyped
  <2>. QED
    BY <1>3, <2>1 DEF Fresh, Shape, Allowed, Read, Create, Check
<1>4. CASE src = "vsphere"
  <2>1. Run = RunVsphere
    BY <1>4 DEF Run
  <2>2. Claim(RunVsphere)
    <3>1. Scripts(src, capture) = 1 /\ OpenKinds(src) = {} /\ First(src) = "-"
      BY <1>4 DEF Scripts, OpenKinds, First
    <3>2. RunVsphere.enter \in Seq(Seq(Step)) /\ Len(RunVsphere.enter) = 1
      BY VsphereFresh DEF RunVsphere, Fresh, Shape
    <3>3. Fresh(src, "enter", RunVsphere.enter[1], Needs(src, capture, 1))
      BY <1>4, VsphereFresh DEF RunVsphere, Needs
    <3>4. Shape(src, "down", RunVsphere.stop)
      BY <1>1 DEF RunVsphere, VsphereShutDown
    <3>5. RunVsphere.regions = <<>> /\ Fresh(src, "regions", RunVsphere.regions, {})
      BY <1>2 DEF RunVsphere
    <3>6. Fresh(src, "open", RunVsphere.copy.open, OpenKinds(src))
      BY <1>2, <3>1 DEF RunVsphere, ExportVmwareDisk
    <3>8. RunVsphere.copy.finish = <<>> /\ Shape(src, "finish", RunVsphere.copy.finish)
      BY <1>2 DEF RunVsphere, ExportVmwareDisk
    <3>9. First(src) \notin RunVsphere.exit.forgets
      BY <3>1 DEF RunVsphere, ReleaseVsphere
    <3>. QED
      BY <1>4, <3>1, <3>2, <3>3, <3>4, <3>5, <3>6, <3>8, <3>9
  <2>. QED
    BY <2>1, <2>2
<1>5. CASE src = "azure"
  <2>1. Run = RunAzure
    BY <1>5 DEF Run
  <2>2. Claim(RunAzure)
    <3>1. OpenKinds(src) = {} /\ First(src) = "snapshot"
      BY <1>5 DEF OpenKinds, First
    <3>2. RunAzure.enter \in Seq(Seq(Step)) /\ Len(RunAzure.enter) = Scripts(src, capture)
      BY <1>5, AzureSnapshotsFresh, AzureGrantFresh DEF RunAzure, Fresh, Shape, Scripts
    <3>3. ASSUME NEW n \in 1..Scripts(src, capture)
          PROVE  Fresh(src, "enter", RunAzure.enter[n], Needs(src, capture, n))
      <4>1. CASE capture = "snapshot" /\ n = 1
        BY <1>5, <4>1, AzureSnapshotsFresh DEF RunAzure, Needs
      <4>2. CASE capture = "snapshot" /\ n = 2
        BY <1>5, <4>2, AzureGrantFresh DEF RunAzure, Needs
      <4>3. CASE capture # "snapshot" /\ n = 1
        BY <1>5, <4>3, AzureGrantFresh DEF RunAzure, Needs
      <4>. QED
        BY <1>5, <4>1, <4>2, <4>3 DEF Scripts
    <3>4. Shape(src, "down", RunAzure.stop)
      BY <1>1 DEF RunAzure, AzureDeallocate
    <3>5. RunAzure.regions = <<>> /\ Fresh(src, "regions", RunAzure.regions, {})
      BY <1>2 DEF RunAzure
    <3>6. Fresh(src, "open", RunAzure.copy.open, OpenKinds(src))
      BY <1>3, <3>1 DEF RunAzure, CopyAzureDisk
    <3>8. RunAzure.copy.finish = <<>> /\ Shape(src, "finish", RunAzure.copy.finish)
      BY <1>2 DEF RunAzure, CopyAzureDisk
    <3>9. First(src) \notin RunAzure.exit.forgets
      BY <3>1 DEF RunAzure, ReleaseAzure
    <3>. QED
      BY <1>5, <3>1, <3>2, <3>3, <3>4, <3>5, <3>6, <3>8, <3>9
  <2>. QED
    BY <2>1, <2>2
<1>6. CASE src = "gcp"
  <2>1. Run = RunGcp
    BY <1>6 DEF Run
  <2>2. Claim(RunGcp)
    <3>1. Scripts(src, capture) = 1 /\ OpenKinds(src) = {} /\ First(src) = "snapshot"
      BY <1>6 DEF Scripts, OpenKinds, First
    <3>2. RunGcp.enter \in Seq(Seq(Step)) /\ Len(RunGcp.enter) = 1
      BY GcpFresh DEF RunGcp, Fresh, Shape
    <3>3. Fresh(src, "enter", RunGcp.enter[1], Needs(src, capture, 1))
      BY <1>6, GcpFresh DEF RunGcp, Needs
    <3>4. Shape(src, "down", RunGcp.stop)
      BY <1>1 DEF RunGcp, GcpStop
    <3>5. RunGcp.regions = <<>> /\ Fresh(src, "regions", RunGcp.regions, {})
      BY <1>2 DEF RunGcp
    <3>6. Fresh(src, "open", RunGcp.copy.open, OpenKinds(src))
      BY <1>3, <3>1 DEF RunGcp, CopyGcpDisk
    <3>8. RunGcp.copy.finish = <<>> /\ Shape(src, "finish", RunGcp.copy.finish)
      BY <1>2 DEF RunGcp, CopyGcpDisk
    <3>9. First(src) \notin RunGcp.exit.forgets
      BY <3>1 DEF RunGcp, ReleaseGcp
    <3>. QED
      BY <1>6, <3>1, <3>2, <3>3, <3>4, <3>5, <3>6, <3>8, <3>9
  <2>. QED
    BY <2>1, <2>2
<1>7. CASE src = "aws"
  <2>1. Run = RunAws
    BY <1>7 DEF Run
  <2>2. Claim(RunAws)
    <3>1. Scripts(src, capture) = 1 /\ OpenKinds(src) = {} /\ First(src) = "-"
      BY <1>7 DEF Scripts, OpenKinds, First
    <3>2. RunAws.enter \in Seq(Seq(Step)) /\ Len(RunAws.enter) = 1
      BY AwsFresh DEF RunAws, Fresh, Shape
    <3>3. Fresh(src, "enter", RunAws.enter[1], Needs(src, capture, 1))
      BY <1>7, AwsFresh DEF RunAws, Needs
    <3>4. Shape(src, "down", RunAws.stop)
      BY <1>1 DEF RunAws, AwsStop
    <3>5. RunAws.regions = <<>> /\ Fresh(src, "regions", RunAws.regions, {})
      BY <1>2 DEF RunAws
    <3>6. Fresh(src, "open", RunAws.copy.open, OpenKinds(src))
      BY <1>3, <3>1 DEF RunAws, CopyAwsDisk
    <3>8. RunAws.copy.finish = <<>> /\ Shape(src, "finish", RunAws.copy.finish)
      BY <1>2 DEF RunAws, CopyAwsDisk
    <3>9. First(src) \notin RunAws.exit.forgets
      BY <3>1 DEF RunAws, ReleaseAws
    <3>. QED
      BY <1>7, <3>1, <3>2, <3>3, <3>4, <3>5, <3>6, <3>8, <3>9
  <2>. QED
    BY <2>1, <2>2
<1>8. CASE src = "olvm"
  <2>1. Run = RunOlvm
    BY <1>8 DEF Run
  <2>2. Claim(RunOlvm)
    <3>1. Scripts(src, capture) = 0 /\ OpenKinds(src) = {"transfer"} /\ First(src) = "-"
      BY <1>8 DEF Scripts, OpenKinds, First
    <3>2. RunOlvm.enter \in Seq(Seq(Step)) /\ Len(RunOlvm.enter) = 0
      BY DEF RunOlvm
    <3>4. Shape(src, "down", RunOlvm.stop)
      BY <1>1 DEF RunOlvm, OlvmShutDown
    <3>5. RunOlvm.regions = <<>> /\ Fresh(src, "regions", RunOlvm.regions, {})
      BY <1>2 DEF RunOlvm
    <3>6. Fresh(src, "open", RunOlvm.copy.open, OpenKinds(src))
      BY <1>8, <3>1, OlvmFresh DEF RunOlvm, CopyOlvmDisk
    <3>7. Shape(src, "finish", <<Drop("transfer")>>)
      BY <1>8, <3>1, StepsTyped DEF Shape, Allowed, Taking, Drop, Create, Check, Note, What
    <3>8. Shape(src, "finish", RunOlvm.copy.finish) /\ Head(RunOlvm.copy.finish)[1] \in {"drop", "try"}
      <4>1. RunOlvm.copy = CopyOlvmDisk
        BY DEF RunOlvm
      <4>2. CopyOlvmDisk.finish = <<Drop("transfer")>>
        BY DEF CopyOlvmDisk
      <4>. QED
        BY <3>7, <4>1, <4>2 DEF Drop
    <3>9. First(src) \notin RunOlvm.exit.forgets
      BY <3>1 DEF RunOlvm, ReleaseOlvm
    <3>. QED
      BY <1>8, <3>1, <3>2, <3>4, <3>5, <3>6, <3>8, <3>9
  <2>. QED
    BY <2>1, <2>2
<1>9. CASE src = "nutanix"
  <2>1. Run = RunNutanix
    BY <1>9 DEF Run
  <2>2. Claim(RunNutanix)
    <3>1. Scripts(src, capture) = 0 /\ OpenKinds(src) = {"image"} /\ First(src) = "-"
      BY <1>9 DEF Scripts, OpenKinds, First
    <3>2. RunNutanix.enter \in Seq(Seq(Step)) /\ Len(RunNutanix.enter) = 0
      BY DEF RunNutanix
    <3>4. Shape(src, "down", RunNutanix.stop)
      BY <1>1 DEF RunNutanix, NutanixShutDown
    <3>5. Fresh(src, "regions", RunNutanix.regions, {})
      BY <1>9, RecoveryPointFresh DEF RunNutanix
    <3>6. Fresh(src, "open", RunNutanix.copy.open, OpenKinds(src))
      BY <1>9, <3>1, NutanixFresh DEF RunNutanix, CopyNutanixDisk
    <3>7. Shape(src, "finish", <<Try("image")>>)
      BY <1>9, <3>1, StepsTyped DEF Shape, Allowed, Taking, Try, Create, Check, Note, What
    <3>8. Shape(src, "finish", RunNutanix.copy.finish) /\ Head(RunNutanix.copy.finish)[1] \in {"drop", "try"}
      BY <3>7 DEF RunNutanix, CopyNutanixDisk, Try
    <3>9. First(src) \notin RunNutanix.exit.forgets
      BY <3>1 DEF RunNutanix, ReleaseNutanix
    <3>. QED
      BY <1>9, <3>1, <3>2, <3>4, <3>5, <3>6, <3>8, <3>9
  <2>. QED
    BY <2>1, <2>2
<1>10. CASE src = "prism_element"
  <2>1. Run = RunNutanix
    BY <1>10 DEF Run
  <2>2. Claim(RunNutanix)
    <3>1. Scripts(src, capture) = 0 /\ OpenKinds(src) = {"image"} /\ First(src) = "domain"
      BY <1>10 DEF Scripts, OpenKinds, First
    <3>2. RunNutanix.enter \in Seq(Seq(Step)) /\ Len(RunNutanix.enter) = 0
      BY DEF RunNutanix
    <3>4. Shape(src, "down", RunNutanix.stop)
      BY <1>1 DEF RunNutanix, NutanixShutDown
    <3>5. Fresh(src, "regions", RunNutanix.regions, {})
      BY <1>10, ProtectionDomainFresh DEF RunNutanix
    <3>6. Fresh(src, "open", RunNutanix.copy.open, OpenKinds(src))
      BY <1>10, <3>1, PrismFresh DEF RunNutanix, CopyNutanixDisk
    <3>7. Shape(src, "finish", <<Try("image")>>)
      BY <1>10, <3>1, StepsTyped DEF Shape, Allowed, Taking, Try, Create, Check, Note, What
    <3>8. Shape(src, "finish", RunNutanix.copy.finish) /\ Head(RunNutanix.copy.finish)[1] \in {"drop", "try"}
      BY <3>7 DEF RunNutanix, CopyNutanixDisk, Try
    <3>9. First(src) \notin RunNutanix.exit.forgets
      BY <3>1 DEF RunNutanix, ReleaseNutanix
    <3>. QED
      BY <1>10, <3>1, <3>2, <3>4, <3>5, <3>6, <3>8, <3>9
  <2>. QED
    BY <2>1, <2>2
<1>11. CASE src = "hyperv"
  <2>1. Run = RunHyperv
    BY <1>11 DEF Run
  <2>2. Claim(RunHyperv)
    <3>1. Scripts(src, capture) = 0 /\ OpenKinds(src) = {} /\ First(src) = "-"
      BY <1>11 DEF Scripts, OpenKinds, First
    <3>2. RunHyperv.enter \in Seq(Seq(Step)) /\ Len(RunHyperv.enter) = 0
      BY DEF RunHyperv
    <3>4. Shape(src, "down", RunHyperv.stop)
      BY <1>1 DEF RunHyperv, HypervShutDown
    <3>5. RunHyperv.regions = <<>> /\ Fresh(src, "regions", RunHyperv.regions, {})
      BY <1>2 DEF RunHyperv
    <3>6. Fresh(src, "open", RunHyperv.copy.open, OpenKinds(src))
      BY <1>3, <3>1 DEF RunHyperv, CopyHypervDisk
    <3>8. RunHyperv.copy.finish = <<>> /\ Shape(src, "finish", RunHyperv.copy.finish)
      BY <1>2 DEF RunHyperv, CopyHypervDisk
    <3>9. First(src) \notin RunHyperv.exit.forgets
      BY <3>1 DEF RunHyperv
    <3>. QED
      BY <1>11, <3>1, <3>2, <3>4, <3>5, <3>6, <3>8, <3>9
  <2>. QED
    BY <2>1, <2>2
<1>12. CASE src = "proxmox"
  <2>1. Run = RunProxmox
    BY <1>12 DEF Run
  <2>2. Claim(RunProxmox)
    <3>1. Scripts(src, capture) = 0 /\ OpenKinds(src) = {"nbd"} /\ First(src) = "nbd"
      BY <1>12 DEF Scripts, OpenKinds, First
    <3>2. RunProxmox.enter \in Seq(Seq(Step)) /\ Len(RunProxmox.enter) = 0
      BY DEF RunProxmox
    <3>4. Shape(src, "down", RunProxmox.stop)
      BY <1>1 DEF RunProxmox, ProxmoxShutDown
    <3>5. RunProxmox.regions = <<>> /\ Fresh(src, "regions", RunProxmox.regions, {})
      BY <1>2 DEF RunProxmox
    <3>6. Fresh(src, "open", RunProxmox.copy.open, OpenKinds(src))
      BY <1>12, <3>1, ProxmoxFresh DEF RunProxmox, CopyProxmoxDisk
    <3>7. Shape(src, "finish", <<Try("nbd")>>)
      BY <1>12, <3>1, StepsTyped DEF Shape, Allowed, Taking, Try, Create, Check, Note, What
    <3>8. Shape(src, "finish", RunProxmox.copy.finish) /\ Head(RunProxmox.copy.finish)[1] \in {"drop", "try"}
      BY <3>7 DEF RunProxmox, CopyProxmoxDisk, Try
    <3>9. First(src) \notin RunProxmox.exit.forgets
      BY <3>1 DEF RunProxmox, ReleaseProxmox
    <3>. QED
      BY <1>12, <3>1, <3>2, <3>4, <3>5, <3>6, <3>8, <3>9
  <2>. QED
    BY <2>1, <2>2
<1>. QED
  BY <1>4, <1>5, <1>6, <1>7, <1>8, <1>9, <1>10, <1>11, <1>12 DEF AllSources

-----------------------------------------------------------------------------
(* What the steps have in common. *)

LEMMA JobKept ==
  ASSUME [Next]_vars
  PROVE  UNCHANGED job
BY DEF Next, TaskStep, vars, job, Quiet, CheckPower, DoStop, DoOff, DoCheck, DoRead, DoRecord,
       DoKeep, DoCreate, DoWait, DoDrop, EnterMore, RegionsDone, StartDisk, StartCopy, Copied,
       FinishDisk, FailDisk, ReleaseOk, ReleaseFails, ReleaseAborts, LeaveDone, AfterExport,
       ReleaseDone, FixupAndFinalize, RequestCancel, Crash, AskCleanup, GoesDown, Expire

LEMMA SourceTyped ==
  ASSUME TypeOK
  PROVE  /\ src \in AllSources /\ capture \in {"off", "snapshot"}
         /\ Disks \in Nat \ {0} /\ Last(src) \in 1..Disks /\ Last(src) = LastDisk
         /\ disk \in Nat \ {0} /\ round \in Nat \ {0} /\ attempt \in Nat \ {0}
         /\ Scripts(src, capture) \in 0..2
BY SourceAssumption DEF TypeOK, Disks, Last, LastDisk, Scripts

LEMMA MadeTyped ==
  ASSUME TypeOK, disk <= Disks, NEW w \in What
  PROVE  Made(w) \in Resource /\ Made(w)[1] = w
<1>1. disk \in Disk /\ 1 \in 1..MaxAttempts /\ attempt \in 1..MaxAttempts
  BY SourceAssumption, SourceTyped DEF TypeOK, Disk
<1>. QED
  BY <1>1 DEF Resource, Made

LEMMA FindableTyped ==
  ASSUME TypeOK, NEW l, l \subseteq Resource
  PROVE  Findable(l) \subseteq Resource /\ Objects \subseteq Resource
<1>1. 1 \in 1..MaxAttempts
  BY SourceAssumption
<1>2. Objects \subseteq Resource
  BY <1>1 DEF Objects, Resource, What
<1>. QED
  BY <1>2 DEF Findable

(* What an exception leaves behind *)
LEMMA RaiseIs ==
  ASSUME TypeOK, Placed, NEW why \in {"failed", "cancelled"}, Raise(why), UNCHANGED job,
         at \in {"down", "enter", "regions", "open", "copy", "finish", "failing"}
  PROVE  /\ UNCHANGED <<disk, round, attempt>>
         /\ Shape(src, at', todo')
         /\ todo' # <<>> => Head(todo')[1] = "try"
         /\ phase' \in Phases /\ outcome' \in {why, "none"}
         /\ record' \in {record, info}
         /\ pending' \in {pending, Findable(info)}
         /\ at = "down" => at' \in {"left", "ended"} /\ record' = info
         /\ at = "enter" /\ src = "vsphere" => at' \in {"left", "ended"} /\ record' = info
         /\ at = "enter" /\ src # "vsphere" =>
              at' = "leave" /\ pending' = Findable(info) /\ outcome' = why /\ record' = record
         /\ at = "regions" => at' = "mapped" /\ record' = record
         /\ at \in {"open", "copy", "finish", "failing"} =>
              at' = "failing" /\ outcome' = why /\ record' = record
         /\ at' = "left" => why = "cancelled"
<1>1. src \in AllSources
  BY SourceTyped
<1>2. CASE at = "down" \/ (at = "enter" /\ src = "vsphere")
  <2>1. End(why) /\ UNCHANGED pending /\ UNCHANGED <<disk, round, attempt>>
    BY <1>2 DEF Raise
  <2>. QED
    BY <1>2, <2>1, EmptyShape DEF End, Phases, TypeOK
<1>3. CASE at = "enter" /\ src # "vsphere"
  <2>1. /\ at' = "leave" /\ todo' = <<>> /\ outcome' = why
        /\ pending' = Findable(info)
        /\ UNCHANGED <<phase, record>> /\ UNCHANGED <<disk, round, attempt>>
    BY <1>3 DEF Raise
  <2>. QED
    BY <1>3, <2>1, EmptyShape DEF TypeOK
<1>4. CASE at = "regions"
  <2>1. RaiseInRegions(why) /\ UNCHANGED <<disk, round, attempt>>
    BY <1>4 DEF Raise
  <2>2. src \in {"nutanix", "prism_element"}
    BY <1>4 DEF Placed
  <2>3. Shape(src, "mapped", <<>>)
    BY EmptyShape
  <2>4. /\ src = "nutanix" => Shape(src, "mapped", <<Try("point")>>)
        /\ src = "prism_element" => Shape(src, "mapped", <<Try("domain")>>)
    BY TryShape DEF Allowed, RegionKinds, What
  <2>5. Shape(src, "mapped", RegionsLeft(info))
    BY <2>2, <2>3, <2>4 DEF RegionsLeft
  <2>6. RegionsLeft(info) # <<>> => Head(RegionsLeft(info))[1] = "try"
    BY DEF RegionsLeft, Try
  <2>. QED
    BY <1>4, <2>1, <2>5, <2>6 DEF RaiseInRegions, TypeOK
<1>5. CASE at \in {"open", "copy", "finish", "failing"}
  <2>1. /\ at' = "failing" /\ outcome' = why
        /\ todo' = IF src = "proxmox" /\ Made("nbd") \in handles THEN <<Try("nbd")>> ELSE <<>>
        /\ UNCHANGED <<phase, record, pending>> /\ UNCHANGED <<disk, round, attempt>>
    BY <1>5 DEF Raise
  <2>2. Shape(src, "failing", <<>>)
    BY EmptyShape
  <2>3. src = "proxmox" => Shape(src, "failing", <<Try("nbd")>>)
    BY TryShape DEF Allowed, OpenKinds, Taking, What
  <2>4. <<Try("nbd")>> # <<>> /\ Head(<<Try("nbd")>>)[1] = "try"
    BY DEF Try
  <2>. QED
    BY <1>5, <2>1, <2>2, <2>3, <2>4 DEF TypeOK
<1>. QED
  BY <1>2, <1>3, <1>4, <1>5

(* How the export starts *)
LEMMA StartIs ==
  ASSUME TypeOK, StartExport
  PROVE  /\ disk' = 1 /\ round' = 1 /\ attempt' = 1 /\ outcome' = "none" /\ pending' = {}
         /\ \/ /\ at' = "enter" /\ Scripts(src, capture) > 0
               /\ Fresh(src, "enter", todo', Needs(src, capture, 1))
            \/ /\ at' = "regions" /\ src \in {"nutanix", "prism_element"}
               /\ Fresh(src, "regions", todo', {})
            \/ at' = "disk" /\ todo' = <<>> /\ Scripts(src, capture) = 0
<1>1. src \in AllSources /\ capture \in {"off", "snapshot"} /\ Scripts(src, capture) \in 0..2
  BY SourceTyped
<1>2. CASE Run.enter # <<>>
  <2>1. Len(Run.enter) > 0 /\ Head(Run.enter) = Run.enter[1] /\ Len(Run.enter) = Scripts(src, capture)
    BY <1>1, <1>2, RunIs, HeadTailProperties, LenProperties, EmptySeq
  <2>2. Fresh(src, "enter", Run.enter[1], Needs(src, capture, 1))
    BY <1>1, <2>1, RunIs
  <2>3. Run.regions = <<>>
    BY <1>1, <2>1, RunIs DEF Scripts
  <2>4. /\ at' = "enter" /\ todo' = Head(Run.enter)
        /\ disk' = 1 /\ round' = 1 /\ attempt' = 1 /\ outcome' = "none" /\ pending' = {}
    BY <1>2, <2>3 DEF StartExport
  <2>5. Fresh(src, "enter", todo', Needs(src, capture, 1)) /\ Scripts(src, capture) > 0
    BY <2>1, <2>2, <2>4
  <2>. QED
    BY <2>4, <2>5
<1>3. CASE Run.enter = <<>>
  <2>1. Scripts(src, capture) = 0
    BY <1>1, <1>3, RunIs, EmptySeq
  <2>2. Run.regions # <<>> => src \in {"nutanix", "prism_element"} /\ Fresh(src, "regions", Run.regions, {})
    BY <1>1, RunIs
  <2>. QED
    BY <1>3, <2>1, <2>2 DEF StartExport
<1>. QED
  BY <1>2, <1>3

(* The step at the head of the script, wherever it is run *)
LEMMA HeadIs ==
  ASSUME TypeOK, Placed, at \in Scripted, todo # <<>>
  PROVE  /\ Head(todo) = <<Head(todo)[1], What1>> /\ Head(todo) \in Allowed(src, at)
         /\ Shape(src, at, Tail(todo))
         /\ Head(todo)[1] \in {"ask", "force", "off"} <=> at = "down"
         /\ Head(todo)[1] = "check" => src # "vsphere"
         /\ Head(todo)[1] \in {"check", "read", "record", "create", "keep", "wait"} =>
              at \in {"enter", "regions", "open"}
         /\ Head(todo)[1] = "drop" => at \in {"regions", "open", "finish", "failing"}
         /\ Head(todo)[1] = "try" => at \in {"regions", "mapped", "open", "finish", "failing"}
         /\ at # "down" => disk <= Disks
         /\ Head(todo)[1] \in {"record", "create", "keep", "wait", "drop", "try"} =>
              /\ What1 \in What /\ Made(What1) \in Resource
              /\ at = "enter" => What1 \in EnterKinds(src)
              /\ at \in {"regions", "mapped"} => What1 \in RegionKinds(src)
              /\ at \in {"open", "finish", "failing"} => What1 \in OpenKinds(src)
<1>1. src \in AllSources /\ at \in Places /\ Shape(src, at, todo)
  BY SourceTyped DEF TypeOK, Placed
<1>2. Head(todo) \in Allowed(src, at) /\ Shape(src, at, Tail(todo)) /\ (src = "vsphere" => Head(todo) # Check)
  BY <1>1, TailShape
<1>3. at # "down" => disk <= Disks
  BY DEF Placed, Scripted
<1> DEFINE t == Head(todo)
<1>4. /\ t = <<t[1], t[2]>> /\ t[1] \in Op
      /\ t[1] \in {"ask", "force", "off"} <=> at = "down"
      /\ t[1] = "check" => t = Check
      /\ t[1] \in {"check", "read", "record", "create", "keep", "wait"} =>
           at \in {"enter", "regions", "open"}
      /\ t[1] = "drop" => at \in {"regions", "open", "finish", "failing"}
      /\ t[1] = "try" => at \in {"regions", "mapped", "open", "finish", "failing"}
      /\ t[1] \in {"record", "create", "keep", "wait", "drop", "try"} =>
           /\ t[2] \in What
           /\ at = "enter" => t[2] \in EnterKinds(src)
           /\ at \in {"regions", "mapped"} => t[2] \in RegionKinds(src)
           /\ at \in {"open", "finish", "failing"} => t[2] \in OpenKinds(src)
  <2> HIDE DEF t
  <2>. QED
    BY <1>1, <1>2, AllowedIs DEF t
<1>5. t[1] \in {"record", "create", "keep", "wait", "drop", "try"} => Made(What1) \in Resource
  BY <1>3, <1>4, MadeTyped DEF What1
<1>. QED
  BY <1>2, <1>3, <1>4, <1>5 DEF What1

(* What a deletion may be about *)
LEMMA TargetsTyped ==
  ASSUME TypeOK, Placed, at \in Scripted, todo # <<>>, Head(todo)[1] \in {"drop", "try"},
         NEW gone \in Targets
  PROVE  gone \subseteq Resource
<1>1. Made(What1) \in Resource
  BY HeadIs
<1>2. \A w : Here(w) \subseteq world
  BY DEF Here
<1>3. CASE at # "open"
  BY <1>1, <1>3 DEF Targets
<1>4. CASE at = "open" /\ What1 = "image"
  <2>1. Head(todo) # Try("transfer")
    BY <1>4 DEF What1, Try
  <2>. QED
    BY <1>2, <1>4, <2>1 DEF Targets, TypeOK
<1>5. CASE at = "open" /\ What1 # "image"
  BY <1>2, <1>5 DEF Targets, TypeOK
<1>. QED
  BY <1>3, <1>4, <1>5

(* The task has a place, and what it keeps has its type. *)
LEMMA StepTyped ==
  ASSUME TypeOK, Placed, [Next]_vars
  PROVE  TypeOK' /\ Placed'
<1>1. UNCHANGED job
  BY JobKept
<1>2. src' = src /\ capture' = capture /\ consent' = consent
  BY <1>1 DEF job
<1>3. /\ src \in AllSources /\ capture \in {"off", "snapshot"}
      /\ Disks \in Nat \ {0} /\ Last(src) \in 1..Disks /\ Last(src) = LastDisk
      /\ disk \in Nat \ {0} /\ round \in Nat \ {0} /\ attempt \in Nat \ {0}
      /\ Scripts(src, capture) \in 0..2
  BY SourceTyped
<1>4. Disks' = Disks /\ Disk' = Disk /\ Resource' = Resource
  BY <1>2 DEF Disks, Disk, Resource
<1>5. Disk = 1..Disks /\ 1 \in 1..MaxAttempts /\ Findable(info) \subseteq Resource
  BY FindableTyped, SourceAssumption DEF Disk, TypeOK
<1> DEFINE JobTyped == src' \in Source /\ capture' \in {"off", "snapshot"} /\ consent' \in BOOLEAN
           PlaceTyped ==
             /\ at' \in Places /\ disk' \in 1..(Disks + 1) /\ round' \in 1..3 /\ attempt' \in 1..MaxAttempts
             /\ outcome' \in {"none", "done", "failed", "cancelled"} /\ pending' \subseteq Resource
             /\ Shape(src, at', todo')
             /\ at' \in {"enter", "regions", "mapped", "open", "copy", "finish", "failing"} => disk' <= Disks
             /\ at' = "enter" => disk' <= Last(src) /\ round' <= Scripts(src, capture)
             /\ at' \in {"regions", "mapped"} => src \in {"nutanix", "prism_element"}
           RestTyped ==
             /\ vm' \in {"on", "stopping", "off", "suspended"}
             /\ world' \subseteq Resource /\ info' \subseteq Resource
             /\ record' \subseteq Resource /\ handles' \subseteq Resource
             /\ status' \in [Disk -> {"pending", "copying", "copied", "failed"}]
             /\ cancel' \in BOOLEAN /\ phase' \in Phases
             /\ trouble' \in BOOLEAN /\ crashes' \in 0..MaxCrashes
<1>6. JobTyped
  <2>1. consent' \in BOOLEAN
    BY <1>2 DEF TypeOK
  <2>. QED
    BY <1>2, <2>1 DEF TypeOK
<1>7. ASSUME PlaceTyped, RestTyped
      PROVE  TypeOK' /\ Placed'
  <2>1. todo' \in Seq(Step)
    BY <1>7 DEF Shape
  <2>2. trouble' \in BOOLEAN /\ cancel' \in BOOLEAN
    BY <1>7
  <2>3. TypeOK'
    BY <1>4, <1>6, <1>7, <2>1, <2>2 DEF TypeOK
  <2>4. Placed'
    BY <1>2, <1>4, <1>7 DEF Placed
  <2>. QED
    BY <2>3, <2>4
<1>8. ASSUME at \in Scripted, todo # <<>>, Advance
      PROVE  PlaceTyped /\ phase' \in Phases
  <2>1. Shape(src, at, Tail(todo))
    BY <1>8, HeadIs
  <2>2. /\ at' = at /\ disk' = disk /\ round' = round /\ attempt' = attempt /\ outcome' = outcome
        /\ pending' = pending /\ phase' = phase /\ todo' = Tail(todo)
    BY <1>8 DEF Advance
  <2>. QED
    BY <2>1, <2>2 DEF TypeOK, Placed
<1>9. ASSUME NEW why \in {"failed", "cancelled"}, Raise(why),
             at \in {"down", "enter", "regions", "open", "copy", "finish", "failing"}
      PROVE  PlaceTyped /\ phase' \in Phases /\ record' \subseteq Resource
  <2>1. /\ UNCHANGED <<disk, round, attempt>>
        /\ Shape(src, at', todo')
        /\ phase' \in Phases /\ outcome' \in {why, "none"}
        /\ record' \in {record, info}
        /\ pending' \in {pending, Findable(info)}
        /\ at' \in {"left", "ended", "leave", "mapped", "failing"}
        /\ at' = "mapped" => at = "regions"
        /\ at' = "failing" => at \in {"open", "copy", "finish", "failing"}
    BY <1>1, <1>9, RaiseIs
  <2>2. /\ record' \subseteq Resource /\ pending' \subseteq Resource
        /\ disk' \in 1..(Disks + 1) /\ round' \in 1..3 /\ attempt' \in 1..MaxAttempts
    BY <1>5, <2>1 DEF TypeOK
  <2>3. at' \in {"mapped", "failing"} => disk' <= Disks
    BY <2>1 DEF Placed
  <2>4. at' = "mapped" => src \in {"nutanix", "prism_element"}
    BY <2>1 DEF Placed
  <2>. QED
    BY <2>1, <2>2, <2>3, <2>4 DEF Places
<1>10. ASSUME StartExport
       PROVE  PlaceTyped
  <2>1. /\ disk' = 1 /\ round' = 1 /\ attempt' = 1 /\ outcome' = "none" /\ pending' = {}
        /\ \/ /\ at' = "enter" /\ Scripts(src, capture) > 0
              /\ Fresh(src, "enter", todo', Needs(src, capture, 1))
           \/ /\ at' = "regions" /\ src \in {"nutanix", "prism_element"}
              /\ Fresh(src, "regions", todo', {})
           \/ at' = "disk" /\ todo' = <<>> /\ Scripts(src, capture) = 0
    BY <1>10, StartIs
  <2>2. Shape(src, at', todo')
    BY <2>1, EmptyShape DEF Fresh
  <2>. QED
    BY <1>3, <1>5, <2>1, <2>2 DEF Places
<1> HIDE DEF PlaceTyped
<1>11. CASE UNCHANGED vars
  <2>1. PlaceTyped
    BY <1>11 DEF PlaceTyped, TypeOK, Placed, vars, place
  <2>2. RestTyped
    BY <1>11 DEF TypeOK, vars, listed
  <2>. QED
    BY <1>7, <2>1, <2>2
<1>12. ASSUME CheckPower
       PROVE  PlaceTyped /\ RestTyped
  <2>1. /\ vm' = vm /\ world' = world /\ status' = status /\ cancel' = cancel /\ crashes' = crashes
        /\ info' = info /\ handles' = handles
    BY <1>12 DEF CheckPower, Quiet, listed
  <2>2. CASE StartExport /\ UNCHANGED <<phase, listed, trouble>>
    BY <1>10, <2>1, <2>2 DEF TypeOK, listed
  <2>3. CASE /\ at' = "down" /\ todo' = Run.stop
             /\ UNCHANGED <<phase, listed, disk, round, attempt, outcome, pending, trouble>>
    <3>1. Shape(src, at', todo')
      BY <1>3, <2>3, RunIs
    <3>2. PlaceTyped
      BY <2>3, <3>1 DEF PlaceTyped, TypeOK, Places
    <3>. QED
      BY <2>1, <2>3, <3>2 DEF TypeOK, listed
  <2>4. CASE /\ End("failed") /\ trouble' \in BOOLEAN
             /\ UNCHANGED <<info, handles, disk, round, attempt, pending>>
    <3>1. at' = "ended" /\ todo' = <<>> /\ phase' = "FAILED" /\ record' = info /\ outcome' = "failed"
      BY <2>4 DEF End
    <3>2. PlaceTyped
      BY <2>4, <3>1, EmptyShape DEF PlaceTyped, TypeOK, Places
    <3>. QED
      BY <2>1, <2>4, <3>1, <3>2 DEF TypeOK, Phases
  <2>5. trouble \in BOOLEAN
    BY DEF TypeOK
  <2>. QED
    BY <1>12, <2>2, <2>3, <2>4, <2>5 DEF CheckPower
<1>13. ASSUME DoStop
       PROVE  PlaceTyped /\ RestTyped
  <2>1. at \in Scripted /\ todo # <<>> /\ at = "down"
    BY <1>13, HeadIs DEF DoStop, Next1
  <2>2. /\ vm' \in {vm, "on", "stopping", "suspended"}
        /\ UNCHANGED <<world, info, handles, status, cancel, crashes>>
    BY <1>13 DEF DoStop, Quiet
  <2>3. CASE Advance /\ UNCHANGED <<record, trouble>>
    BY <1>8, <2>1, <2>2, <2>3 DEF TypeOK
  <2>4. CASE Failing("failed")
    BY <1>9, <2>1, <2>2, <2>4 DEF TypeOK, Failing
  <2>. QED
    BY <1>13, <2>3, <2>4 DEF DoStop
<1>14. ASSUME DoOff
       PROVE  PlaceTyped /\ RestTyped
  <2>1. at \in Scripted /\ todo # <<>> /\ at = "down"
    BY <1>14, HeadIs DEF DoOff, Next1
  <2>2. UNCHANGED <<vm, world, info, handles, status, cancel, crashes>>
    BY <1>14 DEF DoOff, Quiet
  <2>3. CASE StartExport /\ UNCHANGED <<phase, record, trouble>>
    BY <1>10, <2>2, <2>3 DEF TypeOK
  <2>4. CASE Advance /\ UNCHANGED <<record, trouble>>
    BY <1>8, <2>1, <2>2, <2>4 DEF TypeOK
  <2>5. CASE Failing("failed")
    BY <1>9, <2>1, <2>2, <2>5 DEF TypeOK, Failing
  <2>6. CASE Raise("cancelled") /\ UNCHANGED trouble
    BY <1>9, <2>1, <2>2, <2>6 DEF TypeOK
  <2>. QED
    BY <1>14, <2>3, <2>4, <2>5, <2>6 DEF DoOff
<1>15. ASSUME DoCheck \/ DoRead \/ DoWait
       PROVE  PlaceTyped /\ RestTyped
  <2>1. at \in Scripted /\ todo # <<>> /\ Head(todo)[1] \in {"check", "read", "wait"}
    BY <1>15 DEF DoCheck, DoRead, DoWait, Next1
  <2>2. at \in {"enter", "regions", "open"}
    BY <2>1, HeadIs
  <2>3. UNCHANGED <<vm, world, info, handles, status, cancel, crashes>>
    BY <1>15 DEF DoCheck, DoRead, DoWait, Quiet
  <2>4. CASE Advance /\ UNCHANGED <<record, trouble>>
    BY <1>8, <2>1, <2>3, <2>4 DEF TypeOK
  <2>5. CASE Failing("failed")
    BY <1>9, <2>2, <2>3, <2>5 DEF TypeOK, Failing
  <2>6. CASE Raise("cancelled") /\ UNCHANGED trouble
    BY <1>9, <2>2, <2>3, <2>6 DEF TypeOK
  <2>. QED
    BY <1>15, <2>4, <2>5, <2>6 DEF DoCheck, DoRead, DoWait
<1>16. ASSUME DoRecord \/ DoKeep
       PROVE  PlaceTyped /\ RestTyped
  <2>1. at \in Scripted /\ todo # <<>> /\ Head(todo)[1] \in {"record", "keep"} /\ Advance
    BY <1>16 DEF DoRecord, DoKeep, Next1
  <2>2. Made(What1) \in Resource
    BY <2>1, HeadIs
  <2>3. /\ UNCHANGED <<vm, world, status, trouble, cancel, crashes>>
        /\ info' \in {info, info \cup {Made(What1)}}
        /\ record' \in {record, info'}
        /\ handles' \in {handles, handles \cup {Made(What1)}}
    BY <1>16 DEF DoRecord, DoKeep, Quiet
  <2>4. info' \subseteq Resource /\ handles' \subseteq Resource /\ record' \subseteq Resource
    BY <2>2, <2>3 DEF TypeOK
  <2>. QED
    BY <1>8, <2>1, <2>3, <2>4 DEF TypeOK
<1>17. ASSUME DoCreate
       PROVE  PlaceTyped /\ RestTyped
  <2>1. at \in Scripted /\ todo # <<>> /\ Head(todo)[1] = "create"
    BY <1>17 DEF DoCreate, Next1
  <2>2. Made(What1) \in Resource /\ at \in {"enter", "regions", "open"}
    BY <2>1, HeadIs
  <2>3. /\ UNCHANGED <<vm, info, handles, status, cancel, crashes>>
        /\ world' \in {world, world \cup {Made(What1)}}
    BY <1>17 DEF DoCreate, Quiet
  <2>4. world' \subseteq Resource
    BY <2>2, <2>3 DEF TypeOK
  <2>5. CASE Advance /\ UNCHANGED <<record, trouble>>
    BY <1>8, <2>1, <2>3, <2>4, <2>5 DEF TypeOK
  <2>6. CASE Failing("failed")
    BY <1>9, <2>2, <2>3, <2>4, <2>6 DEF TypeOK, Failing
  <2>. QED
    BY <1>17, <2>5, <2>6 DEF DoCreate
<1>18. ASSUME DoDrop
       PROVE  PlaceTyped /\ RestTyped
  <2>1. at \in Scripted /\ todo # <<>> /\ Head(todo)[1] \in {"drop", "try"}
    BY <1>18 DEF DoDrop
  <2>2. /\ UNCHANGED <<vm, status, cancel, crashes>>
        /\ world' \subseteq world /\ info' \subseteq info /\ handles' \subseteq handles
    BY <1>18 DEF DoDrop, Quiet
  <2>3. world' \subseteq Resource /\ info' \subseteq Resource /\ handles' \subseteq Resource
    BY <2>2 DEF TypeOK
  <2>4. CASE /\ Advance /\ trouble' \in {trouble, TRUE}
             /\ record' \in {record, info'}
    <3>1. record' \subseteq Resource
      BY <2>3, <2>4 DEF TypeOK
    <3>. QED
      BY <1>8, <2>1, <2>2, <2>3, <2>4, <3>1 DEF TypeOK
  <2>5. CASE Head(todo)[1] = "drop" /\ Failing("failed")
    <3>1. at \in {"regions", "open", "finish", "failing"}
      BY <2>1, <2>5, HeadIs
    <3>. QED
      BY <1>9, <2>2, <2>3, <2>5, <3>1 DEF TypeOK, Failing
  <2>. QED
    BY <1>18, <2>4, <2>5 DEF DoDrop
<1>19. ASSUME EnterMore
       PROVE  PlaceTyped /\ RestTyped
  <2>1. /\ UNCHANGED <<vm, world, listed, status, phase, attempt, outcome, pending, trouble, cancel, crashes>>
        /\ at = "enter" /\ todo = <<>> /\ round <= Scripts(src, capture) /\ disk <= Last(src)
        /\ Shape(src, at, todo)
    BY <1>19 DEF EnterMore, Quiet, Placed
  <2>2. RestTyped
    BY <2>1 DEF TypeOK, listed
  <2>3. CASE disk < LastDisk /\ disk' = disk + 1 /\ todo' = Run.enter[round] /\ UNCHANGED <<at, round>>
    <3>1. Shape(src, at', todo')
      BY <1>3, <2>1, <2>3, RunIs DEF Fresh
    <3>2. disk' \in 1..(Disks + 1) /\ disk' <= Last(src) /\ disk' <= Disks
      BY <1>3, <2>3
    <3>. QED
      BY <2>1, <2>3, <3>1, <3>2, <2>2 DEF PlaceTyped, TypeOK, Places
  <2>4. CASE /\ round < Len(Run.enter)
             /\ disk' = 1 /\ round' = round + 1 /\ todo' = Run.enter[round + 1] /\ UNCHANGED at
    <3>1. round + 1 \in 1..Scripts(src, capture) /\ round + 1 \in 1..3
      BY <1>3, <2>4, RunIs
    <3>2. Shape(src, at', todo')
      BY <1>3, <2>1, <2>4, <3>1, RunIs DEF Fresh
    <3>3. 1 \in 1..(Disks + 1) /\ 1 <= Last(src) /\ 1 <= Disks
      BY <1>3
    <3>. QED
      BY <2>1, <2>4, <3>1, <3>2, <3>3, <2>2 DEF PlaceTyped, TypeOK, Places
  <2>5. CASE disk' = 1 /\ at' = "disk" /\ UNCHANGED <<round, todo>>
    <3>1. 1 \in 1..(Disks + 1) /\ Shape(src, at', todo')
      BY <1>3, <2>1, <2>5, EmptyShape
    <3>. QED
      BY <2>1, <2>5, <3>1, <2>2 DEF PlaceTyped, TypeOK, Places
  <2>. QED
    BY <1>19, <2>2, <2>3, <2>4, <2>5 DEF EnterMore
<1>20. ASSUME RegionsDone
       PROVE  PlaceTyped /\ RestTyped
  <2>1. /\ UNCHANGED <<vm, world, listed, status, phase, disk, round, attempt, trouble, cancel, crashes>>
        /\ todo = <<>> /\ at \in {"regions", "mapped"}
        /\ src \in {"nutanix", "prism_element"} /\ disk <= Disks
    BY <1>20 DEF RegionsDone, Quiet, Placed
  <2>2. RestTyped
    BY <2>1 DEF TypeOK, listed
  <2>3. CASE at' = "mapped" /\ todo' = RegionsLeft(info) /\ UNCHANGED <<pending, outcome>>
    <3>1. /\ Shape(src, "mapped", <<>>)
          /\ src = "nutanix" => Shape(src, "mapped", <<Try("point")>>)
          /\ src = "prism_element" => Shape(src, "mapped", <<Try("domain")>>)
      BY EmptyShape, TryShape DEF Allowed, RegionKinds, What
    <3>2. Shape(src, at', todo')
      BY <2>1, <2>3, <3>1 DEF RegionsLeft
    <3>. QED
      BY <2>1, <2>3, <3>2, <2>2 DEF PlaceTyped, TypeOK, Places
  <2>4. CASE at' = "leave" /\ pending' = info /\ UNCHANGED outcome /\ UNCHANGED todo
    BY <2>1, <2>4, EmptyShape, <2>2 DEF PlaceTyped, TypeOK, Places
  <2>5. CASE at' = "disk" /\ UNCHANGED <<pending, outcome>> /\ UNCHANGED todo
    BY <2>1, <2>5, EmptyShape, <2>2 DEF PlaceTyped, TypeOK, Places
  <2>. QED
    BY <1>20, <2>2, <2>3, <2>4, <2>5 DEF RegionsDone
<1>21. ASSUME NEW how \in {"none", "done", "failed", "cancelled"}, Leave(how, info), UNCHANGED <<disk, round>>,
              attempt' \in 1..MaxAttempts
       PROVE  PlaceTyped
  <2>1. ToRelease(info) \subseteq Resource
    BY <1>5 DEF ToRelease, TypeOK
  <2>. QED
    BY <1>21, <2>1, EmptyShape DEF Leave, PlaceTyped, TypeOK, Places
<1>22. ASSUME StartDisk
       PROVE  PlaceTyped /\ RestTyped
  <2>1. /\ UNCHANGED <<vm, world, info, handles, phase, disk, round, attempt, cancel, crashes>>
        /\ at = "disk" /\ attempt' \in 1..MaxAttempts
    BY <1>22 DEF StartDisk, Quiet, TypeOK
  <2>2. status' \in [Disk -> {"pending", "copying", "copied", "failed"}]
    BY <1>22 DEF StartDisk, TypeOK
  <2>3. record' \in {record, info} /\ trouble' \in {trouble, TRUE}
    BY <1>22 DEF StartDisk
  <2>4. RestTyped
    BY <2>1, <2>2, <2>3 DEF TypeOK
  <2>5. CASE /\ disk <= Disks /\ at' = "open" /\ todo' = Run.copy.open
             /\ UNCHANGED <<outcome, pending, trouble>>
    <3>1. Shape(src, at', todo')
      BY <1>3, <2>5, RunIs DEF Fresh
    <3>. QED
      BY <2>1, <2>5, <3>1, <2>4 DEF PlaceTyped, TypeOK, Places
  <2>. QED
    BY <1>21, <1>22, <2>1, <2>4, <2>5 DEF StartDisk
<1>23. ASSUME StartCopy
       PROVE  PlaceTyped /\ RestTyped
  <2>1. /\ UNCHANGED <<vm, world, listed, status, phase, disk, round, attempt, outcome, pending, trouble>>
        /\ UNCHANGED <<todo, cancel, crashes>> /\ todo = <<>> /\ at' = "copy" /\ disk <= Disks
    BY <1>23 DEF StartCopy, Quiet, Placed
  <2>2. Shape(src, at', todo')
    BY <2>1, EmptyShape
  <2>. QED
    BY <2>1, <2>2 DEF PlaceTyped, TypeOK, Places, listed
<1>24. ASSUME Copied
       PROVE  PlaceTyped /\ RestTyped
  <2>1. /\ UNCHANGED <<vm, world, info, handles, status, cancel, crashes>>
        /\ at = "copy" /\ disk <= Disks
    BY <1>24 DEF Copied, Quiet, Placed
  <2>2. CASE /\ at' = "finish" /\ todo' = Run.copy.finish
             /\ UNCHANGED <<phase, record, disk, round, attempt, outcome, pending, trouble>>
    <3>1. Shape(src, at', todo')
      BY <1>3, <2>2, RunIs
    <3>. QED
      BY <2>1, <2>2, <3>1 DEF PlaceTyped, TypeOK, Places
  <2>3. CASE Failing("failed")
    BY <1>9, <2>1, <2>3 DEF TypeOK, Failing
  <2>4. CASE Raise("cancelled") /\ UNCHANGED trouble
    BY <1>9, <2>1, <2>4 DEF TypeOK
  <2>. QED
    BY <1>24, <2>2, <2>3, <2>4 DEF Copied
<1>25. ASSUME FinishDisk
       PROVE  PlaceTyped /\ RestTyped
  <2>1. /\ UNCHANGED <<vm, world, info, handles, phase, todo, round, outcome, pending, trouble>>
        /\ UNCHANGED <<cancel, crashes>> /\ todo = <<>> /\ at' = "disk" /\ disk' = disk + 1
        /\ attempt' = 1 /\ record' = info /\ disk <= Disks
        /\ status' = [status EXCEPT ![disk] = "copied"]
    BY <1>25 DEF FinishDisk, Quiet, Placed
  <2>2. Shape(src, at', todo') /\ disk' \in 1..(Disks + 1)
    BY <1>3, <2>1, EmptyShape
  <2>3. status' \in [Disk -> {"pending", "copying", "copied", "failed"}]
    BY <2>1 DEF TypeOK
  <2>. QED
    BY <1>5, <2>1, <2>2, <2>3 DEF PlaceTyped, TypeOK, Places
<1>26. ASSUME FailDisk
       PROVE  PlaceTyped /\ RestTyped
  <2>1. /\ UNCHANGED <<vm, world, info, handles, phase, disk, round, trouble, cancel, crashes>>
        /\ status' = [status EXCEPT ![disk] = "failed"] /\ todo = <<>> /\ outcome \in {"none", "done", "failed", "cancelled"}
    BY <1>26 DEF FailDisk, Quiet, TypeOK
  <2>2. status' \in [Disk -> {"pending", "copying", "copied", "failed"}]
    BY <2>1 DEF TypeOK
  <2>3. CASE /\ attempt < MaxAttempts /\ at' = "disk" /\ attempt' = attempt + 1
             /\ outcome' = "none" /\ record' = info /\ UNCHANGED <<todo, pending>>
    <3>1. Shape(src, at', todo') /\ attempt' \in 1..MaxAttempts
      BY <2>1, <2>3, EmptyShape, SourceAssumption DEF TypeOK
    <3>. QED
      BY <2>1, <2>2, <2>3, <3>1 DEF PlaceTyped, TypeOK, Places
  <2>4. CASE Leave(outcome, info) /\ record' \in {info, record} /\ UNCHANGED attempt
    <3>1. attempt' \in 1..MaxAttempts
      BY <2>4 DEF TypeOK
    <3>. QED
      BY <1>21, <2>1, <2>2, <2>4, <3>1 DEF TypeOK
  <2>. QED
    BY <1>26, <2>3, <2>4 DEF FailDisk
<1>27. ASSUME NEW r \in pending, ReleaseOk(r) \/ ReleaseFails(r)
       PROVE  PlaceTyped /\ RestTyped
  <2>1. /\ UNCHANGED <<vm, record, status, phase, at, todo, disk, round, attempt, outcome, cancel, crashes>>
        /\ world' \subseteq world /\ info' \subseteq info /\ handles' \subseteq handles
        /\ pending' \subseteq pending /\ trouble' \in {trouble, TRUE}
    BY <1>27 DEF ReleaseOk, ReleaseFails, Quiet
  <2>2. PlaceTyped
    BY <2>1 DEF PlaceTyped, TypeOK, Placed
  <2>3. RestTyped
    BY <2>1 DEF TypeOK
  <2>. QED
    BY <2>2, <2>3
<1>28. ASSUME ReleaseAborts
       PROVE  PlaceTyped /\ RestTyped
  <2>1. /\ UNCHANGED <<vm, world, listed, status, phase, at, todo, disk, round, attempt, cancel, crashes>>
        /\ pending' = {} /\ trouble' = TRUE /\ outcome' \in {outcome, "failed"}
    BY <1>28 DEF ReleaseAborts, Quiet
  <2>2. PlaceTyped
    BY <2>1 DEF PlaceTyped, TypeOK, Placed
  <2>3. RestTyped
    BY <2>1 DEF TypeOK, listed
  <2>. QED
    BY <2>2, <2>3
<1>29. ASSUME LeaveDone \/ AfterExport \/ ReleaseDone \/ FixupAndFinalize
       PROVE  PlaceTyped /\ RestTyped
  <2>1. /\ UNCHANGED <<vm, world, info, handles, status, disk, round, attempt, cancel, crashes>>
        /\ at \in {"leave", "left", "release", "fixup"} /\ at' \in {"left", "ended", "fixup", "release"}
        /\ record' \in {record, info} /\ pending' \in {pending, Findable(info)}
        /\ todo' \in {todo, <<>>} /\ outcome' \in {outcome, "failed", "cancelled"}
        /\ phase' \in Phases
    BY <1>29 DEF LeaveDone, AfterExport, ReleaseDone, FixupAndFinalize, End, Quiet, Phases, TypeOK, listed
  <2>2. trouble' \in BOOLEAN
    BY <1>29 DEF LeaveDone, AfterExport, ReleaseDone, FixupAndFinalize, TypeOK
  <2>3. todo' = <<>>
    BY <2>1, NoScript DEF Placed, Allowed
  <2>4. PlaceTyped
    BY <1>5, <2>1, <2>3, EmptyShape DEF PlaceTyped, TypeOK, Places
  <2>. QED
    BY <2>1, <2>2, <2>4 DEF TypeOK
<1>30. ASSUME RequestCancel \/ GoesDown \/ Expire
       PROVE  PlaceTyped /\ RestTyped
  <2>1. /\ UNCHANGED <<listed, status, phase, place, trouble, crashes>>
        /\ vm' \in {vm, "off"} /\ world' \subseteq world /\ cancel' \in {cancel, TRUE}
    BY <1>30 DEF RequestCancel, GoesDown, Expire
  <2>2. PlaceTyped
    BY <2>1 DEF PlaceTyped, TypeOK, Placed, place
  <2>3. RestTyped
    BY <2>1 DEF TypeOK, listed
  <2>. QED
    BY <2>2, <2>3
<1>31. ASSUME Crash
       PROVE  PlaceTyped /\ RestTyped
  <2>1. /\ UNCHANGED <<vm, world, record, status, disk, round, attempt>>
        /\ crashes' = crashes + 1 /\ crashes < MaxCrashes /\ trouble' = TRUE
        /\ at' = "ended" /\ phase' = "FAILED" /\ cancel' = FALSE
        /\ info' = {} /\ handles' = {} /\ todo' = <<>> /\ pending' = {} /\ outcome' = "none"
    BY <1>31 DEF Crash
  <2>2. crashes' \in 0..MaxCrashes
    BY <2>1, SourceAssumption DEF TypeOK
  <2>3. PlaceTyped
    BY <2>1, EmptyShape DEF PlaceTyped, TypeOK, Places
  <2>. QED
    BY <2>1, <2>2, <2>3 DEF TypeOK, Phases
<1>32. ASSUME AskCleanup
       PROVE  PlaceTyped /\ RestTyped
  <2>1. /\ UNCHANGED <<vm, world, record, handles, status, cancel, phase, todo, disk, round>>
        /\ UNCHANGED <<attempt, outcome, trouble, crashes>> /\ at = "ended" /\ at' = "release"
        /\ info' = record /\ pending' = Findable(record)
    BY <1>32 DEF AskCleanup
  <2>2. pending' \subseteq Resource
    BY <2>1, FindableTyped DEF TypeOK
  <2>3. todo' = <<>>
    BY <2>1, NoScript DEF Placed, Allowed
  <2>4. PlaceTyped
    BY <2>1, <2>2, <2>3, EmptyShape DEF PlaceTyped, TypeOK, Places
  <2>. QED
    BY <2>1, <2>4 DEF TypeOK
<1>. QED
  <2>1. ASSUME TaskStep
        PROVE  PlaceTyped /\ RestTyped
    BY <2>1, <1>12, <1>13, <1>14, <1>15, <1>16, <1>17, <1>18, <1>19, <1>20, <1>22, <1>23, <1>24,
       <1>25, <1>26, <1>27, <1>28, <1>29 DEF TaskStep
  <2>2. CASE Next
    BY <1>7, <1>30, <1>31, <1>32, <2>1, <2>2 DEF Next
  <2>. QED
    BY <1>11, <2>2

(* It starts with no script to run. *)
LEMMA StartTyped ==
  ASSUME Init
  PROVE  TypeOK /\ Placed
<1>1. src \in AllSources /\ 1 \in 1..MaxAttempts
  BY SourceAssumption DEF Init
<1>2. Disks \in Nat \ {0}
  BY SourceAssumption DEF Init, Disks
<1>3. 1 \in 1..(Disks + 1) /\ 0 \in 0..MaxCrashes /\ capture \in {"off", "snapshot"}
  BY <1>2, SourceAssumption DEF Init
<1>4. consent \in BOOLEAN
  <2>1. consent \in IF capture = "off" THEN BOOLEAN ELSE {FALSE}
    BY Zenon DEF Init
  <2>2. CASE capture = "off"
    BY <2>1, <2>2, Zenon
  <2>3. CASE capture # "off"
    <3>1. consent \in {FALSE}
      BY <2>1, <2>3, Zenon
    <3>. QED
      BY <3>1, Zenon
  <2>. QED
    BY <2>2, <2>3
<1>5. TypeOK
  <2>1. /\ src \in Source /\ cancel \in BOOLEAN /\ trouble \in BOOLEAN
        /\ vm \in {"on", "stopping", "off", "suspended"}
    BY DEF Init
  <2>2. /\ phase \in Phases /\ at \in Places /\ todo \in Seq(Step) /\ disk \in 1..(Disks + 1)
        /\ round \in 1..3 /\ attempt \in 1..MaxAttempts /\ crashes \in 0..MaxCrashes
    BY <1>1, <1>3 DEF Init, Places, Phases
  <2>3. /\ world \subseteq Resource /\ info \subseteq Resource
        /\ record \subseteq Resource /\ handles \subseteq Resource /\ pending \subseteq Resource
        /\ status \in [Disk -> {"pending", "copying", "copied", "failed"}]
        /\ outcome \in {"none", "done", "failed", "cancelled"}
    BY DEF Init
  <2>. QED
    BY <1>3, <1>4, <2>1, <2>2, <2>3, Zenon DEF TypeOK
<1>6. Placed
  BY EmptyShape DEF Init, Placed
<1>. QED
  BY <1>5, <1>6

-----------------------------------------------------------------------------
(* The machine. *)

LEMMA StepAsked ==
  ASSUME TypeOK, Placed, AskedFor, [Next]_vars
  PROVE  /\ AskedFor'
         /\ vm' # vm => consent /\ ~(src = "vsphere" /\ vm = "suspended")
<1>1. src' = src /\ consent' = consent
  BY JobKept DEF job
<1>2. ASSUME UNCHANGED vm, at' = "down" => at = "down"
      PROVE  AskedFor' /\ vm' = vm
  BY <1>1, <1>2 DEF AskedFor
<1>3. CASE UNCHANGED vars
  BY <1>2, <1>3 DEF vars, place
<1>4. ASSUME CheckPower
      PROVE  AskedFor' /\ vm' = vm
  <2>1. UNCHANGED vm
    BY <1>4 DEF CheckPower
  <2>2. at' = "down" => consent /\ ~(src = "vsphere" /\ vm = "suspended")
    BY <1>4, StartIs DEF CheckPower, End, MayStop
  <2>. QED
    BY <1>1, <2>1, <2>2 DEF AskedFor
<1>5. ASSUME DoStop
      PROVE  AskedFor' /\ consent /\ ~(src = "vsphere" /\ vm = "suspended")
  <2>1. at = "down"
    BY <1>5, HeadIs DEF DoStop, Next1
  <2>2. vm' = "suspended" => vm = "suspended"
    BY <1>5 DEF DoStop
  <2>. QED
    BY <1>1, <2>1, <2>2 DEF AskedFor
<1>6. ASSUME DoOff \/ DoCheck \/ DoRead \/ DoRecord \/ DoKeep \/ DoCreate \/ DoWait \/ DoDrop
      PROVE  AskedFor' /\ vm' = vm
  <2>1. UNCHANGED vm /\ at \in Scripted /\ todo # <<>>
    BY <1>6 DEF DoOff, DoCheck, DoRead, DoRecord, DoKeep, DoCreate, DoWait, DoDrop, Next1
  <2>2. CASE Advance
    BY <1>2, <2>1, <2>2 DEF Advance
  <2>3. CASE DoOff /\ StartExport
    BY <1>2, <2>1, <2>3, StartIs
  <2>4. ASSUME NEW why \in {"failed", "cancelled"}, Raise(why)
        PROVE  at' # "down"
    BY <2>4 DEF Raise, End, RaiseInRegions
  <2>. QED
    BY <1>2, <1>6, <2>1, <2>2, <2>3, <2>4
    DEF DoOff, DoCheck, DoRead, DoRecord, DoKeep, DoCreate, DoWait, DoDrop, Failing
<1>7. ASSUME EnterMore \/ RegionsDone \/ StartDisk \/ StartCopy \/ Copied \/ FinishDisk \/ FailDisk
      PROVE  AskedFor' /\ vm' = vm
  <2>1. UNCHANGED vm
    BY <1>7 DEF EnterMore, RegionsDone, StartDisk, StartCopy, Copied, FinishDisk, FailDisk
  <2>2. at' # "down"
    BY <1>7 DEF EnterMore, RegionsDone, StartDisk, StartCopy, Copied, FinishDisk, FailDisk, Leave,
                Failing, Raise, End, RaiseInRegions
  <2>. QED
    BY <1>2, <2>1, <2>2
<1>8. ASSUME \/ ReleaseAborts \/ LeaveDone \/ AfterExport \/ ReleaseDone \/ FixupAndFinalize
             \/ RequestCancel \/ Crash \/ AskCleanup \/ Expire
             \/ \E r \in pending : ReleaseOk(r) \/ ReleaseFails(r)
      PROVE  AskedFor' /\ vm' = vm
  <2>1. UNCHANGED vm
    BY <1>8 DEF ReleaseAborts, LeaveDone, AfterExport, ReleaseDone, FixupAndFinalize,
                RequestCancel, Crash, AskCleanup, Expire, ReleaseOk, ReleaseFails
  <2>2. at' = "down" => at = "down"
    BY <1>8 DEF ReleaseAborts, LeaveDone, AfterExport, ReleaseDone, FixupAndFinalize,
                RequestCancel, Crash, AskCleanup, Expire, ReleaseOk, ReleaseFails, place, End
  <2>. QED
    BY <1>2, <2>1, <2>2
<1>9. ASSUME GoesDown
      PROVE  AskedFor' /\ consent /\ vm = "stopping"
  BY <1>1, <1>9 DEF GoesDown, AskedFor, place
<1>. QED
  BY <1>3, <1>4, <1>5, <1>6, <1>7, <1>8, <1>9 DEF Next, TaskStep

(* The machine of a job is stopped only with the consent of whoever made   *)
(* the job, and a suspended vSphere machine never.                         *)
THEOREM ConsentFirst == Spec => StopsOnlyWithConsent
<1> DEFINE Inv == TypeOK /\ Placed /\ AskedFor
           Asks == vm' # vm => consent /\ ~(src = "vsphere" /\ vm = "suspended")
<1>1. Init => Inv
  BY StartTyped DEF Init, AskedFor
<1>2. Inv /\ [Next]_vars => Inv'
  BY StepTyped, StepAsked
<1>3. Inv /\ [Next]_vars => [Asks]_vars
  BY StepAsked
<1>. QED
  BY <1>1, <1>2, <1>3, PTL DEF Spec, StopsOnlyWithConsent

-----------------------------------------------------------------------------
(* The record. *)

LEMMA FirstIs ==
  ASSUME TypeOK, NEW r \in Resource
  PROVE  ListedFirst(r) <=> r[1] = First(src)
<1>1. r[1] \in What /\ src \in AllSources
  BY SourceTyped DEF Resource
<1>. QED
  BY <1>1 DEF ListedFirst, First, What, AllSources

LEMMA StepTraced ==
  ASSUME TypeOK, Placed, Traced, [Next]_vars
  PROVE  Traced'
<1>1. src' = src
  BY JobKept DEF job
<1> DEFINE F == First(src)
<1>2. F # "-" => F \in What
  BY DEF First, What
<1>3. ASSUME world' \subseteq world, info' = info,
             record' = record \/ (record' = info /\ at # "ended"),
             at' # "ended" => at # "ended",
             todo' # <<>> => Head(todo') # Create(F)
      PROVE  Traced'
  BY <1>1, <1>3 DEF Traced, ListedIn
<1>4. ASSUME UNCHANGED <<world, info, record, at, todo, disk, attempt>>
      PROVE  Traced'
  BY <1>1, <1>4 DEF Traced, ListedIn, Made
<1>5. CASE UNCHANGED vars
  BY <1>4, <1>5 DEF vars, listed, place
<1>6. ASSUME StartExport, UNCHANGED <<world, info, record>>, at # "ended"
      PROVE  Traced'
  <2>1. todo' # <<>> => Head(todo') # Create(F)
    BY <1>6, StartIs DEF Fresh
  <2>. QED
    BY <1>3, <1>6, <2>1
<1>7. ASSUME CheckPower
      PROVE  Traced'
  <2>1. UNCHANGED <<world, info>> /\ at = "power"
    BY <1>7 DEF CheckPower, listed
  <2>2. CASE StartExport /\ UNCHANGED listed
    BY <1>6, <2>1, <2>2 DEF listed
  <2>3. CASE at' = "down" /\ todo' = Run.stop /\ UNCHANGED listed
    <3>1. todo' # <<>> => Head(todo') # Create(F)
      <4>1. Shape(src, "down", Run.stop)
        BY SourceTyped, RunIs
      <4>2. Run.stop # <<>> => Head(Run.stop) \in Allowed(src, "down")
        BY <4>1, TailShape
      <4>3. Allowed(src, "down") = {Ask, TurnOff, Off}
        BY DEF Allowed
      <4>. QED
        BY <2>3, <4>2, <4>3 DEF Create, Ask, TurnOff, Off
    <3>. QED
      BY <1>3, <2>1, <2>3, <3>1 DEF listed
  <2>4. CASE End("failed")
    BY <1>3, <2>1, <2>4 DEF End
  <2>. QED
    BY <1>7, <2>2, <2>3, <2>4 DEF CheckPower
<1>8. ASSUME NEW why \in {"failed", "cancelled"}, Raise(why), world' \subseteq world, info' = info,
             at \in {"down", "enter", "regions", "open", "copy", "finish", "failing"}
      PROVE  Traced'
  <2>1. record' \in {record, info} /\ (todo' # <<>> => Head(todo')[1] = "try")
    BY <1>8, JobKept, RaiseIs
  <2>2. Create(F)[1] = "create"
    BY DEF Create
  <2>. QED
    BY <1>3, <1>8, <2>1, <2>2
<1>9. ASSUME at \in Scripted, todo # <<>>, Advance, Head(todo)[1] # "record",
             world' \subseteq world, info' = info, record' = record
      PROVE  Traced'
  <2>1. Tail(todo) # <<>> => Head(Tail(todo)) # Create(F)
    <3>1. Note(F)[1] = "record"
      BY DEF Note
    <3>. QED
      BY <1>9, <3>1, TailShape DEF Placed
  <2>. QED
    BY <1>3, <1>9, <2>1 DEF Advance, Scripted
<1>10. ASSUME DoStop \/ DoOff
       PROVE  Traced'
  <2>1. /\ at \in Scripted /\ todo # <<>> /\ at = "down" /\ Head(todo)[1] # "record"
        /\ UNCHANGED <<world, info>>
    BY <1>10, HeadIs DEF DoStop, DoOff, Next1
  <2>. QED
    BY <1>6, <1>8, <1>9, <1>10, <2>1 DEF DoStop, DoOff, Failing
<1>11. ASSUME DoCheck \/ DoRead \/ DoWait \/ DoKeep
       PROVE  Traced'
  <2>1. /\ at \in Scripted /\ todo # <<>> /\ Head(todo)[1] \in {"check", "read", "wait", "keep"}
        /\ UNCHANGED <<world, info>>
    BY <1>11 DEF DoCheck, DoRead, DoWait, DoKeep, Next1
  <2>2. at \in {"enter", "regions", "open"}
    BY <2>1, HeadIs
  <2>. QED
    BY <1>8, <1>9, <1>11, <2>1, <2>2 DEF DoCheck, DoRead, DoWait, DoKeep, Failing
<1>12. ASSUME DoRecord
       PROVE  Traced'
  <2>1. /\ at \in Scripted /\ todo # <<>> /\ Head(todo)[1] = "record"
        /\ UNCHANGED <<world, at, disk, attempt>> /\ todo' = Tail(todo)
        /\ info' = info \cup {Made(What1)} /\ record' = info' /\ at # "ended"
    BY <1>12 DEF DoRecord, Next1, Advance, Scripted
  <2>2. Tail(todo) # <<>> /\ Head(Tail(todo)) = Create(F) => What1 = F
    <3>1. Note(F)[2] = F
      BY DEF Note
    <3>. QED
      BY <2>1, <3>1, TailShape DEF Placed, What1
  <2>3. \A w : Made(w)' = Made(w)
    BY <2>1 DEF Made
  <2>. QED
    BY <1>1, <2>1, <2>2, <2>3 DEF Traced, ListedIn
<1>13. ASSUME DoCreate
       PROVE  Traced'
  <2>1. /\ at \in Scripted /\ todo # <<>> /\ Head(todo)[1] = "create" /\ at # "ended"
        /\ world' \subseteq world \cup {Made(What1)} /\ info' = info
    BY <1>13 DEF DoCreate, Next1, Scripted
  <2>2. /\ Head(todo) = Create(What1) /\ What1 \in What /\ disk <= Disks
        /\ at \in {"enter", "regions", "open"}
    BY <2>1, HeadIs DEF Create
  <2>3. Made(What1)[1] = What1
    BY <2>2, MadeTyped
  <2>4. \A r \in world' : r[1] = F => r \in info /\ r \in record
    BY <2>1, <2>2, <2>3 DEF Traced, ListedIn
  <2>5. CASE Advance /\ UNCHANGED record
    <3>1. Tail(todo) # <<>> => Head(Tail(todo)) # Create(F)
      <4>1. Note(F)[1] = "record"
        BY DEF Note
      <4>. QED
        BY <2>1, <4>1, TailShape DEF Placed
    <3>. QED
      BY <1>1, <2>1, <2>4, <2>5, <3>1 DEF Traced, ListedIn, Advance
  <2>6. CASE Failing("failed")
    <3>1. record' \in {record, info} /\ (todo' # <<>> => Head(todo')[1] = "try")
      BY <2>2, <2>6, JobKept, RaiseIs DEF Failing
    <3>2. Create(F)[1] = "create"
      BY DEF Create
    <3>. QED
      BY <1>1, <2>1, <2>4, <3>1, <3>2 DEF Traced, ListedIn
  <2>. QED
    BY <1>13, <2>5, <2>6 DEF DoCreate
<1>14. ASSUME DoDrop
       PROVE  Traced'
  <2>1. at \in Scripted /\ todo # <<>> /\ Head(todo)[1] \in {"drop", "try"} /\ at # "ended"
    BY <1>14 DEF DoDrop, Scripted
  <2>2. CASE /\ Advance
             /\ \E gone \in Targets : world' = world \ gone /\ info' = info \ gone
             /\ record' = IF info' = info THEN record ELSE info'
    <3>1. Tail(todo) # <<>> => Head(Tail(todo)) # Create(F)
      <4>1. Note(F)[1] = "record"
        BY DEF Note
      <4>. QED
        BY <2>1, <4>1, TailShape DEF Placed
    <3>2. (todo' # <<>> => Head(todo') # Create(F)) /\ at' = at
      BY <2>2, <3>1 DEF Advance
    <3>3. \A r \in world' : r[1] = F => r \in info' /\ r \in record'
      BY <2>1, <2>2 DEF Traced, ListedIn
    <3>. QED
      BY <1>1, <3>2, <3>3 DEF Traced, ListedIn
  <2>3. CASE Advance /\ UNCHANGED <<info, record>> /\ world' \subseteq world
    BY <1>9, <2>1, <2>3
  <2>4. CASE /\ Head(todo)[1] = "drop" /\ Failing("failed") /\ world' \subseteq world /\ info' = info
    <3>1. at \in {"regions", "open", "finish", "failing"}
      BY <2>1, <2>4, HeadIs
    <3>. QED
      BY <1>8, <2>4, <3>1 DEF Failing
  <2>5. PICK gone \in Targets :
       \/ /\ world' = world \ gone /\ info' = info \ gone
          /\ record' = IF info' = info THEN record ELSE info'
          /\ Advance
       \/ world' \subseteq world /\ Advance /\ UNCHANGED <<info, record>>
       \/ Head(todo)[1] = "drop" /\ world' \subseteq world /\ Failing("failed") /\ UNCHANGED info
    BY <1>14 DEF DoDrop
  <2>. QED
    BY <2>2, <2>3, <2>4, <2>5
<1>15. ASSUME EnterMore
       PROVE  Traced'
  <2>1. UNCHANGED <<world, info, record>> /\ at # "ended"
    BY <1>15 DEF EnterMore, listed
  <2>2. todo' # <<>> => Head(todo') # Create(F)
    <3>1. round \in Nat \ {0} /\ Scripts(src, capture) \in 0..2 /\ round <= Scripts(src, capture)
          /\ src \in AllSources /\ capture \in {"off", "snapshot"}
      BY <1>15, SourceTyped DEF Placed, EnterMore
    <3>2. \/ todo' = Run.enter[round]
          \/ round < Len(Run.enter) /\ todo' = Run.enter[round + 1]
          \/ todo' = <<>>
      BY <1>15 DEF EnterMore
    <3>3. \A n \in 1..Scripts(src, capture) :
            Run.enter[n] # <<>> => Head(Run.enter[n]) # Create(F)
      BY <3>1, RunIs DEF Fresh
    <3>. QED
      BY <3>1, <3>2, <3>3, RunIs
  <2>. QED
    BY <1>3, <2>1, <2>2
<1>16. ASSUME RegionsDone
       PROVE  Traced'
  <2>1. UNCHANGED <<world, info, record>> /\ at # "ended"
    BY <1>16 DEF RegionsDone, listed
  <2>2. todo' \in {<<>>, RegionsLeft(info)}
    BY <1>16 DEF RegionsDone
  <2>3. RegionsLeft(info) # <<>> => Head(RegionsLeft(info)) # Create(F)
    BY DEF RegionsLeft, Try, Create
  <2>. QED
    BY <1>3, <2>1, <2>2, <2>3
<1>17. ASSUME StartDisk
       PROVE  Traced'
  <2>1. UNCHANGED <<world, info>> /\ at = "disk" /\ record' \in {record, info}
    BY <1>17 DEF StartDisk
  <2>2. todo' \in {<<>>, Run.copy.open}
    BY <1>17 DEF StartDisk, Leave
  <2>3. Run.copy.open # <<>> => Head(Run.copy.open) # Create(F)
    BY SourceTyped, RunIs DEF Fresh
  <2>. QED
    BY <1>3, <2>1, <2>2, <2>3
<1>18. ASSUME Copied
       PROVE  Traced'
  <2>1. UNCHANGED <<world, info>> /\ at = "copy"
    BY <1>18 DEF Copied
  <2>2. CASE at' = "finish" /\ todo' = Run.copy.finish /\ UNCHANGED record
    <3>1. todo' # <<>> => Head(todo')[1] # "create"
      BY <2>2, SourceTyped, RunIs
    <3>. QED
      BY <1>3, <2>1, <2>2, <3>1 DEF Create
  <2>. QED
    BY <1>8, <1>18, <2>1, <2>2 DEF Copied, Failing
<1>19. ASSUME StartCopy \/ FinishDisk \/ FailDisk \/ LeaveDone \/ AfterExport \/ ReleaseDone \/ FixupAndFinalize
       PROVE  Traced'
  <2>1. UNCHANGED <<world, info>> /\ at # "ended" /\ record' \in {record, info}
    BY <1>19 DEF StartCopy, FinishDisk, FailDisk, LeaveDone, AfterExport, ReleaseDone,
                 FixupAndFinalize, listed, End
  <2>2. todo' = <<>>
    <3>1. at \in {"leave", "left", "release", "fixup"} => todo = <<>>
      BY NoScript DEF Placed, Allowed
    <3>. QED
      BY <1>19, <3>1 DEF StartCopy, FinishDisk, FailDisk, LeaveDone, AfterExport, ReleaseDone,
                         FixupAndFinalize, End, Leave
  <2>. QED
    BY <1>3, <2>1, <2>2
<1>20. ASSUME NEW r \in pending, ReleaseOk(r) \/ ReleaseFails(r)
       PROVE  Traced'
  <2>1. UNCHANGED <<record, at, todo>> /\ at \in {"leave", "release"} /\ world' \subseteq world
    BY <1>20 DEF ReleaseOk, ReleaseFails
  <2>2. todo = <<>>
    BY <2>1, NoScript DEF Placed, Allowed
  <2>3. \A q \in world' : q[1] = F => q \in info'
    <3>1. CASE ReleaseOk(r)
      BY <2>1, <3>1 DEF ReleaseOk, Traced, ListedIn
    <3>2. CASE ReleaseFails(r) /\ r[1] \in Run.exit.forgets
      <4>1. r[1] # F
        BY <3>2, SourceTyped, RunIs
      <4>2. info' = info \ {r}
        BY <3>2 DEF ReleaseFails
      <4>. QED
        BY <2>1, <4>1, <4>2 DEF Traced, ListedIn
    <3>3. CASE ReleaseFails(r) /\ r[1] \notin Run.exit.forgets
      <4>1. info' = info
        BY <3>3 DEF ReleaseFails
      <4>. QED
        BY <2>1, <4>1 DEF Traced, ListedIn
    <3>. QED
      BY <1>20, <3>1, <3>2, <3>3
  <2>. QED
    BY <1>1, <2>1, <2>2, <2>3 DEF Traced, ListedIn
<1>21. ASSUME ReleaseAborts \/ RequestCancel \/ GoesDown
       PROVE  Traced'
  BY <1>4, <1>21 DEF ReleaseAborts, RequestCancel, GoesDown, listed, place
<1>22. ASSUME Crash
       PROVE  Traced'
  BY <1>1, <1>22 DEF Crash, Traced, ListedIn
<1>23. ASSUME AskCleanup
       PROVE  Traced'
  <2>1. todo = <<>>
    BY <1>23, NoScript DEF AskCleanup, Placed, Allowed
  <2>. QED
    BY <1>1, <1>23, <2>1 DEF AskCleanup, Traced, ListedIn
<1>24. ASSUME Expire
       PROVE  Traced'
  <2>1. todo = <<>>
    BY <1>24, NoScript DEF Expire, Placed, Allowed
  <2>2. world' \subseteq world /\ UNCHANGED <<info, record, at, todo>>
    BY <1>24 DEF Expire, listed, place
  <2>. QED
    BY <1>1, <2>1, <2>2 DEF Traced, ListedIn
<1>. QED
  BY <1>5, <1>7, <1>10, <1>11, <1>12, <1>13, <1>14, <1>15, <1>16, <1>17, <1>18, <1>19, <1>20,
     <1>21, <1>22, <1>23, <1>24 DEF Next, TaskStep

-----------------------------------------------------------------------------
(* What the copies are made from. *)

(* More is made; nothing has to be made; a disk, or all of them, is done.  *)
LEMMA MadeGrows ==
  ASSUME NEW x, NEW mode, NEW n, NEW d, NEW W, NEW V, MadeUpTo(x, mode, n, d, W), W \subseteq V
  PROVE  MadeUpTo(x, mode, n, d, V)
BY DEF MadeUpTo

LEMMA MadeNothing ==
  ASSUME NEW x, NEW mode, NEW n, NEW d, NEW W,
         (\A m : Needs(x, mode, m) = {}) \/ (n = 1 /\ d = 1)
  PROVE  MadeUpTo(x, mode, n, d, W)
BY DEF MadeUpTo

LEMMA MadeOne ==
  ASSUME NEW x, NEW mode, NEW n \in Nat, NEW d \in Nat, NEW W, MadeUpTo(x, mode, n, d, W),
         \A w \in Needs(x, mode, n) : <<w, d, 1>> \in W
  PROVE  MadeUpTo(x, mode, n, d + 1, W)
<1>1. ASSUME NEW w \in What, NEW e \in 1..Last(x), e < d + 1, w \in Needs(x, mode, n)
      PROVE  <<w, e, 1>> \in W
  <2>1. CASE e < d
    BY <1>1, <2>1 DEF MadeUpTo
  <2>2. CASE e = d
    BY <1>1, <2>2
  <2>. QED
    BY <1>1, <2>1, <2>2
<1>. QED
  BY <1>1 DEF MadeUpTo

LEMMA MadeAll ==
  ASSUME NEW x, NEW mode, NEW n \in Nat, NEW d \in Nat, NEW W, Last(x) \in Nat, d = Last(x) + 1,
         MadeUpTo(x, mode, n, d, W)
  PROVE  MadeUpTo(x, mode, n + 1, 1, W)
<1>1. ASSUME NEW m \in 1..(n + 1), NEW w \in What, NEW e \in 1..Last(x), m < n + 1,
             w \in Needs(x, mode, m)
      PROVE  <<w, e, 1>> \in W
  <2>1. CASE m < n
    BY <1>1, <2>1 DEF MadeUpTo
  <2>2. CASE m = n
    <3>1. e < d
      BY <1>1
    <3>. QED
      BY <1>1, <2>2, <3>1 DEF MadeUpTo
  <2>. QED
    BY <1>1, <2>1, <2>2
<1>. QED
  BY <1>1 DEF MadeUpTo

(* What is made once is not made again for every attempt. *)
LEMMA NeedsIs ==
  ASSUME NEW x, NEW mode
  PROVE  /\ \A n : Needs(x, mode, n) \subseteq {"lease", "snapshot", "grant", "object"}
         /\ OpenKinds(x) # {} \/ RegionKinds(x) # {} => \A n : Needs(x, mode, n) = {}
BY DEF Needs, OpenKinds, RegionKinds

LEMMA NothingCreated ==
  ASSUME NEW w
  PROVE  ~Creates(<<>>, w)
BY DEF Creates

LEMMA StepSourced ==
  ASSUME TypeOK, Placed, Sourced, [Next]_vars
  PROVE  Sourced'
<1>1. src' = src /\ capture' = capture
  BY JobKept DEF job
<1>2. /\ src \in AllSources /\ capture \in {"off", "snapshot"}
      /\ Disks \in Nat \ {0} /\ Last(src) \in 1..Disks /\ Last(src) = LastDisk
      /\ disk \in Nat \ {0} /\ round \in Nat \ {0} /\ attempt \in Nat \ {0}
      /\ Scripts(src, capture) \in 0..2
  BY SourceTyped
<1> DEFINE N == Scripts(src, capture)
           All(W) == MadeUpTo(src, capture, N + 1, 1, W)
<1>3. ASSUME at' \notin {"enter", "disk", "open", "copy", "finish", "failing"}
      PROVE  Sourced'
  BY <1>3 DEF Sourced
<1>4. ASSUME at' \in {"disk", "finish", "failing"}, All(world')
      PROVE  Sourced'
  BY <1>1, <1>4 DEF Sourced
<1>5. ASSUME UNCHANGED <<world, at, todo, disk, round, attempt>>
      PROVE  Sourced'
  BY <1>1, <1>5 DEF Sourced, Made
<1>6. CASE UNCHANGED vars
  BY <1>5, <1>6 DEF vars, place
<1>7. ASSUME StartExport
      PROVE  Sourced'
  <2>1. /\ disk' = 1 /\ round' = 1
        /\ \/ at' = "enter" /\ Fresh(src, "enter", todo', Needs(src, capture, 1))
           \/ at' = "regions"
           \/ at' = "disk" /\ N = 0
    BY <1>7, StartIs
  <2>2. CASE at' = "enter"
    <3>1. \A w \in Needs(src, capture, 1) : Creates(todo', w)
      BY <2>1, <2>2 DEF Fresh
    <3>2. MadeUpTo(src, capture, 1, 1, world')
      BY MadeNothing
    <3>. QED
      BY <1>1, <2>1, <2>2, <3>1, <3>2 DEF Sourced
  <2>3. CASE at' = "disk"
    <3>1. All(world')
      BY <2>1, <2>3, MadeNothing
    <3>. QED
      BY <1>4, <2>3, <3>1
  <2>. QED
    BY <1>3, <2>1, <2>2, <2>3
<1>8. ASSUME NEW why \in {"failed", "cancelled"}, Raise(why),
             at \in {"down", "enter", "regions", "open", "copy", "finish", "failing"},
             world \subseteq world' \/ OpenKinds(src) # {}
      PROVE  Sourced'
  <2>1. /\ at' \in {"left", "ended", "leave", "mapped", "failing"}
        /\ at' = "failing" => at \in {"open", "copy", "finish", "failing"}
    BY <1>8, JobKept, RaiseIs
  <2>2. CASE at' = "failing"
    <3>1. All(world)
      BY <2>1, <2>2 DEF Sourced
    <3>2. All(world')
      BY <1>8, <3>1, MadeGrows, MadeNothing, NeedsIs
    <3>. QED
      BY <1>4, <2>2, <3>2
  <2>. QED
    BY <1>3, <2>1, <2>2
<1>9. ASSUME at \in Scripted, todo # <<>>, Advance,
             \/ UNCHANGED world /\ Head(todo)[1] # "create"
             \/ Head(todo)[1] = "create" /\ world' = world \cup {Made(What1)}
             \/ Head(todo)[1] \in {"drop", "try"}
      PROVE  Sourced'
  <2>1. UNCHANGED <<at, disk, round, attempt>> /\ todo' = Tail(todo)
    BY <1>9 DEF Advance
  <2>2. /\ Head(todo)[1] = "create" => ~Takes(Tail(todo))
        /\ Takes(Tail(todo)) => Takes(todo)
        /\ Head(todo)[1] \in {"drop", "try"} => Takes(todo)
        /\ \A w : Creates(todo, w) /\ Head(todo) # Create(w) => Creates(Tail(todo), w)
    BY <1>9, TailShape DEF Placed
  <2>3. \A w : Create(w)[1] = "create" /\ Create(w)[2] = w
    BY DEF Create
  <2>4. \A w : Made(w)' = Made(w)
    BY <2>1 DEF Made
  <2>5. CASE at = "enter"
    <3>1. world \subseteq world'
      BY <1>9, <2>5, HeadIs
    <3>2. MadeUpTo(src, capture, round, disk, world')
      BY <2>5, <3>1, MadeGrows DEF Sourced
    <3>3. ASSUME NEW w \in Needs(src, capture, round)
          PROVE  <<w, disk, 1>> \in world' \/ Creates(Tail(todo), w)
      <4>1. <<w, disk, 1>> = Made(w)
        BY <3>3, NeedsIs DEF Made
      <4>2. <<w, disk, 1>> \in world \/ Creates(todo, w)
        BY <2>5 DEF Sourced
      <4>3. CASE Head(todo) = Create(w)
        BY <1>9, <2>3, <4>1, <4>3 DEF What1
      <4>. QED
        BY <2>2, <3>1, <4>2, <4>3
    <3>. QED
      BY <1>1, <2>1, <2>5, <3>2, <3>3 DEF Sourced
  <2>6. CASE at = "open"
    <3>1. All(world')
      <4>1. CASE Head(todo)[1] \in {"drop", "try"}
        <5>1. What1 \in OpenKinds(src)
          BY <1>9, <2>6, <4>1, HeadIs
        <5>. QED
          BY <5>1, MadeNothing, NeedsIs
      <4>2. CASE Head(todo)[1] \notin {"drop", "try"}
        BY <1>9, <2>6, <4>2, MadeGrows DEF Sourced
      <4>. QED
        BY <4>1, <4>2
    <3>2. ASSUME NEW w \in OpenKinds(src)
          PROVE  Creates(Tail(todo), w) \/ (Made(w) \in world' /\ ~Takes(Tail(todo)))
      <4>1. Creates(todo, w) \/ (Made(w) \in world /\ ~Takes(todo))
        BY <2>6 DEF Sourced
      <4>2. CASE Head(todo) = Create(w)
        BY <1>9, <2>2, <2>3, <4>2 DEF What1
      <4>3. CASE Head(todo) # Create(w)
        BY <1>9, <2>2, <4>1, <4>3
      <4>. QED
        BY <4>2, <4>3
    <3>. QED
      BY <1>1, <2>1, <2>4, <2>6, <3>1, <3>2 DEF Sourced
  <2>7. CASE at \in {"finish", "failing"}
    <3>1. All(world')
      <4>1. CASE Head(todo)[1] \in {"drop", "try"}
        <5>1. What1 \in OpenKinds(src)
          BY <1>9, <2>7, <4>1, HeadIs
        <5>. QED
          BY <5>1, MadeNothing, NeedsIs
      <4>2. CASE Head(todo)[1] \notin {"drop", "try"}
        BY <1>9, <2>7, <4>2, MadeGrows DEF Sourced
      <4>. QED
        BY <4>1, <4>2
    <3>. QED
      BY <1>4, <2>1, <2>7, <3>1
  <2>8. CASE at \in {"down", "regions", "mapped"}
    BY <1>3, <2>1, <2>8
  <2>. QED
    BY <1>9, <2>5, <2>6, <2>7, <2>8 DEF Scripted
<1>10. ASSUME CheckPower
       PROVE  Sourced'
  <2>1. CASE StartExport
    BY <1>7, <2>1
  <2>2. CASE at' \in {"down", "ended"}
    BY <1>3, <2>2
  <2>. QED
    BY <1>10, <2>1, <2>2 DEF CheckPower, End
<1>11. ASSUME DoStop \/ DoOff \/ DoCheck \/ DoRead \/ DoWait \/ DoRecord \/ DoKeep
       PROVE  Sourced'
  <2>1. /\ at \in Scripted /\ todo # <<>> /\ UNCHANGED world
        /\ Head(todo)[1] \in {"ask", "force", "off", "check", "read", "wait", "record", "keep"}
    BY <1>11 DEF DoStop, DoOff, DoCheck, DoRead, DoWait, DoRecord, DoKeep, Next1
  <2>2. at \in {"down", "enter", "regions", "open"}
    BY <2>1, HeadIs
  <2>. QED
    BY <1>7, <1>8, <1>9, <1>11, <2>1, <2>2
    DEF DoStop, DoOff, DoCheck, DoRead, DoWait, DoRecord, DoKeep, Failing
<1>12. ASSUME DoCreate
       PROVE  Sourced'
  <2>1. /\ at \in Scripted /\ todo # <<>> /\ Head(todo)[1] = "create" /\ world \subseteq world'
    BY <1>12 DEF DoCreate, Next1
  <2>2. at \in {"enter", "regions", "open"}
    BY <2>1, HeadIs
  <2>. QED
    BY <1>8, <1>9, <1>12, <2>1, <2>2 DEF DoCreate, Failing
<1>13. ASSUME DoDrop
       PROVE  Sourced'
  <2>1. at \in Scripted /\ todo # <<>> /\ Head(todo)[1] \in {"drop", "try"}
    BY <1>13 DEF DoDrop
  <2>2. CASE Advance
    BY <1>9, <2>1, <2>2
  <2>3. CASE Head(todo)[1] = "drop" /\ Raise("failed")
    <3>1. at \in {"regions", "open", "finish", "failing"}
      BY <2>1, <2>3, HeadIs
    <3>2. CASE at = "regions"
      <4>1. at' = "mapped"
        BY <2>3, <3>2, JobKept, RaiseIs
      <4>. QED
        BY <1>3, <4>1
    <3>3. CASE at \in {"open", "finish", "failing"}
      <4>1. OpenKinds(src) # {}
        BY <2>1, <3>3, HeadIs
      <4>. QED
        BY <1>8, <2>3, <3>3, <4>1
    <3>. QED
      BY <3>1, <3>2, <3>3
  <2>. QED
    BY <1>13, <2>2, <2>3 DEF DoDrop, Failing
<1>14. ASSUME EnterMore
       PROVE  Sourced'
  <2>1. /\ UNCHANGED world /\ at = "enter" /\ todo = <<>>
        /\ round \in 1..N /\ disk \in 1..Last(src) /\ Len(Run.enter) = N
    BY <1>2, <1>14, RunIs DEF EnterMore, Placed
  <2>2. MadeUpTo(src, capture, round, disk + 1, world)
    <3>1. \A w \in Needs(src, capture, round) : <<w, disk, 1>> \in world
      BY <2>1, NothingCreated DEF Sourced
    <3>2. MadeUpTo(src, capture, round, disk, world)
      BY <2>1 DEF Sourced
    <3>. QED
      BY <1>2, <3>1, <3>2, MadeOne
  <2>3. CASE disk < LastDisk
    <3>1. disk' = disk + 1 /\ todo' = Run.enter[round] /\ UNCHANGED <<at, round>>
      BY <1>14, <2>3 DEF EnterMore
    <3>2. \A w \in Needs(src, capture, round) : Creates(todo', w)
      BY <1>2, <2>1, <3>1, RunIs DEF Fresh
    <3>. QED
      BY <1>1, <2>1, <2>2, <3>1, <3>2 DEF Sourced
  <2>4. CASE ~(disk < LastDisk)
    <3>1. MadeUpTo(src, capture, round + 1, 1, world)
      <4>1. disk + 1 = Last(src) + 1 /\ Last(src) \in Nat
        BY <1>2, <2>1, <2>4
      <4>. QED
        BY <1>2, <2>2, <4>1, MadeAll
    <3>2. CASE round < Len(Run.enter)
      <4>1. disk' = 1 /\ round' = round + 1 /\ todo' = Run.enter[round + 1] /\ UNCHANGED at
        BY <1>14, <2>4, <3>2 DEF EnterMore
      <4>2. round + 1 \in 1..N
        BY <1>2, <2>1, <3>2
      <4>3. \A w \in Needs(src, capture, round + 1) : Creates(todo', w)
        BY <1>2, <4>1, <4>2, RunIs DEF Fresh
      <4>. QED
        BY <1>1, <2>1, <3>1, <4>1, <4>3 DEF Sourced
    <3>3. CASE ~(round < Len(Run.enter))
      <4>1. at' = "disk"
        BY <1>14, <2>4, <3>3 DEF EnterMore
      <4>2. round = N
        BY <1>2, <2>1, <3>3
      <4>. QED
        BY <1>4, <2>1, <3>1, <4>1, <4>2
    <3>. QED
      BY <3>2, <3>3
  <2>. QED
    BY <2>3, <2>4
<1>15. ASSUME RegionsDone
       PROVE  Sourced'
  <2>1. at' \in {"mapped", "leave", "disk"} /\ at \in {"regions", "mapped"}
    BY <1>15 DEF RegionsDone
  <2>2. All(world')
    <3>1. RegionKinds(src) # {}
      BY <2>1 DEF Placed, RegionKinds
    <3>. QED
      BY <3>1, MadeNothing, NeedsIs
  <2>. QED
    BY <1>3, <1>4, <2>1, <2>2
<1>16. ASSUME StartDisk
       PROVE  Sourced'
  <2>1. UNCHANGED <<world, disk, round, attempt>> /\ at = "disk"
    BY <1>16 DEF StartDisk
  <2>2. CASE at' = "open" /\ todo' = Run.copy.open
    <3>1. \A w \in OpenKinds(src) : Creates(todo', w)
      BY <1>2, <2>2, RunIs DEF Fresh
    <3>. QED
      BY <1>1, <2>1, <2>2, <3>1 DEF Sourced
  <2>. QED
    BY <1>3, <1>16, <2>2 DEF StartDisk, Leave
<1>17. ASSUME StartCopy
       PROVE  Sourced'
  <2>1. UNCHANGED <<world, disk, attempt, todo>> /\ at = "open" /\ at' = "copy" /\ todo = <<>>
    BY <1>17 DEF StartCopy, listed
  <2>2. \A w \in OpenKinds(src) : Made(w) \in world
    BY <2>1, NothingCreated DEF Sourced
  <2>3. \A w : Made(w)' = Made(w)
    BY <2>1 DEF Made
  <2>. QED
    BY <1>1, <2>1, <2>2, <2>3 DEF Sourced
<1>18. ASSUME Copied
       PROVE  Sourced'
  <2>1. UNCHANGED world /\ at = "copy"
    BY <1>18 DEF Copied
  <2>2. All(world')
    BY <2>1 DEF Sourced
  <2>. QED
    BY <1>4, <1>8, <1>18, <2>1, <2>2 DEF Copied, Failing
<1>19. ASSUME FinishDisk \/ FailDisk
       PROVE  Sourced'
  <2>1. UNCHANGED world /\ at \in {"finish", "failing"} /\ at' \in {"disk", "leave"}
    BY <1>19 DEF FinishDisk, FailDisk, Leave
  <2>2. All(world')
    BY <2>1 DEF Sourced
  <2>. QED
    BY <1>3, <1>4, <2>1, <2>2
<1>20. ASSUME \/ ReleaseAborts \/ LeaveDone \/ AfterExport \/ ReleaseDone \/ FixupAndFinalize
              \/ Crash \/ AskCleanup \/ Expire
              \/ \E r \in pending : ReleaseOk(r) \/ ReleaseFails(r)
       PROVE  Sourced'
  <2>1. at' \in {"leave", "release", "left", "fixup", "ended"}
    BY <1>20 DEF ReleaseAborts, LeaveDone, AfterExport, ReleaseDone, FixupAndFinalize, Crash,
                 AskCleanup, Expire, ReleaseOk, ReleaseFails, End, place
  <2>. QED
    BY <1>3, <2>1
<1>21. ASSUME RequestCancel \/ GoesDown
       PROVE  Sourced'
  BY <1>5, <1>21 DEF RequestCancel, GoesDown, place
<1>. QED
  BY <1>6, <1>10, <1>11, <1>12, <1>13, <1>14, <1>15, <1>16, <1>17, <1>18, <1>19, <1>20, <1>21
  DEF Next, TaskStep

-----------------------------------------------------------------------------
(* What is left. *)

(* Trouble does not end. *)
LEMMA TroubleStays ==
  ASSUME [Next]_vars, trouble
  PROVE  trouble'
<1>1. CASE UNCHANGED vars
  BY <1>1 DEF vars
<1>2. ASSUME \/ CheckPower \/ DoStop \/ DoOff \/ DoCheck \/ DoRead \/ DoRecord \/ DoKeep
             \/ DoCreate \/ DoWait \/ DoDrop
      PROVE  trouble'
  BY <1>2 DEF CheckPower, DoStop, DoOff, DoCheck, DoRead, DoRecord, DoKeep, DoCreate, DoWait,
              DoDrop, Failing
<1>3. ASSUME EnterMore \/ RegionsDone \/ StartDisk \/ StartCopy \/ Copied \/ FinishDisk \/ FailDisk
      PROVE  trouble'
  BY <1>3 DEF EnterMore, RegionsDone, StartDisk, StartCopy, Copied, FinishDisk, FailDisk, Failing
<1>4. ASSUME \/ ReleaseAborts \/ LeaveDone \/ AfterExport \/ ReleaseDone \/ FixupAndFinalize
             \/ RequestCancel \/ Crash \/ AskCleanup \/ Expire \/ GoesDown
             \/ \E r \in pending : ReleaseOk(r) \/ ReleaseFails(r)
      PROVE  trouble'
  BY <1>4 DEF ReleaseAborts, LeaveDone, AfterExport, ReleaseDone, FixupAndFinalize, RequestCancel,
              Crash, AskCleanup, Expire, GoesDown, ReleaseOk, ReleaseFails
<1>. QED
  BY <1>1, <1>2, <1>3, <1>4 DEF Next, TaskStep

LEMMA StepTidy ==
  ASSUME TypeOK, Placed, Traced, Tidy, [Next]_vars
  PROVE  Tidy'
<1>1. src' = src
  BY JobKept DEF job
<1> SUFFICES ASSUME src \in NamesWhatItMakes, ~trouble'
             PROVE  Found'
  BY <1>1 DEF Tidy
<1>2. ~trouble /\ Found
  BY TroubleStays DEF Tidy
<1>3. /\ at \notin {"regions", "mapped"} /\ src \in {"vsphere", "gcp", "olvm", "proxmox", "hyperv"}
      /\ at = "enter" => src # "olvm"
  <2>1. src \in {"vsphere", "gcp", "olvm", "proxmox", "hyperv"}
    BY DEF NamesWhatItMakes
  <2>2. src = "olvm" => Scripts(src, capture) = 0
    BY DEF Scripts
  <2>. QED
    BY <2>1, <2>2, SourceTyped DEF Placed
<1>4. ASSUME at' \in {"power", "down", "left", "fixup", "release", "ended"}, world' = {}
      PROVE  Found'
  BY <1>4 DEF Found
<1>5. ASSUME at' \in {"enter", "disk", "open", "copy", "finish", "failing"},
             world' \subseteq ToRelease(info)' \cup Unkept', at' = "failing" => outcome' # "failed"
      PROVE  Found'
  BY <1>5 DEF Found
<1>6. ASSUME at' = "leave", world' \subseteq pending', outcome' # "failed"
      PROVE  Found'
  BY <1>6 DEF Found
<1>7. ASSUME UNCHANGED <<world, info, handles, at, todo, disk, attempt, outcome, pending>>
      PROVE  Found'
  <2>1. ToRelease(info)' = ToRelease(info) /\ Unkept' = Unkept
    BY <1>1, <1>7 DEF ToRelease, Findable, Objects, Disk, Disks, Unkept, Made
  <2>. QED
    BY <1>2, <1>7, <2>1 DEF Found
<1>8. ASSUME todo = <<>> \/ Head(todo)[1] # "keep",
             at \in {"enter", "disk", "open", "copy", "finish", "failing"}
      PROVE  world \subseteq ToRelease(info)
  <2>1. Unkept = {}
    BY <1>8 DEF Unkept, Keep
  <2>. QED
    BY <1>2, <1>8, <2>1 DEF Found
<1>9. ASSUME UNCHANGED <<info, handles>>
      PROVE  ToRelease(info)' = ToRelease(info)
  BY <1>1, <1>9 DEF ToRelease, Findable, Objects, Disk, Disks
<1>10. CASE UNCHANGED vars
  BY <1>7, <1>10 DEF vars, listed, place
<1>11. ASSUME StartExport, world = {}, UNCHANGED world
       PROVE  Found'
  <2>1. at' \in {"enter", "disk"}
    BY <1>3, <1>11, StartIs DEF NamesWhatItMakes
  <2>. QED
    BY <1>5, <1>11, <2>1
<1>12. ASSUME CheckPower
       PROVE  Found'
  <2>1. world = {} /\ UNCHANGED world
    BY <1>2, <1>12 DEF Found, CheckPower
  <2>2. StartExport \/ at' \in {"down", "ended"}
    BY <1>12 DEF CheckPower, End
  <2>. QED
    BY <1>4, <1>11, <2>1, <2>2
<1>13. ASSUME DoStop \/ DoOff
       PROVE  Found'
  <2>1. at \in Scripted /\ todo # <<>> /\ at = "down" /\ UNCHANGED world
    BY <1>13, HeadIs DEF DoStop, DoOff, Next1
  <2>2. world = {}
    BY <1>2, <2>1 DEF Found
  <2>3. StartExport \/ Advance \/ Raise("cancelled")
    BY <1>13 DEF DoStop, DoOff, Failing
  <2>4. CASE Advance
    BY <1>4, <2>1, <2>2, <2>4 DEF Advance
  <2>5. CASE Raise("cancelled")
    <3>1. at' \in {"left", "ended"}
      BY <2>1, <2>5, JobKept, RaiseIs
    <3>. QED
      BY <1>4, <2>1, <2>2, <3>1
  <2>. QED
    BY <1>11, <2>1, <2>2, <2>3, <2>4, <2>5
<1>14. ASSUME Raise("cancelled"), at \in {"enter", "open", "copy"}, src # "vsphere" \/ at # "enter",
              UNCHANGED <<world, info, handles>>, todo = <<>> \/ Head(todo)[1] # "keep"
       PROVE  Found'
  <2>1. world \subseteq ToRelease(info)
    BY <1>8, <1>14
  <2>2. CASE at = "enter"
    <3>1. at' = "leave" /\ pending' = Findable(info) /\ outcome' = "cancelled"
      BY <1>14, <2>2, JobKept, RaiseIs
    <3>2. ToRelease(info) = Findable(info)
      BY <1>3, <1>14, <2>2 DEF ToRelease
    <3>. QED
      BY <1>6, <1>14, <2>1, <3>1, <3>2
  <2>3. CASE at \in {"open", "copy"}
    <3>1. at' = "failing" /\ outcome' = "cancelled"
      BY <1>14, <2>3, JobKept, RaiseIs
    <3>. QED
      BY <1>5, <1>9, <1>14, <2>1, <3>1
  <2>. QED
    BY <1>14, <2>2, <2>3
<1>15. ASSUME at \in {"enter", "open", "finish", "failing"}, Advance,
              world' \subseteq ToRelease(info)' \cup Unkept'
       PROVE  Found'
  <2>1. at' = at /\ outcome' = outcome
    BY <1>15 DEF Advance
  <2>2. at' = "failing" => outcome' # "failed"
    BY <1>2, <2>1 DEF Found
  <2>. QED
    BY <1>5, <1>15, <2>1, <2>2
<1>16. ASSUME DoCheck \/ DoRead \/ DoWait
       PROVE  Found'
  <2>1. /\ at \in Scripted /\ todo # <<>> /\ Head(todo)[1] \in {"check", "read", "wait"}
        /\ UNCHANGED <<world, info, handles>>
    BY <1>16 DEF DoCheck, DoRead, DoWait, Next1
  <2>2. at \in {"enter", "open"}
    BY <1>3, <2>1, HeadIs
  <2>3. Advance \/ (Raise("cancelled") /\ src # "vsphere")
    BY <1>16, HeadIs DEF DoCheck, DoRead, DoWait, Failing, Next1
  <2>. QED
    BY <1>8, <1>9, <1>14, <1>15, <2>1, <2>2, <2>3
<1>17. ASSUME DoRecord
       PROVE  Found'
  <2>1. /\ at \in Scripted /\ todo # <<>> /\ Head(todo)[1] = "record" /\ Advance
        /\ UNCHANGED <<world, handles>> /\ info \subseteq info'
    BY <1>17 DEF DoRecord, Next1
  <2>2. at \in {"enter", "open"}
    BY <1>3, <2>1, HeadIs
  <2>3. ToRelease(info) \subseteq ToRelease(info)'
    BY <1>1, <2>1 DEF ToRelease, Findable, Objects, Disk, Disks
  <2>. QED
    BY <1>8, <1>15, <2>1, <2>2, <2>3
<1>18. ASSUME DoKeep
       PROVE  Found'
  <2>1. /\ at \in Scripted /\ todo # <<>> /\ Head(todo)[1] = "keep" /\ Advance
        /\ UNCHANGED <<world, info>> /\ handles' = handles \cup {Made(What1)}
    BY <1>18 DEF DoKeep, Next1
  <2>2. at \in {"enter", "open"}
    BY <1>3, <2>1, HeadIs
  <2>3. world \subseteq ToRelease(info) \cup Unkept
    BY <1>2, <2>2 DEF Found
  <2>4. Unkept \subseteq IF src \in {"vsphere", "olvm"} THEN {Made(What1)} ELSE {}
    <3>1. \A v : Head(todo) = Keep(v) => What1 = v
      BY DEF Keep, What1
    <3>. QED
      BY <3>1 DEF Unkept
  <2>5. ToRelease(info) \cup Unkept \subseteq ToRelease(info)'
    BY <1>1, <2>1, <2>4 DEF ToRelease, Findable, Objects, Disk, Disks
  <2>. QED
    BY <1>15, <2>1, <2>2, <2>3, <2>5
<1>19. ASSUME DoCreate
       PROVE  Found'
  <2>1. /\ at \in Scripted /\ todo # <<>> /\ Head(todo)[1] = "create" /\ Advance
        /\ UNCHANGED <<info, handles>> /\ world' = world \cup {Made(What1)}
    BY <1>19 DEF DoCreate, Next1, Failing
  <2>2. /\ at \in {"enter", "open"} /\ Head(todo) = Create(What1) /\ What1 \in What
        /\ at = "enter" => What1 \in EnterKinds(src)
        /\ at = "open" => What1 \in OpenKinds(src)
        /\ disk <= Disks
    BY <1>3, <2>1, HeadIs DEF Create
  <2>3. world \subseteq ToRelease(info) /\ ToRelease(info)' = ToRelease(info)
    BY <1>8, <1>9, <2>1, <2>2
  <2>4. CASE src \in {"vsphere", "olvm"}
    <3>1. Tail(todo) # <<>> /\ Head(Tail(todo)) = Keep(What1)
      BY <2>1, <2>4, TailShape DEF Placed, What1
    <3>2. todo' = Tail(todo) /\ UNCHANGED <<disk, attempt>>
      BY <2>1 DEF Advance
    <3>3. Made(What1) \in Unkept'
      <4>1. \A w : Made(w)' = Made(w)
        BY <3>2 DEF Made
      <4>. QED
        BY <1>1, <2>2, <2>4, <3>1, <3>2, <4>1 DEF Unkept
    <3>. QED
      BY <1>15, <2>1, <2>2, <2>3, <3>3
  <2>5. CASE What1 = First(src)
    <3>1. Made(What1) \in info
      BY <2>1, <2>2, <2>5 DEF Traced
    <3>2. src \in {"vsphere", "olvm"} \/ Made(What1) \in ToRelease(info)
      BY <3>1 DEF ToRelease, Findable
    <3>. QED
      BY <1>15, <2>1, <2>2, <2>3, <2>4, <3>2
  <2>6. CASE src = "gcp" /\ What1 = "object"
    <3>1. disk \in Disk
      BY <2>2, SourceTyped, SourceAssumption DEF TypeOK, Disk, Disks
    <3>2. Made(What1) \in Objects
      BY <2>6, <3>1 DEF Made, Objects
    <3>3. Made(What1) \in ToRelease(info)
      BY <2>6, <3>2 DEF ToRelease, Findable
    <3>. QED
      BY <1>15, <2>1, <2>2, <2>3, <3>3
  <2>. QED
    BY <1>3, <2>2, <2>4, <2>5, <2>6 DEF EnterKinds, OpenKinds, First
<1>20. ASSUME DoDrop
       PROVE  Found'
  <2>1. at \in Scripted /\ todo # <<>> /\ Head(todo)[1] \in {"drop", "try"}
    BY <1>20 DEF DoDrop
  <2>2. at \in {"open", "finish", "failing"}
    BY <1>3, <2>1, HeadIs
  <2>3. PICK gone \in Targets :
          /\ world' = world \ gone /\ info' = info \ gone /\ handles' = handles \ gone
          /\ Advance
    BY <1>20 DEF DoDrop, Failing
  <2>4. ToRelease(info) \ gone \subseteq ToRelease(info)'
    BY <1>1, <2>3 DEF ToRelease, Findable, Objects, Disk, Disks
  <2>5. world \subseteq ToRelease(info)
    BY <1>8, <2>1, <2>2
  <2>. QED
    BY <1>15, <2>2, <2>3, <2>4, <2>5
<1>21. ASSUME EnterMore \/ StartCopy \/ FinishDisk
       PROVE  Found'
  <2>1. /\ UNCHANGED <<world, info, handles>> /\ todo = <<>> /\ at \in {"enter", "open", "finish"}
        /\ at' \in {"enter", "disk", "copy"}
    BY <1>21 DEF EnterMore, StartCopy, FinishDisk, listed
  <2>. QED
    BY <1>5, <1>8, <1>9, <2>1
<1>22. ASSUME StartDisk
       PROVE  Found'
  <2>1. UNCHANGED <<world, info, handles>> /\ at = "disk" /\ todo = <<>>
    BY <1>22, NoScript DEF StartDisk, Placed, Allowed
  <2>2. world \subseteq ToRelease(info)
    BY <1>8, <2>1
  <2>3. CASE at' = "open"
    BY <1>5, <1>9, <2>1, <2>2, <2>3
  <2>4. CASE Leave("done", info) \/ Leave("cancelled", info)
    BY <1>6, <2>1, <2>2, <2>4 DEF Leave
  <2>. QED
    BY <1>22, <2>3, <2>4 DEF StartDisk
<1>23. ASSUME Copied
       PROVE  Found'
  <2>1. UNCHANGED <<world, info, handles>> /\ at = "copy" /\ todo = <<>>
    BY <1>23, NoScript DEF Copied, Placed, Allowed
  <2>2. CASE at' = "finish"
    BY <1>5, <1>8, <1>9, <2>1, <2>2
  <2>3. CASE Raise("cancelled")
    BY <1>14, <2>1, <2>3
  <2>. QED
    BY <1>23, <2>2, <2>3 DEF Copied, Failing
<1>24. ASSUME FailDisk
       PROVE  Found'
  <2>1. UNCHANGED <<world, info, handles>> /\ at = "failing" /\ todo = <<>> /\ outcome # "failed"
    BY <1>2, <1>24 DEF FailDisk, Found
  <2>2. world \subseteq ToRelease(info)
    BY <1>8, <2>1
  <2>3. Leave(outcome, info)
    BY <1>24, <2>1 DEF FailDisk
  <2>. QED
    BY <1>6, <2>1, <2>2, <2>3 DEF Leave
<1>25. ASSUME NEW r \in pending, ReleaseOk(r) \/ ReleaseFails(r)
       PROVE  Found'
  <2>1. /\ at \in {"leave", "release"} /\ UNCHANGED <<at, outcome>>
        /\ world' = world \ {r} /\ pending' = pending \ {r}
    BY <1>25 DEF ReleaseOk, ReleaseFails
  <2>. QED
    BY <1>2, <1>4, <1>6, <2>1 DEF Found
<1>26. ASSUME LeaveDone \/ AfterExport \/ ReleaseDone \/ FixupAndFinalize
       PROVE  Found'
  <2>1. /\ UNCHANGED world
        /\ \/ at \in {"left", "release", "fixup"}
           \/ at = "leave" /\ pending = {}
    BY <1>26 DEF LeaveDone, AfterExport, ReleaseDone, FixupAndFinalize
  <2>2. world = {}
    BY <1>2, <2>1 DEF Found
  <2>3. at' \in {"left", "ended", "fixup", "release"}
    BY <1>26 DEF LeaveDone, AfterExport, ReleaseDone, FixupAndFinalize, End
  <2>. QED
    BY <1>4, <2>1, <2>2, <2>3
<1>27. ASSUME RequestCancel \/ GoesDown
       PROVE  Found'
  BY <1>7, <1>27 DEF RequestCancel, GoesDown, listed, place
<1>28. ASSUME AskCleanup \/ Expire
       PROVE  Found'
  <2>1. /\ at \in {"release", "ended"} /\ at' \in {"release", "ended"} /\ world' \subseteq world
    BY <1>28 DEF AskCleanup, Expire, place
  <2>. QED
    BY <1>2, <1>4, <2>1 DEF Found
<1>29. ~RegionsDone /\ ~ReleaseAborts /\ ~Crash
  BY <1>3 DEF RegionsDone, ReleaseAborts, Crash
<1>. QED
  BY <1>10, <1>12, <1>13, <1>16, <1>17, <1>18, <1>19, <1>20, <1>21, <1>22, <1>23, <1>24, <1>25,
     <1>26, <1>27, <1>28, <1>29 DEF Next, TaskStep

-----------------------------------------------------------------------------
(* The invariant is one, and says what is asked of a migration. *)

LEMMA InvStarts == Init => SourceInv
<1> SUFFICES ASSUME Init
             PROVE  SourceInv
  OBVIOUS
<1>1. TypeOK /\ Placed
  BY StartTyped
<1>2. at = "power" /\ world = {} /\ todo = <<>> /\ vm # "stopping"
  BY DEF Init
<1>3. AskedFor /\ Traced /\ Sourced /\ Tidy
  BY <1>2 DEF AskedFor, Traced, ListedIn, Sourced, Tidy, Found
<1>. QED
  BY <1>1, <1>3 DEF SourceInv

LEMMA InvKept == SourceInv /\ [Next]_vars => SourceInv'
<1> SUFFICES ASSUME SourceInv, [Next]_vars
             PROVE  SourceInv'
  OBVIOUS
<1>1. TypeOK /\ Placed /\ AskedFor /\ Traced /\ Sourced /\ Tidy
  BY DEF SourceInv
<1>2. TypeOK' /\ Placed'
  BY <1>1, StepTyped
<1>3. AskedFor'
  BY <1>1, StepAsked
<1>4. Traced' /\ Sourced' /\ Tidy'
  BY <1>1, StepTraced, StepSourced, StepTidy
<1>. QED
  BY <1>2, <1>3, <1>4 DEF SourceInv

LEMMA CopyMadeFrom ==
  ASSUME SourceInv
  PROVE  CopyHasSource
<1> SUFFICES ASSUME at = "copy"
             PROVE  CASE src = "vsphere" -> <<"lease", 1, 1>> \in world
                      [] src = "azure" -> /\ <<"grant", disk, 1>> \in world
                                          /\ capture = "snapshot" => <<"snapshot", disk, 1>> \in world
                      [] src = "aws" -> <<"snapshot", disk, 1>> \in world
                      [] src = "gcp" -> <<"object", disk, 1>> \in world
                      [] src \in {"nutanix", "prism_element"} -> Made("image") \in world
                      [] src = "olvm" -> Made("transfer") \in world
                      [] src = "proxmox" -> Made("nbd") \in world
                      [] OTHER -> TRUE
  BY DEF CopyHasSource
<1>1. TypeOK /\ Placed /\ Sourced
  BY DEF SourceInv
<1>2. /\ MadeUpTo(src, capture, Scripts(src, capture) + 1, 1, world)
      /\ \A w \in OpenKinds(src) : Made(w) \in world
  BY <1>1 DEF Sourced
<1>3. disk \in 1..Disks /\ Last(src) \in 1..Disks /\ Disks \in Nat \ {0}
      /\ src \in AllSources /\ capture \in {"off", "snapshot"}
  BY <1>1, SourceTyped DEF Placed
<1>4. src # "vsphere" => disk \in 1..Last(src)
  BY <1>3 DEF Last, Disks
<1>5. ASSUME NEW m \in 1..2, m <= Scripts(src, capture), NEW w \in What, w \in Needs(src, capture, m),
             NEW e \in 1..Last(src)
      PROVE  <<w, e, 1>> \in world
  <2>1. Scripts(src, capture) \in 0..2
    BY <1>1, SourceTyped
  <2>2. m \in 1..(Scripts(src, capture) + 1) /\ m < Scripts(src, capture) + 1
    BY <1>5, <2>1
  <2>. QED
    BY <1>2, <1>5, <2>2 DEF MadeUpTo
<1>6. CASE src = "vsphere"
  <2>1. 1 <= Scripts(src, capture) /\ "lease" \in Needs(src, capture, 1) /\ 1 \in 1..Last(src)
    BY <1>3, <1>6 DEF Scripts, Needs
  <2>. QED
    BY <1>5, <1>6, <2>1 DEF What
<1>7. CASE src = "azure"
  <2>1. <<"grant", disk, 1>> \in world
    <3>1. CASE capture = "snapshot"
      <4>1. 2 <= Scripts(src, capture) /\ "grant" \in Needs(src, capture, 2)
        BY <1>7, <3>1 DEF Scripts, Needs
      <4>. QED
        BY <1>4, <1>5, <1>7, <4>1 DEF What
    <3>2. CASE capture # "snapshot"
      <4>1. 1 <= Scripts(src, capture) /\ "grant" \in Needs(src, capture, 1)
        BY <1>7, <3>2 DEF Scripts, Needs
      <4>. QED
        BY <1>4, <1>5, <1>7, <4>1 DEF What
    <3>. QED
      BY <3>1, <3>2
  <2>2. capture = "snapshot" => <<"snapshot", disk, 1>> \in world
    <3>1. capture = "snapshot" => 1 <= Scripts(src, capture) /\ "snapshot" \in Needs(src, capture, 1)
      BY <1>7 DEF Scripts, Needs
    <3>. QED
      BY <1>4, <1>5, <1>7, <3>1 DEF What
  <2>. QED
    BY <1>7, <2>1, <2>2
<1>8. CASE src \in {"aws", "gcp"}
  <2>1. /\ 1 <= Scripts(src, capture)
        /\ (IF src = "aws" THEN "snapshot" ELSE "object") \in Needs(src, capture, 1)
    BY <1>8 DEF Scripts, Needs
  <2>2. <<IF src = "aws" THEN "snapshot" ELSE "object", disk, 1>> \in world
    BY <1>4, <1>5, <1>8, <2>1 DEF What
  <2>. QED
    BY <1>8, <2>2
<1>9. CASE src \in {"nutanix", "prism_element", "olvm", "proxmox"}
  BY <1>2, <1>9 DEF OpenKinds
<1>10. CASE src = "hyperv"
  BY <1>10
<1>. QED
  BY <1>3, <1>6, <1>7, <1>8, <1>9, <1>10 DEF AllSources

LEMMA InvSays ==
  ASSUME SourceInv
  PROVE  SourceTraced
<1>1. CrashLeavesTrace
  <2> SUFFICES ASSUME NEW r \in world, ListedFirst(r)
               PROVE  r \in record
    BY DEF CrashLeavesTrace
  <2>1. TypeOK /\ r \in Resource
    BY DEF SourceInv, TypeOK
  <2>. QED
    BY <2>1, FirstIs DEF SourceInv, Traced, ListedIn
<1>2. NothingLeftBehind
  BY DEF SourceInv, Tidy, Found, NothingLeftBehind, CancelLeavesNothing
<1>. QED
  BY <1>1, <1>2, CopyMadeFrom DEF SourceInv, SourceTraced

(* What is listed before it is made stays in the stored record for as long *)
(* as it exists; a disk is copied only while what it is copied from is at  *)
(* the source; and a job none of whose calls failed leaves nothing there   *)
(* (vSphere, Google Cloud, OLVM, Proxmox, Hyper-V).                        *)
THEOREM MigrationTraced == Spec => []SourceTraced
<1>1. SourceInv => SourceTraced
  BY InvSays
<1>. QED
  BY InvStarts, InvKept, <1>1, PTL DEF Spec

-----------------------------------------------------------------------------
(* The export of an instance (OvaExport) *)

(* An export begins with an instance as it is. *)
LEMMA ExportStarts == Export!Init => Export!ExportInv
<1> SUFFICES ASSUME Export!Init PROVE Export!ExportInv
  OBVIOUS
<1> USE ExportAssumption, SourceAssumption DEF Export!Init, Export!Of, Export!Boot
<1>1. Export!op = "read" /\ Export!disk = 1
  BY DEF Export!op, Export!disk
<1>2. Export!TypeOK
  <2>1. exportStep \in Export!Op \X Export!Disk
    BY DEF Export!Op, Export!Disk
  <2>2. source \in [Export!Disk -> {"none", "own", "shareable"}]
    OBVIOUS
  <2>3. faults \in 0..MaxFaults /\ restarts \in 0..MaxCrashes
    OBVIOUS
  <2> QED BY <2>1, <2>2, <2>3 DEF Export!TypeOK
<1>3. Export!Placed
  BY <1>1 DEF Export!Placed, Export!Trouble
<1>6. Export!InstanceSound
  <2>1. \A d \in Export!Disk : source[d] # "none"
    OBVIOUS
  <2>2. 1 \in Export!Disk
    BY DEF Export!Disk
  <2> QED BY <1>1, <2>1, <2>2 DEF Export!InstanceSound, Export!Given
<1>4. Export!RunSound
  BY <1>1 DEF Export!RunSound, Export!Alone, Export!OnHelper, Export!Data, Export!Disk
<1>5. Export!RestoreSound /\ Export!HelperSound /\ Export!CompletedWhole
  BY DEF Export!RestoreSound, Export!HelperSound, Export!CompletedWhole
<1>. QED BY <1>2, <1>3, <1>4, <1>5, <1>6 DEF Export!ExportInv

(* The step is its call and the volume of it. *)
LEMMA StepTo ==
  ASSUME NEW o, NEW d, exportStep' = <<o, d>>
  PROVE  Export!op' = o /\ Export!disk' = d
BY DEF Export!op, Export!disk

LEMMA CallTyped ==
  ASSUME Export!TypeOK
  PROVE  Export!op \in Export!Op /\ Export!disk \in Export!Disk /\ exportStep = <<Export!op, Export!disk>>
BY DEF Export!TypeOK, Export!op, Export!disk

(* What a call does is well-formed. *)
LEMMA EffectTyped ==
  ASSUME Export!TypeOK, Export!Effect
  PROVE  /\ inst' \in {"RUNNING", "STOPPED"} /\ source' \in [Export!Disk -> {"none", "own", "shareable"}]
         /\ helper' \subseteq Export!Disk
<1>1. Export!disk \in Export!Disk
  BY CallTyped
<1>2. inst' \in {"RUNNING", "STOPPED"}
  BY DEF Export!TypeOK, Export!Effect
<1>3. helper' \subseteq Export!Disk
  BY <1>1 DEF Export!TypeOK, Export!Effect
<1>4. source' \in [Export!Disk -> {"none", "own", "shareable"}]
  BY <1>1 DEF Export!TypeOK, Export!Effect
<1>. QED BY <1>2, <1>3, <1>4

(* What the job remembers of a step is well-formed. *)
LEMMA SavesTyped ==
  ASSUME Export!TypeOK, Export!Saves, Export!op = "share" => Export!disk # 1
  PROVE  /\ kind' \in [Export!Data -> Export!Kinds] /\ attached' \subseteq Export!Disk /\ known' \in BOOLEAN
         /\ copied' \subseteq Export!Disk /\ manifest' \in BOOLEAN
<1>1. Export!disk \in Export!Disk
  BY CallTyped
<1>2. kind' \in [Export!Data -> Export!Kinds]
  BY <1>1 DEF Export!TypeOK, Export!Saves, Export!Data, Export!Boot, Export!Kinds
<1>3. known' \in BOOLEAN
  BY DEF Export!TypeOK, Export!Saves
<1>4. manifest' \in BOOLEAN
  BY DEF Export!TypeOK, Export!Saves
<1>5. attached' \subseteq Export!Disk /\ copied' \subseteq Export!Disk
  BY <1>1 DEF Export!TypeOK, Export!Saves
<1>. QED BY <1>2, <1>3, <1>4, <1>5

(* A call that was needless or succeeded, or what is no call *)
Passes ==
  /\ (Export!Needless /\ UNCHANGED Export!oci) \/ (~Export!Needless /\ Export!Accepts /\ Export!Effect)
  /\ Export!Saves /\ Export!Forward
  /\ UNCHANGED <<exportAt, exportPhase, exportCancel, refused, faults, restarts>>

(* How the scripts go on *)
LEMMA AttachNext ==
  ASSUME NEW d \in 2..(NumDisks + 1), kind \in [Export!Data -> Export!Kinds]
  PROVE  IF d = NumDisks + 1 THEN Export!ExportAttachFrom(d) = <<"stop", 1>>
         ELSE Export!ExportAttachFrom(d) = <<IF kind[d] = "shareable" THEN "help" ELSE "detach", d>>
BY ExportAssumption DEF Export!ExportAttachFrom, Export!ExportAttach, Export!Disk, Export!Of,
   Export!Boot

(* A script goes on with a call of its own. *)
LEMMA NextInDomain ==
  ASSUME Export!ExportInv, Export!op # "done", Export!Forward
  PROVE  exportStep' \in Export!Op \X Export!Disk
<1> USE ExportAssumption DEF Export!Disk, Export!Op, Export!Boot, Export!Of
<1>0. Export!TypeOK /\ Export!Placed /\ Export!op \in Export!Op /\ Export!disk \in Export!Disk
      /\ kind \in [Export!Data -> Export!Kinds]
  BY CallTyped DEF Export!ExportInv, Export!TypeOK
<1>1. \A d \in 2..(NumDisks + 1) : Export!ExportAttachFrom(d) \in Export!Op \X Export!Disk
  BY <1>0 DEF Export!ExportAttachFrom, Export!ExportAttach
<1>2. CASE exportAt = "run"
  <2>1. CASE Export!op \in {"copy", "describe", "write"}
    BY <1>0, <1>2, <2>1 DEF Export!Forward, Export!Run
  <2>2. CASE Export!op \in {"list", "start", "note"}
    BY <1>0, <1>1, <1>2, <2>2 DEF Export!Forward, Export!Run, Export!PrepareExport,
       Export!ExportAttachDataVolumes
  <2>3. CASE Export!op \in {"read", "detach", "share", "help", "stop"}
    BY <1>0, <1>2, <2>3 DEF Export!Forward, Export!Run, Export!PrepareExport
  <2>4. Export!op \notin {"unhelp", "reattach"}
    BY <1>0, <1>2 DEF Export!Placed
  <2> QED BY <1>0, <2>1, <2>2, <2>3, <2>4
<1>3. CASE exportAt \in {"restore", "cleanup"}
  <2>1. Export!op \in {"unhelp", "reattach", "start", "stop"}
    BY <1>0, <1>3 DEF Export!Placed
  <2>2. Export!op = "start" => 2 \in Export!Disk
    BY <1>0 DEF Export!Placed
  <2> QED BY <1>0, <1>3, <2>1, <2>2 DEF Export!Forward, Export!Restore, Export!RestoreVolumes
<1>4. exportAt # "ended"
  BY <1>0 DEF Export!Placed
<1>. QED BY <1>0, <1>2, <1>3, <1>4 DEF Export!TypeOK

(* With the volumes before e on the helper the run goes on with volume e. *)
LEMMA RunAttaches ==
  ASSUME NEW e \in 2..(NumDisks + 1), kind \in [Export!Data -> Export!Kinds], kind' = kind,
         exportAt' = "run", exportStep' = Export!ExportAttachFrom(e), helper' = 2..(e - 1),
         copied' = {}, source'[1] # "none",
         (\E x \in e..NumDisks : kind[x] = "plain") => inst' = "RUNNING",
         \A x \in 2..NumDisks : kind[x] = "shareable" => source'[x] = "shareable"
  PROVE  Export!RunSound'
<1> USE ExportAssumption DEF Export!Boot, Export!Data, Export!Disk
<1>1. Export!op' = exportStep'[1] /\ Export!disk' = exportStep'[2]
  BY DEF Export!op, Export!disk
<1>2. CASE e = NumDisks + 1
  <2>1. Export!op' = "stop" /\ Export!disk' = 1
    BY <1>1, <1>2, AttachNext
  <2>2. helper' = Export!Data
    BY <1>2
  <2> QED BY <2>1, <2>2 DEF Export!RunSound, Export!OnHelper, Export!Alone
<1>3. CASE e # NumDisks + 1
  <2>1. /\ Export!op' = (IF kind[e] = "shareable" THEN "help" ELSE "detach") /\ Export!disk' = e
        /\ e \in 2..NumDisks
    BY <1>1, <1>3, AttachNext
  <2>2. CASE kind[e] = "shareable"
    BY <2>1, <2>2 DEF Export!RunSound, Export!OnHelper, Export!Alone
  <2>3. CASE kind[e] # "shareable"
    BY <2>1, <2>3 DEF Export!RunSound, Export!OnHelper, Export!Alone
  <2> QED BY <2>2, <2>3
<1>. QED BY <1>2, <1>3

(* A step of the run takes apart what its script says. *)
LEMMA RunPasses ==
  ASSUME Export!ExportInv, exportAt = "run", Export!op # "done", Passes
  PROVE  Export!RunSound'
<1> USE ExportAssumption DEF Export!Boot, Export!Of, Export!Data, Export!Disk
<1> DEFINE o == Export!op
           d == Export!disk
<1>0. /\ Export!TypeOK /\ Export!Placed /\ Export!InstanceSound /\ Export!RunSound
      /\ o \in Export!Op /\ d \in 1..NumDisks /\ kind \in [2..NumDisks -> Export!Kinds]
      /\ source \in [1..NumDisks -> {"none", "own", "shareable"}] /\ exportAt' = "run"
      /\ attached \subseteq helper /\ inst \in {"RUNNING", "STOPPED"} /\ copied \subseteq 1..NumDisks
  <2>1. 2..NumDisks = (1..NumDisks) \ {1}
    OBVIOUS
  <2>2. attached \subseteq helper
    BY DEF Export!ExportInv, Export!Placed, Export!HelperSound
  <2> QED BY <2>1, <2>2, CallTyped DEF Export!ExportInv, Export!TypeOK, Passes
<1>1. exportStep' = Export!Run /\ Export!Saves
      /\ \/ Export!Needless /\ UNCHANGED <<inst, source, helper>>
         \/ ~Export!Needless /\ Export!Effect
  BY DEF Passes, Export!Forward, Export!oci
<1>2. CASE o = "read"
  <2>1. exportStep' = <<"list", 1>>
    BY <1>0, <1>1, <1>2 DEF Export!Run, Export!PrepareExport
  <2>2. UNCHANGED <<inst, source, helper, kind, copied>>
    BY <1>0, <1>1, <1>2 DEF Export!Saves, Export!Effect, Export!Needless, Export!Missing
  <2>3. Export!op' = exportStep'[1] /\ Export!disk' = exportStep'[2]
    BY DEF Export!op, Export!disk
  <2> QED BY <1>0, <1>2, <2>1, <2>2, <2>3 DEF Export!RunSound, Export!OnHelper, Export!Alone
<1>3. CASE o = "list"
  <2>1. exportStep' = IF \E e \in 2..NumDisks : kind[e] = "plain" THEN <<"start",
     1>> ELSE Export!ExportAttachFrom(2)
    BY <1>0, <1>1, <1>3 DEF Export!Run, Export!PrepareExport, Export!ExportAttachDataVolumes
  <2>2. UNCHANGED <<inst, source, helper, kind, copied>>
    BY <1>0, <1>1, <1>3 DEF Export!Saves, Export!Effect, Export!Needless, Export!Missing
  <2>3. Export!op' = exportStep'[1] /\ Export!disk' = exportStep'[2]
    BY DEF Export!op, Export!disk
  <2>4. helper = {} /\ copied = {} /\ source[1] # "none"
        /\ \A e \in 2..NumDisks : kind[e] = "shareable" => source[e] = "shareable"
    BY <1>0, <1>3 DEF Export!RunSound, Export!OnHelper, Export!Alone
  <2>5. CASE \E e \in 2..NumDisks : kind[e] = "plain"
    BY <1>0, <1>3, <2>1, <2>2, <2>3, <2>4, <2>5 DEF Export!RunSound, Export!OnHelper, Export!Alone
  <2>6. CASE ~\E e \in 2..NumDisks : kind[e] = "plain"
    <3>1. 2 \in 2..(NumDisks + 1) /\ helper' = 2..(2 - 1) /\ copied' = {} /\ source'[1] # "none"
          /\ kind' = kind /\ exportStep' = Export!ExportAttachFrom(2)
      BY <2>1, <2>2, <2>4, <2>6
    <3> QED BY <1>0, <2>2, <2>4, <2>6, <3>1, RunAttaches
  <2> QED BY <2>5, <2>6
<1>4. CASE o = "start"
  <2>1. exportStep' = Export!ExportAttachFrom(2)
    BY <1>0, <1>1, <1>4 DEF Export!Run, Export!PrepareExport
  <2>2. inst' = "RUNNING" /\ UNCHANGED <<source, helper, kind, copied>>
    BY <1>0, <1>1, <1>4 DEF Export!Saves, Export!Effect, Export!Needless, Export!Missing
  <2>3. Export!op' = exportStep'[1] /\ Export!disk' = exportStep'[2]
    BY DEF Export!op, Export!disk
  <2>4. helper = {} /\ copied = {} /\ source[1] # "none"
        /\ \A e \in 2..NumDisks : kind[e] = "shareable" => source[e] = "shareable"
    BY <1>0, <1>4 DEF Export!RunSound, Export!OnHelper, Export!Alone
  <2>5. 2 \in 2..(NumDisks + 1) /\ helper' = 2..(2 - 1) /\ copied' = {} /\ source'[1] # "none"
    BY <2>2, <2>4
  <2> QED BY <1>0, <2>1, <2>2, <2>4, <2>5, RunAttaches
<1>5. CASE o = "detach" /\ d # 1
  <2>1. exportStep' = <<IF kind[d] = "plain" THEN "share" ELSE "help", d>>
    BY <1>0, <1>1, <1>5 DEF Export!Run, Export!PrepareExport
  <2>2. (source' = [source EXCEPT ![d] = "none"] \/ (source' = source /\ source[d] = "none")) /\ UNCHANGED <<inst, helper, kind, copied>>
    BY <1>0, <1>1, <1>5 DEF Export!Saves, Export!Effect, Export!Needless, Export!Missing
  <2>3. Export!op' = exportStep'[1] /\ Export!disk' = exportStep'[2]
    BY DEF Export!op, Export!disk
  <2>4. /\ helper = 2..(d - 1) /\ copied = {} /\ source[1] # "none" /\ kind[d] # "shareable"
        /\ (\E e \in d..NumDisks : kind[e] = "plain") => inst = "RUNNING"
        /\ \A e \in 2..NumDisks : kind[e] = "shareable" => source[e] = "shareable"
    BY <1>0, <1>5 DEF Export!RunSound, Export!OnHelper, Export!Alone
  <2>5. /\ source'[d] = "none" /\ source'[1] = source[1]
        /\ \A e \in 2..NumDisks \ {d} : source'[e] = source[e]
    BY <1>0, <1>5, <2>2
  <2>6. Export!op' = (IF kind[d] = "plain" THEN "share" ELSE "help") /\ Export!disk' = d
    BY <2>1, <2>3
  <2> HIDE DEF o, d
  <2> QED BY <1>0, <1>5, <2>2, <2>4, <2>5, <2>6 DEF Export!RunSound, Export!OnHelper, Export!Alone
<1>6. CASE o = "share"
  <2>1. exportStep' = <<"help", d>>
    BY <1>0, <1>1, <1>6 DEF Export!Run, Export!PrepareExport
  <2>2. source' = [source EXCEPT ![d] = "shareable"] /\ kind' = [kind EXCEPT ![d] = "shareable"] /\ UNCHANGED <<inst, helper, copied>>
    BY <1>0, <1>1, <1>6 DEF Export!Saves, Export!Effect, Export!Needless, Export!Missing
  <2>3. Export!op' = exportStep'[1] /\ Export!disk' = exportStep'[2]
    BY DEF Export!op, Export!disk
  <2>4. d # 1
    BY <1>0, <1>6 DEF Export!Placed
  <2>5. /\ helper = 2..(d - 1) /\ copied = {} /\ source[1] # "none"
        /\ (\E e \in d..NumDisks : kind[e] = "plain") => inst = "RUNNING"
        /\ \A e \in 2..NumDisks : kind[e] = "shareable" => source[e] = "shareable"
    BY <1>0, <1>6, <2>4 DEF Export!RunSound, Export!OnHelper, Export!Alone
  <2>6. /\ source'[d] = "shareable" /\ source'[1] = source[1]
        /\ \A e \in 2..NumDisks \ {d} : source'[e] = source[e] /\ kind'[e] = kind[e]
        /\ kind'[d] = "shareable"
    BY <1>0, <2>2, <2>4
  <2>7. Export!op' = "help" /\ Export!disk' = d
    BY <2>1, <2>3
  <2> HIDE DEF o, d
  <2> QED BY <1>0, <2>2, <2>4, <2>5, <2>6, <2>7 DEF Export!RunSound, Export!OnHelper, Export!Alone
<1>7. CASE o = "help"
  <2>1. exportStep' = <<"note", d>>
    BY <1>0, <1>1, <1>7 DEF Export!Run, Export!PrepareExport
  <2>2. helper' = helper \cup {d} /\ UNCHANGED <<inst, source, kind, copied>>
    BY <1>0, <1>1, <1>7 DEF Export!Saves, Export!Effect, Export!Needless, Export!Missing
  <2>3. Export!op' = exportStep'[1] /\ Export!disk' = exportStep'[2]
    BY DEF Export!op, Export!disk
  <2> QED BY <1>0, <1>7, <2>1, <2>2, <2>3 DEF Export!RunSound, Export!OnHelper, Export!Alone
<1>8. CASE o = "note" /\ d # 1
  <2>1. exportStep' = Export!ExportAttachFrom(d + 1)
    BY <1>0, <1>1, <1>8 DEF Export!Run, Export!PrepareExport
  <2>2. UNCHANGED <<inst, source, helper, kind, copied>>
    BY <1>0, <1>1, <1>8 DEF Export!Saves, Export!Effect, Export!Needless, Export!Missing
  <2>3. Export!op' = exportStep'[1] /\ Export!disk' = exportStep'[2]
    BY DEF Export!op, Export!disk
  <2>4. /\ helper = 2..d /\ copied = {} /\ source[1] # "none"
        /\ \A e \in 2..NumDisks : kind[e] = "shareable" => source[e] = "shareable"
        /\ (\E e \in d..NumDisks : kind[e] = "plain") => inst = "RUNNING"
    BY <1>0, <1>8 DEF Export!RunSound, Export!OnHelper, Export!Alone
  <2>5. d + 1 \in 2..(NumDisks + 1) /\ helper' = 2..((d + 1) - 1) /\ copied' = {} /\ source'[1] # "none"
        /\ \A e \in (d + 1)..NumDisks : e \in d..NumDisks
    BY <1>0, <1>8, <2>2, <2>4
  <2> QED BY <1>0, <2>1, <2>2, <2>4, <2>5, RunAttaches
<1>9. CASE o = "stop"
  <2>1. exportStep' = <<"detach", 1>>
    BY <1>0, <1>1, <1>9 DEF Export!Run, Export!PrepareExport
  <2>2. inst' = "STOPPED" /\ UNCHANGED <<source, helper, kind, copied>>
    BY <1>0, <1>1, <1>9 DEF Export!Saves, Export!Effect, Export!Needless, Export!Missing
  <2>3. Export!op' = exportStep'[1] /\ Export!disk' = exportStep'[2]
    BY DEF Export!op, Export!disk
  <2>4. d = 1
    BY <1>0, <1>9 DEF Export!Placed
  <2>5. helper = Export!Data /\ copied = {} /\ source[1] # "none"
        /\ \A e \in 2..NumDisks : kind[e] = "shareable" => source[e] = "shareable"
    BY <1>0, <1>9, <2>4 DEF Export!RunSound, Export!OnHelper, Export!Alone
  <2> QED BY <1>0, <2>1, <2>2, <2>3, <2>5 DEF Export!RunSound, Export!OnHelper, Export!Alone
<1>10. CASE o = "detach" /\ d = 1
  <2>1. exportStep' = <<"help", 1>>
    BY <1>0, <1>1, <1>10 DEF Export!Run, Export!PrepareExport
  <2>2. source' = [source EXCEPT ![1] = "none"] /\ UNCHANGED <<inst, helper, kind, copied>>
    BY <1>0, <1>1, <1>10 DEF Export!Saves, Export!Effect, Export!Needless, Export!Missing
  <2>3. Export!op' = exportStep'[1] /\ Export!disk' = exportStep'[2]
    BY DEF Export!op, Export!disk
  <2> QED BY <1>0, <1>10, <2>1, <2>2, <2>3 DEF Export!RunSound, Export!OnHelper, Export!Alone
<1>11. CASE o = "note" /\ d = 1
  <2>1. exportStep' = <<"copy", 1>>
    BY <1>0, <1>1, <1>11 DEF Export!Run, Export!PrepareExport
  <2>2. UNCHANGED <<inst, source, helper, kind, copied>>
    BY <1>0, <1>1, <1>11 DEF Export!Saves, Export!Effect, Export!Needless, Export!Missing
  <2>3. Export!op' = exportStep'[1] /\ Export!disk' = exportStep'[2]
    BY DEF Export!op, Export!disk
  <2> QED BY <1>0, <1>11, <2>1, <2>2, <2>3 DEF Export!RunSound, Export!OnHelper, Export!Alone
<1>12. CASE o = "copy"
  <2>1. exportStep' = IF d < NumDisks THEN <<"copy", d + 1>> ELSE <<"describe", 1>>
    BY <1>0, <1>1, <1>12 DEF Export!Run
  <2>2. copied' = copied \cup {d} /\ UNCHANGED <<inst, source, helper, kind>>
    BY <1>0, <1>1, <1>12 DEF Export!Saves, Export!Effect, Export!Needless, Export!Missing
  <2>3. Export!op' = exportStep'[1] /\ Export!disk' = exportStep'[2]
    BY DEF Export!op, Export!disk
  <2> QED BY <1>0, <1>12, <2>1, <2>2, <2>3 DEF Export!RunSound, Export!OnHelper, Export!Alone
<1>13. CASE o = "describe"
  <2>1. exportStep' = <<"write", 1>>
    BY <1>0, <1>1, <1>13 DEF Export!Run
  <2>2. UNCHANGED <<inst, source, helper, kind, copied>>
    BY <1>0, <1>1, <1>13 DEF Export!Saves, Export!Effect, Export!Needless, Export!Missing
  <2>3. Export!op' = exportStep'[1] /\ Export!disk' = exportStep'[2]
    BY DEF Export!op, Export!disk
  <2> QED BY <1>0, <1>13, <2>1, <2>2, <2>3 DEF Export!RunSound, Export!OnHelper, Export!Alone
<1>14. CASE o = "write"
  <2>1. exportStep' = <<"done", 1>>
    BY <1>0, <1>1, <1>14 DEF Export!Run
  <2>2. UNCHANGED <<inst, source, helper, kind, copied>> /\ manifest'
    BY <1>0, <1>1, <1>14 DEF Export!Saves, Export!Effect, Export!Needless, Export!Missing
  <2>3. Export!op' = exportStep'[1] /\ Export!disk' = exportStep'[2]
    BY DEF Export!op, Export!disk
  <2> QED BY <1>0, <1>14, <2>1, <2>2, <2>3 DEF Export!RunSound, Export!OnHelper, Export!Alone
<1>. QED BY <1>0, <1>2, <1>3, <1>4, <1>5, <1>6, <1>7, <1>8, <1>9, <1>10, <1>11, <1>12, <1>13,
   <1>14 DEF Export!Op, Export!Placed

(* A step of the restore puts back what its script says. *)
LEMMA RestorePasses ==
  ASSUME Export!ExportInv, exportAt \in {"restore", "cleanup"}, Export!op # "done", Passes
  PROVE  Export!RestoreSound'
<1> USE ExportAssumption DEF Export!Boot, Export!Of, Export!Data, Export!Disk
<1> DEFINE o == Export!op
           d == Export!disk
<1>0. /\ Export!TypeOK /\ Export!Placed /\ Export!InstanceSound /\ Export!RestoreSound
      /\ o \in {"unhelp", "reattach", "start", "stop"} /\ d \in 1..NumDisks
      /\ source \in [1..NumDisks -> {"none", "own", "shareable"}] /\ exportAt' = exportAt
      /\ inst \in {"RUNNING", "STOPPED"}
  BY CallTyped DEF Export!ExportInv, Export!TypeOK, Export!Placed, Passes
<1>1. exportStep' = Export!Restore
      /\ \/ Export!Needless /\ UNCHANGED <<inst, source, helper>>
         \/ ~Export!Needless /\ Export!Effect
  BY DEF Passes, Export!Forward, Export!oci
<1>2. Export!op' = exportStep'[1] /\ Export!disk' = exportStep'[2]
  BY DEF Export!op, Export!disk
<1>3. CASE o = "unhelp"
  <2>1. exportStep' = IF d < NumDisks THEN <<"unhelp", d + 1>> ELSE <<"reattach", 1>>
    BY <1>0, <1>1, <1>3 DEF Export!Restore, Export!RestoreVolumes
  <2> QED BY <1>0, <1>2, <2>1 DEF Export!RestoreSound
<1>4. CASE o = "reattach"
  <2>1. exportStep' = IF d = NumDisks THEN <<"stop", 1>> ELSE IF d = 1 THEN <<"start",
     1>> ELSE <<"reattach", d + 1>>
    BY <1>0, <1>1, <1>4 DEF Export!Restore
  <2>2. source'[d] # "none" /\ inst' = inst /\ \A e \in 1..NumDisks \ {d} : source'[e] = source[e]
    <3>1. CASE Export!Needless
      BY <1>0, <1>1, <1>4, <3>1 DEF Export!Needless
    <3>2. CASE ~Export!Needless
      BY <1>0, <1>1, <1>4, <3>2 DEF Export!Effect
    <3> QED BY <3>1, <3>2
  <2>3. d # 1 => /\ source[1] # "none" /\ \A e \in 2..(d - 1) : source[e] # "none"
                 /\ inst = "RUNNING" \/ Export!Missing = {}
    BY <1>0, <1>4 DEF Export!RestoreSound
  <2>4. Export!Missing = {} => Export!Missing' = {}
    BY <2>2 DEF Export!Missing
  <2>5. CASE d = NumDisks
    BY <1>0, <1>2, <2>1, <2>2, <2>3, <2>5 DEF Export!RestoreSound, Export!Given
  <2>6. CASE d = 1 /\ d # NumDisks
    BY <1>0, <1>2, <2>1, <2>2, <2>6 DEF Export!RestoreSound
  <2>7. CASE d # 1 /\ d # NumDisks
    BY <1>0, <1>2, <2>1, <2>2, <2>3, <2>4, <2>7 DEF Export!RestoreSound
  <2> QED BY <2>5, <2>6, <2>7
<1>5. CASE o = "start"
  <2>1. exportStep' = <<"reattach", 2>>
    BY <1>0, <1>1, <1>5 DEF Export!Restore
  <2>2. source' = source /\ (inst' = "RUNNING" \/ Export!Missing' = {})
    BY <1>0, <1>1, <1>5 DEF Export!Needless, Export!Effect, Export!Missing
  <2> QED BY <1>0, <1>2, <1>5, <2>1, <2>2 DEF Export!RestoreSound
<1>6. CASE o = "stop"
  <2>1. exportStep' = <<"done", 1>>
    BY <1>0, <1>1, <1>6 DEF Export!Restore
  <2>2. source' = source /\ inst' = "STOPPED"
    BY <1>0, <1>1, <1>6 DEF Export!Needless, Export!Effect
  <2> QED BY <1>0, <1>2, <1>6, <2>1, <2>2 DEF Export!RestoreSound, Export!Given, Export!Whole
<1>. QED BY <1>0, <1>3, <1>4, <1>5, <1>6

(* A step of the task leads to a call of its script. *)
LEMMA PlacedPasses ==
  ASSUME Export!ExportInv, Export!op # "done", Passes
  PROVE  Export!Placed'
<1> USE ExportAssumption DEF Export!Boot, Export!Of, Export!Data, Export!Disk
<1> DEFINE o == Export!op
           d == Export!disk
<1>0. /\ Export!TypeOK /\ Export!Placed /\ o \in Export!Op /\ d \in 1..NumDisks
      /\ kind \in [Export!Data -> Export!Kinds]
      /\ UNCHANGED <<exportAt, exportPhase, faults, restarts>>
  BY CallTyped DEF Export!ExportInv, Export!TypeOK, Passes
<1>1. Export!op' = exportStep'[1] /\ Export!disk' = exportStep'[2]
  BY DEF Export!op, Export!disk
<1>2. ASSUME exportAt = "run"
      PROVE  /\ Export!op' \notin {"unhelp", "reattach"}
             /\ Export!op' \in {"read", "list", "start", "stop", "describe", "write", "done"} => Export!disk' = 1
             /\ Export!op' = "share" => Export!disk' # 1
             /\ Export!op' = "start" => NumDisks > 1
  <2>0. exportStep' = Export!Run
    BY <1>2 DEF Passes, Export!Forward
  <2>1. CASE o \in {"copy", "describe", "write"}
    BY <1>0, <1>1, <2>0, <2>1 DEF Export!Run
  <2>2. ASSUME NEW e \in 2..(NumDisks + 1), exportStep' = Export!ExportAttachFrom(e)
        PROVE  \/ Export!op' = "stop" /\ Export!disk' = 1
               \/ Export!op' \in {"help", "detach"} /\ Export!disk' = e
    BY <1>0, <1>1, <2>2, AttachNext
  <2>3. CASE o = "list"
    <3>1. 2 \in 2..(NumDisks + 1) /\ ((\E e \in Export!Data : kind[e] = "plain") => NumDisks > 1)
      OBVIOUS
    <3>2. exportStep' = Export!ExportAttachDataVolumes
      BY <2>0, <2>3 DEF Export!Run, Export!PrepareExport
    <3>3. CASE \E e \in Export!Data : kind[e] = "plain"
      BY <1>1, <3>1, <3>2, <3>3 DEF Export!ExportAttachDataVolumes
    <3>4. CASE ~\E e \in Export!Data : kind[e] = "plain"
      BY <2>2, <3>1, <3>2, <3>4 DEF Export!ExportAttachDataVolumes
    <3> QED BY <3>3, <3>4
  <2>4. CASE o = "start"
    <3>1. 2 \in 2..(NumDisks + 1) /\ exportStep' = Export!ExportAttachFrom(2)
      BY <2>0, <2>4 DEF Export!Run, Export!PrepareExport
    <3> QED BY <2>2, <3>1
  <2>5. CASE o = "note" /\ d # 1
    <3>1. d + 1 \in 2..(NumDisks + 1) /\ exportStep' = Export!ExportAttachFrom(d + 1)
      BY <1>0, <2>0, <2>5 DEF Export!Run, Export!PrepareExport
    <3> QED BY <2>2, <3>1
  <2>6. CASE o = "note" /\ d = 1
    BY <1>1, <2>0, <2>6 DEF Export!Run, Export!PrepareExport
  <2>7. CASE o \in {"read", "detach", "share", "help", "stop"}
    BY <1>1, <2>0, <2>7 DEF Export!Run, Export!PrepareExport
  <2>8. o \notin {"unhelp", "reattach"}
    BY <1>0, <1>2 DEF Export!Placed
  <2> QED BY <1>0, <2>1, <2>3, <2>4, <2>5, <2>6, <2>7, <2>8 DEF Export!Op
<1>3. ASSUME exportAt \in {"restore", "cleanup"}
      PROVE  /\ Export!op' \in {"unhelp", "reattach", "start", "stop", "done"} /\ copied' = copied
             /\ Export!op' \in {"start", "stop", "done"} => Export!disk' = 1
             /\ Export!op' = "start" => NumDisks > 1
  <2>0. exportStep' = Export!Restore
    BY <1>3 DEF Passes, Export!Forward
  <2>1. o \in {"unhelp", "reattach", "start", "stop"}
    BY <1>0, <1>3 DEF Export!Placed
  <2>2. copied' = copied
    BY <2>1 DEF Passes, Export!Saves
  <2> QED BY <1>0, <1>1, <2>0, <2>1, <2>2 DEF Export!Restore, Export!RestoreVolumes
<1>4. (known => known') /\ (manifest => manifest')
  BY DEF Passes, Export!Saves
<1>. QED BY <1>0, <1>2, <1>3, <1>4 DEF Export!Placed, Export!Trouble, Export!TypeOK

(* A step of the task leaves the instance sound. *)
LEMMA InstancePasses ==
  ASSUME Export!ExportInv, Export!op # "done", Passes
  PROVE  Export!InstanceSound'
<1> USE ExportAssumption DEF Export!Boot, Export!Disk
<1> DEFINE o == Export!op
           d == Export!disk
<1>0. /\ Export!TypeOK /\ Export!Placed /\ Export!InstanceSound /\ o \in Export!Op /\ d \in 1..NumDisks
      /\ source \in [1..NumDisks -> {"none", "own", "shareable"}]
      /\ exportAt' = exportAt /\ exportAt # "ended" /\ known \in BOOLEAN
  BY CallTyped DEF Export!ExportInv, Export!TypeOK, Export!Placed, Passes
<1>1. source'[1] = "none" => inst' = "STOPPED"
  <2>1. CASE UNCHANGED <<inst, source>>
    BY <1>0, <2>1 DEF Export!InstanceSound
  <2>2. CASE Export!Accepts /\ Export!Effect
    BY <1>0, <2>2 DEF Export!InstanceSound, Export!Accepts, Export!Effect
  <2> QED BY <2>1, <2>2 DEF Passes, Export!oci
<1>2. ASSUME ~known'
      PROVE  Export!Given' /\ helper' = {} /\ attached' = {} /\ (exportAt' = "run" => Export!op' \in {"read", "list"})
  <2>1. ~known /\ o # "list"
    BY <1>2 DEF Passes, Export!Saves
  <2>2. o \in {"read", "stop"} /\ (exportAt = "run" => o = "read")
    BY <1>0, <2>1 DEF Export!InstanceSound, Export!Placed, Export!TypeOK
  <2>3. UNCHANGED <<source, helper, attached>>
    BY <2>2 DEF Passes, Export!Saves, Export!Effect, Export!oci
  <2>4. exportAt = "run" => Export!op' = "list"
    BY <2>2 DEF Passes, Export!Forward, Export!Run, Export!PrepareExport, Export!Of, Export!op
  <2> QED BY <1>0, <2>1, <2>3, <2>4 DEF Export!InstanceSound, Export!Given
<1>3. exportAt' \in {"restore", "cleanup"} /\ Export!op' \in {"unhelp", "reattach", "start"} => known'
  <2>1. known => known'
    BY DEF Passes, Export!Saves
  <2>2. ASSUME exportAt \in {"restore", "cleanup"}, o = "stop" PROVE Export!op' = "done"
    BY <2>2 DEF Passes, Export!Forward, Export!Restore, Export!Of, Export!op
  <2> QED BY <1>0, <2>1, <2>2 DEF Export!InstanceSound, Export!Placed
<1>. QED BY <1>1, <1>2, <1>3 DEF Export!InstanceSound

(* A step of the task leaves the record true to the helper. *)
LEMMA HelperPasses ==
  ASSUME Export!ExportInv, Export!op # "done", Passes
  PROVE  Export!HelperSound'
<1> USE ExportAssumption DEF Export!Boot, Export!Disk, Export!Data
<1> DEFINE o == Export!op
           d == Export!disk
<1>0. /\ Export!TypeOK /\ Export!Placed /\ Export!HelperSound /\ Export!RunSound
      /\ o \in Export!Op /\ d \in 1..NumDisks
      /\ helper \subseteq 1..NumDisks /\ attached \subseteq 1..NumDisks
      /\ UNCHANGED <<exportAt, faults, restarts, refused>>
  BY CallTyped DEF Export!ExportInv, Export!TypeOK, Passes
<1>1. Export!op' = exportStep'[1] /\ Export!disk' = exportStep'[2]
  BY DEF Export!op, Export!disk
<1> SUFFICES ASSUME ~Export!Trouble PROVE Export!HelperSound'
  BY <1>0 DEF Export!HelperSound, Export!Trouble
<1>2. /\ ~refused /\ attached \subseteq helper /\ helper \ attached \subseteq (IF o = "note" THEN {d} ELSE {})
      /\ exportAt \in {"restore", "cleanup"} =>
           IF o = "unhelp" THEN helper \cap (1..(d - 1)) = {} ELSE helper = {}
  BY <1>0 DEF Export!HelperSound
<1>3. CASE o = "help"
  <2>1. exportStep' = <<"note", d>> /\ exportAt = "run"
    BY <1>0, <1>3 DEF Passes, Export!Forward, Export!Run, Export!PrepareExport, Export!Placed,
       Export!TypeOK
  <2>2. helper' = helper \cup {d} /\ attached' = attached
    BY <1>2, <1>3 DEF Passes, Export!oci, Export!Needless, Export!Effect, Export!Saves
  <2> QED BY <1>0, <1>1, <1>2, <1>3, <2>1, <2>2 DEF Export!HelperSound
<1>4. CASE o = "note"
  <2>1. exportAt = "run" /\ Export!op' # "unhelp"
    <3>1. exportAt = "run"
      BY <1>0, <1>4 DEF Export!Placed, Export!TypeOK
    <3> QED BY <3>1, <1>0, <1>4, PlacedPasses DEF Export!Placed
  <2>2. helper' = helper /\ attached' = attached \cup {d}
    BY <1>2, <1>4 DEF Passes, Export!oci, Export!Needless, Export!Effect, Export!Saves
  <2>3. d \in helper
    BY <1>0, <1>4, <2>1 DEF Export!RunSound, Export!OnHelper
  <2> QED BY <1>0, <1>2, <1>4, <2>1, <2>2, <2>3 DEF Export!HelperSound
<1>5. CASE o = "unhelp"
  <2>1. exportStep' = (IF d < NumDisks THEN <<"unhelp", d + 1>> ELSE <<"reattach", 1>>)
        /\ exportAt \in {"restore", "cleanup"}
    BY <1>0, <1>5 DEF Passes, Export!Forward, Export!Restore, Export!RestoreVolumes, Export!Of,
       Export!Placed,
       Export!TypeOK
  <2>2. helper' = helper \ {d} /\ attached' = attached \ {d}
    BY <1>2, <1>5 DEF Passes, Export!oci, Export!Needless, Export!Effect, Export!Saves
  <2>3. attached = helper
    BY <1>2, <1>5
  <2>4. CASE d < NumDisks
    <3>1. Export!op' = "unhelp" /\ Export!disk' = d + 1
      BY <1>1, <2>1, <2>4
    <3>2. helper' \cap (1..d) = {}
      BY <1>0, <1>2, <1>5, <2>1, <2>2
    <3> QED BY <1>0, <1>2, <2>1, <2>2, <2>3, <3>1, <3>2 DEF Export!HelperSound
  <2>5. CASE d = NumDisks
    <3>1. Export!op' = "reattach"
      BY <1>1, <2>1, <2>5
    <3>2. helper' = {}
      BY <1>0, <1>2, <1>5, <2>1, <2>2, <2>5
    <3> QED BY <1>0, <1>2, <2>2, <2>3, <3>1, <3>2 DEF Export!HelperSound
  <2> QED BY <1>0, <2>4, <2>5
<1>6. CASE o \notin {"help", "note", "unhelp"}
  <2>1. UNCHANGED <<helper, attached>>
    BY <1>6 DEF Passes, Export!oci, Export!Effect, Export!Saves
  <2>2. helper = attached
    BY <1>2, <1>6
  <2>3. ASSUME exportAt \in {"restore", "cleanup"} PROVE Export!op' # "unhelp"
    <3>1. o \in {"reattach", "start", "stop"}
      BY <1>0, <1>6, <2>3 DEF Export!Placed
    <3> QED BY <1>1, <2>3, <3>1 DEF Passes, Export!Forward, Export!Restore, Export!Of
  <2> QED BY <1>0, <1>2, <1>6, <2>1, <2>2, <2>3 DEF Export!HelperSound
<1>. QED BY <1>3, <1>4, <1>5, <1>6

(* The three together *)
LEMMA PassesKept ==
  ASSUME Export!ExportInv, Export!op # "done", Passes
  PROVE  Export!ExportInv'
<1>0. Export!TypeOK /\ Export!Placed /\ Export!disk \in Export!Disk
  BY CallTyped DEF Export!ExportInv
<1>1. Export!TypeOK'
  <2>1. exportStep' \in Export!Op \X Export!Disk
    BY NextInDomain DEF Passes
  <2>2. /\ kind' \in [Export!Data -> Export!Kinds] /\ attached' \subseteq Export!Disk /\ known' \in BOOLEAN
        /\ copied' \subseteq Export!Disk /\ manifest' \in BOOLEAN
    BY <1>0, SavesTyped DEF Passes, Export!Placed, Export!Boot
  <2>3. /\ inst' \in {"RUNNING", "STOPPED"}
        /\ source' \in [Export!Disk -> {"none", "own", "shareable"}]
        /\ helper' \subseteq Export!Disk
    <3>1. CASE UNCHANGED Export!oci
      BY <1>0, <3>1 DEF Export!TypeOK, Export!oci
    <3>2. CASE Export!Effect
      BY <1>0, <3>2, EffectTyped
    <3> QED BY <3>1, <3>2 DEF Passes
  <2>4. UNCHANGED <<exportAt, exportPhase, exportCancel, refused, faults, restarts>>
    BY DEF Passes
  <2> QED BY <1>0, <2>1, <2>2, <2>3, <2>4 DEF Export!TypeOK
<1>2. Export!RunSound'
  <2>1. CASE exportAt = "run"
    BY <2>1, RunPasses
  <2>2. CASE exportAt # "run"
    BY <2>2 DEF Passes, Export!RunSound
  <2> QED BY <2>1, <2>2
<1>3. Export!RestoreSound'
  <2>1. CASE exportAt \in {"restore", "cleanup"}
    BY <2>1, RestorePasses
  <2>2. CASE exportAt \notin {"restore", "cleanup"}
    BY <2>2 DEF Passes, Export!RestoreSound
  <2> QED BY <2>1, <2>2
<1>4. Export!CompletedWhole'
  BY <1>0 DEF Passes, Export!Placed, Export!CompletedWhole
<1>. QED BY <1>1, <1>2, <1>3, <1>4, PlacedPasses, InstancePasses, HelperPasses DEF Export!ExportInv

(* OCI accepts every call of an export that nothing went wrong with. *)
LEMMA CallAccepted ==
  ASSUME Export!ExportInv, ~Export!Trouble, ~Export!Needless, Export!op \notin {"note", "copy", "done"}
  PROVE  Export!Accepts
<1> USE ExportAssumption DEF Export!Boot, Export!Disk, Export!Data
<1> DEFINE o == Export!op
           d == Export!disk
<1>0. /\ Export!TypeOK /\ Export!Placed /\ Export!InstanceSound /\ Export!RunSound /\ Export!RestoreSound
      /\ Export!HelperSound /\ o \in Export!Op /\ d \in 1..NumDisks
      /\ source \in [1..NumDisks -> {"none", "own", "shareable"}] /\ inst \in {"RUNNING", "STOPPED"}
      /\ exportAt \in {"run", "restore", "cleanup"}
  BY CallTyped DEF Export!ExportInv, Export!TypeOK, Export!Placed
<1>1. CASE o = "start"
  BY <1>0, <1>1 DEF Export!Accepts, Export!RunSound, Export!RestoreSound, Export!Alone
<1>2. CASE o = "detach" /\ d = 1
  <2>1. exportAt = "run"
    BY <1>0, <1>2 DEF Export!Placed
  <2> QED BY <1>0, <1>2, <2>1 DEF Export!Accepts, Export!RunSound, Export!Alone
<1>3. CASE o = "share"
  <2>1. exportAt = "run" /\ d # 1
    BY <1>0, <1>3 DEF Export!Placed
  <2>2. helper = 2..(d - 1) /\ kind[d] = "plain"
    BY <1>0, <1>3, <2>1 DEF Export!RunSound, Export!OnHelper
  <2>3. inst = "RUNNING"
    BY <1>0, <1>3, <2>1, <2>2 DEF Export!RunSound
  <2> QED BY <1>0, <1>3, <2>2, <2>3 DEF Export!Accepts
<1>4. CASE o = "help"
  <2>1. exportAt = "run"
    BY <1>0, <1>4 DEF Export!Placed
  <2>2. source[d] # "own" /\ (d = 1 => source[d] = "none")
    BY <1>0, <1>4, <2>1 DEF Export!RunSound, Export!Alone
  <2> QED BY <1>0, <1>4, <2>2 DEF Export!Accepts
<1>5. CASE o = "reattach"
  <2>1. exportAt \in {"restore", "cleanup"} /\ source[d] = "none"
    BY <1>0, <1>5 DEF Export!Placed, Export!Needless
  <2>2. helper = {}
    BY <1>0, <1>5, <2>1 DEF Export!HelperSound
  <2>3. CASE d = 1
    BY <1>0, <1>5, <2>1, <2>2, <2>3 DEF Export!InstanceSound, Export!Accepts
  <2>4. CASE d # 1
    <3>1. d \in Export!Missing
      BY <1>0, <2>1, <2>4 DEF Export!Missing
    <3>2. inst = "RUNNING"
      BY <1>0, <1>5, <2>1, <2>4, <3>1 DEF Export!RestoreSound
    <3> QED BY <1>5, <2>2, <2>4, <3>2 DEF Export!Accepts
  <2> QED BY <2>3, <2>4
<1>6. CASE o \notin {"start", "share", "help", "reattach"} /\ ~(o = "detach" /\ d = 1)
  BY <1>6 DEF Export!Accepts
<1>. QED BY <1>1, <1>2, <1>3, <1>4, <1>5, <1>6

(* A call with or without its effect leaves the instance sound. *)
LEMMA InstanceStays ==
  ASSUME Export!ExportInv, UNCHANGED Export!oci \/ (Export!Accepts /\ Export!Effect)
  PROVE  /\ source'[1] = "none" => inst' = "STOPPED"
         /\ ~known => Export!Given' /\ helper' = {}
<1> USE ExportAssumption DEF Export!Boot, Export!Disk
<1>0. /\ Export!TypeOK /\ Export!Placed /\ Export!InstanceSound
      /\ source \in [1..NumDisks -> {"none", "own", "shareable"}]
      /\ exportAt \in {"run", "restore", "cleanup", "ended"}
      /\ Export!op \in Export!Op /\ Export!disk \in 1..NumDisks
  BY CallTyped DEF Export!ExportInv, Export!TypeOK
<1>1. CASE UNCHANGED Export!oci
  BY <1>0, <1>1 DEF Export!oci, Export!InstanceSound, Export!Given
<1>2. CASE Export!Accepts /\ Export!Effect
  <2>1. source'[1] = "none" => inst' = "STOPPED"
    BY <1>0, <1>2 DEF Export!InstanceSound, Export!Accepts, Export!Effect
  <2>2. ASSUME ~known PROVE UNCHANGED <<source, helper>>
    <3>1. Export!op \in {"read", "list", "stop", "done"}
      BY <1>0, <2>2 DEF Export!InstanceSound, Export!Placed
    <3> QED BY <1>2, <3>1 DEF Export!Effect
  <2> QED BY <1>0, <2>1, <2>2 DEF Export!InstanceSound, Export!Given
<1>. QED BY <1>1, <1>2

(* The restore begins, for whatever reason. *)
LEMMA RestoreBegins ==
  ASSUME Export!ExportInv, Export!op # "note", exportAt' \in {"restore", "cleanup"},
         exportStep' = Export!RestoreExportSource,
         UNCHANGED <<Export!oci, kind, attached, known, copied, manifest, refused, faults, restarts>>,
         exportCancel' \in BOOLEAN, exportPhase' \in {"active", "FAILED", "CANCELLED"},
         exportAt' = "restore" =>
           exportPhase' = "active" /\ known /\ copied = Export!Disk /\ manifest /\ restarts = 0
  PROVE  Export!ExportInv'
<1> USE ExportAssumption DEF Export!Boot, Export!Disk
<1>0. /\ Export!TypeOK /\ Export!Placed /\ Export!InstanceSound /\ Export!HelperSound
  BY DEF Export!ExportInv
<1>1. /\ Export!op' = IF known THEN "unhelp" ELSE "stop"
      /\ Export!disk' = 1 /\ exportStep' \in Export!Op \X (1..NumDisks)
  BY DEF Export!RestoreExportSource, Export!Of, Export!op, Export!disk, Export!Op
<1>2. Export!TypeOK'
  BY <1>0, <1>1 DEF Export!TypeOK, Export!oci, Export!Kinds, Export!Data
<1>3. Export!Placed'
  BY <1>0, <1>1 DEF Export!Placed
<1>4. Export!InstanceSound'
  BY <1>0, <1>1 DEF Export!InstanceSound, Export!oci, Export!Given
<1>5. Export!RunSound' /\ Export!RestoreSound' /\ Export!CompletedWhole'
  <2>1. Export!op' = "stop" => Export!Given'
    BY <1>0, <1>1 DEF Export!InstanceSound, Export!oci, Export!Given
  <2> QED BY <1>1, <2>1 DEF Export!RunSound, Export!RestoreSound, Export!CompletedWhole,
     Export!Given
<1>6. Export!HelperSound'
  <2>1. Export!Trouble' <=> Export!Trouble
    BY DEF Export!Trouble
  <2>2. CASE known
    BY <1>0, <1>1, <2>1, <2>2 DEF Export!HelperSound, Export!oci
  <2>3. CASE ~known
    BY <1>0, <1>1, <2>1, <2>3 DEF Export!HelperSound, Export!InstanceSound, Export!oci
  <2> QED BY <2>2, <2>3
<1>. QED BY <1>2, <1>3, <1>4, <1>5, <1>6 DEF Export!ExportInv

(* The task is over, for whatever reason. *)
LEMMA TaskEnds ==
  ASSUME Export!ExportInv, exportAt' = "ended", exportStep' = Export!Of("done"),
         exportPhase' \in {"COMPLETED", "FAILED", "CANCELLED"}, exportCancel' \in BOOLEAN,
         UNCHANGED <<Export!oci, kind, attached, known, copied, manifest, refused, faults>>,
         restarts' \in 0..MaxCrashes, restarts' >= restarts, Export!op = "note" => restarts' > 0,
         Export!CompletedWhole'
  PROVE  Export!ExportInv'
<1> USE ExportAssumption DEF Export!Boot, Export!Disk
<1>0. /\ Export!TypeOK /\ Export!Placed /\ Export!InstanceSound /\ Export!HelperSound
      /\ faults \in 0..MaxFaults /\ restarts \in 0..MaxCrashes
  BY DEF Export!ExportInv, Export!TypeOK
<1>1. /\ Export!op' = "done" /\ Export!disk' = 1 /\ exportStep' \in Export!Op \X (1..NumDisks)
  BY DEF Export!Of, Export!op, Export!disk, Export!Op
<1>2. Export!TypeOK'
  BY <1>0, <1>1 DEF Export!TypeOK, Export!oci, Export!Kinds, Export!Data
<1>3. Export!Placed'
  BY <1>0, <1>1 DEF Export!Placed
<1>4. Export!InstanceSound'
  BY <1>0, <1>1 DEF Export!InstanceSound, Export!oci, Export!Given
<1>5. Export!RunSound' /\ Export!RestoreSound'
  BY <1>1 DEF Export!RunSound, Export!RestoreSound
<1>6. Export!HelperSound'
  <2>1. SUFFICES ASSUME ~Export!Trouble' PROVE Export!HelperSound'
    BY DEF Export!HelperSound
  <2>2. ~Export!Trouble /\ Export!op # "note"
    BY <1>0, <2>1, SourceAssumption DEF Export!Trouble
  <2> QED BY <1>0, <1>1, <2>2 DEF Export!HelperSound, Export!oci
<1>. QED BY <1>2, <1>3, <1>4, <1>5, <1>6 DEF Export!ExportInv

(* An exception, of a call that had its effect or not *)
LEMMA RaiseKept ==
  ASSUME Export!ExportInv, Export!op \notin {"note", "done"}, Export!Raise,
         UNCHANGED Export!oci \/ (Export!Accepts /\ Export!Effect),
         UNCHANGED <<kind, attached, known, copied, manifest, exportCancel, restarts>>,
         refused' \in BOOLEAN, faults' \in 0..MaxFaults, Export!Trouble'
  PROVE  Export!ExportInv'
<1> USE ExportAssumption DEF Export!Boot, Export!Disk
<1>0. /\ Export!TypeOK /\ Export!Placed /\ Export!InstanceSound
      /\ exportAt \in {"run", "restore", "cleanup"} /\ Export!op \in Export!Op
      /\ exportPhase \in {"active", "FAILED", "CANCELLED"}
  BY CallTyped DEF Export!ExportInv, Export!TypeOK, Export!Placed
<1>1. /\ source'[1] = "none" => inst' = "STOPPED"
      /\ ~known => Export!Given' /\ helper' = {} /\ attached = {}
  BY <1>0, InstanceStays DEF Export!InstanceSound
<1>2. /\ inst' \in {"RUNNING", "STOPPED"} /\ source' \in [Export!Disk -> {"none", "own", "shareable"}]
      /\ helper' \subseteq Export!Disk
  <2>1. CASE UNCHANGED Export!oci
    BY <1>0, <2>1 DEF Export!TypeOK, Export!oci
  <2>2. CASE Export!Effect
    BY <1>0, <2>2, EffectTyped
  <2> QED BY <2>1, <2>2
<1>3. ASSUME exportStep' \in Export!Op \X Export!Disk, exportAt' \in {"restore", "cleanup", "ended"},
             exportPhase' \in {"active", "FAILED", "CANCELLED"}
      PROVE  Export!TypeOK' /\ Export!RunSound' /\ Export!HelperSound' /\ Export!CompletedWhole'
  <2>1. Export!TypeOK'
    BY <1>0, <1>2, <1>3 DEF Export!TypeOK, Export!Kinds, Export!Data
  <2> QED BY <1>3, <2>1 DEF Export!RunSound, Export!HelperSound, Export!CompletedWhole
<1>4. CASE Export!op = "unhelp"
  <2>1. exportStep' = <<"reattach", 1>> /\ UNCHANGED <<exportAt, exportPhase>>
    BY <1>4 DEF Export!Raise, Export!RestoreVolumes, Export!Of
  <2>2. Export!op' = "reattach" /\ Export!disk' = 1 /\ exportStep' \in Export!Op \X Export!Disk
    BY <2>1 DEF Export!op, Export!disk, Export!Op
  <2>3. exportAt \in {"restore", "cleanup"} /\ known
    BY <1>0, <1>4 DEF Export!Placed, Export!InstanceSound
  <2>4. Export!Placed'
    BY <1>0, <2>1, <2>2, <2>3 DEF Export!Placed
  <2>5. Export!InstanceSound' /\ Export!RestoreSound'
    BY <1>1, <2>1, <2>2, <2>3 DEF Export!InstanceSound, Export!RestoreSound
  <2> QED BY <1>0, <1>3, <2>1, <2>2, <2>3, <2>4, <2>5 DEF Export!ExportInv
<1>5. CASE Export!op # "unhelp" /\ exportAt = "cleanup"
  <2>1. exportAt' = "ended" /\ exportStep' = <<"done", 1>> /\ exportPhase' \in {"FAILED",
     "CANCELLED"}
    BY <1>0, <1>5 DEF Export!Raise, Export!CleanupDone, Export!Of
  <2>2. Export!op' = "done" /\ Export!disk' = 1 /\ exportStep' \in Export!Op \X Export!Disk
    BY <2>1 DEF Export!op, Export!disk, Export!Op
  <2>4. Export!Placed'
    BY <2>1, <2>2 DEF Export!Placed
  <2>5. Export!InstanceSound' /\ Export!RestoreSound'
    BY <1>1, <2>1 DEF Export!InstanceSound, Export!RestoreSound
  <2> QED BY <1>3, <2>1, <2>2, <2>4, <2>5 DEF Export!ExportInv
<1>6. CASE Export!op # "unhelp" /\ exportAt # "cleanup"
  <2>1. exportAt' = "cleanup" /\ exportStep' = Export!RestoreExportSource /\ exportPhase' = "FAILED"
    BY <1>6 DEF Export!Raise, Export!Cleanup
  <2>2. /\ Export!op' = IF known THEN "unhelp" ELSE "stop"
        /\ Export!disk' = 1 /\ exportStep' \in Export!Op \X Export!Disk
    BY <2>1 DEF Export!RestoreExportSource, Export!Of, Export!op, Export!disk, Export!Op
  <2>4. Export!Placed'
    BY <2>1, <2>2 DEF Export!Placed
  <2>5. Export!InstanceSound' /\ Export!RestoreSound'
    BY <1>1, <2>1, <2>2 DEF Export!InstanceSound, Export!RestoreSound, Export!Given
  <2> QED BY <1>3, <2>1, <2>2, <2>4, <2>5 DEF Export!ExportInv
<1>. QED BY <1>0, <1>4, <1>5, <1>6

(* Every step of an export keeps what is known of it. *)
LEMMA DoKept == ASSUME Export!ExportInv, Export!Do PROVE Export!ExportInv'
<1>0. /\ Export!op \notin {"note", "copy", "done"} /\ UNCHANGED <<exportCancel, restarts>>
      /\ Export!TypeOK
  BY DEF Export!Do, Export!ExportInv
<1>1. CASE Export!Needless
  <2>1. CASE UNCHANGED Export!oci /\ Export!Saves /\ Export!Forward
             /\ UNCHANGED <<exportAt, exportPhase, refused, faults>>
    BY <1>0, <1>1, <2>1, PassesKept DEF Passes
  <2> QED BY <1>1, <2>1 DEF Export!Do
<1>2. CASE ~Export!Needless /\ Export!Accepts /\ Export!Effect /\ Export!Saves /\ Export!Forward
           /\ UNCHANGED <<exportAt, exportPhase, refused, faults>>
  BY <1>0, <1>2, PassesKept DEF Passes
<1>3. CASE /\ ~Export!Needless /\ ~Export!Accepts
           /\ refused' = TRUE /\ Export!Raise
           /\ UNCHANGED <<Export!oci, kind, attached, known, copied, manifest, faults>>
  <2>1. Export!Trouble /\ faults' \in 0..MaxFaults
    BY <1>0, <1>3, CallAccepted DEF Export!TypeOK
  <2>2. Export!Trouble'
    BY <1>0, <1>3, <2>1 DEF Export!Trouble
  <2>3. UNCHANGED <<kind, attached, known, copied, manifest, exportCancel, restarts>>
    BY <1>0, <1>3
  <2> QED BY <1>0, <1>3, <2>1, <2>2, <2>3, RaiseKept
<1>4. CASE /\ faults < MaxFaults /\ faults' = faults + 1
           /\ (Export!Accepts /\ Export!Effect) \/ UNCHANGED Export!oci
           /\ Export!Raise
           /\ UNCHANGED <<kind, attached, known, copied, manifest, refused>>
  <2>1. faults' \in 0..MaxFaults /\ Export!Trouble' /\ refused' \in BOOLEAN
    BY <1>0, <1>4, ExportAssumption DEF Export!TypeOK, Export!Trouble
  <2>2. UNCHANGED <<kind, attached, known, copied, manifest, exportCancel, restarts>>
    BY <1>0, <1>4
  <2> QED BY <1>0, <1>4, <2>1, <2>2, RaiseKept
<1>. QED BY <1>1, <1>2, <1>3, <1>4 DEF Export!Do

(* The same for what is no call *)
LEMMA CopyAndNoteKept ==
  ASSUME Export!ExportInv, Export!Note \/ Export!ExportDisk
  PROVE  Export!ExportInv'
<1>0. Export!TypeOK
  BY DEF Export!ExportInv
<1>1. ASSUME Export!op \in {"note", "copy"}, UNCHANGED Export!oci, Export!Saves, Export!Forward,
             UNCHANGED <<exportAt, exportPhase, exportCancel, refused, faults, restarts>>
      PROVE  Export!ExportInv'
  <2>1. ~Export!Needless /\ Export!Accepts
    BY <1>1 DEF Export!Needless, Export!Accepts
  <2>2. Export!Effect
    BY <1>1 DEF Export!Effect, Export!oci
  <2> QED BY <1>1, <2>1, <2>2, PassesKept DEF Passes
<1>2. CASE Export!Note
  BY <1>1, <1>2 DEF Export!Note
<1>3. CASE Export!ExportDisk
  <2>1. CASE Export!Saves /\ Export!Forward /\ UNCHANGED <<exportAt, exportPhase, faults>>
    BY <1>1, <1>3, <2>1 DEF Export!ExportDisk
  <2>2. CASE /\ faults < MaxFaults /\ faults' = faults + 1 /\ Export!Raise
             /\ UNCHANGED <<kind, attached, known, copied, manifest>>
    <3>1. faults' \in 0..MaxFaults /\ Export!Trouble' /\ refused' \in BOOLEAN
      BY <1>0, <1>3, <2>2, ExportAssumption DEF Export!TypeOK, Export!Trouble, Export!ExportDisk
    <3>2. /\ UNCHANGED <<kind, attached, known, copied, manifest, exportCancel, restarts>>
          /\ UNCHANGED Export!oci /\ Export!op = "copy"
      BY <1>3, <2>2 DEF Export!ExportDisk
    <3> QED BY <2>2, <3>1, <3>2, RaiseKept
  <2> QED BY <1>3, <2>1, <2>2 DEF Export!ExportDisk
<1>. QED BY <1>2, <1>3

(* After the run comes the restore, and after a whole restore COMPLETED. *)
LEMMA ScriptDoneKept == ASSUME Export!ExportInv, Export!ScriptDone PROVE Export!ExportInv'
<1>0. /\ Export!TypeOK /\ Export!Placed /\ Export!InstanceSound /\ Export!RunSound
      /\ Export!RestoreSound /\ Export!HelperSound /\ Export!op = "done"
      /\ exportAt \in {"run", "restore", "cleanup"} /\ exportCancel \in BOOLEAN
      /\ restarts \in 0..MaxCrashes /\ faults \in 0..MaxFaults
  BY DEF Export!ExportInv, Export!TypeOK, Export!ScriptDone
<1>1. /\ UNCHANGED <<Export!oci, kind, attached, known, copied, manifest, refused, faults, restarts>>
      /\ exportCancel' = exportCancel /\ restarts' >= restarts
  BY <1>0, SourceAssumption DEF Export!ScriptDone
<1>2. CASE exportAt = "run"
  <2>1. /\ known /\ copied = Export!Disk /\ manifest /\ restarts = 0 /\ exportPhase = "active"
    <3>1. exportPhase = "active" /\ ~Export!Trouble /\ known
      BY <1>0, <1>2 DEF Export!Placed, Export!InstanceSound
    <3>2. restarts = 0
      BY <1>0, <3>1, SourceAssumption DEF Export!Trouble
    <3> QED BY <1>0, <1>2, <3>1, <3>2 DEF Export!RunSound
  <2>2. /\ exportAt' \in {"restore", "cleanup"} /\ exportStep' = Export!RestoreExportSource
        /\ exportPhase' = "active"
    BY <1>2, <2>1 DEF Export!ScriptDone, Export!Cleanup
  <2> QED BY <1>0, <1>1, <2>1, <2>2, RestoreBegins
<1>3. CASE exportAt = "restore"
  <2>1. exportAt' = "ended" /\ exportPhase' = "COMPLETED" /\ exportStep' = Export!Of("done")
    <3>1. exportStep = Export!Of("done")
      BY <1>0, CallTyped DEF Export!Placed, Export!Of
    <3> QED BY <1>3, <3>1 DEF Export!ScriptDone
  <2>2. Export!Whole /\ copied = Export!Disk /\ manifest /\ restarts = 0
    BY <1>0, <1>3 DEF Export!RestoreSound, Export!Placed
  <2>3. helper = {} \/ faults > 0
    BY <1>0, <1>3, <2>2 DEF Export!HelperSound, Export!Trouble
  <2>4. Export!CompletedWhole'
    BY <1>1, <2>2, <2>3 DEF Export!CompletedWhole, Export!Whole, Export!oci
  <2> QED BY <1>0, <1>1, <2>1, <2>4, TaskEnds
<1>4. CASE exportAt = "cleanup"
  <2>1. exportAt' = "ended" /\ exportStep' = Export!Of("done") /\ exportPhase' \in {"FAILED",
     "CANCELLED"}
    BY <1>0, <1>4 DEF Export!ScriptDone, Export!CleanupDone, Export!TypeOK, Export!Placed
  <2>2. Export!CompletedWhole'
    BY <2>1 DEF Export!CompletedWhole
  <2> QED BY <1>0, <1>1, <2>1, <2>2, TaskEnds
<1>. QED BY <1>0, <1>2, <1>3, <1>4

(* A crash ends the task. *)
LEMMA CrashKept == ASSUME Export!ExportInv, Export!Crash PROVE Export!ExportInv'
<1>0. /\ Export!TypeOK /\ Export!Placed /\ restarts \in 0..MaxCrashes
  BY DEF Export!ExportInv, Export!TypeOK
<1>1. /\ exportAt' = "ended" /\ exportStep' = Export!Of("done") /\ exportCancel' \in BOOLEAN
      /\ restarts' \in 0..MaxCrashes /\ restarts' >= restarts /\ restarts' > 0
      /\ UNCHANGED <<Export!oci, kind, attached, known, copied, manifest, refused, faults>>
  <2>1. restarts' = restarts + 1 /\ restarts < MaxCrashes
    BY DEF Export!Crash
  <2>2. restarts' \in 0..MaxCrashes /\ restarts' >= restarts /\ restarts' > 0
    BY <1>0, <2>1, SourceAssumption
  <2> QED BY <2>2 DEF Export!Crash
<1>2. exportPhase' \in {"FAILED", "CANCELLED"}
  BY <1>0 DEF Export!Crash, Export!TypeOK, Export!Placed
<1>3. Export!CompletedWhole'
  BY <1>2 DEF Export!CompletedWhole
<1>. QED BY <1>1, <1>2, <1>3, TaskEnds

(* A request to cancel is all that changes, or nothing. *)
LEMMA ExportStays ==
  ASSUME Export!ExportInv, exportCancel' \in BOOLEAN,
         UNCHANGED <<inst, kind, source, helper, attached, known, copied, manifest, exportPhase,
                     exportAt, exportStep, refused, faults, restarts>>
  PROVE  Export!ExportInv'
<1>1. Export!op' = Export!op /\ Export!disk' = Export!disk
  BY DEF Export!op, Export!disk
<1>2. Export!TypeOK'
  BY DEF Export!ExportInv, Export!TypeOK
<1>3. Export!Placed' /\ Export!InstanceSound'
  BY <1>1 DEF Export!ExportInv, Export!Placed, Export!Trouble, Export!InstanceSound, Export!Given
<1>4. Export!RunSound'
  BY <1>1 DEF Export!ExportInv, Export!RunSound, Export!Alone, Export!OnHelper
<1>5. Export!RestoreSound'
  BY <1>1 DEF Export!ExportInv, Export!RestoreSound, Export!Missing, Export!Given, Export!Whole
<1>6. Export!HelperSound' /\ Export!CompletedWhole'
  BY <1>1 DEF Export!ExportInv, Export!HelperSound, Export!Trouble, Export!CompletedWhole,
     Export!Whole
<1>. QED BY <1>2, <1>3, <1>4, <1>5, <1>6 DEF Export!ExportInv

(* A cancel of the run, or of a job that has ended, begins a restore. *)
LEMMA CancelKept ==
  ASSUME Export!ExportInv, Export!Cancelled \/ Export!AskCleanup \/ Export!RequestCancel
  PROVE  Export!ExportInv'
<1>0. Export!TypeOK /\ Export!Placed
  BY DEF Export!ExportInv
<1>1. CASE Export!Cancelled
  BY <1>0, <1>1, RestoreBegins DEF Export!Cancelled, Export!Cleanup, Export!TypeOK
<1>2. CASE Export!AskCleanup
  <2>1. Export!op # "note"
    BY <1>0, <1>2 DEF Export!AskCleanup, Export!Placed
  <2> QED BY <1>0, <1>2, <2>1, RestoreBegins DEF Export!AskCleanup, Export!Cleanup, Export!TypeOK
<1>3. CASE Export!RequestCancel
  BY <1>3, ExportStays DEF Export!RequestCancel, Export!oci, Export!record
<1>. QED BY <1>1, <1>2, <1>3

(* What the runs check of an export follows. *)
LEMMA ExportHolds == ASSUME Export!ExportInv PROVE ExportKeepsInstance
<1>1. Export!CallsAccepted
  BY DEF Export!ExportInv, Export!HelperSound, Export!CallsAccepted
<1>2. Export!ReadAtRest
  <2> SUFFICES ASSUME Export!op = "copy"
               PROVE  inst = "STOPPED" /\ source[Export!Boot] = "none" /\ helper = Export!Disk
    BY DEF Export!ReadAtRest
  <2>1. exportAt = "run"
    BY DEF Export!ExportInv, Export!Placed, Export!TypeOK
  <2> QED BY <2>1 DEF Export!ExportInv, Export!RunSound, Export!OnHelper
<1>. QED BY <1>1, <1>2 DEF Export!ExportInv, ExportKeepsInstance

(* An OVA export makes only calls that OCI accepts, for as long as nothing *)
(* fails, whatever the volumes are attached as and wherever it is          *)
(* cancelled; it reads volumes at rest; and when it is COMPLETED           *)
(* everything was exported and the instance has its volumes back.          *)
THEOREM ExportKept == SourcesSpec => []ExportKeepsInstance
<1>1. SourcesInit => Export!ExportInv
  BY ExportStarts DEF SourcesInit
<1>2. Export!ExportInv /\ [SourcesNext]_<<exporting, vars, exportVars>> => Export!ExportInv'
  <2> SUFFICES ASSUME Export!ExportInv, [SourcesNext]_<<exporting, vars, exportVars>>
               PROVE  Export!ExportInv'
    OBVIOUS
  <2>1. CASE OfExport(Export!Next)
    <3>1. Export!Next
      BY <2>1 DEF OfExport
    <3> QED BY <3>1, DoKept, CopyAndNoteKept, ScriptDoneKept, CrashKept, CancelKept
         DEF Export!Next, Export!TaskStep
  <2>2. CASE UNCHANGED exportVars
    BY <2>2, ExportStays DEF exportVars, Export!ExportInv, Export!TypeOK
  <2>. QED
    BY <2>1, <2>2 DEF SourcesNext, OfMigration
<1>. QED
  BY <1>1, <1>2, ExportHolds, PTL DEF SourcesSpec

=============================================================================
