----------------------------- MODULE ImageLibrary -----------------------------
(***************************************************************************)
(* The custom images instances are launched from: seed images              *)
(* (oci/seed_image.py) and ISO images (oci/iso_install.py), imported by    *)
(* whichever job needs one first (oci/image_import.py) and then shared by  *)
(* every job that finds one with its tags.  Nothing locks the library: two *)
(* jobs look, import and repair at the same time.                          *)
(*                                                                         *)
(* All jobs here ask for the same operating system, firmware and Secure    *)
(* Boot setting, or the same ISO; they may differ in their devices.        *)
(***************************************************************************)
EXTENDS Naturals, FiniteSets

CONSTANTS Jobs,       \* the jobs that need an image
          MaxFaults   \* bound on the calls and imports that fail

VARIABLES
  library,  \* what the jobs need: "seed" or "iso" images
  want,     \* the devices each job asks for: import launch mode and data volume type
  images,   \* the image each job has made, as OCI has it
  objects,  \* the placeholder VMDKs in the seed bucket, by their job
  image,    \* Job.seed_image_id or iso_image_id, as the job that imported it; None
  at, schema, \* where each job is; the data volume type it has read
  how,      \* how its import ended
  cancel,
  clean,    \* so far nothing failed, was cancelled or ran at the same time
  faults

vars == <<library, want, images, objects, image, at, schema, how, cancel, clean, faults>>
what == <<library, want>>

None == "none"
Types == {"paravirtualized", "ide"}

(* import_launch_mode: EMULATED as soon as the boot volume or the network  *)
(* is; remote_data_volume_type_for follows the boot volume alone.          *)
Devices == {[mode |-> "PARAVIRTUALIZED", data |-> "paravirtualized"],
            [mode |-> "EMULATED", data |-> "paravirtualized"],   \* an emulated network only
            [mode |-> "EMULATED", data |-> "ide"]}

Images == [mode : {"PARAVIRTUALIZED", "EMULATED"}, state : {"NONE", "IMPORTING", "AVAILABLE", "DELETED"},
           schema : Types \cup {None}, shape : BOOLEAN]
Places == {"queued", "find", "schemas", "repair", "upload", "create", "wait", "apply", "remove",
           "check", "shape", "launch", "launched", "ended"}

TypeOK ==
  /\ library \in {"seed", "iso"} /\ want \in [Jobs -> Devices]
  /\ images \in [Jobs -> Images] /\ objects \subseteq Jobs
  /\ image \in [Jobs -> Jobs \cup {None}]
  /\ at \in [Jobs -> Places] /\ schema \in [Jobs -> Types \cup {None}]
  /\ how \in [Jobs -> {"running", "ok", "failed", "cancelled"}]
  /\ cancel \subseteq Jobs /\ clean \in BOOLEAN /\ faults \in 0..MaxFaults

Init ==
  /\ library \in {"seed", "iso"} /\ want \in [Jobs -> Devices]
  /\ images = [j \in Jobs |-> [mode |-> "EMULATED", state |-> "NONE", schema |-> None, shape |-> FALSE]]
  /\ objects = {} /\ image = [j \in Jobs |-> None]
  /\ at = [j \in Jobs |-> "queued"] /\ schema = [j \in Jobs |-> None]
  /\ how = [j \in Jobs |-> "running"]
  /\ cancel = {} /\ clean = TRUE /\ faults = 0

-----------------------------------------------------------------------------
Goto(j, place) == at' = [at EXCEPT ![j] = place]
Set(j, field, value) == images' = [images EXCEPT ![j] = [@ EXCEPT ![field] = value]]
Now(j, place) == at[j] = place

(* The end of create: an error goes on through the finally of a seed.      *)
Leave(j, end) ==
  /\ how' = [how EXCEPT ![j] = end]
  /\ Goto(j, IF library = "seed" THEN "remove" ELSE IF end = "ok" THEN "check" ELSE "ended")
Fails(j) == faults < MaxFaults /\ faults' = faults + 1 /\ clean' = FALSE
Fine == UNCHANGED <<clean, faults>>
Ends(j) == Goto(j, "ended") /\ UNCHANGED how

Start(j) ==
  /\ Now(j, "queued") /\ Goto(j, "find")
  /\ clean' = (clean /\ \A k \in Jobs \ {j} : at[k] \in {"queued", "launched"})
  /\ UNCHANGED <<what, images, objects, image, schema, how, cancel, faults>>

Matches(j) ==
  {k \in Jobs : images[k].state = "AVAILABLE" /\ images[k].mode = want[j].mode}

(* find, find_image: any available image with the tags and the mode; its   *)
(* capability schema is not looked at.                                     *)
Find(j) ==
  /\ Now(j, "find")
  /\ \/ /\ j \in cancel /\ Ends(j) /\ UNCHANGED image /\ Fine
     \/ /\ j \notin cancel
        /\ IF Matches(j) # {}
           THEN \E k \in Matches(j) : image' = [image EXCEPT ![j] = k] /\ Goto(j, "schemas")
           ELSE Goto(j, IF library = "seed" THEN "upload" ELSE "create") /\ UNCHANGED image
        /\ UNCHANGED how /\ Fine
     \/ Fails(j) /\ Ends(j) /\ UNCHANGED image
  /\ UNCHANGED <<what, images, objects, schema, cancel>>

(* Slip: an image found is taken as it is. *)
ReadSchemaSlip(j) ==
  /\ Now(j, "schemas") /\ Goto(j, "check")
  /\ UNCHANGED <<what, images, objects, image, schema, how, cancel>> /\ Fine

(* ensure_data_volume_types: an image without a schema is left without *)
ReadSchema(j) ==
  /\ Now(j, "schemas")
  /\ schema' = [schema EXCEPT ![j] = images[image[j]].schema]
  /\ \/ /\ Goto(j, IF schema'[j] \in {None, want[j].data} THEN "check" ELSE "repair")
        /\ UNCHANGED how /\ Fine
     \/ Fails(j) /\ Ends(j)
  /\ UNCHANGED <<what, images, objects, image, cancel>>

Repair(j) ==
  /\ Now(j, "repair")
  /\ \/ Set(image[j], "schema", want[j].data) /\ Goto(j, "check") /\ UNCHANGED how /\ Fine
     \/ Fails(j) /\ Ends(j) /\ UNCHANGED images
  /\ UNCHANGED <<what, objects, image, schema, cancel>>

(* create: the placeholder is uploaded under a name of its own *)
Upload(j) ==
  /\ Now(j, "upload")
  /\ \/ objects' = objects \cup {j} /\ Goto(j, "create") /\ UNCHANGED how /\ Fine
     \/ Fails(j) /\ Ends(j) /\ UNCHANGED objects
  /\ UNCHANGED <<what, images, image, schema, cancel>>

CreateImage(j) ==
  /\ Now(j, "create")
  /\ \/ /\ images' = [images EXCEPT ![j] = [mode |-> want[j].mode, state |-> "IMPORTING",
                                            schema |-> None, shape |-> FALSE]]
        /\ Goto(j, "wait") /\ UNCHANGED how /\ Fine
     \/ Fails(j) /\ Leave(j, "failed") /\ UNCHANGED images
  /\ UNCHANGED <<what, objects, image, schema, cancel>>

(* wait_import: the look at the flag is in the progress it reports. *)
WaitImport(j) ==
  /\ Now(j, "wait")
  /\ \/ images[j].state = "AVAILABLE" /\ Goto(j, "apply") /\ UNCHANGED how /\ Fine
     \/ images[j].state = "DELETED" /\ Leave(j, "failed") /\ Fine
     \/ j \in cancel /\ Leave(j, "cancelled") /\ Fine
     \/ Fails(j) /\ Leave(j, "failed")   \* too late, or a call that failed
  /\ UNCHANGED <<what, images, objects, image, schema, cancel>>

(* apply_capability_schema; a client edition is registered before it.  The *)
(* id of the image is the job's only when all this is done.                *)
ApplyCapabilitySchema(j) ==
  /\ Now(j, "apply")
  /\ \/ /\ images[j].state = "AVAILABLE"
        /\ Set(j, "schema", want[j].data)
        /\ image' = [image EXCEPT ![j] = j]
        /\ Leave(j, "ok") /\ Fine
     \/ Fails(j) /\ Leave(j, "failed") /\ UNCHANGED <<images, image>>
     \/ j \in cancel /\ Leave(j, "cancelled") /\ Fine /\ UNCHANGED <<images, image>>
  /\ UNCHANGED <<what, objects, schema, cancel>>

(* Slip: the placeholder of an import that failed is left. *)
RemoveObjectSlip(j) ==
  /\ Now(j, "remove")
  /\ objects' = IF how[j] = "ok" THEN objects \ {j} ELSE objects
  /\ Goto(j, IF how[j] = "ok" THEN "check" ELSE "ended")
  /\ UNCHANGED <<what, images, image, schema, how, cancel>> /\ Fine

(* the finally of create; its failure is logged *)
RemoveObject(j) ==
  /\ Now(j, "remove")
  /\ \/ objects' = objects \ {j} /\ Fine
     \/ Fails(j) /\ UNCHANGED objects
  /\ Goto(j, IF how[j] = "ok" THEN "check" ELSE "ended")
  /\ UNCHANGED <<what, images, image, schema, how, cancel>>

(* ensure_shape_compatible: look, then add *)
CheckShape(j) ==
  /\ Now(j, "check")
  /\ \/ j \in cancel /\ Ends(j) /\ Fine
     \/ j \notin cancel /\ Fine /\ UNCHANGED how
        /\ Goto(j, IF images[image[j]].shape THEN "launch" ELSE "shape")
     \/ Fails(j) /\ Ends(j)
  /\ UNCHANGED <<what, images, objects, image, schema, cancel>>

(* Slip: the shape is added to the image the job has imported only. *)
AddShapeSlip(j) ==
  /\ Now(j, "shape")
  /\ IF image[j] = j THEN Set(j, "shape", TRUE) ELSE UNCHANGED images
  /\ Goto(j, "launch") /\ UNCHANGED how /\ Fine
  /\ UNCHANGED <<what, objects, image, schema, cancel>>

AddShape(j) ==
  /\ Now(j, "shape")
  /\ \/ Set(image[j], "shape", TRUE) /\ Goto(j, "launch") /\ UNCHANGED how /\ Fine
     \/ Fails(j) /\ Ends(j) /\ UNCHANGED images
  /\ UNCHANGED <<what, objects, image, schema, cancel>>

Launch(j) ==
  /\ Now(j, "launch")
  /\ IF j \in cancel THEN Ends(j) ELSE Goto(j, "launched") /\ UNCHANGED how
  /\ UNCHANGED <<what, images, objects, image, schema, cancel>> /\ Fine

RequestCancel(j) ==
  /\ j \notin cancel /\ at[j] \notin {"launched", "ended"}
  /\ cancel' = cancel \cup {j} /\ clean' = FALSE
  /\ UNCHANGED <<what, images, objects, image, at, schema, how, faults>>

(* OCI imports; it deletes an image whose import fails, as it may when the *)
(* object is gone.                                                         *)
ImportEnds(j) ==
  /\ images[j].state = "IMPORTING"
  /\ \/ Set(j, "state", "AVAILABLE") /\ Fine
     \/ Set(j, "state", "DELETED")
        /\ IF library = "seed" /\ j \notin objects THEN Fine ELSE Fails(j)
  /\ UNCHANGED <<what, objects, image, at, schema, how, cancel>>

Next == \E j \in Jobs :
  \/ Start(j) \/ Find(j) \/ ReadSchema(j) \/ Repair(j) \/ Upload(j) \/ CreateImage(j)
  \/ WaitImport(j) \/ ApplyCapabilitySchema(j) \/ RemoveObject(j)
  \/ CheckShape(j) \/ AddShape(j) \/ Launch(j) \/ RequestCancel(j) \/ ImportEnds(j)

Spec == Init /\ [][Next]_vars

-----------------------------------------------------------------------------
Pinned(j) == images[image[j]].schema = want[j].data

(* docs/architecture.md: an instance is launched from an image whose       *)
(* capability schema pins the firmware and has the data volume type of the *)
(* job.  It is not when another job's import is AVAILABLE without its      *)
(* schema, for good if that job is cancelled or fails then, or when two    *)
(* jobs repair the schema to different types.                              *)
LaunchPinned == \A j \in Jobs : Now(j, "launch") => Pinned(j)

(* It is when jobs come one after the other and nothing goes wrong,        *)
(* whatever devices they ask for and whoever imported the image.           *)
LaunchPinnedAlone == clean => LaunchPinned

(* However jobs overlap: what an instance is launched from is an image of  *)
(* its launch mode, imported, with its shape on the list.                  *)
LaunchFits ==
  \A j \in Jobs : Now(j, "launch") =>
    LET i == images[image[j]] IN i.state = "AVAILABLE" /\ i.mode = want[j].mode /\ i.shape

(* No placeholder stays in the bucket when its job is past the import,     *)
(* cancelled or failed, unless its deletion failed.                        *)
PlaceholderRemoved ==
  \A j \in objects : at[j] \in {"check", "shape", "launch", "launched", "ended"} => faults > 0

-----------------------------------------------------------------------------
(* What carries the three.  An image is made once, for its job's mode; a   *)
(* job past its search or import has one that is there, of its mode.       *)
Chosen(j) == at[j] \in {"schemas", "repair", "check", "shape", "launch"} \/ (at[j] = "remove" /\ how[j] = "ok")
Fits(j) == image[j] \in Jobs /\ images[image[j]].state = "AVAILABLE" /\ images[image[j]].mode = want[j].mode
ImageSound(j) ==
  /\ at[j] \in {"queued", "find", "upload", "create"} => images[j].state = "NONE"
  /\ at[j] \in {"wait", "apply"} => images[j].mode = want[j].mode
  /\ Chosen(j) => Fits(j)
  /\ at[j] = "launch" => images[image[j]].shape

(* A placeholder is there for a seed, while it is imported. *)
ObjectSound(j) ==
  /\ at[j] = "upload" => library = "seed"
  /\ j \in objects => /\ library = "seed"
                      /\ at[j] \in {"create", "wait", "apply", "remove"} \/ faults > 0

(* As long as nothing goes wrong one job is at work at a time, none ends   *)
(* early, and an image has its schema when its job is done with it.        *)
Idle(j) == at[j] \in {"queued", "launched"}
CleanSound(j) ==
  /\ at[j] # "ended" /\ (at[j] = "remove" => how[j] = "ok")
  /\ library = "seed" /\ at[j] \in {"create", "wait", "apply"} => j \in objects
  /\ images[j].state # "DELETED" /\ (images[j].state = "IMPORTING" => at[j] = "wait")
  /\ images[j].state = "AVAILABLE" /\ at[j] \notin {"wait", "apply"} => images[j].schema # None
  /\ at[j] \in {"check", "shape", "launch", "remove"} => Pinned(j)
CleanInv ==
  clean => /\ cancel = {} /\ \A j, k \in Jobs : j # k => Idle(j) \/ Idle(k)
           /\ \A j \in Jobs : CleanSound(j)

LibraryInv == TypeOK /\ (\A j \in Jobs : ImageSound(j) /\ ObjectSound(j)) /\ CleanInv
=============================================================================
