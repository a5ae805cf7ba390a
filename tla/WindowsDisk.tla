---------------------------- MODULE WindowsDisk ----------------------------
(***************************************************************************)
(* The disk of a runner on a Windows worker: a VHDX with a manifest beside *)
(* it, mounted at the directory of the runner (agent/runtimes/             *)
(* windows_storage.ps1, called by windows_storage.py).  The helper carries *)
(* one call out at a time for the host; a call that was cut off is taken   *)
(* up by the next from the stage its manifest says.  A command may fail,   *)
(* or the helper die, between any two steps.                               *)
(***************************************************************************)
EXTENDS Naturals

VARIABLES
  stage,    \* of the manifest: "none" when there is no manifest
  identity, \* the disk the manifest names: "none", "own" or "other"
  private,  \* the volume's own access list was set
  vhdx,     \* the image at its path: "none", "own", or "other" put in its place
  format,   \* how far the own one was made
  stored,   \* what is on it
  attached, path, \* the image is attached; its volume has the mount point
  folder,   \* the mount point: "none", "empty" or "files", of somebody else
  vhdCall, vhdAt

vhdVars == <<stage, identity, private, vhdx, format, stored, attached, path, folder,
             vhdCall, vhdAt>>
theManifest == <<stage, identity, private>>
theImage == <<vhdx, format, stored, attached>>
thePlace == <<path, folder>>

VHD_STEPS == {"over", "manifest", "image", "attach", "identify", "partition", "format",
              "mount", "acl", "prove", "consider", "confirm", "release", "erase", "rmdir", "forget"}

VhdTypeOK ==
  /\ stage \in {"none", "planned", "partitioned", "ready", "deleting"}
  /\ identity \in {"none", "own", "other"} /\ vhdx \in {"none", "own", "other"}
  /\ format \in {"none", "raw", "gpt", "partition", "ntfs"} /\ stored \subseteq {"reg", "kept"}
  /\ {private, attached, path} \subseteq BOOLEAN /\ folder \in {"none", "empty", "files"}
  /\ vhdCall \in [verb : {"none", "ensure", "mount", "remove"}, answered : BOOLEAN]
  /\ vhdAt \in VHD_STEPS

VhdInit ==
  /\ stage = "none" /\ identity = "none" /\ private = FALSE
  /\ vhdx = "none" /\ format = "none" /\ stored = {} /\ attached = FALSE /\ path = FALSE
  /\ folder \in {"none", "files"}
  /\ vhdCall = [verb |-> "none", answered |-> FALSE] /\ vhdAt = "over"

-----------------------------------------------------------------------------

BeginVhdCall(verb) ==
  /\ vhdAt = "over"
  /\ vhdCall' = [verb |-> verb, answered |-> FALSE]
  /\ vhdAt' = IF verb = "remove" THEN "consider" ELSE "manifest"
  /\ UNCHANGED <<theManifest, theImage, thePlace>>

VhdCallEnds ==
  /\ vhdAt # "over" /\ vhdAt' = "over"
  /\ UNCHANGED <<theManifest, theImage, thePlace, vhdCall>>

VhdStep(step, next) == vhdAt = step /\ vhdAt' = next /\ UNCHANGED vhdCall

VhdAnswer(step) ==
  vhdAt = step /\ vhdAt' = "over" /\ vhdCall' = [vhdCall EXCEPT !.answered = TRUE]

\* A disk begins with its manifest, where neither an image nor a directory is;
\* what has one is gone on with.
PlanDisk ==
  /\ VhdStep("manifest", "image")
  /\ IF stage = "none"
     THEN vhdCall.verb = "ensure" /\ vhdx = "none" /\ folder = "none" /\ stage' = "planned"
     ELSE UNCHANGED stage
  /\ UNCHANGED <<identity, private, theImage, thePlace>>

\* An image that is gone is not replaced, unless none was ever made.
CreateVhdx ==
  /\ VhdStep("image", "attach")
  /\ IF vhdx = "none"
     THEN /\ stage = "planned" /\ vhdCall.verb = "ensure"
          /\ vhdx' = "own" /\ format' = "raw"
     ELSE UNCHANGED <<vhdx, format>>
  /\ UNCHANGED <<theManifest, stored, attached, thePlace>>

Attach ==
  /\ VhdStep("attach", "identify") /\ attached' = TRUE
  /\ UNCHANGED <<theManifest, vhdx, format, stored, thePlace>>

\* Mutant: an image of the right size will do.
SizeFits == TRUE

\* Identity is the disk's own, where one was recorded.
IsOwned == identity \in {"none", vhdx}

\* One that was just attached and is not the one is detached again.
IdentifyVhdx ==
  /\ IF IsOwned
     THEN /\ VhdStep("identify", IF stage = "planned" THEN "partition" ELSE "format")
          /\ identity' = vhdx /\ UNCHANGED attached
     ELSE VhdStep("identify", "over") /\ attached' = FALSE /\ UNCHANGED identity
  /\ UNCHANGED <<stage, private, vhdx, format, stored, thePlace>>

\* Initialised, then partitioned, then so recorded.
InitializeVhdx ==
  /\ VhdStep("partition", "partition") /\ vhdx = "own" /\ format = "raw"
  /\ format' = "gpt"
  /\ UNCHANGED <<theManifest, vhdx, stored, attached, thePlace>>

PartitionVhdx ==
  /\ VhdStep("partition", "partition") /\ vhdx = "own" /\ format = "gpt"
  /\ format' = "partition"
  /\ UNCHANGED <<theManifest, vhdx, stored, attached, thePlace>>

RecordPartition ==
  /\ VhdStep("partition", "format") /\ (vhdx = "other" \/ format \in {"partition", "ntfs"})
  /\ stage' = "partitioned"
  /\ UNCHANGED <<identity, private, theImage, thePlace>>

\* A partition without a filesystem is formatted; one with a filesystem is
\* taken only by the label it was given.
FormatVhdx ==
  /\ VhdStep("format", "format") /\ stage = "partitioned" /\ vhdx = "own"
  /\ format = "partition" /\ format' = "ntfs" /\ stored' = {}
  /\ UNCHANGED <<theManifest, vhdx, attached, thePlace>>

RecordVolume ==
  /\ VhdStep("format", "mount") /\ vhdx = "own" /\ format = "ntfs"
  /\ stage \in {"partitioned", "ready"} /\ stage' = "ready"
  /\ UNCHANGED <<identity, private, theImage, thePlace>>

\* Not over files of somebody else.
MountVhdx ==
  /\ VhdStep("mount", "acl") /\ (path \/ folder # "files")
  /\ path' = TRUE /\ folder' = IF path THEN folder ELSE "empty"
  /\ UNCHANGED <<theManifest, theImage>>

SetPrivate ==
  /\ VhdStep("acl", "prove") /\ private' = TRUE
  /\ UNCHANGED <<stage, identity, theImage, thePlace>>

ProveMounted ==
  /\ VhdAnswer("prove") /\ attached /\ path
  /\ UNCHANGED <<theManifest, theImage, thePlace>>

-----------------------------------------------------------------------------

NeverMade == stage \in {"none", "planned"} /\ vhdx = "none" /\ folder = "none"

RemoveNothing ==
  /\ NeverMade /\ VhdAnswer("consider")
  /\ stage' = "none"
  /\ UNCHANGED <<identity, private, theImage, thePlace>>

\* A disk half made is retained.
ConsiderRemoval ==
  /\ stage \in {"ready", "deleting"}
  /\ VhdStep("consider", IF stage = "ready" \/ vhdx # "none" THEN "confirm" ELSE "rmdir")
  /\ UNCHANGED <<theManifest, theImage, thePlace>>

\* That it is the own disk is proven before the removal is recorded and before
\* it is deleted, attached or not.
ConfirmVhdx ==
  /\ vhdx # "none" /\ IsOwned /\ VhdStep("confirm", "release")
  /\ stage' = "deleting"
  /\ UNCHANGED <<identity, private, theImage, thePlace>>

ReleaseVhdx ==
  /\ VhdStep("release", "erase")
  /\ path' = (path /\ ~attached) /\ attached' = FALSE
  /\ UNCHANGED <<theManifest, vhdx, format, stored, folder>>

EraseVhdx ==
  /\ VhdStep("erase", "rmdir") /\ vhdx' = "none" /\ path' = FALSE
  /\ format' = IF vhdx = "own" THEN "none" ELSE format
  /\ stored' = IF vhdx = "own" THEN {} ELSE stored
  /\ UNCHANGED <<theManifest, attached, folder>>

\* A directory with something in it does not go.
RemoveFolder ==
  /\ VhdStep("rmdir", "forget") /\ folder # "files" /\ folder' = "none"
  /\ UNCHANGED <<theManifest, theImage, path>>

ForgetDisk ==
  /\ VhdAnswer("forget")
  /\ stage' = "none" /\ identity' = "none" /\ private' = FALSE
  /\ UNCHANGED <<theImage, thePlace>>

-----------------------------------------------------------------------------
(* Jobs, the host and an operator.                                         *)

\* The job host works on the volume that is mounted, or not at all.
RunnerWrites ==
  /\ attached /\ path /\ vhdx = "own" /\ private
  /\ stored' \in {stored \cup {what} : what \in {"reg", "kept"}}
  /\ UNCHANGED <<theManifest, vhdx, format, attached, thePlace, vhdCall, vhdAt>>

\* A reboot detaches every image; the mount point may have to be given again.
VhdHostReboots ==
  /\ attached' = FALSE /\ path' \in {path, FALSE} /\ vhdAt' = "over"
  /\ UNCHANGED <<theManifest, vhdx, format, stored, folder, vhdCall>>

\* Another image is put in the place of one that is not attached, or files
\* into the directory it is not mounted at; not in the middle of a call.
Replaced ==
  /\ vhdAt = "over" /\ ~attached /\ vhdx' = "other"
  /\ UNCHANGED <<theManifest, format, stored, attached, thePlace, vhdCall, vhdAt>>

FilesInFolder ==
  /\ vhdAt = "over" /\ ~path /\ folder' = "files"
  /\ UNCHANGED <<theManifest, theImage, path, vhdCall, vhdAt>>

VhdNext ==
  \/ \E verb \in {"ensure", "mount", "remove"} : BeginVhdCall(verb)
  \/ VhdCallEnds \/ PlanDisk \/ CreateVhdx \/ Attach \/ IdentifyVhdx \/ InitializeVhdx
  \/ PartitionVhdx \/ RecordPartition \/ FormatVhdx \/ RecordVolume \/ MountVhdx
  \/ SetPrivate \/ ProveMounted \/ RemoveNothing \/ ConsiderRemoval \/ ConfirmVhdx
  \/ ReleaseVhdx \/ EraseVhdx \/ RemoveFolder \/ ForgetDisk
  \/ RunnerWrites \/ VhdHostReboots \/ Replaced \/ FilesInFolder

VhdSpec == VhdInit /\ [][VhdNext]_vhdVars

-----------------------------------------------------------------------------

VhdDisk == INSTANCE DiskContract WITH
  made <- format = "ntfs", data <- stored,
  usable <- attached /\ path /\ vhdx = "own",
  foreign <- vhdx = "other" \/ folder = "files",
  wish <- IF vhdCall.verb = "mount" THEN "ensure" ELSE vhdCall.verb,
  granted <- vhdCall.answered

\* Whichever call is cut off wherever, and whatever image or directory it
\* finds in the place of its own: what is on the disk goes only with its
\* removal, and nothing of somebody else is mounted, formatted or deleted.
VhdKeepsItsData == VhdDisk!DiskSpec
=============================================================================
