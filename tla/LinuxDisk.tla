----------------------------- MODULE LinuxDisk -----------------------------
(***************************************************************************)
(* The disk of a runner on a Linux worker: an image with a filesystem of   *)
(* its own, in a directory of its own (agent/runtimes/linux_storage.py).   *)
(* The agent, and at boot a program of its own before the engine starts,   *)
(* make, mount, reset and remove it, one call at a time under a lock that  *)
(* a dead process lets go of.  A command may fail, or the process die,     *)
(* between any two steps.                                                  *)
(***************************************************************************)
EXTENDS Naturals, FiniteSets

VARIABLES
  dir,      \* what is in the directory of the runner, itself included
  metadata, \* its metadata.json: "none", "part" or "whole"
  image,    \* its disk.ext4: "none", "raw" or "fs"
  content,  \* what is in the filesystem
  mounted,  \* it is mounted on mnt
  strange,  \* files nobody of the agent put there: "none", "beside" or "under"
  imageCall, at, fresh

imageVars == <<dir, metadata, image, content, mounted, strange, imageCall, at, fresh>>

\* Where a call is, in the order of the steps of each.
ENSURE == {"base", "meta", "image", "mkfs", "check", "mnt", "mount", "areas"}
RESET == {"existing", "find"}
REMOVE == {"identify", "umount", "rmdir", "detached", "unlink", "meta unlink", "base rmdir"}

ImageTypeOK ==
  /\ dir \subseteq {"base", "mnt"} /\ metadata \in {"none", "part", "whole"}
  /\ image \in {"none", "raw", "fs"} /\ content \subseteq {"reg", "kept"}
  /\ mounted \in BOOLEAN /\ strange \in {"none", "beside", "under"}
  /\ imageCall \in [verb : {"none", "ensure", "boot", "reset", "remove"}, answered : BOOLEAN]
  /\ at \in {"over"} \cup ENSURE \cup RESET \cup REMOVE /\ fresh \in BOOLEAN

ImageInit ==
  /\ dir = {} /\ metadata = "none" /\ image = "none" /\ content = {}
  /\ mounted = FALSE /\ strange = "none"
  /\ imageCall = [verb |-> "none", answered |-> FALSE] /\ at = "over" /\ fresh = FALSE

theDisk == <<dir, metadata, image, content, mounted, strange>>

\* The directory identifies itself, and nothing unknown is in it.
Identified == metadata = "whole" /\ strange # "beside"
ImageIsFine == image = "fs"

-----------------------------------------------------------------------------

\* The boot program goes by what identifies itself, and never makes anything.
BeginImageCall(verb) ==
  /\ at = "over"
  /\ verb = "boot" => "base" \in dir /\ Identified /\ ImageIsFine
  /\ imageCall' = [verb |-> verb, answered |-> FALSE] /\ fresh' = FALSE
  /\ at' = CASE verb \in {"ensure", "boot"} -> "base"
             [] verb = "reset" -> "existing" [] verb = "remove" -> "identify"
  /\ UNCHANGED theDisk

\* A check does not hold, a command fails, or the process dies.
CallEndsEarly ==
  /\ at # "over" /\ at' = "over"
  /\ UNCHANGED <<theDisk, imageCall, fresh>>

AtStep(step, next) == at = step /\ at' = next /\ UNCHANGED <<imageCall, fresh>>

AnswerAt(step) ==
  /\ at = step /\ at' = "over" /\ imageCall' = [imageCall EXCEPT !.answered = TRUE]
  /\ UNCHANGED fresh

MakeBase ==
  /\ AtStep("base", "meta") /\ dir' = dir \cup {"base"}
  /\ UNCHANGED <<metadata, image, content, mounted, strange>>

\* What does not identify itself is not adopted; a write may be cut short.
WriteMetadata ==
  /\ metadata = "none" /\ dir = {"base"} /\ image = "none" /\ strange = "none"
  /\ \/ AtStep("meta", "image") /\ metadata' = "whole"
     \/ AtStep("meta", "over") /\ metadata' = "part"
  /\ UNCHANGED <<dir, image, content, mounted, strange>>

ReadMetadata ==
  /\ Identified /\ AtStep("meta", "image")
  /\ UNCHANGED theDisk

CreateImage ==
  /\ image = "none" /\ at = "image" /\ at' = "mkfs" /\ fresh' = TRUE
  /\ image' = "raw"
  /\ UNCHANGED <<dir, metadata, content, mounted, strange, imageCall>>

\* Mutant: whatever is there is formatted.
AnyImage == TRUE

\* "Only this newly created file is formatted."
MayFormat == fresh

FindImage ==
  /\ image # "none" /\ AtStep("image", IF MayFormat THEN "mkfs" ELSE "check")
  /\ UNCHANGED theDisk

Mkfs ==
  /\ AtStep("mkfs", "check") /\ image' = "fs" /\ content' = {}
  /\ UNCHANGED <<dir, metadata, mounted, strange>>

CheckImage ==
  /\ ImageIsFine /\ AtStep("check", "mnt")
  /\ UNCHANGED theDisk

MakeMountPoint ==
  /\ AtStep("mnt", "mount") /\ dir' = dir \cup {"mnt"}
  /\ UNCHANGED <<metadata, image, content, mounted, strange>>

\* A directory that is not empty is not mounted over.
MountImage ==
  /\ AtStep("mount", "areas") /\ (mounted \/ strange # "under")
  /\ mounted' = TRUE
  /\ UNCHANGED <<dir, metadata, image, content, strange>>

MakeAreas ==
  /\ AnswerAt("areas") /\ mounted
  /\ UNCHANGED theDisk

-----------------------------------------------------------------------------

FindMounted ==
  /\ Identified /\ ImageIsFine /\ mounted /\ AtStep("existing", "find")
  /\ UNCHANGED theDisk

DeleteRegistration ==
  /\ AnswerAt("find") /\ mounted /\ content' = content \ {"reg"}
  /\ UNCHANGED <<dir, metadata, image, mounted, strange>>

\* Nothing to remove, or what is there identifies itself.
NothingToRemove ==
  /\ "base" \notin dir /\ AnswerAt("identify")
  /\ UNCHANGED theDisk

Identify ==
  /\ "base" \in dir /\ Identified /\ image \in {"none", "fs"}
  /\ AtStep("identify", IF "mnt" \in dir THEN "umount" ELSE "detached")
  /\ UNCHANGED theDisk

Umount ==
  /\ AtStep("umount", "rmdir") /\ mounted' = FALSE
  /\ UNCHANGED <<dir, metadata, image, content, strange>>

RemoveMountPoint ==
  /\ ~mounted /\ strange # "under" /\ AtStep("rmdir", "detached")
  /\ dir' = dir \ {"mnt"}
  /\ UNCHANGED <<metadata, image, content, mounted, strange>>

NotAttached ==
  /\ ~mounted /\ AtStep("detached", "unlink")
  /\ UNCHANGED theDisk

Unlink ==
  /\ AtStep("unlink", "meta unlink") /\ image' = "none" /\ content' = {}
  /\ UNCHANGED <<dir, metadata, mounted, strange>>

UnlinkMetadata ==
  /\ AtStep("meta unlink", "base rmdir") /\ metadata' = "none"
  /\ UNCHANGED <<dir, image, content, mounted, strange>>

RemoveBase ==
  /\ strange = "none" /\ AnswerAt("base rmdir") /\ dir' = {}
  /\ UNCHANGED <<metadata, image, content, mounted, strange>>

-----------------------------------------------------------------------------
(* Jobs, the host and an operator.                                         *)

JobsWrite ==
  /\ mounted /\ content' \in {content \cup {what} : what \in {"reg", "kept"}}
  /\ UNCHANGED <<dir, metadata, image, mounted, strange, imageCall, at, fresh>>

ImageHostReboots ==
  /\ mounted' = FALSE /\ at' = "over"
  /\ UNCHANGED <<dir, metadata, image, content, strange, imageCall, fresh>>

\* Files are put into the directory, or into the mount point below the mount;
\* not in the middle of a call.
StrangeFiles ==
  /\ at = "over" /\ strange = "none" /\ ~mounted
  /\ \/ "base" \in dir /\ strange' = "beside"
     \/ "mnt" \in dir /\ strange' = "under"
  /\ UNCHANGED <<dir, metadata, image, content, mounted, imageCall, at, fresh>>

ImageNext ==
  \/ \E verb \in {"ensure", "boot", "reset", "remove"} : BeginImageCall(verb)
  \/ CallEndsEarly \/ MakeBase \/ WriteMetadata \/ ReadMetadata \/ CreateImage
  \/ FindImage \/ Mkfs \/ CheckImage \/ MakeMountPoint \/ MountImage \/ MakeAreas
  \/ FindMounted \/ DeleteRegistration \/ NothingToRemove \/ Identify \/ Umount
  \/ RemoveMountPoint \/ NotAttached \/ Unlink \/ UnlinkMetadata \/ RemoveBase
  \/ JobsWrite \/ ImageHostReboots \/ StrangeFiles

ImageSpec == ImageInit /\ [][ImageNext]_imageVars

-----------------------------------------------------------------------------

ImageDisk == INSTANCE DiskContract WITH
  made <- image = "fs", data <- content, usable <- mounted,
  foreign <- strange # "none",
  wish <- IF imageCall.verb = "boot" THEN "ensure" ELSE imageCall.verb,
  granted <- imageCall.answered

\* Whichever call is cut off wherever, and whatever is found in its place: an
\* image is made once, what is on it goes only with the call that asks for it
\* and when nothing has it mounted, and no file that is not the agent's is
\* deleted or covered.
ImageKeepsItsData == ImageDisk!DiskSpec
=============================================================================
