---------------------------- MODULE DiskContract ----------------------------
(***************************************************************************)
(* What a runner's own disk promises, whatever it is made of: what jobs    *)
(* left on it is lost by nothing but the call that asks for it, and it     *)
(* takes the place of nobody else's files (agent/runtimes: linux_storage,  *)
(* windows_storage, macos_storage).                                        *)
(***************************************************************************)
VARIABLES
  made,    \* it has a filesystem
  data,    \* what is on it: a subset of {"reg", "kept"}
  usable,  \* it is mounted where the runner works
  foreign, \* there are files of somebody else where it would be
  wish,    \* the last call: "none", "ensure", "reset" or "remove"
  granted  \* that it was answered as carried out

diskVars == <<made, data, usable, foreign, wish, granted>>

DiskInit ==
  /\ ~made /\ data = {} /\ ~usable /\ foreign \in BOOLEAN
  /\ wish = "none" /\ ~granted

BeginDiskCall ==
  /\ wish' \in {"ensure", "reset", "remove"} /\ ~granted'
  /\ UNCHANGED <<made, data, usable, foreign>>

\* Nothing that was made is made again.
MakeDisk ==
  /\ wish = "ensure" /\ ~made /\ made'
  /\ UNCHANGED <<data, usable, foreign, wish, granted>>

\* It comes into use by itself, when its host starts, or when it is asked for,
\* and never on top of anything.
ComeIntoUse ==
  /\ made /\ ~usable /\ ~foreign /\ usable'
  /\ UNCHANGED <<made, data, foreign, wish, granted>>

GoOutOfUse ==
  /\ usable /\ ~usable'
  /\ UNCHANGED <<made, data, foreign, wish, granted>>

WriteToDisk ==
  /\ usable /\ data \subseteq data'
  /\ UNCHANGED <<made, usable, foreign, wish, granted>>

\* A rebuild drops the registration and nothing else.
ResetDisk ==
  /\ wish = "reset" /\ usable /\ data' = data \ {"reg"} /\ granted'
  /\ UNCHANGED <<made, usable, foreign, wish>>

\* It is deleted when it is out of use.
DeleteDisk ==
  /\ wish = "remove" /\ ~usable /\ ~made' /\ data' = {}
  /\ UNCHANGED <<usable, foreign, wish, granted>>

\* Files of somebody else appear, and stay.
FilesAppear ==
  /\ foreign'
  /\ UNCHANGED <<made, data, usable, wish, granted>>

Grant ==
  /\ ~granted /\ granted'
  /\ wish = "ensure" => made /\ usable
  /\ wish # "reset"
  /\ wish = "remove" => ~made
  /\ UNCHANGED <<made, data, usable, foreign, wish>>

DiskNext ==
  \/ BeginDiskCall \/ MakeDisk \/ ComeIntoUse \/ GoOutOfUse \/ WriteToDisk
  \/ ResetDisk \/ DeleteDisk \/ FilesAppear \/ Grant

DiskSpec == DiskInit /\ [][DiskNext]_diskVars
=============================================================================
