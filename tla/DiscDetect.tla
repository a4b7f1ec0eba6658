------------------------------ MODULE DiscDetect ------------------------------
(* The detection of discs, totem-disc.c: what a cache takes down about a      *)
(* directory, an image or a device, and what is asked of it afterwards, while *)
(* discs come and go and their volumes are mounted and unmounted by others.   *)
(* Drives, volumes and mounts are GIO's; they are modelled from how they are  *)
(* asked.                                                                     *)
EXTENDS Naturals, Sequences

CONSTANTS
  NONE,
  Discs,       \* name -> [volumes, types]: its volumes and what is on the one with files
  Places,      \* name -> [kind, types, parent, uri]: what may be asked about;
               \* "nowhere" is where nothing is
  MaxMoves     \* bound: what others do during a call

Kinds == {"dir", "image", "badimage", "device", "badlink", "nothing", "remote"}
Volumes == {"audio", "files"}
ContentTypes == {"audio-cdda", "video-vcd", "video-svcd", "video-dvd", "video-bluray"}
Functions == {"with_url", "from_dir", "has_medium"}
MediaTypes == {"ERROR", "DATA", "CDDA", "VCD", "DVD", "BD"}
Errors == {NONE, "NO_DISC", "MOUNT_FAILED", "IO"}

\* What is located: a place, or the root of a mount.
PathOf(place) == <<place>>
Located == ((DOMAIN Discs) \X Volumes) \cup {PathOf(p) : p \in DOMAIN Places}
Schemes == {"dvd", "vcd", "bluray", "cdda", "file"}
Mrl(scheme, of) == [scheme |-> scheme, of |-> of]

\* Only tracks are guessed to be an audio CD.
ASSUME DiscAssumption ==
  /\ \A d \in DOMAIN Discs :
       /\ Discs[d].volumes \subseteq Volumes
       /\ Discs[d].types \subseteq ContentTypes \ {"audio-cdda"}
  /\ "nowhere" \in DOMAIN Places /\ Places["nowhere"].kind = "nothing"
  /\ \A p \in DOMAIN Places :
       /\ Places[p].kind \in Kinds /\ Places[p].types \subseteq ContentTypes
       /\ Places[p].parent # NONE =>
            Places[p].parent \in DOMAIN Places /\ Places[Places[p].parent].kind = "dir"

\* NONE is none of the names, of the paths and of the MRLs.
ASSUME NoneAssumption ==
  /\ NONE \notin DOMAIN Discs \cup DOMAIN Places \cup Volumes
  /\ NONE \notin {"NO_DISC", "MOUNT_FAILED", "IO"}
  /\ NONE \notin Located
  /\ \A s \in Schemes, of \in Located \cup {NONE} : Mrl(s, of) # NONE

VARIABLES
  listed,      \* whether the drive is listed; a volume may have none
  inserted,    \* the disc in the drive, or NONE
  mounted,     \* its volumes that are mounted
  lost,        \* the volume of the cache is gone
  pc,
  asked,       \* the call: [fn, place, mrl, error], with whether locations are given
  at,          \* the place the cache is about: the one asked about, or its parent
  cache,
  left,        \* the checks that follow the one that runs
  type,
  err,         \* the error, even if nobody receives it
  mrl,         \* [scheme, of], or NONE
  seen,        \* history: the discs that were in the drive during the call, and NONE
  moves,       \* history: how often others did something during the call
  ownMounts    \* history: how often the call has mounted the volume

drive == <<listed, inserted, mounted>>
answer == <<type, err, mrl>>
history == <<seen, moves, ownMounts>>
vars == <<drive, lost, pc, asked, at, cache, left, answer, history>>

NoCache == [media |-> FALSE, image |-> FALSE, device |-> NONE, mountpoint |-> NONE, volume |-> NONE,
            types |-> {}, has_medium |-> FALSE, self_mounted |-> FALSE, mounted |-> FALSE]

NoCall == [fn |-> "with_url", place |-> NONE, mrl |-> FALSE, error |-> FALSE]

Init ==
  /\ listed \in BOOLEAN
  /\ inserted \in DOMAIN Discs \cup {NONE}
  /\ mounted = {}
  /\ lost = FALSE
  /\ pc = "idle" /\ asked = NoCall /\ at = NONE
  /\ cache = NoCache /\ left = <<>>
  /\ type = "DATA" /\ err = NONE /\ mrl = NONE
  /\ seen = {} /\ moves = 0 /\ ownMounts = 0

---------------------------------------------------------------------------
VolumesIn == IF inserted = NONE THEN {} ELSE Discs[inserted].volumes

\* The root of a mount; one of audio tracks need not have any.
Roots(vol) == {<<inserted, vol>>} \cup (IF vol = "audio" THEN {NONE} ELSE {})

\* g_volume_get_mount: the volume of the cache is mounted.
HasMount == ~lost /\ cache.volume \in mounted

\* g_mount_guess_content_type_sync.
TypesOf(vol) == IF vol = "audio" THEN {"audio-cdda"} ELSE Discs[inserted].types

---------------------------------------------------------------------------
\* cd_cache_new

Checks(fn) ==
  CASE fn = "with_url"   -> <<"CDDA", "VCD", "DVD", "BD">>
    [] fn = "from_dir"   -> <<"VCD", "DVD", "BD">>
    [] fn = "has_medium" -> <<>>

Call(fn, place, wantsMrl, wantsError) ==
  /\ pc = "idle"
  /\ fn = "has_medium" => ~wantsMrl /\ ~wantsError
  /\ asked' = [fn |-> fn, place |-> place, mrl |-> wantsMrl, error |-> wantsError]
  /\ at' = place
  /\ pc' = "new"
  /\ type' = "DATA" /\ err' = NONE /\ mrl' = NONE
  /\ seen' = {inserted} /\ moves' = 0 /\ ownMounts' = 0
  /\ UNCHANGED <<drive, lost, cache, left>>

\* The checks begin.
Begin(new) ==
  /\ cache' = new
  /\ left' = Checks(asked.fn)
  /\ lost' = FALSE
  /\ UNCHANGED <<drive, asked, at, answer, history>>

\* No cache: the error there is one for is given.
NoCacheFor(error) ==
  /\ pc' = "over"
  /\ err' = error
  /\ type' = IF asked.fn = "has_medium" THEN "DATA" ELSE "ERROR"
  /\ cache' = NoCache
  /\ UNCHANGED <<drive, lost, asked, at, left, mrl, history>>

Here == Places[at]

NewDirectory ==
  /\ pc = "new" /\ Here.kind = "dir"
  /\ Begin([NoCache EXCEPT !.mountpoint = PathOf(at), !.types = Here.types])
  /\ pc' = "check"

\* cd_cache_check_archive: the first name in the archive that is known counts.
NewImage ==
  /\ pc = "new" /\ Here.kind = "image"
  /\ \E types \in IF Here.types = {} THEN {{}} ELSE {{t} : t \in Here.types} :
       Begin([NoCache EXCEPT !.image = TRUE, !.device = PathOf(at), !.types = types])
  /\ pc' = "check"

NewFails ==
  /\ pc = "new"
  /\ \/ Here.kind = "remote" /\ NoCacheFor(NONE)
     \/ Here.kind = "badimage" /\ NoCacheFor("MOUNT_FAILED")
     \/ Here.kind = "badlink" /\ NoCacheFor("IO")
     \/ Here.kind = "nothing" /\ NoCacheFor("NO_DISC")
     \/ Here.kind = "device" /\ VolumesIn = {} /\ NoCacheFor("NO_DISC")

\* A mistake: files are thought better.
BestMounts_Files ==
  IF ~listed THEN {} ELSE IF "files" \in mounted THEN {"files"} ELSE mounted

\* cd_cache_get_best_mount_for_drive: a mount of audio tracks is better than
\* one of files.
BestMounts ==
  IF ~listed THEN {} ELSE IF "audio" \in mounted THEN {"audio"} ELSE mounted

\* A mistake: the cache is not said to be of a device.
NewDevice_NoMedia ==
  /\ pc = "new" /\ Here.kind = "device"
  /\ \E vol \in VolumesIn :
       Begin([NoCache EXCEPT !.device = PathOf(at), !.volume = vol])
  /\ pc' = "guess"

\* cd_cache_get_dev_from_volumes: the best of the mounted volumes of the drive,
\* or else any volume of the device.
NewDevice ==
  /\ pc = "new" /\ Here.kind = "device"
  /\ \E vol \in IF BestMounts # {} THEN BestMounts ELSE VolumesIn :
     \E root \in IF BestMounts # {} THEN Roots(vol) ELSE {NONE} :
       Begin([NoCache EXCEPT !.media = TRUE, !.device = PathOf(at), !.volume = vol, !.mountpoint = root])
  /\ pc' = "guess"

\* A volume found before a better one is released through the wrong pointer:
\* the process may end there.
WrongUnref ==
  /\ pc = "new" /\ Here.kind = "device"
  /\ BestMounts # {} /\ mounted = Volumes
  /\ pc' = "crashed"
  /\ UNCHANGED <<drive, lost, asked, at, cache, left, answer, history>>

\* The contents are guessed once, and only of what is mounted by now.
Guess ==
  /\ pc = "guess"
  /\ cache' = [cache EXCEPT !.types = IF HasMount THEN TypesOf(cache.volume) ELSE {}]
  /\ pc' = "check"
  /\ UNCHANGED <<drive, lost, asked, at, left, answer, history>>

---------------------------------------------------------------------------
\* The checks

\* A mistake: without a drive there is no medium.
has_medium_OfDrive == listed /\ inserted # NONE

\* cd_cache_has_medium, of a volume.
has_medium == listed => inserted # NONE

Stop(result, error) ==
  /\ type' = result
  /\ err' = error
  /\ pc' = IF result = "ERROR" /\ error # NONE /\ left[1] = "CDDA" /\ ~asked.error
           THEN "crashed" ELSE "answer"
  /\ UNCHANGED <<drive, lost, asked, at, cache, left, mrl, history>>

GoTo(next) ==
  /\ pc' = next
  /\ UNCHANGED <<drive, lost, asked, at, left, answer, history>>

\* cd_cache_open_device: there is a medium, and that is remembered.  A check
\* for an audio CD needs no mount.
OpenDevice ==
  /\ pc = "check" /\ left # <<>>
  /\ \/ /\ ~cache.media \/ cache.has_medium
        /\ GoTo(IF left[1] = "CDDA" THEN "type" ELSE "mount")
        /\ UNCHANGED cache
     \/ /\ cache.media /\ ~cache.has_medium /\ has_medium
        /\ cache' = [cache EXCEPT !.has_medium = TRUE]
        /\ GoTo(IF left[1] = "CDDA" THEN "type" ELSE "mount")
     \/ /\ cache.media /\ ~cache.has_medium /\ ~has_medium
        /\ Stop("ERROR", "NO_DISC")

\* The mount's root becomes the mount point, unless there is one.
WithRoot(c) ==
  IF c.mountpoint # NONE \/ ~HasMount THEN {c}
  ELSE {[c EXCEPT !.mountpoint = root] : root \in Roots(c.volume)}

\* cd_cache_open_mountpoint
OpenMountpoint ==
  /\ pc = "mount"
  /\ \/ /\ cache.mounted \/ ~cache.media
        /\ GoTo("type")
        /\ UNCHANGED cache
     \/ /\ ~cache.mounted /\ cache.media /\ HasMount
        /\ cache' \in WithRoot([cache EXCEPT !.self_mounted = FALSE])
        /\ GoTo("type")
     \/ /\ ~cache.mounted /\ cache.media /\ ~HasMount
        /\ cache' = [cache EXCEPT !.self_mounted = TRUE]
        /\ GoTo("mounting")

\* A mistake: that it was mounted is not noted.
MountSucceeds_NotNoted ==
  /\ pc = "mounting"
  /\ ~lost /\ cache.volume \notin mounted
  /\ mounted' = mounted \cup {cache.volume}
  /\ ownMounts' = ownMounts + 1
  /\ pc' = "mounted"
  /\ UNCHANGED <<listed, inserted, lost, asked, at, cache, left, answer, seen, moves>>

\* The volume is mounted while the caller's main loop goes on.
MountSucceeds ==
  /\ pc = "mounting"
  /\ ~lost /\ cache.volume \notin mounted
  /\ mounted' = mounted \cup {cache.volume}
  /\ cache' = [cache EXCEPT !.mounted = TRUE]
  /\ ownMounts' = ownMounts + 1
  /\ pc' = "mounted"
  /\ UNCHANGED <<listed, inserted, lost, asked, at, left, answer, seen, moves>>

\* A mistake: what cannot be mounted is taken for data.
MountFails_AsData ==
  /\ pc = "mounting"
  /\ \E error \in {"IO", "MOUNT_FAILED"} : Stop("DATA", error)

\* g_volume_mount fails, with an error of its own or without.
MountFails ==
  /\ pc = "mounting"
  /\ \E error \in {"IO", "MOUNT_FAILED"} : Stop("ERROR", error)

\* The mount is looked up again; it may be gone.
AfterMount ==
  /\ pc = "mounted"
  /\ cache' \in WithRoot(cache)
  /\ GoTo("type")

Wanted ==
  [CDDA |-> {"audio-cdda"}, VCD |-> {"video-vcd", "video-svcd"}, DVD |-> {"video-dvd"},
   BD |-> {"video-bluray"}]

Found == cache.types \cap Wanted[left[1]] # {} /\ (left[1] = "CDDA" => cache.media)

\* A mistake: the same check again.
CheckType_Again ==
  /\ pc = "type"
  /\ \/ Found /\ Stop(left[1], NONE)
     \/ /\ ~Found
        /\ pc' = "check"
        /\ UNCHANGED <<drive, lost, asked, at, cache, left, answer, history>>

\* The types that were guessed decide, after the last check against all.
CheckType ==
  /\ pc = "type"
  /\ \/ Found /\ Stop(left[1], NONE)
     \/ /\ ~Found /\ Len(left) > 1
        /\ left' = Tail(left)
        /\ pc' = "check"
        /\ UNCHANGED <<drive, lost, asked, at, cache, answer, history>>
     \/ /\ ~Found /\ Len(left) = 1
        /\ Stop("DATA", NONE)

---------------------------------------------------------------------------
\* The ends

\* totem_cd_dir_get_parent takes what it is given for a path, even a URI.
Parent == IF Places[asked.place].uri THEN "nowhere" ELSE Places[asked.place].parent

\* totem_cd_detect_type_from_dir: is it the directory above?
TryParent ==
  /\ pc = "answer" /\ asked.fn = "from_dir" /\ type = "DATA"
  /\ at = asked.place /\ Parent # NONE
  /\ at' = Parent
  /\ pc' = "new"
  /\ cache' = NoCache
  /\ UNCHANGED <<drive, lost, asked, left, answer, history>>

\* A directory above that cannot be asked about leaves an error.
MrlFromDir ==
  CASE type = "DVD" -> Mrl("dvd", IF cache.mountpoint # NONE THEN cache.mountpoint ELSE cache.device)
    [] type = "VCD" -> Mrl("vcd", cache.mountpoint)
    [] type = "BD"  -> Mrl("bluray", cache.mountpoint)
    [] OTHER        -> NONE

\* A mistake: the mount point of an image is used, which it does not have.
Medium_OfImage == IF cache.mountpoint # NONE \/ cache.image THEN cache.mountpoint ELSE PathOf(asked.place)

\* Where a disc is: its image, its mount point, or the device.
Medium == IF cache.mountpoint # NONE /\ ~cache.image THEN cache.mountpoint ELSE PathOf(asked.place)

MrlWithUrl ==
  CASE type = "DVD"  -> Mrl("dvd", Medium)
    [] type = "VCD"  -> Mrl("vcd", Medium)
    [] type = "BD"   -> Mrl("bluray", Medium)
    [] type = "CDDA" -> Mrl("cdda", cache.device)
    [] type = "DATA" /\ ~cache.image /\ cache.mountpoint # NONE -> Mrl("file", cache.mountpoint)
    [] OTHER         -> NONE

\* The cache is freed; whatever was mounted stays mounted.
AnswerType ==
  /\ pc = "answer"
  /\ \/ asked.fn = "with_url"
     \/ asked.fn = "from_dir" /\ (type # "DATA" \/ at # asked.place \/ Parent = NONE)
  /\ mrl' = IF ~asked.mrl THEN NONE ELSE IF asked.fn = "with_url" THEN MrlWithUrl ELSE MrlFromDir
  /\ type' = IF asked.fn = "with_url" /\ asked.mrl /\ type = "DATA" /\ cache.image
             THEN "ERROR" ELSE type
  /\ pc' = "over"
  /\ cache' = NoCache
  /\ UNCHANGED <<drive, lost, asked, at, left, err, history>>

\* totem_cd_has_medium: "DATA" for TRUE, "ERROR" for FALSE.  Without a cache it
\* is TRUE.
AnswerMedium ==
  /\ pc = "check" /\ left = <<>>
  /\ type' = IF cache.media /\ has_medium THEN "DATA" ELSE "ERROR"
  /\ pc' = "over"
  /\ cache' = NoCache
  /\ UNCHANGED <<drive, lost, asked, at, left, err, mrl, history>>

Return ==
  /\ pc = "over"
  /\ pc' = "idle" /\ asked' = NoCall /\ at' = NONE /\ lost' = FALSE
  /\ left' = <<>>
  /\ type' = "DATA" /\ err' = NONE /\ mrl' = NONE
  /\ seen' = {} /\ moves' = 0 /\ ownMounts' = 0
  /\ UNCHANGED <<drive, cache>>

---------------------------------------------------------------------------
\* The others: the user and the desktop.
Move == moves' = IF pc = "idle" THEN 0 ELSE moves + 1

Insert(disc) ==
  /\ inserted = NONE
  /\ Move
  /\ inserted' = disc
  /\ seen' = IF pc = "idle" THEN {} ELSE seen \cup {disc}
  /\ UNCHANGED <<listed, mounted, lost, pc, asked, at, cache, left, answer, ownMounts>>

Eject ==
  /\ inserted # NONE
  /\ Move
  /\ inserted' = NONE /\ mounted' = {} /\ lost' = (pc # "idle")
  /\ seen' = IF pc = "idle" THEN {} ELSE seen \cup {NONE}
  /\ UNCHANGED <<listed, pc, asked, at, cache, left, answer, ownMounts>>

MountedByOther(vol) ==
  /\ vol \in VolumesIn \ mounted
  /\ Move
  /\ mounted' = mounted \cup {vol}
  /\ UNCHANGED <<listed, inserted, lost, pc, asked, at, cache, left, answer, seen, ownMounts>>

UnmountedByOther(vol) ==
  /\ vol \in mounted
  /\ Move
  /\ mounted' = mounted \ {vol}
  /\ UNCHANGED <<listed, inserted, lost, pc, asked, at, cache, left, answer, seen, ownMounts>>

\* What others do matters only to a call about a device.
Others ==
  /\ moves < MaxMoves
  /\ pc # "idle" => Places[asked.place].kind = "device"
  /\ \/ \E d \in DOMAIN Discs : Insert(d)
     \/ Eject
     \/ \E vol \in Volumes : MountedByOther(vol) \/ UnmountedByOther(vol)

Detect ==
  \/ NewDirectory \/ NewImage \/ NewFails \/ NewDevice \/ WrongUnref \/ Guess
  \/ OpenDevice \/ OpenMountpoint \/ MountSucceeds \/ MountFails \/ AfterMount \/ CheckType
  \/ TryParent \/ AnswerType \/ AnswerMedium

Ask ==
  \E fn \in Functions, place \in DOMAIN Places \ {"nowhere"}, m \in BOOLEAN, e \in BOOLEAN :
    /\ fn = "from_dir" => Places[place].kind \in {"dir", "remote"}
    /\ Places[place].uri => fn = "from_dir"
    /\ Call(fn, place, m, e)

Next == Ask \/ Detect \/ Return \/ Others

\* A detection runs on its thread; a mount that was asked for succeeds or fails.
Spec == Init /\ [][Next]_vars /\ WF_vars(Detect)
=============================================================================
