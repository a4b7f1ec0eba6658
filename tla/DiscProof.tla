------------------------------- MODULE DiscProof -------------------------------
(* Whatever the discs and the places are, and however often others interfere: *)
(* a detection mounts at most once, its answer was true during the call, and  *)
(* its error and its MRL fit the answer.                                      *)
EXTENDS DiscProperties, TLAPS

Fields == {"media", "image", "device", "mountpoint", "volume", "types", "has_medium",
           "self_mounted", "mounted"}

\* What is in the cache.
CacheShape ==
  /\ DOMAIN cache = Fields
  /\ cache.media \in BOOLEAN /\ cache.image \in BOOLEAN /\ cache.mounted \in BOOLEAN

\* A call is about a place, and after a look at a directory about the one above.
Asked ==
  pc # "idle" =>
    /\ asked.place \in DOMAIN Places
    /\ asked.fn \in Functions
    /\ asked.fn = "from_dir" => Places[asked.place].kind \in {"dir", "remote"}
    /\ at # asked.place => asked.fn = "from_dir" /\ Places[at].kind \in {"dir", "nothing"}

\* The cache is of the place; only a device has something to mount.
CacheOfPlace ==
  /\ pc \notin {"idle", "new", "over", "crashed"} =>
       /\ cache.media => Places[at].kind = "device"
       /\ cache.image => Places[at].kind = "image"
  /\ cache.mounted => cache.media
  /\ pc = "mounting" => cache.media /\ ~cache.mounted

\* The checks that follow; while one runs there is one.
Names == {"CDDA", "VCD", "DVD", "BD"}

ChecksLeft ==
  /\ left \in Seq(Names)
  /\ pc \in {"mount", "mounting", "mounted", "type"} => left # <<>>
  /\ pc \in {"guess", "check"} /\ left = <<>> => asked.fn = "has_medium"

\* A mount of its own is noted in the cache for as long as there is one.
MountIsNoted ==
  /\ ownMounts \in {0, 1}
  /\ ownMounts = 1 => cache.mounted \/ pc \in {"over", "crashed"}
  /\ pc = "new" => ownMounts = 0

\* The error so far.
ErrorSoFar ==
  /\ pc \in {"new", "guess", "check", "mount", "mounting", "mounted", "type"} =>
       err = NONE /\ type = "DATA"
  /\ pc = "answer" => (err # NONE <=> type = "ERROR")
  /\ ErrorsFit

IInv == CacheShape /\ Asked /\ CacheOfPlace /\ ChecksLeft /\ MountIsNoted /\ ErrorSoFar

---------------------------------------------------------------------------
LEMMA InitOK == Init => IInv
  BY DEF Init, IInv, CacheShape, Fields, NoCache, Asked, CacheOfPlace, ChecksLeft, MountIsNoted,
         ErrorSoFar, ErrorsFit, Detected, Over

LEMMA AskOK ==
  ASSUME IInv, Ask PROVE IInv'
<1>1. PICK fn \in Functions, place \in DOMAIN Places, m \in BOOLEAN, e \in BOOLEAN :
        /\ fn = "from_dir" => Places[place].kind \in {"dir", "remote"}
        /\ Call(fn, place, m, e)
  BY DEF Ask
<1>2. CacheShape' /\ CacheOfPlace' /\ ChecksLeft' /\ MountIsNoted'
  BY <1>1 DEF Call, IInv, CacheShape, CacheOfPlace, ChecksLeft, MountIsNoted
<1>3. Asked'
  BY <1>1 DEF Call, Asked
<1>4. ErrorSoFar'
  BY <1>1 DEF Call, ErrorSoFar, ErrorsFit, Detected, Over
<1>. QED BY <1>2, <1>3, <1>4 DEF IInv

LEMMA ChecksAre ==
  ASSUME NEW fn \in Functions
  PROVE  Checks(fn) \in Seq(Names) /\ (Checks(fn) = <<>> => fn = "has_medium")
<1>1. CASE fn = "with_url"
  <2>1. Checks(fn) = <<"CDDA", "VCD", "DVD", "BD">>
    BY <1>1 DEF Checks
  <2>2. <<"CDDA", "VCD", "DVD", "BD">> \in Seq(Names) /\ <<"CDDA", "VCD", "DVD", "BD">> # <<>>
    BY DEF Names
  <2>. QED BY <2>1, <2>2
<1>2. CASE fn = "from_dir"
  <2>1. Checks(fn) = <<"VCD", "DVD", "BD">>
    BY <1>2 DEF Checks
  <2>2. <<"VCD", "DVD", "BD">> \in Seq(Names) /\ <<"VCD", "DVD", "BD">> # <<>>
    BY DEF Names
  <2>. QED BY <2>1, <2>2
<1>3. CASE fn = "has_medium"
  <2>1. Checks(fn) = <<>>
    BY <1>3 DEF Checks
  <2>2. <<>> \in Seq(Names)
    OBVIOUS
  <2>. QED BY <1>3, <2>1, <2>2
<1>. QED BY <1>1, <1>2, <1>3 DEF Functions

\* The cache of a call is new.
LEMMA BeginOK ==
  ASSUME IInv, NEW new, pc = "new", pc' \in {"guess", "check"},
         DOMAIN new = Fields, new.media \in BOOLEAN, new.image \in BOOLEAN, new.mounted = FALSE,
         new.media => Here.kind = "device",
         new.image => Here.kind = "image",
         Begin(new)
  PROVE  IInv'
<1>1. CacheShape'
  BY DEF Begin, CacheShape
<1>5. MountIsNoted'
  BY DEF IInv, Begin, MountIsNoted, history
<1>4. CacheOfPlace'
  BY DEF Begin, CacheOfPlace, Here
<1>2. Asked'
  BY DEF IInv, Begin, Asked
<1>3. ErrorSoFar'
  BY DEF IInv, Begin, ErrorSoFar, ErrorsFit, Detected, Over, answer
<1>6. ChecksLeft'
  BY ChecksAre DEF IInv, Begin, Asked, ChecksLeft
<1>. QED BY <1>1, <1>2, <1>3, <1>4, <1>5, <1>6 DEF IInv

LEMMA NewOK ==
  ASSUME IInv, NewDirectory \/ NewImage \/ NewDevice PROVE IInv'
<1>1. CASE NewDirectory
  <2>. DEFINE new == [NoCache EXCEPT !.mountpoint = PathOf(at), !.types = Here.types]
  <2>1. DOMAIN new = Fields /\ new.media = FALSE /\ new.image = FALSE /\ new.mounted = FALSE
    BY DEF NoCache, Fields
  <2>. QED BY <1>1, <2>1, BeginOK DEF NewDirectory
<1>2. CASE NewImage
  <2>1. PICK types : Begin([NoCache EXCEPT !.image = TRUE, !.device = PathOf(at), !.types = types])
    BY <1>2 DEF NewImage
  <2>. DEFINE new == [NoCache EXCEPT !.image = TRUE, !.device = PathOf(at), !.types = types]
  <2>2. DOMAIN new = Fields /\ new.media = FALSE /\ new.image = TRUE /\ new.mounted = FALSE
    BY DEF NoCache, Fields
  <2>. QED BY <1>2, <2>1, <2>2, BeginOK DEF NewImage
<1>3. CASE NewDevice
  <2>1. PICK vol, root :
          Begin([NoCache EXCEPT !.media = TRUE, !.device = PathOf(at), !.volume = vol,
                                !.mountpoint = root])
    BY <1>3 DEF NewDevice
  <2>. DEFINE new == [NoCache EXCEPT !.media = TRUE, !.device = PathOf(at), !.volume = vol,
                                     !.mountpoint = root]
  <2>2. DOMAIN new = Fields /\ new.media = TRUE /\ new.image = FALSE /\ new.mounted = FALSE
    BY DEF NoCache, Fields
  <2>. QED BY <1>3, <2>1, <2>2, BeginOK DEF NewDevice
<1>. QED BY <1>1, <1>2, <1>3

\* Above a directory nothing is remote.
LEMMA NewFailsOK ==
  ASSUME IInv, NewFails PROVE IInv'
<1>1. PICK error \in Errors :
        NoCacheFor(error) /\ pc = "new" /\ (error = NONE => Here.kind = "remote")
  BY NoneAssumption DEF NewFails, Errors
<1>2. CacheShape'
  BY <1>1 DEF NoCacheFor, CacheShape, NoCache, Fields
<1>3. CacheOfPlace' /\ ChecksLeft' /\ MountIsNoted'
  BY <1>1 DEF IInv, NoCacheFor, NoCache, CacheOfPlace, ChecksLeft, MountIsNoted, history
<1>4. Asked'
  BY <1>1 DEF IInv, NoCacheFor, Asked
<1>5. ErrorSoFar'
  BY <1>1 DEF IInv, NoCacheFor, Asked, ErrorSoFar, ErrorsFit, Detected, Over, Here
<1>. QED BY <1>2, <1>3, <1>4, <1>5 DEF IInv

\* A step of the detection from one stage to another that gives no answer yet.
LEMMA StageOK ==
  ASSUME IInv,
         pc \in {"guess", "check", "mount", "mounting", "mounted", "type"},
         pc' \in {"check", "mount", "mounting", "mounted", "type"},
         UNCHANGED <<asked, at, answer>>,
         \/ UNCHANGED left /\ (IF pc' = "check" THEN pc = "guess" ELSE left # <<>>)
         \/ left' = Tail(left) /\ Len(left) > 1 /\ pc' = "check",
         DOMAIN cache' = Fields,
         cache'.media = cache.media, cache'.image = cache.image,
         \/ UNCHANGED ownMounts /\ cache'.mounted = cache.mounted
         \/ pc = "mounting" /\ ownMounts' = ownMounts + 1 /\ cache'.mounted = TRUE,
         pc' = "mounting" => cache.media /\ ~cache'.mounted
  PROVE  IInv'
<1>1. CacheShape'
  BY DEF IInv, CacheShape
<1>4. CacheOfPlace'
  BY DEF IInv, CacheShape, CacheOfPlace
<1>5. MountIsNoted'
  BY DEF IInv, CacheShape, CacheOfPlace, MountIsNoted
<1>6. ChecksLeft'
  BY DEF IInv, ChecksLeft
<1>2. Asked'
  BY DEF IInv, Asked
<1>3. ErrorSoFar'
  BY DEF IInv, ErrorSoFar, ErrorsFit, Detected, Over, answer
<1>. QED BY <1>1, <1>2, <1>3, <1>4, <1>5, <1>6 DEF IInv

LEMMA StopOK ==
  ASSUME IInv, NEW result, NEW error,
         pc \in {"guess", "check", "mount", "mounting", "mounted", "type"},
         error # NONE <=> result = "ERROR",
         Stop(result, error)
  PROVE  IInv'
<1>1. CacheShape' /\ CacheOfPlace' /\ ChecksLeft' /\ MountIsNoted'
  BY DEF IInv, Stop, CacheShape, CacheOfPlace, ChecksLeft, MountIsNoted, history
<1>2. Asked'
  BY DEF IInv, Stop, Asked
<1>3. ErrorSoFar'
  BY DEF IInv, Stop, ErrorSoFar, ErrorsFit, Detected, Over
<1>. QED BY <1>1, <1>2, <1>3 DEF IInv

LEMMA GuessOK ==
  ASSUME IInv, Guess PROVE IInv'
<1>1. /\ DOMAIN cache' = Fields /\ cache'.media = cache.media
      /\ cache'.image = cache.image /\ cache'.mounted = cache.mounted
  BY DEF Guess, IInv, CacheShape, Fields
<1>. QED BY <1>1, StageOK DEF Guess, history

LEMMA OpenDeviceOK ==
  ASSUME IInv, OpenDevice PROVE IInv'
<1>1. CASE GoTo("type") \/ GoTo("mount")
  <2>1. /\ DOMAIN cache' = Fields /\ cache'.media = cache.media
        /\ cache'.image = cache.image /\ cache'.mounted = cache.mounted
    BY <1>1 DEF OpenDevice, GoTo, Stop, IInv, CacheShape, Fields
  <2>. QED BY <1>1, <2>1, StageOK DEF OpenDevice, GoTo, history
<1>2. CASE Stop("ERROR", "NO_DISC")
  BY <1>2, StopOK, NoneAssumption DEF OpenDevice
<1>. QED BY <1>1, <1>2 DEF OpenDevice

LEMMA OpenMountpointOK ==
  ASSUME IInv, OpenMountpoint PROVE IInv'
<1>1. /\ DOMAIN cache' = Fields /\ cache'.media = cache.media
      /\ cache'.image = cache.image /\ cache'.mounted = cache.mounted
  BY DEF OpenMountpoint, WithRoot, IInv, CacheShape, Fields
<1>2. /\ pc = "mount"
      /\ GoTo("type") \/ (GoTo("mounting") /\ cache.media /\ ~cache.mounted)
  BY DEF OpenMountpoint
<1>. QED BY <1>1, <1>2, StageOK DEF GoTo, history, IInv, ChecksLeft

LEMMA MountOK ==
  ASSUME IInv, MountSucceeds \/ MountFails \/ AfterMount PROVE IInv'
<1>1. CASE MountSucceeds
  <2>1. /\ DOMAIN cache' = Fields /\ cache'.media = cache.media
        /\ cache'.image = cache.image /\ cache'.mounted = TRUE
    BY <1>1 DEF MountSucceeds, IInv, CacheShape, Fields
  <2>. QED BY <1>1, <2>1, StageOK DEF MountSucceeds, IInv, ChecksLeft
<1>2. CASE MountFails
  <2>1. PICK error \in {"IO", "MOUNT_FAILED"} : Stop("ERROR", error)
    BY <1>2 DEF MountFails
  <2>. QED BY <1>2, <2>1, StopOK, NoneAssumption DEF MountFails
<1>3. CASE AfterMount
  <2>1. /\ DOMAIN cache' = Fields /\ cache'.media = cache.media
        /\ cache'.image = cache.image /\ cache'.mounted = cache.mounted
    BY <1>3 DEF AfterMount, WithRoot, IInv, CacheShape, Fields
  <2>. QED BY <1>3, <2>1, StageOK DEF AfterMount, GoTo, history, IInv, ChecksLeft
<1>. QED BY <1>1, <1>2, <1>3

LEMMA CheckTypeOK ==
  ASSUME IInv, CheckType PROVE IInv'
<1>1. CASE Len(left) > 1 /\ left' = Tail(left) /\ pc' = "check"
             /\ UNCHANGED <<drive, asked, at, cache, answer, history>>
  BY <1>1, StageOK DEF CheckType, history, IInv, CacheShape, ChecksLeft
<1>2. CASE Found /\ Stop(left[1], NONE)
  <2>1. left[1] # "ERROR"
    BY DEF CheckType, IInv, ChecksLeft, Names
  <2>. QED BY <1>2, <2>1, StopOK DEF CheckType
<1>3. CASE Stop("DATA", NONE)
  BY <1>3, StopOK DEF CheckType
<1>. QED BY <1>1, <1>2, <1>3 DEF CheckType

---------------------------------------------------------------------------
\* Nothing was mounted for the directory that was looked at first.
LEMMA TryParentOK ==
  ASSUME IInv, TryParent PROVE IInv'
<1>1. Parent \in DOMAIN Places /\ Places[Parent].kind \in {"dir", "nothing"}
  BY DiscAssumption DEF TryParent, Parent, IInv, Asked
<1>2. ownMounts = 0
  BY DEF TryParent, IInv, Asked, CacheOfPlace, MountIsNoted
<1>3. CacheShape'
  BY DEF TryParent, CacheShape, NoCache, Fields
<1>4. CacheOfPlace' /\ ChecksLeft'
  BY DEF IInv, TryParent, NoCache, CacheOfPlace, ChecksLeft
<1>5. MountIsNoted'
  BY <1>2 DEF TryParent, MountIsNoted, history
<1>6. Asked'
  BY <1>1 DEF IInv, TryParent, Asked
<1>7. ErrorSoFar'
  BY DEF IInv, TryParent, ErrorSoFar, ErrorsFit, Detected, Over, answer
<1>. QED BY <1>3, <1>4, <1>5, <1>6, <1>7 DEF IInv

\* The end of a call.
LEMMA EndOK ==
  ASSUME IInv, AnswerType \/ AnswerMedium \/ WrongUnref \/ Return PROVE IInv'
<1>1. CASE AnswerType
  <2>1. CacheShape' /\ CacheOfPlace' /\ ChecksLeft'
    BY <1>1 DEF IInv, AnswerType, CacheShape, NoCache, Fields, CacheOfPlace, ChecksLeft
  <2>2. MountIsNoted' /\ Asked'
    BY <1>1 DEF IInv, AnswerType, MountIsNoted, Asked, history
  <2>3. ErrorSoFar'
    <3>1. cache.image /\ asked.fn = "with_url" => Places[asked.place].kind = "image"
      BY <1>1 DEF IInv, AnswerType, Asked, CacheOfPlace
    <3>2. pc' = "over" /\ UNCHANGED <<asked, err>>
          /\ type' = IF asked.fn = "with_url" /\ asked.mrl /\ type = "DATA" /\ cache.image
                     THEN "ERROR" ELSE type
      BY <1>1 DEF AnswerType
    <3>. QED BY <1>1, <3>1, <3>2 DEF IInv, AnswerType, ErrorSoFar, ErrorsFit, Detected, Over
  <2>. QED BY <2>1, <2>2, <2>3 DEF IInv
<1>2. CASE AnswerMedium
  <2>1. CacheShape' /\ CacheOfPlace' /\ ChecksLeft'
    BY <1>2 DEF IInv, AnswerMedium, CacheShape, NoCache, Fields, CacheOfPlace, ChecksLeft
  <2>2. MountIsNoted' /\ Asked'
    BY <1>2 DEF IInv, AnswerMedium, MountIsNoted, Asked, history
  <2>3. asked.fn = "has_medium"
    BY <1>2 DEF IInv, AnswerMedium, ChecksLeft
  <2>4. ErrorSoFar'
    <3>1. pc' = "over" /\ asked' = asked
      BY <1>2 DEF AnswerMedium
    <3>. QED BY <2>3, <3>1 DEF ErrorSoFar, ErrorsFit, Detected, Over
  <2>. QED BY <2>1, <2>2, <2>4 DEF IInv
<1>3. CASE WrongUnref
  <2>1. CacheShape' /\ CacheOfPlace' /\ ChecksLeft'
    BY <1>3 DEF IInv, WrongUnref, CacheShape, CacheOfPlace, ChecksLeft
  <2>2. MountIsNoted' /\ Asked'
    BY <1>3 DEF IInv, WrongUnref, MountIsNoted, Asked, history
  <2>3. ErrorSoFar'
    BY <1>3 DEF IInv, WrongUnref, ErrorSoFar, ErrorsFit, Detected, Over
  <2>. QED BY <2>1, <2>2, <2>3 DEF IInv
<1>4. CASE Return
  BY <1>4 DEF IInv, Return, CacheShape, CacheOfPlace, ChecksLeft, MountIsNoted, Asked, ErrorSoFar,
              ErrorsFit, Detected, Over
<1>. QED BY <1>1, <1>2, <1>3, <1>4

---------------------------------------------------------------------------
\* What others do concerns neither the cache nor the answer.
LEMMA OthersOK ==
  ASSUME IInv, Others PROVE IInv'
<1>1. UNCHANGED <<pc, asked, at, cache, left, type, err, ownMounts>>
  BY DEF Others, Insert, Eject, MountedByOther, UnmountedByOther, answer
<1>. QED BY <1>1 DEF IInv, CacheShape, Asked, CacheOfPlace, ChecksLeft, MountIsNoted, ErrorSoFar,
                     ErrorsFit, Detected, Over

LEMMA NextKeepsIInv ==
  ASSUME IInv, [Next]_vars PROVE IInv'
<1>1. CASE Ask
  BY <1>1, AskOK
<1>2. CASE NewDirectory \/ NewImage \/ NewDevice
  BY <1>2, NewOK
<1>3. CASE NewFails
  BY <1>3, NewFailsOK
<1>4. CASE Guess
  BY <1>4, GuessOK
<1>5. CASE OpenDevice
  BY <1>5, OpenDeviceOK
<1>6. CASE OpenMountpoint
  BY <1>6, OpenMountpointOK
<1>7. CASE MountSucceeds \/ MountFails \/ AfterMount
  BY <1>7, MountOK
<1>8. CASE CheckType
  BY <1>8, CheckTypeOK
<1>9. CASE TryParent
  BY <1>9, TryParentOK
<1>10. CASE AnswerType \/ AnswerMedium \/ WrongUnref \/ Return
  BY <1>10, EndOK
<1>11. CASE Others
  BY <1>11, OthersOK
<1>12. CASE UNCHANGED vars
  BY <1>12 DEF vars, answer, history, IInv, CacheShape, Asked, CacheOfPlace, ChecksLeft,
               MountIsNoted, ErrorSoFar, ErrorsFit, Detected, Over
<1>. QED BY <1>1, <1>2, <1>3, <1>4, <1>5, <1>6, <1>7, <1>8, <1>9, <1>10, <1>11, <1>12
         DEF Next, Detect

\* A detection mounts a volume at most once, whatever discs and places there are
\* and however often others unmount it (cd_cache_open_mountpoint).
THEOREM DetectionMountsOnce == Spec => []MountsOnce
<1>1. IInv => MountsOnce
  BY DEF IInv, MountIsNoted, MountsOnce
<1>. QED BY <1>1, InitOK, NextKeepsIInv, PTL DEF Spec

\* An answer of a detection that is an error comes with a GError and no other
\* answer does, but for what is not local and for images that are no disc.
THEOREM DetectionErrorsFit == Spec => []ErrorsFit
<1>1. IInv => ErrorsFit
  BY DEF IInv, ErrorSoFar
<1>. QED BY <1>1, InitOK, NextKeepsIInv, PTL DEF Spec
---------------------------------------------------------------------------
(* What the answers rest on: the cache is of the place or of a disc that was *)
(* in the drive, and the checks that are behind it found nothing.            *)

Running == pc \in {"guess", "check", "mount", "mounting", "mounted", "type", "answer"}

\* The drive, and the discs that were in it during the call.
DriveFits ==
  /\ inserted \in DOMAIN Discs \cup {NONE}
  /\ mounted \subseteq VolumesIn
  /\ moves \in Nat
  /\ seen \subseteq DOMAIN Discs \cup {NONE}
  /\ pc # "idle" => inserted \in seen
  /\ pc = "idle" => seen = {}
  /\ lost = TRUE => moves # 0 /\ pc # "idle"
  /\ lost \in BOOLEAN /\ listed \in BOOLEAN

\* What the cache holds of each kind of place, and that it is empty outside of
\* the detection.
CacheFits ==
  /\ cache.media = TRUE <=> cache.volume \in Volumes
  /\ cache.mountpoint \in Paths /\ cache.device \in Paths
  /\ pc \in {"idle", "new", "over"} => cache = NoCache
  /\ pc # "idle" => at \in DOMAIN Places
  /\ pc = "idle" => at = NONE
  /\ Running =>
       /\ Here.kind \in {"dir", "image", "device"}
       /\ cache.media = TRUE <=> Here.kind = "device"
       /\ cache.image = TRUE <=> Here.kind = "image"
       /\ Here.kind = "dir" => cache.mountpoint = PathOf(at)
       /\ Here.kind = "image" => cache.mountpoint = NONE
       /\ Here.kind # "dir" => cache.device = PathOf(at)
       /\ Here.kind # "device" => cache.types \subseteq Here.types
       /\ cache.media = TRUE /\ lost = FALSE => cache.volume \in VolumesIn

\* What a volume of a disc is guessed to be.
TypesIn(d, vol) == IF vol = "audio" THEN {"audio-cdda"} ELSE Discs[d].types

\* The volume, the types and the mount point of a device are those of a disc
\* that was in the drive.
CacheWasTrue ==
  cache.media = TRUE =>
    /\ \E d \in seen \ {NONE} : cache.volume \in Discs[d].volumes
    /\ cache.types # {} =>
         \E d \in seen \ {NONE} :
           cache.volume \in Discs[d].volumes /\ cache.types = TypesIn(d, cache.volume)
    /\ cache.mountpoint # NONE =>
         \E d \in seen \ {NONE} : cache.mountpoint \in {d} \X Discs[d].volumes

\* The checks are done in their order, and each one done of a device found
\* nothing.
AllChecks == <<"CDDA", "VCD", "DVD", "BD">>
NoneOf(t) == cache.types \cap Wanted[t] = {}
ChecksInOrder ==
  /\ left \in {AllChecks, <<"VCD", "DVD", "BD">>, <<"DVD", "BD">>, <<"BD">>, <<>>}
  /\ left # <<>> => asked.fn # "has_medium" /\ pc # "idle"
  /\ pc = "answer" => left # <<>>
  /\ pc = "guess" => left \in {AllChecks, <<>>} /\ cache.types = {} /\ cache.media = TRUE
  /\ Running /\ pc # "answer" /\ cache.media = TRUE /\ left # <<>> =>
       /\ left[1] # "CDDA" => NoneOf("CDDA")
       /\ left[1] \in {"DVD", "BD"} => NoneOf("VCD")
       /\ left[1] = "BD" => NoneOf("DVD")

\* While nobody disturbs a detection, the best mount is in the cache, with what
\* it is guessed to be; and past the check for an audio CD there is a mount.
Checking == pc = "type" /\ left[1] # "CDDA"
AtRest ==
  Running /\ cache.media = TRUE /\ moves = 0 =>
    /\ ownMounts = 0 => cache.mounted = FALSE
    /\ ownMounts = 0 /\ mounted # {} /\ listed = TRUE => cache.volume \in BestMounts
    /\ ownMounts = 0 /\ pc # "guess" =>
         cache.types = IF cache.volume \in mounted THEN TypesOf(cache.volume) ELSE {}
    /\ ownMounts = 0 /\ Checking => cache.volume \in mounted
    /\ pc = "mounted" => cache.volume \in mounted
    /\ Checking \/ (cache.mounted = TRUE /\ pc # "mounted") =>
         cache.mountpoint # NONE \/ cache.volume = "audio"

\* What the answer will be based on.
Verdict ==
  /\ type \in MediaTypes /\ err \in Errors
  /\ pc # "over" => mrl = NONE
  /\ mrl # NONE => mrl.of \in Paths
  /\ pc = "answer" /\ cache.media = TRUE =>
       /\ type \in DOMAIN Wanted => \E d \in seen \ {NONE} : Shows(d, type)
       /\ type = "DATA" => \E d \in seen : ~Blank(d)
       /\ err = "NO_DISC" => \E d \in seen : Blank(d)
       /\ type = "DATA" /\ moves = 0 => cache.mountpoint # NONE \/ cache.volume = "audio"
       /\ moves = 0 /\ ownMounts = 0 /\ mounted # {} /\ err = NONE => RightType
  /\ pc = "answer" /\ cache.media = FALSE /\ type \in DOMAIN Wanted =>
       type # "CDDA" /\ Places[at].types \cap Wanted[type] # {}
  /\ AnswersWereTrue /\ RecognizedAtRest /\ MrlFits

AnswerIInv == DriveFits /\ CacheFits /\ CacheWasTrue /\ ChecksInOrder /\ AtRest /\ Verdict

\* Not yet at an answer, the verdict is open.
LEMMA OpenVerdict ==
  ASSUME Verdict, pc' \notin {"answer", "over"}, UNCHANGED <<type, err, mrl>>,
         pc' # "over" => mrl = NONE
  PROVE  Verdict'
BY DEF Verdict, AnswersWereTrue, RecognizedAtRest, MrlFits, Over, Detected

LEMMA AnswersFromTheStart == Init => AnswerIInv
<1> SUFFICES ASSUME Init PROVE AnswerIInv
  OBVIOUS
<1>1. NONE \notin Volumes
  BY NoneAssumption
<1>2. DriveFits
  BY DEF Init, DriveFits
<1>3. CacheFits
  BY <1>1 DEF Init, CacheFits, NoCache, Running, Paths
<1>4. CacheWasTrue /\ AtRest
  BY DEF Init, CacheWasTrue, AtRest, NoCache
<1>5. ChecksInOrder
  BY DEF Init, ChecksInOrder, Running
<1>6. Verdict
  BY DEF Init, Verdict, MediaTypes, Errors, AnswersWereTrue, RecognizedAtRest, MrlFits, Over,
         Detected
<1> QED BY <1>2, <1>3, <1>4, <1>5, <1>6 DEF AnswerIInv

\* What is not in the cache of a call that begins or is over.
LEMMA EmptyCache ==
  /\ NoCache.media = FALSE /\ NoCache.image = FALSE /\ NoCache.mounted = FALSE
  /\ NoCache.volume = NONE /\ NoCache.mountpoint = NONE /\ NoCache.device = NONE
  /\ NoCache.types = {}
  /\ NONE \notin Volumes /\ NONE \in Paths
<1>1. NONE \notin Volumes
  BY NoneAssumption
<1> QED BY <1>1 DEF NoCache, Paths

LEMMA AskAnswers ==
  ASSUME IInv, AnswerIInv, Ask
  PROVE  AnswerIInv'
<1>1. PICK fn \in Functions, place \in DOMAIN Places, m \in BOOLEAN, e \in BOOLEAN :
        Call(fn, place, m, e)
  BY DEF Ask
<1>2. cache = NoCache /\ cache' = NoCache /\ left' = left /\ lost' = lost
  BY <1>1 DEF Call, AnswerIInv, CacheFits
<1>3. DriveFits'
  <2>1. /\ seen' = {inserted} /\ moves' = 0 /\ UNCHANGED <<listed, inserted, mounted>>
        /\ lost' = FALSE
    BY <1>1 DEF Call, drive, AnswerIInv, DriveFits, IInv, MountIsNoted
  <2>2. pc' = "new"
    BY <1>1 DEF Call
  <2> QED BY <2>1, <2>2 DEF AnswerIInv, DriveFits, VolumesIn
<1>4. CacheFits' /\ CacheWasTrue'
  BY <1>1, <1>2, EmptyCache DEF Call, CacheFits, CacheWasTrue, Running
<1>5. ChecksInOrder'
  BY <1>1 DEF Call, AnswerIInv, ChecksInOrder, Running
<1>6. AtRest'
  BY <1>1 DEF Call, AtRest, Running
<1>7. Verdict'
  BY <1>1 DEF Call, Verdict, MediaTypes, Errors, AnswersWereTrue, RecognizedAtRest, MrlFits, Over,
         Detected
<1> QED BY <1>3, <1>4, <1>5, <1>6, <1>7 DEF AnswerIInv

---------------------------------------------------------------------------
\* What a new cache holds that is not of a device.
LEMMA PlaceBegins ==
  ASSUME IInv, AnswerIInv, NEW new, pc = "new", pc' = "check", Begin(new),
         Here.kind \in {"dir", "image"},
         new.media = FALSE, new.image = TRUE <=> Here.kind = "image", new.volume = NONE,
         new.mountpoint = IF Here.kind = "dir" THEN PathOf(at) ELSE NONE,
         new.device = IF Here.kind = "dir" THEN NONE ELSE PathOf(at),
         new.types \subseteq Here.types
  PROVE  AnswerIInv'
<1>1. cache' = new /\ lost' = FALSE /\ left' = Checks(asked.fn)
      /\ UNCHANGED <<listed, inserted, mounted, asked, at, type, err, mrl, seen, moves, ownMounts>>
  BY DEF Begin, drive, answer, history
<1>2. DriveFits'
  BY <1>1 DEF AnswerIInv, DriveFits, VolumesIn
<1>3. PathOf(at) \in Paths /\ at \in DOMAIN Places
  BY DEF AnswerIInv, CacheFits, Paths, Located
<1>4. CacheFits'
  BY <1>1, <1>3, EmptyCache DEF CacheFits, Here
<1>5. CacheWasTrue' /\ AtRest'
  BY <1>1 DEF CacheWasTrue, AtRest
<1>6. asked.fn \in Functions
  BY DEF IInv, Asked
<1>7. ChecksInOrder'
  <2>1. left' \in {AllChecks, <<"VCD", "DVD", "BD">>, <<>>} /\ (left' # <<>> => asked.fn # "has_medium")
    BY <1>1, <1>6 DEF Checks, AllChecks, Functions
  <2> QED BY <1>1, <2>1 DEF ChecksInOrder
<1>8. Verdict'
  BY <1>1, OpenVerdict DEF AnswerIInv, Verdict
<1> QED BY <1>2, <1>4, <1>5, <1>7, <1>8 DEF AnswerIInv

LEMMA NewPlaceAnswers ==
  ASSUME IInv, AnswerIInv, NewDirectory \/ NewImage
  PROVE  AnswerIInv'
<1>1. CASE NewDirectory
  <2> DEFINE new == [NoCache EXCEPT !.mountpoint = PathOf(at), !.types = Here.types]
  <2>1. /\ new.media = FALSE /\ new.image = FALSE /\ new.volume = NONE /\ new.device = NONE
        /\ new.mountpoint = PathOf(at) /\ new.types = Here.types
    BY DEF NoCache
  <2>2. Begin(new) /\ pc = "new" /\ pc' = "check" /\ Here.kind = "dir"
    BY <1>1 DEF NewDirectory
  <2> HIDE DEF new
  <2> QED BY <2>1, <2>2, PlaceBegins
<1>2. CASE NewImage
  <2>1. PICK types : /\ Begin([NoCache EXCEPT !.image = TRUE, !.device = PathOf(at), !.types = types])
                     /\ types \subseteq Here.types
    BY <1>2 DEF NewImage
  <2> DEFINE new == [NoCache EXCEPT !.image = TRUE, !.device = PathOf(at), !.types = types]
  <2>2. /\ new.media = FALSE /\ new.image = TRUE /\ new.volume = NONE /\ new.mountpoint = NONE
        /\ new.device = PathOf(at) /\ new.types = types
    BY DEF NoCache
  <2>3. Begin(new) /\ pc = "new" /\ pc' = "check" /\ Here.kind = "image"
    BY <1>2, <2>1 DEF NewImage
  <2> HIDE DEF new
  <2> QED BY <2>1, <2>2, <2>3, PlaceBegins
<1> QED BY <1>1, <1>2

\* The volumes of a disc, and the best mount among them.
LEMMA BestIsVolume ==
  ASSUME AnswerIInv, NEW vol \in IF BestMounts # {} THEN BestMounts ELSE VolumesIn
  PROVE  /\ vol \in VolumesIn /\ vol \in Volumes
         /\ inserted # NONE /\ inserted \in DOMAIN Discs /\ vol \in Discs[inserted].volumes
<1>1. BestMounts \subseteq mounted /\ mounted \subseteq VolumesIn
  BY DEF BestMounts, AnswerIInv, DriveFits
<1>2. vol \in VolumesIn
  BY <1>1
<1>3. inserted # NONE /\ inserted \in DOMAIN Discs
  BY <1>2 DEF VolumesIn, AnswerIInv, DriveFits
<1>4. Discs[inserted].volumes \subseteq Volumes
  BY <1>3, DiscAssumption
<1> QED BY <1>2, <1>3, <1>4 DEF VolumesIn

\* The root of a mount is NONE only for tracks, and is of the disc in the drive.
LEMMA RootsAre ==
  ASSUME inserted \in DOMAIN Discs, NEW vol \in Volumes, NEW root \in Roots(vol),
         vol \in Discs[inserted].volumes
  PROVE  /\ root \in Paths
         /\ root = NONE => vol = "audio"
         /\ root # NONE => root \in {inserted} \X Discs[inserted].volumes
<1>1. CASE root = <<inserted, vol>>
  <2>1. root \in (DOMAIN Discs) \X Volumes
    BY <1>1
  <2>2. root # NONE
    BY <2>1, NoneAssumption DEF Located
  <2> QED BY <1>1, <2>1, <2>2 DEF Paths, Located
<1>2. CASE root # <<inserted, vol>>
  BY <1>2 DEF Roots, Paths
<1> QED BY <1>1, <1>2

LEMMA NewDeviceAnswers ==
  ASSUME IInv, AnswerIInv, NewDevice
  PROVE  AnswerIInv'
<1>1. PICK vol \in IF BestMounts # {} THEN BestMounts ELSE VolumesIn :
      \E root \in IF BestMounts # {} THEN Roots(vol) ELSE {NONE} :
        Begin([NoCache EXCEPT !.media = TRUE, !.device = PathOf(at), !.volume = vol,
                              !.mountpoint = root])
  BY DEF NewDevice
<1>2. PICK root \in IF BestMounts # {} THEN Roots(vol) ELSE {NONE} :
        Begin([NoCache EXCEPT !.media = TRUE, !.device = PathOf(at), !.volume = vol,
                              !.mountpoint = root])
  BY <1>1
<1> DEFINE new == [NoCache EXCEPT !.media = TRUE, !.device = PathOf(at), !.volume = vol,
                                  !.mountpoint = root]
<1>3. /\ new.media = TRUE /\ new.image = FALSE /\ new.mounted = FALSE /\ new.volume = vol
      /\ new.mountpoint = root /\ new.device = PathOf(at) /\ new.types = {}
  BY DEF NoCache
<1>4. Begin(new)
  BY <1>2
<1> HIDE DEF new
<1>5. cache' = new /\ lost' = FALSE /\ left' = Checks(asked.fn)
      /\ UNCHANGED <<listed, inserted, mounted, asked, at, type, err, mrl, seen, moves, ownMounts>>
  BY <1>4 DEF Begin, drive, answer, history
<1>6. pc = "new" /\ pc' = "guess" /\ Here.kind = "device"
  BY DEF NewDevice
<1>7. /\ vol \in VolumesIn /\ vol \in Volumes
      /\ inserted # NONE /\ inserted \in DOMAIN Discs /\ vol \in Discs[inserted].volumes
  BY BestIsVolume
<1>8. root \in Paths /\ (root # NONE => root \in {inserted} \X Discs[inserted].volumes)
  BY <1>2, <1>7, RootsAre DEF Paths
<1>9. inserted \in seen \ {NONE}
  BY <1>6, <1>7 DEF AnswerIInv, DriveFits
<1>10. DriveFits'
  BY <1>5, <1>6 DEF AnswerIInv, DriveFits, VolumesIn
<1>11. PathOf(at) \in Paths /\ at \in DOMAIN Places
  BY <1>6 DEF AnswerIInv, CacheFits, Paths, Located
<1>12. CacheFits'
  BY <1>3, <1>5, <1>6, <1>7, <1>8, <1>11 DEF CacheFits, Here, VolumesIn
<1>13. CacheWasTrue'
  BY <1>3, <1>5, <1>7, <1>8, <1>9 DEF CacheWasTrue
<1>14. asked.fn \in {"with_url", "has_medium"}
  <2>1. at = asked.place
    BY <1>6 DEF IInv, Asked, Here
  <2> QED BY <1>6, <2>1 DEF IInv, Asked, Here, Functions
<1>15. ChecksInOrder'
  <2>1. left' \in {AllChecks, <<>>} /\ (left' # <<>> => asked.fn # "has_medium")
    BY <1>5, <1>14 DEF Checks, AllChecks
  <2>2. AllChecks[1] = "CDDA"
    BY DEF AllChecks
  <2> QED BY <1>3, <1>5, <1>6, <2>1, <2>2 DEF ChecksInOrder
<1>16. AtRest'
  BY <1>1, <1>3, <1>5, <1>6 DEF AtRest, BestMounts, Checking
<1>17. Verdict'
  BY <1>5, <1>6, OpenVerdict DEF AnswerIInv, Verdict
<1> QED BY <1>10, <1>12, <1>13, <1>15, <1>16, <1>17 DEF AnswerIInv

\* Without a cache there is no type, and no disc where there is none.
LEMMA NewFailsAnswers ==
  ASSUME IInv, AnswerIInv, NewFails
  PROVE  AnswerIInv'
<1>1. PICK error \in Errors :
        /\ NoCacheFor(error)
        /\ error = "NO_DISC" /\ Here.kind = "device" => VolumesIn = {}
        /\ Here.kind = "device" => error = "NO_DISC"
  BY DEF NewFails, Errors
<1>2. /\ pc = "new" /\ pc' = "over" /\ err' = error /\ cache' = NoCache
      /\ type' = IF asked.fn = "has_medium" THEN "DATA" ELSE "ERROR"
      /\ UNCHANGED <<listed, inserted, mounted, lost, asked, at, left, mrl, seen, moves, ownMounts>>
  BY <1>1 DEF NewFails, NoCacheFor, drive, history
<1>3. DriveFits'
  BY <1>2 DEF AnswerIInv, DriveFits, VolumesIn
<1>4. CacheFits' /\ CacheWasTrue' /\ AtRest'
  BY <1>2, EmptyCache DEF AnswerIInv, CacheFits, CacheWasTrue, AtRest, Running
<1>5. ChecksInOrder'
  BY <1>2 DEF AnswerIInv, ChecksInOrder, Running
<1>6. mrl' = NONE
  BY <1>2 DEF AnswerIInv, Verdict
<1>7. AnswersWereTrue'
  <2>1. asked.fn # "has_medium" => type' \notin DOMAIN Wanted /\ type' # "DATA"
    BY <1>2 DEF Wanted
  <2>2. err' = "NO_DISC" /\ OnDevice => Blank(inserted) /\ inserted \in seen
    <3>1. at # asked.place => asked.fn = "from_dir" /\ Places[asked.place].kind \in {"dir", "remote"}
      BY <1>2 DEF IInv, Asked
    <3>2. OnDevice => Here.kind = "device"
      BY <3>1 DEF OnDevice, Here
    <3> QED BY <1>1, <1>2, <3>2 DEF VolumesIn, Blank, AnswerIInv, DriveFits
  <2>3. asked.fn = "has_medium" => type' # "ERROR"
    BY <1>2
  <2> QED BY <1>2, <2>1, <2>2, <2>3 DEF AnswersWereTrue, Detected, Over, OnDevice
<1>8. RecognizedAtRest'
  <2>1. Places[asked.place].kind = "device" => err' # NONE
    <3>1. at # asked.place => Places[asked.place].kind \in {"dir", "remote"}
      BY <1>2 DEF IInv, Asked
    <3>2. Places[asked.place].kind = "device" => Here.kind = "device"
      BY <3>1 DEF Here
    <3> QED BY <1>1, <1>2, <3>2, NoneAssumption
  <2> QED BY <1>2, <2>1 DEF RecognizedAtRest, OnDevice
<1>9. MrlFits'
  BY <1>2, <1>6 DEF MrlFits, Detected, Over, Wanted
<1>10. Verdict'
  BY <1>2, <1>6, <1>7, <1>8, <1>9 DEF Verdict, MediaTypes
<1> QED BY <1>3, <1>4, <1>5, <1>10 DEF AnswerIInv

---------------------------------------------------------------------------
\* A volume that is mounted is one of the disc in the drive, which is seen.
LEMMA MountedIsSeen ==
  ASSUME AnswerIInv, pc # "idle", HasMount, cache.media = TRUE
  PROVE  /\ inserted \in DOMAIN Discs /\ inserted \in seen \ {NONE}
         /\ cache.volume \in Volumes /\ cache.volume \in mounted
         /\ cache.volume \in Discs[inserted].volumes
         /\ TypesOf(cache.volume) = TypesIn(inserted, cache.volume)
<1>1. cache.volume \in mounted /\ cache.volume \in VolumesIn
  BY DEF HasMount, AnswerIInv, DriveFits
<1>2. inserted # NONE /\ cache.volume \in Discs[inserted].volumes
  BY <1>1 DEF VolumesIn
<1> QED BY <1>1, <1>2 DEF AnswerIInv, DriveFits, CacheFits, TypesOf, TypesIn

\* A step of the detection that gives no answer yet, with what it may add to
\* the cache.
LEMMA StageAnswers ==
  ASSUME IInv, AnswerIInv,
         pc \in {"guess", "check", "mount", "mounting", "mounted", "type"},
         pc' \in {"check", "mount", "mounting", "mounted", "type"},
         UNCHANGED <<listed, inserted, lost, asked, at, type, err, mrl, seen, moves>>,
         mounted' \subseteq VolumesIn,
         cache'.media = cache.media, cache'.image = cache.image,
         cache'.volume = cache.volume, cache'.device = cache.device,
         \/ cache'.mountpoint = cache.mountpoint
         \/ cache.media = TRUE /\ HasMount /\ cache'.mountpoint \in Roots(cache.volume),
         \/ cache'.types = cache.types
         \/ cache'.types = {}
         \/ cache.media = TRUE /\ HasMount /\ cache'.types = TypesOf(cache.volume),
         ChecksInOrder', AtRest'
  PROVE  AnswerIInv'
<1>1. DriveFits'
  BY DEF AnswerIInv, DriveFits, VolumesIn
<1>2. cache'.mountpoint \in Paths
  BY MountedIsSeen, RootsAre DEF AnswerIInv, CacheFits
<1>3. CacheFits'
  BY <1>2 DEF AnswerIInv, CacheFits, Running, Here, VolumesIn
<1>4. CacheWasTrue'
  <2> SUFFICES ASSUME cache.media = TRUE PROVE CacheWasTrue'
    BY DEF CacheWasTrue
  <2>1. /\ \E d \in seen \ {NONE} : cache.volume \in Discs[d].volumes
        /\ cache.types # {} =>
             \E d \in seen \ {NONE} :
               cache.volume \in Discs[d].volumes /\ cache.types = TypesIn(d, cache.volume)
        /\ cache.mountpoint # NONE =>
             \E d \in seen \ {NONE} : cache.mountpoint \in {d} \X Discs[d].volumes
    BY DEF AnswerIInv, CacheWasTrue
  <2>2. cache'.types # {} =>
          \E d \in seen \ {NONE} :
            cache.volume \in Discs[d].volumes /\ cache'.types = TypesIn(d, cache.volume)
    <3>1. CASE cache'.types = cache.types \/ cache'.types = {}
      BY <2>1, <3>1
    <3>2. CASE HasMount /\ cache'.types = TypesOf(cache.volume)
      BY <3>2, MountedIsSeen
    <3> QED BY <3>1, <3>2
  <2>3. cache'.mountpoint # NONE =>
          \E d \in seen \ {NONE} : cache'.mountpoint \in {d} \X Discs[d].volumes
    <3>1. CASE cache'.mountpoint = cache.mountpoint
      BY <2>1, <3>1
    <3>2. CASE HasMount /\ cache'.mountpoint \in Roots(cache.volume)
      BY <3>2, MountedIsSeen, RootsAre
    <3> QED BY <3>1, <3>2
  <2> QED BY <2>1, <2>2, <2>3 DEF CacheWasTrue, TypesIn
<1>5. Verdict'
  BY OpenVerdict DEF AnswerIInv, Verdict
<1> QED BY <1>1, <1>3, <1>4, <1>5 DEF AnswerIInv

\* The fields that a step leaves in the cache.
SameDisc ==
  /\ cache'.media = cache.media /\ cache'.image = cache.image
  /\ cache'.volume = cache.volume /\ cache'.device = cache.device
  /\ cache'.mounted = cache.mounted

LEMMA GuessAnswers ==
  ASSUME IInv, AnswerIInv, Guess
  PROVE  AnswerIInv'
<1>1. SameDisc /\ cache'.mountpoint = cache.mountpoint
      /\ cache'.types = IF HasMount THEN TypesOf(cache.volume) ELSE {}
  BY DEF Guess, IInv, CacheShape, Fields, SameDisc
<1>2. /\ pc = "guess" /\ pc' = "check" /\ left' = left
      /\ UNCHANGED <<listed, inserted, mounted, lost, asked, at, type, err, mrl, seen, moves, ownMounts>>
  BY DEF Guess, drive, answer, history
<1>3. left \in {AllChecks, <<>>} /\ cache.media = TRUE
  BY <1>2 DEF AnswerIInv, ChecksInOrder
<1>4. ChecksInOrder'
  <2>1. AllChecks[1] = "CDDA"
    BY DEF AllChecks
  <2> QED BY <1>2, <1>3, <2>1 DEF AnswerIInv, ChecksInOrder
<1>5. AtRest'
  <2> SUFFICES ASSUME moves = 0 PROVE AtRest'
    BY <1>2 DEF AtRest
  <2>1. HasMount <=> cache.volume \in mounted
    BY DEF HasMount, AnswerIInv, DriveFits
  <2>2. cache'.types = IF cache.volume \in mounted THEN TypesOf(cache.volume)' ELSE {}
    BY <1>1, <1>2, <2>1 DEF TypesOf, SameDisc
  <2> QED BY <1>1, <1>2, <1>3, <2>2
          DEF SameDisc, AnswerIInv, AtRest, Running, Checking, BestMounts, TypesOf
<1>6. mounted' \subseteq VolumesIn
  BY <1>2 DEF AnswerIInv, DriveFits
<1> QED BY <1>1, <1>2, <1>3, <1>4, <1>5, <1>6, StageAnswers DEF SameDisc

\* An answer that a check stops with.
LEMMA StopAnswers ==
  ASSUME IInv, AnswerIInv, NEW result \in MediaTypes, NEW error \in Errors,
         pc \in {"check", "mounting", "type"}, left # <<>>, Stop(result, error),
         cache.media = TRUE =>
           /\ result \in DOMAIN Wanted => \E d \in seen \ {NONE} : Shows(d, result)
           /\ error = "NO_DISC" => \E d \in seen : Blank(d)
           /\ result = "DATA" /\ moves = 0 => cache.mountpoint # NONE \/ cache.volume = "audio"
           /\ moves = 0 /\ ownMounts = 0 /\ mounted # {} /\ error = NONE /\ type' = result =>
                RightType',
         cache.media = FALSE /\ result \in DOMAIN Wanted =>
           result # "CDDA" /\ Places[at].types \cap Wanted[result] # {}
  PROVE  AnswerIInv'
<1>1. /\ pc' \in {"answer", "crashed"} /\ type' = result /\ err' = error
      /\ UNCHANGED <<listed, inserted, mounted, lost, asked, at, cache, left, mrl, seen, moves, ownMounts>>
  BY DEF Stop, drive, history
<1>2. DriveFits'
  BY <1>1 DEF AnswerIInv, DriveFits, VolumesIn
<1>3. CacheFits'
  BY <1>1 DEF AnswerIInv, CacheFits, Running, Here, VolumesIn
<1>4. CacheWasTrue'
  BY <1>1 DEF AnswerIInv, CacheWasTrue, TypesIn
<1>5. ChecksInOrder'
  BY <1>1 DEF AnswerIInv, ChecksInOrder, Running
<1>6. AtRest'
  BY <1>1 DEF AnswerIInv, AtRest, Running, Checking, BestMounts, TypesOf
<1>7. Verdict'
  <2>1. mrl = NONE
    BY DEF AnswerIInv, Verdict
  <2>2. AnswersWereTrue' /\ RecognizedAtRest' /\ MrlFits'
    BY <1>1 DEF AnswersWereTrue, RecognizedAtRest, MrlFits, Over, Detected
  <2>3. cache.media = TRUE => \E d \in seen : ~Blank(d)
    BY DEF AnswerIInv, CacheWasTrue, Blank
  <2>4. cache.media = TRUE =>
          /\ type' \in DOMAIN Wanted => \E d \in seen' \ {NONE} : Shows(d, type')
          /\ type' = "DATA" => \E d \in seen' : ~Blank(d)
          /\ err' = "NO_DISC" => \E d \in seen' : Blank(d)
    BY <1>1, <2>3
  <2> QED BY <1>1, <2>1, <2>2, <2>4 DEF Verdict, Wanted, Shows, Blank
<1> QED BY <1>2, <1>3, <1>4, <1>5, <1>6, <1>7 DEF AnswerIInv

LEMMA OpenDeviceAnswers ==
  ASSUME IInv, AnswerIInv, OpenDevice
  PROVE  AnswerIInv'
<1>1. pc = "check" /\ left # <<>>
  BY DEF OpenDevice
<1>2. CASE GoTo("type") \/ GoTo("mount")
  <2>1. SameDisc /\ cache'.mountpoint = cache.mountpoint /\ cache'.types = cache.types
    BY <1>2 DEF OpenDevice, GoTo, Stop, IInv, CacheShape, Fields, SameDisc
  <2>2. /\ pc' \in {"type", "mount"} /\ left' = left
        /\ UNCHANGED <<listed, inserted, mounted, lost, asked, at, type, err, mrl, seen, moves, ownMounts>>
    BY <1>2 DEF GoTo, drive, answer, history
  <2>3. pc' = "type" => left[1] = "CDDA"
    BY <1>2, <2>2, <1>1 DEF OpenDevice, GoTo, Stop
  <2>4. ChecksInOrder'
    BY <1>1, <2>1, <2>2 DEF AnswerIInv, ChecksInOrder, Running, SameDisc, NoneOf
  <2>5. AtRest'
    BY <1>1, <2>1, <2>2, <2>3
    DEF AnswerIInv, AtRest, Running, SameDisc, Checking, BestMounts, TypesOf
  <2>6. mounted' \subseteq VolumesIn
    BY <2>2 DEF AnswerIInv, DriveFits
  <2> QED BY <1>1, <2>1, <2>2, <2>4, <2>5, <2>6, StageAnswers DEF SameDisc
<1>3. CASE Stop("ERROR", "NO_DISC") /\ ~has_medium
  <2>1. inserted = NONE /\ inserted \in seen
    BY <1>1, <1>3 DEF has_medium, AnswerIInv, DriveFits
  <2>2. Blank(inserted)
    BY <2>1 DEF Blank
  <2>3. "ERROR" \notin DOMAIN Wanted /\ "ERROR" \in MediaTypes /\ "NO_DISC" \in Errors
        /\ "NO_DISC" # NONE
    BY NoneAssumption DEF Wanted, MediaTypes, Errors
  <2> QED BY <1>1, <1>3, <2>1, <2>2, <2>3, StopAnswers
<1> QED BY <1>2, <1>3 DEF OpenDevice

\* A root that is found for the cache, if there was none and there is a mount.
LEMMA RootIsFound ==
  ASSUME AnswerIInv, cache.media = TRUE, pc # "idle", NEW c, DOMAIN c = Fields,
         NEW d \in WithRoot(c), c.volume = cache.volume
  PROVE  /\ d.media = c.media /\ d.image = c.image /\ d.volume = c.volume
         /\ d.device = c.device /\ d.mounted = c.mounted /\ d.types = c.types
         /\ \/ d.mountpoint = c.mountpoint
            \/ HasMount /\ d.mountpoint \in Roots(c.volume)
         /\ HasMount => d.mountpoint # NONE \/ cache.volume = "audio"
<1>1. CASE c.mountpoint # NONE \/ ~HasMount
  BY <1>1 DEF WithRoot
<1>2. CASE ~(c.mountpoint # NONE \/ ~HasMount)
  <2>1. PICK root \in Roots(c.volume) : d = [c EXCEPT !.mountpoint = root]
    BY <1>2 DEF WithRoot
  <2>2. root = NONE => cache.volume = "audio"
    BY <1>2, MountedIsSeen, RootsAre
  <2> QED BY <1>2, <2>1, <2>2 DEF Fields
<1> QED BY <1>1, <1>2

LEMMA OpenMountpointAnswers ==
  ASSUME IInv, AnswerIInv, OpenMountpoint
  PROVE  AnswerIInv'
<1>1. pc = "mount" /\ left # <<>>
  BY DEF OpenMountpoint, IInv, ChecksLeft
<1>2. mounted \subseteq VolumesIn
  BY DEF AnswerIInv, DriveFits
<1>3. ASSUME NEW next, GoTo(next)
      PROVE  /\ pc' = next /\ left' = left
             /\ UNCHANGED <<listed, inserted, mounted, lost, asked, at, type, err, mrl, seen, moves,
                            ownMounts>>
  BY <1>3 DEF GoTo, drive, answer, history
<1>4. ASSUME SameDisc, cache'.types = cache.types, pc' # "guess", pc' # "answer", left' = left,
             UNCHANGED <<asked>>, pc' # "idle"
      PROVE  ChecksInOrder'
  BY <1>1, <1>4 DEF AnswerIInv, ChecksInOrder, Running, SameDisc, NoneOf
<1>5. CASE (cache.mounted \/ ~cache.media) /\ GoTo("type") /\ UNCHANGED cache
  <2>1. SameDisc
    BY <1>5 DEF SameDisc
  <2>2. ChecksInOrder'
    BY <1>3, <1>4, <1>5, <2>1
  <2>3. AtRest'
    BY <1>1, <1>3, <1>5 DEF IInv, CacheShape, AnswerIInv, AtRest, Running, Checking, BestMounts, TypesOf
  <2> QED BY <1>1, <1>2, <1>3, <1>5, <2>2, <2>3, StageAnswers
<1>6. CASE /\ ~cache.mounted /\ cache.media /\ HasMount
           /\ cache' \in WithRoot([cache EXCEPT !.self_mounted = FALSE])
           /\ GoTo("type")
  <2> DEFINE c == [cache EXCEPT !.self_mounted = FALSE]
  <2>1. /\ DOMAIN c = Fields /\ c.media = cache.media /\ c.image = cache.image
        /\ c.volume = cache.volume /\ c.device = cache.device /\ c.mounted = cache.mounted
        /\ c.types = cache.types /\ c.mountpoint = cache.mountpoint
    BY DEF IInv, CacheShape, Fields
  <2> HIDE DEF c
  <2>2. cache.media = TRUE /\ cache.mounted = FALSE
    BY <1>6 DEF IInv, CacheShape
  <2>3. cache' \in WithRoot(c)
    BY <1>6 DEF c
  <2>4. /\ SameDisc /\ cache'.types = cache.types
        /\ \/ cache'.mountpoint = cache.mountpoint
           \/ HasMount /\ cache'.mountpoint \in Roots(cache.volume)
        /\ cache'.mountpoint # NONE \/ cache.volume = "audio"
    BY <1>1, <1>6, <2>1, <2>2, <2>3, RootIsFound DEF SameDisc
  <2>5. ChecksInOrder'
    BY <1>3, <1>4, <1>6, <2>4
  <2>6. cache.volume \in mounted
    BY <1>6 DEF HasMount
  <2>7. AtRest'
    BY <1>1, <1>3, <1>6, <2>2, <2>4, <2>6
    DEF SameDisc, AnswerIInv, AtRest, Running, Checking, BestMounts, TypesOf
  <2> QED BY <1>1, <1>2, <1>3, <1>6, <2>2, <2>4, <2>5, <2>7, StageAnswers DEF SameDisc
<1>7. CASE /\ ~cache.mounted /\ cache.media /\ ~HasMount
           /\ cache' = [cache EXCEPT !.self_mounted = TRUE]
           /\ GoTo("mounting")
  <2>1. SameDisc /\ cache'.types = cache.types /\ cache'.mountpoint = cache.mountpoint
    BY <1>7 DEF IInv, CacheShape, Fields, SameDisc
  <2>2. ChecksInOrder'
    BY <1>3, <1>4, <1>7, <2>1
  <2>3. cache.media = TRUE /\ cache.mounted = FALSE
    BY <1>7 DEF IInv, CacheShape
  <2>4. AtRest'
    BY <1>1, <1>3, <1>7, <2>1, <2>3
    DEF SameDisc, AnswerIInv, AtRest, Running, Checking, BestMounts, TypesOf
  <2> QED BY <1>1, <1>2, <1>3, <1>7, <2>1, <2>2, <2>4, StageAnswers DEF SameDisc
<1> QED BY <1>5, <1>6, <1>7 DEF OpenMountpoint

LEMMA MountAnswers ==
  ASSUME IInv, AnswerIInv, MountSucceeds \/ MountFails \/ AfterMount
  PROVE  AnswerIInv'
<1>1. left # <<>>
  BY DEF MountSucceeds, MountFails, AfterMount, IInv, ChecksLeft
<1>2. pc \in {"mounting", "mounted"}
  BY DEF MountSucceeds, MountFails, AfterMount
<1>3. pc = "mounting" => cache.media = TRUE
  BY DEF IInv, CacheOfPlace, CacheShape
<1>4. CASE MountSucceeds
  <2>1. /\ cache'.media = cache.media /\ cache'.image = cache.image
        /\ cache'.volume = cache.volume /\ cache'.device = cache.device
        /\ cache'.types = cache.types /\ cache'.mountpoint = cache.mountpoint
    BY <1>4 DEF MountSucceeds, IInv, CacheShape, Fields
  <2>2. /\ pc = "mounting" /\ pc' = "mounted" /\ left' = left /\ lost = FALSE
        /\ mounted' = mounted \cup {cache.volume} /\ ownMounts' = ownMounts + 1
        /\ UNCHANGED <<listed, inserted, lost, asked, at, type, err, mrl, seen, moves>>
    BY <1>4 DEF MountSucceeds, answer, AnswerIInv, DriveFits
  <2>3. mounted' \subseteq VolumesIn
    BY <1>3, <2>2 DEF AnswerIInv, DriveFits, CacheFits, Running
  <2>4. ChecksInOrder'
    BY <1>1, <2>1, <2>2 DEF AnswerIInv, ChecksInOrder, Running, NoneOf
  <2>5. ownMounts' # 0
    BY <2>2 DEF IInv, MountIsNoted
  <2>6. AtRest'
    BY <2>1, <2>2, <2>5 DEF AtRest, Checking
  <2> QED BY <2>1, <2>2, <2>3, <2>4, <2>6, StageAnswers
<1>5. CASE MountFails
  <2>1. PICK error \in {"IO", "MOUNT_FAILED"} : Stop("ERROR", error)
    BY <1>5 DEF MountFails
  <2>2. error # "NO_DISC" /\ error # NONE /\ error \in Errors
    BY NoneAssumption DEF Errors
  <2>3. "ERROR" \notin DOMAIN Wanted /\ "ERROR" \in MediaTypes
    BY DEF Wanted, MediaTypes
  <2>4. pc = "mounting"
    BY <1>5 DEF MountFails
  <2> QED BY <1>1, <2>1, <2>2, <2>3, <2>4, StopAnswers
<1>6. CASE AfterMount
  <2>1. /\ pc = "mounted" /\ pc' = "type" /\ left' = left
        /\ UNCHANGED <<listed, inserted, mounted, lost, asked, at, type, err, mrl, seen, moves,
                       ownMounts>>
    BY <1>6 DEF AfterMount, GoTo, drive, answer, history
  <2>2. cache' \in WithRoot(cache) /\ DOMAIN cache = Fields
    BY <1>6 DEF AfterMount, IInv, CacheShape
  <2>3. mounted \subseteq VolumesIn
    BY DEF AnswerIInv, DriveFits
  <2>4. CASE cache.media = TRUE
    <3>1. /\ SameDisc /\ cache'.types = cache.types
          /\ \/ cache'.mountpoint = cache.mountpoint
             \/ HasMount /\ cache'.mountpoint \in Roots(cache.volume)
          /\ HasMount => cache'.mountpoint # NONE \/ cache.volume = "audio"
      BY <2>1, <2>2, <2>4, RootIsFound DEF SameDisc
    <3>2. ChecksInOrder'
      BY <1>1, <2>1, <3>1 DEF AnswerIInv, ChecksInOrder, Running, SameDisc, NoneOf
    <3>3. moves = 0 => HasMount
      BY <2>1, <2>4 DEF AnswerIInv, AtRest, Running, DriveFits, HasMount
    <3>4. AtRest'
      BY <2>1, <2>4, <3>1, <3>3
      DEF SameDisc, AnswerIInv, AtRest, Running, Checking, BestMounts, TypesOf
    <3> QED BY <2>1, <2>3, <2>4, <3>1, <3>2, <3>4, StageAnswers DEF SameDisc
  <2>5. CASE cache.media = FALSE
    <3>1. cache.volume \notin Volumes /\ mounted \subseteq Volumes
      <4>1. inserted # NONE => Discs[inserted].volumes \subseteq Volumes
        BY DiscAssumption DEF AnswerIInv, DriveFits
      <4> QED BY <2>3, <2>5, <4>1 DEF AnswerIInv, CacheFits, VolumesIn
    <3>2. cache' = cache
      BY <2>2, <3>1 DEF WithRoot, HasMount
    <3>3. ChecksInOrder'
      BY <1>1, <2>1, <3>2 DEF AnswerIInv, ChecksInOrder, Running, NoneOf
    <3>4. AtRest'
      BY <2>5, <3>2 DEF AtRest
    <3> QED BY <2>1, <2>3, <3>2, <3>3, <3>4, StageAnswers
  <2> QED BY <2>4, <2>5 DEF IInv, CacheShape
<1> QED BY <1>4, <1>5, <1>6
---------------------------------------------------------------------------
\* What is looked for is not mixed up.
LEMMA WantedAre ==
  /\ DOMAIN Wanted = {"CDDA", "VCD", "DVD", "BD"}
  /\ Wanted["CDDA"] = {"audio-cdda"} /\ Wanted["VCD"] = {"video-vcd", "video-svcd"}
  /\ Wanted["DVD"] = {"video-dvd"} /\ Wanted["BD"] = {"video-bluray"}
  /\ "ERROR" \notin DOMAIN Wanted /\ "DATA" \notin DOMAIN Wanted
BY DEF Wanted

LEMMA NamesOfChecks ==
  ASSUME AnswerIInv, left # <<>>
  PROVE  left[1] \in DOMAIN Wanted /\ left[1] \in MediaTypes
BY WantedAre DEF AnswerIInv, ChecksInOrder, AllChecks, MediaTypes

\* Of tracks nothing is found but an audio CD, and of files everything else.
LEMMA TypesAreOfVolume ==
  ASSUME NEW d \in DOMAIN Discs, NEW t \in DOMAIN Wanted,
         cache.types = TypesIn(d, cache.volume)
  PROVE  /\ t = "CDDA" => (~NoneOf(t) <=> cache.volume = "audio")
         /\ t # "CDDA" => (~NoneOf(t) => cache.volume # "audio")
<1>1. Discs[d].types \subseteq ContentTypes \ {"audio-cdda"}
  BY DiscAssumption
<1>2. CASE cache.volume = "audio"
  BY <1>2, WantedAre DEF TypesIn, NoneOf
<1>3. CASE cache.volume # "audio"
  BY <1>1, <1>3, WantedAre DEF TypesIn, NoneOf
<1> QED BY <1>2, <1>3

\* What a check found of a device is what a disc shows.
LEMMA FoundIsShown ==
  ASSUME AnswerIInv, cache.media = TRUE, NEW t \in DOMAIN Wanted, ~NoneOf(t)
  PROVE  \E d \in seen \ {NONE} : Shows(d, t)
<1>1. PICK d \in seen \ {NONE} :
        cache.volume \in Discs[d].volumes /\ cache.types = TypesIn(d, cache.volume)
  BY DEF AnswerIInv, CacheWasTrue, NoneOf
<1>2. d \in DOMAIN Discs /\ cache.volume \in Volumes
  BY DEF AnswerIInv, DriveFits, CacheFits
<1>3. CASE t = "CDDA"
  BY <1>1, <1>2, <1>3, TypesAreOfVolume DEF Shows
<1>4. CASE t # "CDDA"
  <2>1. cache.volume = "files"
    BY <1>1, <1>2, <1>4, TypesAreOfVolume DEF Volumes
  <2> QED BY <1>1, <1>4, <2>1 DEF Shows, TypesIn, NoneOf
<1> QED BY <1>3, <1>4

\* Undisturbed, what is guessed of the mounted volume is of the disc in the
\* drive, and files are only looked at where there are no tracks.
LEMMA GuessedAtRest ==
  ASSUME AnswerIInv, pc = "type", cache.media = TRUE, moves = 0, ownMounts = 0,
         cache.volume \in mounted
  PROVE  /\ inserted \in DOMAIN Discs /\ cache.types = TypesIn(inserted, cache.volume)
         /\ cache.volume = "files" => (listed => "audio" \notin mounted)
         /\ cache.volume \in Volumes
<1>1. /\ cache.types = TypesOf(cache.volume)
      /\ listed = TRUE => cache.volume \in BestMounts
  BY DEF AnswerIInv, AtRest, Running
<1>2. inserted \in DOMAIN Discs
  BY DEF AnswerIInv, DriveFits, VolumesIn
<1>3. listed \in BOOLEAN /\ cache.volume \in Volumes
  BY DEF AnswerIInv, DriveFits, CacheFits
<1> QED BY <1>1, <1>2, <1>3 DEF TypesOf, TypesIn, BestMounts

LEMMA FoundIsRight ==
  ASSUME AnswerIInv, pc = "type", left # <<>>, Found, cache.media = TRUE, moves = 0, ownMounts = 0,
         type' = left[1], UNCHANGED <<inserted, mounted, listed>>
  PROVE  RightType'
<1>1. left[1] \in DOMAIN Wanted /\ ~NoneOf(left[1])
  BY NamesOfChecks DEF Found, NoneOf
<1>2. cache.volume \in mounted
  BY <1>1 DEF AnswerIInv, AtRest, Running, NoneOf
<1>3. /\ inserted \in DOMAIN Discs /\ cache.types = TypesIn(inserted, cache.volume)
      /\ cache.volume = "files" => (listed => "audio" \notin mounted)
      /\ cache.volume \in Volumes
  BY <1>2, GuessedAtRest
<1>4. CASE left[1] = "CDDA"
  BY <1>1, <1>2, <1>3, <1>4, TypesAreOfVolume DEF RightType
<1>5. CASE left[1] # "CDDA"
  <2>1. cache.volume = "files"
    BY <1>1, <1>3, <1>5, TypesAreOfVolume DEF Volumes
  <2>2. cache.types = Discs[inserted].types
    BY <1>3, <2>1 DEF TypesIn
  <2>3. /\ left[1] \in {"DVD", "BD"} => NoneOf("VCD")
        /\ left[1] = "BD" => NoneOf("DVD")
    BY DEF AnswerIInv, ChecksInOrder, Running
  <2>4. left[1] = IF Discs[inserted].types \cap Wanted.VCD # {} THEN "VCD"
               ELSE IF "video-dvd" \in Discs[inserted].types THEN "DVD"
               ELSE IF "video-bluray" \in Discs[inserted].types THEN "BD" ELSE "DATA"
    BY <1>1, <1>5, <2>2, <2>3, WantedAre DEF NoneOf
  <2> QED BY <1>2, <1>3, <2>1, <2>4 DEF RightType
<1> QED BY <1>4, <1>5

LEMMA NothingFoundIsRight ==
  ASSUME AnswerIInv, pc = "type", left = <<"BD">>, NoneOf("BD"), cache.media = TRUE, moves = 0,
         ownMounts = 0, type' = "DATA", UNCHANGED <<inserted, mounted, listed>>
  PROVE  RightType'
<1>1. NoneOf("CDDA") /\ NoneOf("VCD") /\ NoneOf("DVD")
  BY DEF AnswerIInv, ChecksInOrder, Running
<1>2. cache.volume \in mounted
  BY DEF AnswerIInv, AtRest, Running, Checking
<1>3. /\ inserted \in DOMAIN Discs /\ cache.types = TypesIn(inserted, cache.volume)
      /\ cache.volume = "files" => (listed => "audio" \notin mounted)
      /\ cache.volume \in Volumes
  BY <1>2, GuessedAtRest
<1>4. cache.volume = "files"
  BY <1>1, <1>3, TypesAreOfVolume, WantedAre DEF Volumes
<1>5. cache.types = Discs[inserted].types
  BY <1>3, <1>4 DEF TypesIn
<1>6. "DATA" = IF Discs[inserted].types \cap Wanted.VCD # {} THEN "VCD"
               ELSE IF "video-dvd" \in Discs[inserted].types THEN "DVD"
               ELSE IF "video-bluray" \in Discs[inserted].types THEN "BD" ELSE "DATA"
  BY <1>1, <1>5, WantedAre DEF NoneOf
<1> QED BY <1>2, <1>3, <1>4, <1>6 DEF RightType

LEMMA CheckTypeAnswers ==
  ASSUME IInv, AnswerIInv, CheckType
  PROVE  AnswerIInv'
<1>1. pc = "type" /\ left # <<>>
  BY DEF CheckType, IInv, ChecksLeft
<1>2. left[1] \in DOMAIN Wanted /\ left[1] \in MediaTypes
  BY <1>1, NamesOfChecks
<1>3. cache.media \in BOOLEAN
  BY DEF IInv, CacheShape
<1>4. NONE \in Errors /\ NONE # "NO_DISC"
  BY NoneAssumption DEF Errors
<1>5. CASE Found /\ Stop(left[1], NONE)
  <2>1. ~NoneOf(left[1])
    BY <1>5 DEF Found, NoneOf
  <2>2. cache.media = TRUE => \E d \in seen \ {NONE} : Shows(d, left[1])
    BY <1>2, <2>1, FoundIsShown
  <2>3. left[1] # "DATA"
    BY <1>2, WantedAre
  <2>4. UNCHANGED <<inserted, mounted, listed>>
    BY <1>5 DEF Stop, drive
  <2>5. cache.media = TRUE /\ moves = 0 /\ ownMounts = 0 /\ type' = left[1] => RightType'
    BY <1>1, <1>5, <2>4, FoundIsRight
  <2>6. cache.media = FALSE => left[1] # "CDDA" /\ Places[at].types \cap Wanted[left[1]] # {}
    <3>1. cache.media = FALSE => cache.types \subseteq Places[at].types
      BY <1>1 DEF AnswerIInv, CacheFits, Running, Here
    <3> QED BY <1>5, <2>1, <3>1 DEF NoneOf, Found
  <2> QED BY <1>1, <1>2, <1>4, <1>5, <2>2, <2>3, <2>5, <2>6, StopAnswers
<1>6. CASE /\ ~Found /\ Len(left) > 1 /\ left' = Tail(left) /\ pc' = "check"
           /\ UNCHANGED <<drive, lost, asked, at, cache, answer, history>>
  <2>1. UNCHANGED <<listed, inserted, mounted, lost, asked, at, cache, type, err, mrl, seen, moves, ownMounts>>
    BY <1>6 DEF drive, answer, history
  <2>2. cache.media = TRUE => NoneOf(left[1])
    BY <1>6 DEF Found, NoneOf
  <2>3. ChecksInOrder'
    <3>1. CASE left = AllChecks
      <4>1. left' = <<"VCD", "DVD", "BD">> /\ left[1] = "CDDA" /\ left'[1] = "VCD"
        BY <1>6, <3>1 DEF AllChecks
      <4> QED BY <1>1, <1>6, <2>1, <2>2, <4>1 DEF AnswerIInv, ChecksInOrder, Running, NoneOf
    <3>2. CASE left = <<"VCD", "DVD", "BD">>
      <4>1. left' = <<"DVD", "BD">> /\ left[1] = "VCD" /\ left'[1] = "DVD"
        BY <1>6, <3>2
      <4> QED BY <1>1, <1>6, <2>1, <2>2, <4>1 DEF AnswerIInv, ChecksInOrder, Running, NoneOf
    <3>3. CASE left = <<"DVD", "BD">>
      <4>1. left' = <<"BD">> /\ left[1] = "DVD" /\ left'[1] = "BD"
        BY <1>6, <3>3
      <4> QED BY <1>1, <1>6, <2>1, <2>2, <4>1 DEF AnswerIInv, ChecksInOrder, Running, NoneOf
    <3>4. ~(left = <<"BD">> \/ left = <<>>)
      BY <1>6
    <3> QED BY <3>1, <3>2, <3>3, <3>4 DEF AnswerIInv, ChecksInOrder
  <2>4. AtRest'
    BY <1>1, <1>6, <2>1 DEF AnswerIInv, AtRest, Running, Checking, BestMounts, TypesOf
  <2>5. mounted' \subseteq VolumesIn
    BY <2>1 DEF AnswerIInv, DriveFits
  <2> QED BY <1>1, <1>6, <2>1, <2>3, <2>4, <2>5, StageAnswers
<1>7. CASE ~Found /\ Len(left) = 1 /\ Stop("DATA", NONE)
  <2>1. left = <<"BD">>
    <3>1. Len(AllChecks) = 4 /\ Len(<<"VCD", "DVD", "BD">>) = 3 /\ Len(<<"DVD", "BD">>) = 2
      BY DEF AllChecks
    <3>2. left \in {AllChecks, <<"VCD", "DVD", "BD">>, <<"DVD", "BD">>, <<"BD">>, <<>>}
      BY DEF AnswerIInv, ChecksInOrder
    <3> QED BY <1>1, <1>7, <3>1, <3>2
  <2>2. cache.media = TRUE => NoneOf("BD")
    BY <1>7, <2>1 DEF Found, NoneOf
  <2>3. UNCHANGED <<inserted, mounted, listed>>
    BY <1>7 DEF Stop, drive
  <2>4. cache.media = TRUE /\ moves = 0 /\ ownMounts = 0 /\ type' = "DATA" => RightType'
    BY <1>1, <2>1, <2>2, <2>3, NothingFoundIsRight
  <2>5. cache.media = TRUE /\ moves = 0 => cache.mountpoint # NONE \/ cache.volume = "audio"
    BY <1>1, <2>1 DEF AnswerIInv, AtRest, Running, Checking
  <2>6. "DATA" \in MediaTypes
    BY DEF MediaTypes
  <2> QED BY <1>1, <1>4, <1>7, <2>4, <2>5, <2>6, StopAnswers, WantedAre
<1> QED BY <1>5, <1>6, <1>7 DEF CheckType
---------------------------------------------------------------------------
\* The next place is asked about with an empty cache.
LEMMA TryParentAnswers ==
  ASSUME IInv, AnswerIInv, TryParent
  PROVE  AnswerIInv'
<1>1. /\ pc = "answer" /\ pc' = "new" /\ at' = Parent /\ cache' = NoCache /\ left' = left
      /\ UNCHANGED <<listed, inserted, mounted, lost, asked, type, err, mrl, seen, moves, ownMounts>>
  BY DEF TryParent, drive, answer, history
<1>2. Parent \in DOMAIN Places
  BY DiscAssumption DEF TryParent, Parent, IInv, Asked
<1>3. DriveFits'
  BY <1>1 DEF AnswerIInv, DriveFits, VolumesIn
<1>4. CacheFits' /\ CacheWasTrue'
  BY <1>1, <1>2, EmptyCache DEF CacheFits, CacheWasTrue, Running
<1>5. ChecksInOrder' /\ AtRest'
  BY <1>1 DEF AnswerIInv, ChecksInOrder, AtRest, Running
<1>6. Verdict'
  BY <1>1, OpenVerdict DEF AnswerIInv, Verdict
<1> QED BY <1>3, <1>4, <1>5, <1>6 DEF AnswerIInv

---------------------------------------------------------------------------
\* Where the answer is about what was asked: a device is nobody's directory above.
LEMMA AnswerIsOf ==
  ASSUME IInv, AnswerIInv, Running
  PROVE  /\ asked.place # NONE /\ at \in DOMAIN Places
         /\ OnDevice <=> cache.media = TRUE
         /\ asked.fn # "from_dir" => at = asked.place
         /\ asked.fn = "from_dir" => Here.kind = "dir" /\ cache.media = FALSE
         /\ PathOf(at) \in Located /\ PathOf(asked.place) \in Located
         /\ PathOf(at) # NONE /\ PathOf(asked.place) # NONE
<1>1. asked.place \in DOMAIN Places /\ asked.fn \in Functions
  BY DEF IInv, Asked, Running
<1>2. at \in DOMAIN Places
  BY DEF AnswerIInv, CacheFits, Running
<1>3. asked.place # NONE
  BY <1>1, NoneAssumption
<1>4. asked.fn # "from_dir" => at = asked.place
  BY DEF IInv, Asked, Running
<1>5. /\ asked.fn = "from_dir" => Places[asked.place].kind \in {"dir", "remote"}
      /\ at # asked.place => Places[at].kind \in {"dir", "nothing"}
  BY DEF IInv, Asked, Running
<1>6. /\ Here.kind \in {"dir", "image", "device"}
      /\ cache.media = TRUE <=> Here.kind = "device"
      /\ cache.media \in BOOLEAN
  BY DEF AnswerIInv, CacheFits, IInv, CacheShape
<1>7. PathOf(at) \in Located /\ PathOf(asked.place) \in Located
  BY <1>1, <1>2 DEF Located
<1>8. PathOf(at) # NONE /\ PathOf(asked.place) # NONE
  BY <1>7, NoneAssumption
<1> QED BY <1>2, <1>3, <1>4, <1>5, <1>6, <1>7, <1>8 DEF OnDevice, Here

\* Where a disc, a directory or an image is found, with its MRL.
LEMMA MrlsAre ==
  ASSUME NEW s \in Schemes, NEW of \in Paths
  PROVE  Mrl(s, of) # NONE /\ Mrl(s, of).of = of
<1>1. Mrl(s, of).of = of
  BY DEF Mrl
<1>2. Mrl(s, of) # NONE
  BY NoneAssumption DEF Paths
<1> QED BY <1>1, <1>2

LEMMA MediumIs ==
  ASSUME IInv, AnswerIInv, pc = "answer"
  PROVE  /\ Medium \in Paths /\ Medium # NONE
         /\ \/ Medium \in {PathOf(asked.place), PathOf(at)}
            \/ OnDevice /\ \E d \in seen \ {NONE} : Medium \in {d} \X Discs[d].volumes
<1> USE DEF Running
<1>1. CASE cache.mountpoint # NONE /\ ~cache.image
  <2>1. Medium = cache.mountpoint
    BY <1>1 DEF Medium
  <2>2. cache.mountpoint \in Paths
    BY DEF AnswerIInv, CacheFits
  <2>3. CASE cache.media = TRUE
    BY <1>1, <2>1, <2>2, <2>3, AnswerIsOf DEF AnswerIInv, CacheWasTrue
  <2>4. CASE cache.media # TRUE
    <3>1. Here.kind = "dir" /\ cache.mountpoint = PathOf(at)
      BY <1>1, <2>4 DEF AnswerIInv, CacheFits
    <3> QED BY <1>1, <2>1, <2>2, <3>1
  <2> QED BY <2>3, <2>4
<1>2. CASE ~(cache.mountpoint # NONE /\ ~cache.image)
  <2>1. Medium = PathOf(asked.place)
    BY <1>2 DEF Medium
  <2> QED BY <2>1, AnswerIsOf DEF Paths
<1> QED BY <1>1, <1>2

\* The MRL of what was asked for by its location.
LEMMA MrlWithUrlIs ==
  ASSUME IInv, AnswerIInv, pc = "answer", asked.fn = "with_url"
  PROVE  /\ type \in DOMAIN Wanted => MrlWithUrl # NONE /\ MrlWithUrl.of # NONE
         /\ MrlWithUrl # NONE => MrlWithUrl.of \in Paths
         /\ MrlWithUrl # NONE =>
              \/ MrlWithUrl.of \in {PathOf(asked.place), PathOf(at)}
              \/ OnDevice /\ MrlWithUrl.of # NONE /\ \E d \in seen \ {NONE} :
                   MrlWithUrl.of \in {d} \X Discs[d].volumes
         /\ type = "DATA" /\ ~cache.image /\ MrlWithUrl = NONE =>
              OnDevice /\ (moves # 0 \/ \E d \in seen \ {NONE} : "audio" \in Discs[d].volumes)
         /\ type = "ERROR" \/ (type = "DATA" /\ cache.image) => MrlWithUrl = NONE
<1> USE DEF Running
<1>1. type \in MediaTypes
  BY DEF AnswerIInv, Verdict
<1>2. CASE type \in {"DVD", "VCD", "BD"}
  <2>1. PICK s \in Schemes : MrlWithUrl = Mrl(s, Medium)
    BY <1>2 DEF MrlWithUrl, Schemes
  <2> QED BY <1>2, <2>1, MediumIs, MrlsAre
<1>3. CASE type = "CDDA"
  <2>1. MrlWithUrl = Mrl("cdda", cache.device) /\ "cdda" \in Schemes
    BY <1>3 DEF MrlWithUrl, Schemes
  <2>2. cache.media = TRUE
    BY <1>3, WantedAre DEF AnswerIInv, Verdict, IInv, CacheShape
  <2>3. cache.device = PathOf(at) /\ cache.device \in Paths
    BY <2>2 DEF AnswerIInv, CacheFits
  <2> QED BY <1>3, <2>1, <2>3, AnswerIsOf, MrlsAre
<1>4. CASE type = "DATA" /\ ~cache.image /\ cache.mountpoint # NONE
  <2>1. MrlWithUrl = Mrl("file", Medium) /\ "file" \in Schemes
    BY <1>4 DEF MrlWithUrl, Medium, Schemes
  <2> QED BY <1>4, <2>1, MediumIs, MrlsAre, WantedAre
<1>5. CASE type = "DATA" /\ ~cache.image /\ cache.mountpoint = NONE
  <2>1. MrlWithUrl = NONE
    BY <1>5 DEF MrlWithUrl
  <2>2. cache.media = TRUE
    <3>1. Here.kind # "dir"
      BY <1>5, AnswerIsOf DEF AnswerIInv, CacheFits
    <3>2. Here.kind # "image"
      BY <1>5, AnswerIsOf DEF AnswerIInv, CacheFits
    <3> QED BY <3>1, <3>2 DEF AnswerIInv, CacheFits
  <2>3. moves = 0 => cache.volume = "audio"
    BY <1>5, <2>2 DEF AnswerIInv, Verdict
  <2>4. \E d \in seen \ {NONE} : cache.volume \in Discs[d].volumes
    BY <2>2 DEF AnswerIInv, CacheWasTrue
  <2>5. OnDevice
    BY <2>2, AnswerIsOf
  <2> QED BY <1>5, <2>1, <2>3, <2>4, <2>5, WantedAre
<1>6. CASE type = "ERROR" \/ (type = "DATA" /\ cache.image)
  <2>1. MrlWithUrl = NONE
    BY <1>6 DEF MrlWithUrl
  <2> QED BY <1>6, <2>1, WantedAre
<1> QED BY <1>1, <1>2, <1>3, <1>4, <1>5, <1>6 DEF MediaTypes

\* The MRL of a directory is its own, and there is one for every disc.
LEMMA MrlFromDirIs ==
  ASSUME IInv, AnswerIInv, pc = "answer", asked.fn = "from_dir"
  PROVE  /\ type \in DOMAIN Wanted => MrlFromDir # NONE /\ MrlFromDir.of # NONE
         /\ MrlFromDir # NONE => MrlFromDir.of \in Paths
         /\ MrlFromDir # NONE => MrlFromDir.of = PathOf(at)
         /\ type = "ERROR" => MrlFromDir = NONE
<1> USE DEF Running
<1>1. cache.mountpoint = PathOf(at) /\ PathOf(at) # NONE /\ PathOf(at) \in Paths
      /\ cache.media = FALSE
  BY AnswerIsOf DEF AnswerIInv, CacheFits
<1>2. type \in MediaTypes /\ type # "CDDA"
  BY <1>1, WantedAre DEF AnswerIInv, Verdict
<1>3. CASE type \in {"DVD", "VCD", "BD"}
  <2>1. PICK s \in Schemes : MrlFromDir = Mrl(s, PathOf(at))
    BY <1>1, <1>3 DEF MrlFromDir, Schemes
  <2> QED BY <1>1, <1>3, <2>1, MrlsAre
<1>4. CASE type \notin {"DVD", "VCD", "BD"}
  <2>1. MrlFromDir = NONE
    BY <1>4 DEF MrlFromDir
  <2> QED BY <1>2, <1>4, <2>1, WantedAre
<1> QED BY <1>3, <1>4

LEMMA AnswerTypeAnswers ==
  ASSUME IInv, AnswerIInv, AnswerType
  PROVE  AnswerIInv'
<1>1. /\ pc = "answer" /\ pc' = "over" /\ cache' = NoCache /\ Running
      /\ asked.fn \in {"with_url", "from_dir"}
      /\ UNCHANGED <<listed, inserted, mounted, lost, asked, at, left, err, seen, moves, ownMounts>>
  BY DEF AnswerType, drive, history, Running
<1>2. /\ mrl' = IF ~asked.mrl THEN NONE ELSE IF asked.fn = "with_url" THEN MrlWithUrl ELSE MrlFromDir
      /\ type' = IF asked.fn = "with_url" /\ asked.mrl /\ type = "DATA" /\ cache.image
                 THEN "ERROR" ELSE type
  BY DEF AnswerType
<1>3. DriveFits'
  BY <1>1 DEF AnswerIInv, DriveFits, VolumesIn
<1>4. CacheFits' /\ CacheWasTrue'
  <2>1. at \in DOMAIN Places
    BY <1>1, AnswerIsOf
  <2> QED BY <1>1, <2>1, EmptyCache DEF CacheFits, CacheWasTrue, Running
<1>5. ChecksInOrder' /\ AtRest'
  BY <1>1 DEF AnswerIInv, ChecksInOrder, AtRest, Running
<1>6. cache.media = TRUE => type' = type
  <2>1. cache.media = TRUE => ~(cache.image = TRUE)
    BY <1>1 DEF AnswerIInv, CacheFits
  <2> QED BY <1>2, <2>1 DEF IInv, CacheShape
<1>7. OnDevice' <=> OnDevice
  BY <1>1 DEF OnDevice
<1>8. AnswersWereTrue'
  <2>1. OnDevice =>
         /\ type' \in DOMAIN Wanted => \E d \in seen \ {NONE} : Shows(d, type')
         /\ type' = "DATA" => \E d \in seen : ~Blank(d)
         /\ err = "NO_DISC" => \E d \in seen : Blank(d)
    BY <1>1, <1>6, AnswerIsOf DEF AnswerIInv, Verdict
  <2>2. ~OnDevice /\ type' \in DOMAIN Wanted => Places[at].types \cap Wanted[type'] # {}
    <3>1. ~OnDevice => cache.media = FALSE
      BY <1>1, AnswerIsOf DEF IInv, CacheShape
    <3>2. type' \in DOMAIN Wanted => type' = type
      BY <1>2, WantedAre
    <3> QED BY <1>1, <3>1, <3>2 DEF AnswerIInv, Verdict
  <2>3. ~Over({"has_medium"})'
    BY <1>1 DEF Over
  <2> QED BY <1>1, <1>7, <2>1, <2>2, <2>3 DEF AnswersWereTrue, Wanted, Shows, Blank
<1>9. RecognizedAtRest'
  <2> SUFFICES ASSUME OnDevice, moves = 0, ownMounts = 0, mounted # {}, err = NONE
               PROVE  RightType'
    BY <1>1, <1>7 DEF RecognizedAtRest
  <2>1. cache.media = TRUE
    BY <1>1, AnswerIsOf
  <2>2. RightType
    BY <1>1, <2>1 DEF AnswerIInv, Verdict
  <2> QED BY <1>1, <1>6, <2>1, <2>2 DEF RightType
<1>10. type' \in MediaTypes /\ (mrl' # NONE => mrl'.of \in Paths)
  <2>1. type' \in MediaTypes
    BY <1>2 DEF AnswerIInv, Verdict, MediaTypes
  <2>2. mrl' # NONE => mrl'.of \in Paths
    BY <1>1, <1>2, MrlWithUrlIs, MrlFromDirIs
  <2> QED BY <2>1, <2>2
<1>11. MrlFits'
  <2> SUFFICES ASSUME asked.mrl PROVE MrlFits'
    BY <1>1 DEF MrlFits
  <2>1. CASE asked.fn = "with_url"
    <3>1. mrl' = MrlWithUrl
      BY <1>2, <2>1
    <3>2. /\ type' \in DOMAIN Wanted => type' = type
          /\ type' = "DATA" => type = "DATA" /\ ~cache.image
          /\ type' = "ERROR" => type = "ERROR" \/ (type = "DATA" /\ cache.image)
      BY <1>2, <2>1, WantedAre
    <3>3. /\ type' \in DOMAIN Wanted => mrl' # NONE /\ mrl'.of # NONE
          /\ mrl' # NONE =>
              \/ mrl'.of \in {PathOf(asked.place), PathOf(at)}
              \/ OnDevice /\ mrl'.of # NONE /\ \E d \in seen \ {NONE} :
                   mrl'.of \in {d} \X Discs[d].volumes
          /\ type' = "DATA" /\ mrl' = NONE =>
              OnDevice /\ (moves # 0 \/ \E d \in seen \ {NONE} : "audio" \in Discs[d].volumes)
          /\ type' = "ERROR" => mrl' = NONE
      BY <1>1, <2>1, <3>1, <3>2, MrlWithUrlIs
    <3> QED BY <1>1, <1>7, <3>3 DEF MrlFits, Wanted
  <2>2. CASE asked.fn = "from_dir"
    <3>1. mrl' = MrlFromDir /\ type' = type
      BY <1>2, <2>2
    <3>2. /\ type' \in DOMAIN Wanted => mrl' # NONE /\ mrl'.of # NONE
          /\ mrl' # NONE => mrl'.of = PathOf(at)
          /\ type' = "ERROR" => mrl' = NONE
      BY <1>1, <2>2, <3>1, MrlFromDirIs
    <3> QED BY <1>1, <2>2, <3>2 DEF MrlFits, Wanted
  <2> QED BY <1>1, <2>1, <2>2
<1>12. Verdict'
  BY <1>1, <1>8, <1>9, <1>10, <1>11 DEF AnswerIInv, Verdict
<1> QED BY <1>3, <1>4, <1>5, <1>12 DEF AnswerIInv

LEMMA AnswerMediumAnswers ==
  ASSUME IInv, AnswerIInv, AnswerMedium
  PROVE  AnswerIInv'
<1>1. /\ pc = "check" /\ pc' = "over" /\ cache' = NoCache /\ Running
      /\ type' = IF cache.media /\ has_medium THEN "DATA" ELSE "ERROR"
      /\ UNCHANGED <<listed, inserted, mounted, lost, asked, at, left, err, mrl, seen, moves, ownMounts>>
  BY DEF AnswerMedium, drive, history, Running
<1>2. asked.fn = "has_medium"
  BY DEF AnswerMedium, IInv, ChecksLeft
<1>3. DriveFits'
  BY <1>1 DEF AnswerIInv, DriveFits, VolumesIn
<1>4. CacheFits' /\ CacheWasTrue'
  <2>1. at \in DOMAIN Places
    BY <1>1, AnswerIsOf
  <2> QED BY <1>1, <2>1, EmptyCache DEF CacheFits, CacheWasTrue, Running
<1>5. ChecksInOrder' /\ AtRest'
  BY <1>1 DEF AnswerIInv, ChecksInOrder, AtRest, Running
<1>6. ~Detected' /\ ~Over({"with_url", "from_dir"})'
  BY <1>1, <1>2 DEF Detected, Over
<1>7. OnDevice /\ type' = "ERROR" => NONE \in seen
  <2> SUFFICES ASSUME OnDevice, type' = "ERROR" PROVE NONE \in seen
    OBVIOUS
  <2>1. cache.media = TRUE
    BY <1>1, AnswerIsOf
  <2>2. ~has_medium
    BY <1>1, <2>1
  <2> QED BY <1>1, <2>2 DEF has_medium, AnswerIInv, DriveFits
<1>8. AnswersWereTrue'
  BY <1>1, <1>6, <1>7 DEF AnswersWereTrue, OnDevice
<1>9. Verdict'
  BY <1>1, <1>6, <1>8 DEF AnswerIInv, Verdict, MediaTypes, RecognizedAtRest, MrlFits
<1> QED BY <1>3, <1>4, <1>5, <1>9 DEF AnswerIInv

LEMMA EndAnswers ==
  ASSUME IInv, AnswerIInv, WrongUnref \/ Return
  PROVE  AnswerIInv'
<1>1. CASE WrongUnref
  <2>1. /\ pc = "new" /\ pc' = "crashed"
        /\ UNCHANGED <<listed, inserted, mounted, lost, asked, at, cache, left, type, err, mrl, seen,
                       moves, ownMounts>>
    BY <1>1 DEF WrongUnref, drive, answer, history
  <2>2. cache' = NoCache
    BY <2>1 DEF AnswerIInv, CacheFits
  <2>3. DriveFits'
    BY <2>1 DEF AnswerIInv, DriveFits, VolumesIn
  <2>4. CacheFits' /\ CacheWasTrue' /\ AtRest'
    BY <2>1, <2>2, EmptyCache DEF AnswerIInv, CacheFits, CacheWasTrue, AtRest, Running
  <2>5. ChecksInOrder'
    BY <2>1 DEF AnswerIInv, ChecksInOrder, Running
  <2>6. Verdict'
    BY <2>1, OpenVerdict DEF AnswerIInv, Verdict
  <2> QED BY <2>3, <2>4, <2>5, <2>6 DEF AnswerIInv
<1>2. CASE Return
  <2>1. /\ pc = "over" /\ pc' = "idle" /\ at' = NONE /\ lost' = FALSE /\ left' = <<>>
        /\ type' = "DATA" /\ err' = NONE /\ mrl' = NONE /\ seen' = {} /\ moves' = 0
        /\ UNCHANGED <<listed, inserted, mounted, cache>>
    BY <1>2 DEF Return, drive
  <2>2. cache' = NoCache
    BY <2>1 DEF AnswerIInv, CacheFits
  <2>3. DriveFits'
    BY <2>1 DEF AnswerIInv, DriveFits, VolumesIn
  <2>4. CacheFits' /\ CacheWasTrue' /\ AtRest'
    BY <2>1, <2>2, EmptyCache DEF CacheFits, CacheWasTrue, AtRest, Running
  <2>5. ChecksInOrder'
    BY <2>1 DEF ChecksInOrder, Running
  <2>6. Verdict'
    BY <2>1 DEF Verdict, MediaTypes, Errors, AnswersWereTrue, RecognizedAtRest, MrlFits, Over, Detected
  <2> QED BY <2>3, <2>4, <2>5, <2>6 DEF AnswerIInv
<1> QED BY <1>1, <1>2

---------------------------------------------------------------------------
\* What others do: the discs that were in the drive become more, and nothing is
\* said any more of a detection at rest.
LEMMA OthersMove ==
  ASSUME IInv, AnswerIInv, Others
  PROVE  /\ UNCHANGED <<pc, asked, at, cache, left, type, err, mrl, ownMounts, listed>>
         /\ DriveFits'
         /\ seen \subseteq seen'
         /\ pc # "idle" => moves' # 0
         /\ pc # "idle" /\ lost' = FALSE =>
              lost = FALSE /\ (VolumesIn' = VolumesIn \/ VolumesIn = {})
<1>1. UNCHANGED <<pc, asked, at, cache, left, type, err, mrl, ownMounts, listed>>
  BY DEF Others, Insert, Eject, MountedByOther, UnmountedByOther, answer
<1>2. Move
  BY DEF Others, Insert, Eject, MountedByOther, UnmountedByOther
<1>3. moves \in Nat
  BY DEF AnswerIInv, DriveFits
<1>4. moves' \in Nat /\ (pc # "idle" => moves' # 0)
  BY <1>2, <1>3 DEF Move
<1>5. CASE \E d \in DOMAIN Discs : Insert(d)
  <2>1. PICK d \in DOMAIN Discs : Insert(d)
    BY <1>5
  <2>2. /\ inserted = NONE /\ inserted' = d /\ mounted' = mounted /\ lost' = lost
        /\ seen' = IF pc = "idle" THEN {} ELSE seen \cup {d}
    BY <2>1 DEF Insert
  <2>3. VolumesIn = {}
    BY <2>2 DEF VolumesIn
  <2>4. mounted = {}
    BY <2>3 DEF AnswerIInv, DriveFits
  <2>5. pc = "idle" => seen = {}
    BY DEF AnswerIInv, DriveFits
  <2> QED BY <1>1, <1>4, <2>2, <2>3, <2>4, <2>5 DEF AnswerIInv, DriveFits
<1>6. CASE Eject
  <2>1. /\ inserted' = NONE /\ mounted' = {} /\ lost' = (pc # "idle")
        /\ seen' = IF pc = "idle" THEN {} ELSE seen \cup {NONE}
    BY <1>6 DEF Eject
  <2>2. lost' \in BOOLEAN /\ (lost' = TRUE <=> pc # "idle")
    BY <2>1
  <2>3. mounted' \subseteq VolumesIn' /\ (pc # "idle" => inserted' \in seen') /\ (pc = "idle" => seen' = {})
    BY <2>1
  <2>4. seen' \subseteq DOMAIN Discs \cup {NONE} /\ seen \subseteq seen'
    BY <2>1 DEF AnswerIInv, DriveFits
  <2>5. DriveFits'
    BY <1>1, <1>4, <2>1, <2>2, <2>3, <2>4 DEF AnswerIInv, DriveFits
  <2> QED BY <1>1, <1>4, <2>2, <2>4, <2>5
<1>7. CASE \E vol \in Volumes : MountedByOther(vol) \/ UnmountedByOther(vol)
  <2>1. /\ UNCHANGED <<inserted, lost, seen>>
        /\ mounted' \subseteq VolumesIn
    BY <1>7 DEF MountedByOther, UnmountedByOther, AnswerIInv, DriveFits
  <2> QED BY <1>1, <1>4, <2>1 DEF AnswerIInv, DriveFits, VolumesIn
<1> QED BY <1>5, <1>6, <1>7 DEF Others
LEMMA OthersAnswers ==
  ASSUME IInv, AnswerIInv, Others
  PROVE  AnswerIInv'
<1>1. /\ UNCHANGED <<pc, asked, at, cache, left, type, err, mrl, ownMounts, listed>>
      /\ DriveFits'
      /\ seen \subseteq seen'
      /\ pc # "idle" => moves' # 0
      /\ pc # "idle" /\ lost' = FALSE =>
           lost = FALSE /\ (VolumesIn' = VolumesIn \/ VolumesIn = {})
  BY OthersMove
<1>2. CASE pc = "idle"
  <2>1. cache = NoCache /\ at = NONE
    BY <1>2 DEF AnswerIInv, CacheFits
  <2>2. CacheFits' /\ CacheWasTrue' /\ AtRest'
    BY <1>1, <1>2, <2>1, EmptyCache DEF CacheFits, CacheWasTrue, AtRest, Running
  <2>3. ChecksInOrder'
    BY <1>1, <1>2 DEF AnswerIInv, ChecksInOrder, Running
  <2>4. Verdict'
    BY <1>1, <1>2, OpenVerdict DEF AnswerIInv, Verdict
  <2> QED BY <1>1, <2>2, <2>3, <2>4 DEF AnswerIInv
<1>3. CASE pc # "idle"
  <2>1. Running /\ cache.media = TRUE /\ lost' = FALSE => cache.volume \in VolumesIn'
    <3>1. Running /\ cache.media = TRUE /\ lost = FALSE => cache.volume \in VolumesIn
      BY DEF AnswerIInv, CacheFits
    <3> QED BY <1>1, <1>3, <3>1
  <2>2. CacheFits'
    BY <1>1, <1>3, <2>1 DEF AnswerIInv, CacheFits, Running, Here
  <2>3. CacheWasTrue'
    BY <1>1 DEF AnswerIInv, CacheWasTrue, TypesIn
  <2>4. ChecksInOrder'
    BY <1>1 DEF AnswerIInv, ChecksInOrder, Running, NoneOf
  <2>5. AtRest'
    BY <1>1, <1>3 DEF AtRest
  <2>6. AnswersWereTrue'
    BY <1>1 DEF AnswerIInv, Verdict, AnswersWereTrue, OnDevice, Detected, Over, Shows, Blank, Wanted
  <2>7. RecognizedAtRest'
    BY <1>1, <1>3 DEF RecognizedAtRest
  <2>8. MrlFits'
    BY <1>1, <1>3 DEF AnswerIInv, Verdict, MrlFits, OnDevice, Detected, Over, Wanted
  <2>9. Verdict'
    BY <1>1, <1>3, <2>6, <2>7, <2>8 DEF AnswerIInv, Verdict, Shows, Blank, Wanted
  <2> QED BY <1>1, <2>2, <2>3, <2>4, <2>5, <2>9 DEF AnswerIInv
<1> QED BY <1>2, <1>3

LEMMA NextAnswers ==
  ASSUME IInv, AnswerIInv, [Next]_vars
  PROVE  AnswerIInv'
<1>1. CASE Ask
  BY <1>1, AskAnswers
<1>2. CASE NewDirectory \/ NewImage
  BY <1>2, NewPlaceAnswers
<1>3. CASE NewDevice
  BY <1>3, NewDeviceAnswers
<1>4. CASE NewFails
  BY <1>4, NewFailsAnswers
<1>5. CASE Guess
  BY <1>5, GuessAnswers
<1>6. CASE OpenDevice
  BY <1>6, OpenDeviceAnswers
<1>7. CASE OpenMountpoint
  BY <1>7, OpenMountpointAnswers
<1>8. CASE MountSucceeds \/ MountFails \/ AfterMount
  BY <1>8, MountAnswers
<1>9. CASE CheckType
  BY <1>9, CheckTypeAnswers
<1>10. CASE TryParent
  BY <1>10, TryParentAnswers
<1>11. CASE AnswerType
  BY <1>11, AnswerTypeAnswers
<1>12. CASE AnswerMedium
  BY <1>12, AnswerMediumAnswers
<1>13. CASE WrongUnref \/ Return
  BY <1>13, EndAnswers
<1>14. CASE Others
  BY <1>14, OthersAnswers
<1>15. CASE UNCHANGED vars
  <2>1. UNCHANGED <<listed, inserted, mounted, lost, pc, asked, at, cache, left, type, err, mrl, seen,
                    moves, ownMounts>>
    BY <1>15 DEF vars, drive, answer, history
  <2>2. DriveFits' /\ CacheFits'
    BY <2>1 DEF AnswerIInv, DriveFits, VolumesIn, CacheFits, Running, Here
  <2>3. CacheWasTrue' /\ ChecksInOrder'
    BY <2>1 DEF AnswerIInv, CacheWasTrue, TypesIn, ChecksInOrder, Running, NoneOf
  <2>4. AtRest'
    BY <2>1 DEF AnswerIInv, AtRest, Running, Checking, BestMounts, TypesOf
  <2>5. AnswersWereTrue' /\ RecognizedAtRest' /\ MrlFits'
    BY <2>1 DEF AnswerIInv, Verdict, AnswersWereTrue, RecognizedAtRest, RightType, MrlFits, OnDevice,
                Detected, Over, Shows, Blank, Wanted
  <2>6. Verdict'
    BY <2>1, <2>5 DEF AnswerIInv, Verdict, RightType, Shows, Blank, Wanted
  <2> QED BY <2>2, <2>3, <2>4, <2>6 DEF AnswerIInv
<1> QED BY <1>1, <1>2, <1>3, <1>4, <1>5, <1>6, <1>7, <1>8, <1>9, <1>10, <1>11, <1>12, <1>13, <1>14,
           <1>15
        DEF Next, Detect

\* The steps of a call.
Stages == {"idle", "new", "guess", "check", "mount", "mounting", "mounted", "type", "answer",
           "over", "crashed"}

StageFits == pc \in Stages

LEMMA StagesAreKept == Spec => []StageFits
<1> USE DEF StageFits
<1>1. Init => StageFits
  BY DEF Init, Stages
<1>2. ASSUME StageFits, [Next]_vars PROVE StageFits'
  <2>1. CASE Ask \/ Return \/ Others \/ UNCHANGED vars
    BY <1>2, <2>1
    DEF Stages, Ask, Call, Return, Others, Insert, Eject, MountedByOther, UnmountedByOther, vars
  <2>2. CASE NewDirectory \/ NewImage \/ NewFails \/ NewDevice \/ WrongUnref \/ Guess
    BY <2>2 DEF Stages, NewDirectory, NewImage, NewFails, NoCacheFor, NewDevice, WrongUnref, Guess
  <2>3. CASE OpenDevice \/ OpenMountpoint \/ MountSucceeds \/ MountFails \/ AfterMount \/ CheckType
    BY <2>3 DEF Stages, OpenDevice, OpenMountpoint, MountSucceeds, MountFails, AfterMount, CheckType,
                GoTo, Stop
  <2>4. CASE TryParent \/ AnswerType \/ AnswerMedium
    BY <2>4 DEF Stages, TryParent, AnswerType, AnswerMedium
  <2> QED BY <1>2, <2>1, <2>2, <2>3, <2>4 DEF Next, Detect
<1> HIDE DEF StageFits
<1> QED BY <1>1, <1>2, PTL DEF Spec

\* What the answers rest on always holds.
LEMMA AnswersHold == Spec => [](IInv /\ AnswerIInv)
<1>1. IInv /\ AnswerIInv /\ [Next]_vars => (IInv /\ AnswerIInv)'
  BY NextKeepsIInv, NextAnswers
<1> QED BY <1>1, InitOK, AnswersFromTheStart, PTL DEF Spec

\* The variables keep to their ranges; a volume is held exactly by the cache of
\* a device (cd_cache_new_*, cd_cache_free).
THEOREM DiscTypesHold == Spec => []DiscTypeOK
<1>1. IInv /\ AnswerIInv /\ StageFits => DiscTypeOK
  <2> SUFFICES ASSUME IInv, AnswerIInv, StageFits PROVE DiscTypeOK
    OBVIOUS
  <2>1. pc \in {"idle", "new", "guess", "check", "mount", "mounting", "mounted", "type", "answer",
                "over", "crashed"}
    BY DEF StageFits, Stages
  <2>2. at \in DOMAIN Places \cup {NONE}
    BY DEF AnswerIInv, CacheFits
  <2>3. cache.media <=> cache.volume \in Volumes
    BY DEF AnswerIInv, CacheFits, IInv, CacheShape
  <2> QED BY <2>1, <2>2, <2>3
          DEF AnswerIInv, DriveFits, CacheFits, Verdict, IInv, ChecksLeft, DiscTypeOK
<1> QED BY <1>1, AnswersHold, StagesAreKept, PTL

\* Whatever comes and goes meanwhile, an answer was true at some moment of the
\* call: a type of a disc that was in the drive or of a directory that was looked
\* at, and no disc when there was none (totem_cd_detect_type_with_url,
\* totem_cd_detect_type_from_dir, totem_cd_has_medium).
THEOREM AnswersAreOfTheirTime == Spec => []AnswersWereTrue
<1>1. AnswerIInv => AnswersWereTrue
  BY DEF AnswerIInv, Verdict
<1> QED BY <1>1, AnswersHold, PTL

\* Of a device that nobody disturbs and whose disc was mounted before, the type
\* is the right one (the order of the checks, the best mount, and the guess made
\* once).
THEOREM TypesAreRecognized == Spec => []RecognizedAtRest
<1>1. AnswerIInv => RecognizedAtRest
  BY DEF AnswerIInv, Verdict
<1> QED BY <1>1, AnswersHold, PTL

\* An MRL says what was found and where it was found
\* (totem_cd_mrl_from_type, totem_cd_detect_type_with_url).
THEOREM MrlsFitAnswers == Spec => []MrlFits
<1>1. AnswerIInv => MrlFits
  BY DEF AnswerIInv, Verdict
<1> QED BY <1>1, AnswersHold, PTL
=============================================================================
