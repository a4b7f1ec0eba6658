---------------------------- MODULE DiscProperties ----------------------------
(* What a caller may believe of the answer, although the disc may be changed  *)
(* and its volumes mounted and unmounted while it is detected.                *)
EXTENDS DiscDetect

Paths == Located \cup {NONE}

\* The variables keep to their ranges, and a volume is held exactly by the cache
\* of a device.
DiscTypeOK ==
  /\ inserted \in DOMAIN Discs \cup {NONE}
  /\ mounted \subseteq VolumesIn
  /\ pc \in {"idle", "new", "guess", "check", "mount", "mounting", "mounted", "type", "answer",
             "over", "crashed"}
  /\ at \in DOMAIN Places \cup {NONE}
  /\ cache.media <=> cache.volume \in Volumes
  /\ cache.mountpoint \in Paths /\ cache.device \in Paths
  /\ type \in MediaTypes /\ err \in Errors
  /\ mrl # NONE => mrl.of \in Paths
  /\ pc \in {"mount", "mounting", "mounted", "type"} => left # <<>>

OnDevice == asked.place # NONE /\ Places[asked.place].kind = "device"
Over(fns) == pc = "over" /\ asked.fn \in fns
Detected == Over({"with_url", "from_dir"})

\* A disc of this type, as its volumes show it.
Shows(disc, t) ==
  IF t = "CDDA" THEN "audio" \in Discs[disc].volumes
  ELSE "files" \in Discs[disc].volumes /\ Discs[disc].types \cap Wanted[t] # {}

Blank(disc) == disc = NONE \/ Discs[disc].volumes = {}

\* Whatever comes and goes meanwhile, an answer was true at some moment of the
\* call: a type is that of a disc that was in the drive, or of a directory that
\* was looked at, and "no disc" was so.
AnswersWereTrue ==
  /\ Detected /\ OnDevice =>
       /\ type \in DOMAIN Wanted => \E d \in seen \ {NONE} : Shows(d, type)
       /\ type = "DATA" => \E d \in seen : ~Blank(d)
       /\ err = "NO_DISC" => \E d \in seen : Blank(d)
  /\ Detected /\ ~OnDevice /\ type \in DOMAIN Wanted => Places[at].types \cap Wanted[type] # {}
  /\ Over({"has_medium"}) /\ OnDevice /\ type = "ERROR" => NONE \in seen

\* Of a device that nobody disturbs and whose disc was mounted before the call,
\* the type is the right one.
RightType ==
  \/ "audio" \in mounted /\ type = "CDDA"
  \/ /\ "files" \in mounted
     /\ listed => "audio" \notin mounted
     /\ type = IF Discs[inserted].types \cap Wanted.VCD # {} THEN "VCD"
               ELSE IF "video-dvd" \in Discs[inserted].types THEN "DVD"
               ELSE IF "video-bluray" \in Discs[inserted].types THEN "BD" ELSE "DATA"
RecognizedAtRest ==
  Detected /\ OnDevice /\ moves = 0 /\ ownMounts = 0 /\ mounted # {} /\ err = NONE => RightType

\* The MRL names what was found, where it was found: an image or a device by
\* itself, a directory that was looked at, or a mount of a disc that was in the
\* drive.  A data disc has one unless its mount went away or is of audio tracks.
MrlFits ==
  Detected /\ asked.mrl =>
    /\ type \in DOMAIN Wanted => mrl # NONE /\ mrl.of # NONE
    /\ mrl # NONE =>
         \/ mrl.of \in {PathOf(asked.place), PathOf(at)}
         \/ OnDevice /\ mrl.of # NONE /\ \E d \in seen \ {NONE} :
              mrl.of \in {d} \X Discs[d].volumes
    /\ type = "DATA" /\ asked.fn = "with_url" /\ mrl = NONE =>
         OnDevice /\ (moves # 0 \/ \E d \in seen \ {NONE} : "audio" \in Discs[d].volumes)
    /\ type = "ERROR" => mrl = NONE

\* An error comes with the answer that there is one, and with no other; only of
\* what is not local, and of an image that is no disc, nothing is said.
ErrorsFit ==
  Detected =>
    /\ err # NONE => type = "ERROR"
    /\ type = "ERROR" /\ err = NONE => Places[asked.place].kind \in {"remote", "image"}

\* A volume is mounted at most once for a detection, however often others
\* unmount it.
MountsOnce == ownMounts <= 1

\* A call that gives the check for an audio CD a location for its error.
GivesLocation == asked.error \/ asked.fn # "with_url"

\* A volume found before a better one was released through the wrong pointer,
\* which only a disc with both kinds of volumes brings about.
ReleasedWrongly == pc = "crashed" /\ \E d \in seen \ {NONE} : Discs[d].volumes = Volumes

\* Every call that gives a location for the error is answered, whatever is
\* done to the drive meanwhile, but for one that releases a volume wrongly.
DetectionsEnd ==
  (pc = "new" /\ GivesLocation) ~> (pc = "over" \/ ReleasedWrongly)

\* The location for the error may be NULL, as is documented of the functions
\* that detect: a call that gives none is answered as well.
AnsweredWithoutLocation == (pc = "new" /\ ~asked.error) ~> (pc = "over")
=============================================================================
