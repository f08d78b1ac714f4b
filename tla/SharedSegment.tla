---------------------------- MODULE SharedSegment ----------------------------
(***************************************************************************)
(* The life of one ring buffer in shared memory (rb.h): a process creates  *)
(* the file, sizes, maps and fills it field by field; others that know its *)
(* handle open it in two mappings, the first of the header alone; rb_free  *)
(* of any of them removes the name, at any time of the others.  Nothing    *)
(* locks the file.  The copy of rb.h that audio_rxtx is built with neither *)
(* marks nor checks it, and does not unmap it.                             *)
(***************************************************************************)
EXTENDS Integers, FiniteSets

CONSTANTS
  Users,         \* processes that open the buffer
  Size,          \* bytes the creator asks for
  VersionOf,     \* RB_VERSION that each user was built with
  Version        \* and the creator

ASSUME SegmentAssumption ==
  /\ Size \in Nat \ {0} /\ Version \in Nat \ {0}
  /\ VersionOf \in [Users -> Nat \ {0}]
  /\ "creator" \notin Users

Processes == Users \cup {"creator"}

VARIABLES
  marks,      \* this copy of rb.h has the magic and the version
  linked,     \* the name is in /dev/shm
  length,     \* bytes of the file behind its header; -1: not even that
  header,     \* magic, version, size, unlink_requested of the rb_t
  at,         \* where each process is; those that "use" have their rb_t
  mapped,     \* bytes behind the header that each has mapped; -1: nothing
  found,      \* the size that a user read from the header
  spoiled     \* history: a user that could not open it removed the name

segment_vars == <<marks, linked, length, header, at, mapped, found, spoiled>>

SegmentInit ==
  /\ marks \in BOOLEAN
  /\ linked = FALSE /\ length = -1
  /\ header = [magic |-> FALSE, version |-> 0, size |-> 0, unlink_requested |-> FALSE]
  /\ at = [p \in Processes |-> "out"]
  /\ mapped = [p \in Processes |-> -1]
  /\ found = [p \in Users |-> 0] /\ spoiled = FALSE

Go(p, to) == at' = [at EXCEPT ![p] = to]
Map(p, n) == mapped' = [mapped EXCEPT ![p] = n]

------------------------------------------------------------------------------
(* rb_new_shared_audio of a current copy, rb_new_shared of audio_rxtx's.   *)
CreatesFile ==
  /\ at["creator"] = "out" /\ length = -1
  /\ linked' = TRUE
  /\ Go("creator", "created")
  /\ UNCHANGED <<marks, length, header, mapped, found, spoiled>>

SizesFile ==
  /\ at["creator"] = "created"
  /\ length' = Size
  /\ Go("creator", "sized")
  /\ UNCHANGED <<marks, linked, header, mapped, found, spoiled>>

MapsFile ==
  /\ at["creator"] = "sized"
  /\ Map("creator", Size)
  /\ Go("creator", "mapped")
  /\ UNCHANGED <<marks, linked, length, header, found, spoiled>>

(* The name is removed when ftruncate or mmap fails; the old copy leaves   *)
(* the file there.                                                         *)
CreatingFails ==
  /\ at["creator"] \in {"created", "sized"}
  /\ linked' = (linked /\ ~marks)
  /\ Go("creator", "failed")
  /\ UNCHANGED <<marks, length, header, mapped, found, spoiled>>

(* A slip of Marked: the version is forgotten.                             *)
MarkedWithMagic(h) == [h EXCEPT !.magic = TRUE]

Marked(h) == [h EXCEPT !.magic = TRUE, !.version = Version]

rb_set_common_init_values ==
  /\ at["creator"] = "mapped" /\ marks
  /\ header' = Marked(header)
  /\ Go("creator", "marked")
  /\ UNCHANGED <<marks, linked, length, mapped, found, spoiled>>

SetsSize ==
  /\ at["creator"] = (IF marks THEN "marked" ELSE "mapped")
  /\ header' = [header EXCEPT !.size = Size]
  /\ Go("creator", "uses")
  /\ UNCHANGED <<marks, linked, length, mapped, found, spoiled>>

------------------------------------------------------------------------------
(* rb_open_shared: the handle is known when rb_new_shared has returned.    *)
OpensHeader(p) ==
  /\ at[p] = "out" /\ linked
  /\ at["creator"] \in {"uses", "frees", "gone"}
  /\ Go(p, "looks") /\ Map(p, 0)
  /\ UNCHANGED <<marks, linked, length, header, found, spoiled>>

IsOfVersion(p) == header.magic /\ header.version = VersionOf[p]

(* The header is not that of a buffer of this version: the name goes.      *)
Rejects(p) ==
  /\ at[p] = "looks" /\ marks /\ ~IsOfVersion(p)
  /\ Map(p, -1)
  /\ linked' = FALSE
  /\ spoiled' = (spoiled \/ VersionOf[p] # Version)
  /\ Go(p, "gone")
  /\ UNCHANGED <<marks, length, header, found>>

ReadsSize(p) ==
  /\ at[p] = "looks" /\ (~marks \/ IsOfVersion(p))
  /\ found' = [found EXCEPT ![p] = header.size]
  /\ Go(p, "knows")
  /\ UNCHANGED <<marks, linked, length, header, mapped, spoiled>>

(* A slip of WholeOf: the mapping of the header alone is kept.             *)
HeaderOf(p) == 0

(* "unmap and remap fully (knowing size now)" *)
WholeOf(p) == found[p]

MapsWhole(p) ==
  /\ at[p] = "knows"
  /\ Map(p, WholeOf(p))
  /\ Go(p, "uses")
  /\ UNCHANGED <<marks, linked, length, header, found, spoiled>>

(* A mapping fails: the name goes, but not with the old copy. *)
OpeningFails(p) ==
  /\ at[p] \in {"looks", "knows"}
  /\ Map(p, -1)
  /\ linked' = (linked /\ ~marks)
  /\ spoiled' = (spoiled \/ marks)
  /\ Go(p, "gone")
  /\ UNCHANGED <<marks, length, header, found>>

------------------------------------------------------------------------------
(* The size is 0 from here on, also for those that still use the buffer.   *)
rb_free(p) ==
  /\ at[p] = "uses"
  /\ header' = [header EXCEPT !.size = 0, !.unlink_requested = @ \/ marks]
  /\ Go(p, "frees")
  /\ UNCHANGED <<marks, linked, length, mapped, found, spoiled>>

(* It is 0 before it is read for munmap: what lies behind the header stays *)
(* mapped.  The old copy unmaps nothing.                                   *)
Unlinks(p) ==
  /\ at[p] = "frees"
  /\ linked' = FALSE
  /\ Go(p, "gone")
  /\ UNCHANGED <<marks, length, header, mapped, found, spoiled>>

(* A process ends without it: its mapping ends, the name stays.            *)
Ends(p) ==
  /\ at[p] \in {"looks", "knows", "uses", "frees"}
  /\ Map(p, -1)
  /\ Go(p, "gone")
  /\ UNCHANGED <<marks, linked, length, header, found, spoiled>>

(* A user that gave up or was done may start again. *)
StartsAgain(p) ==
  /\ at[p] = "gone"
  /\ Go(p, "out") /\ Map(p, -1)
  /\ found' = [found EXCEPT ![p] = 0]
  /\ UNCHANGED <<marks, linked, length, header, spoiled>>

Create == \/ CreatesFile \/ SizesFile \/ MapsFile \/ CreatingFails
          \/ rb_set_common_init_values \/ SetsSize

Open(p) == OpensHeader(p) \/ Rejects(p) \/ ReadsSize(p) \/ MapsWhole(p) \/ OpeningFails(p)

SegmentNext ==
  \/ Create
  \/ \E p \in Users : Open(p) \/ StartsAgain(p)
  \/ \E p \in Processes : rb_free(p) \/ Unlinks(p) \/ Ends(p)

SegmentSpec == SegmentInit /\ [][SegmentNext]_segment_vars

------------------------------------------------------------------------------
SegmentTypes ==
  /\ {marks, linked, spoiled} \subseteq BOOLEAN /\ length \in {-1, Size}
  /\ header \in [magic : BOOLEAN, version : {0, Version}, size : {0, Size},
                 unlink_requested : BOOLEAN]
  /\ at \in [Processes -> {"out", "created", "sized", "mapped", "marked", "looks",
                           "knows", "uses", "frees", "failed", "gone"}]
  /\ mapped \in [Processes -> {-1, 0, Size}] /\ found \in [Users -> {0, Size}]

(* The size that a process with an rb_t works with is never more than what *)
(* it has mapped, nor that more than the file has, also while another one  *)
(* frees the buffer, or freed it while this one was opening: no index that *)
(* is below the size leads outside of the mapping (rb_open_shared).        *)
MappedWhole ==
  \A p \in Processes : at[p] = "uses" => header.size <= mapped[p] /\ mapped[p] <= length

(* Until the first of them frees the buffer, others can open it by its     *)
(* handle, whoever opens, fails or ends: the name only goes before when a  *)
(* process of another version, or one whose mmap fails, removes it         *)
(* (rb_open_shared).                                                       *)
NameIsKept == header.size # 0 /\ ~spoiled => linked

==============================================================================
