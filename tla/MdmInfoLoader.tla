--------------------------- MODULE MdmInfoLoader ---------------------------
(***************************************************************************)
(* mdm/MdmInfoLoader.cpp: the configuration is read again, while readers   *)
(* use it, into a second slot; then the index of the slot in use is        *)
(* switched, and the content of the other slot is deleted after sleep(2).  *)
(* Readers take no lock: get_content reads the index, then the slot.       *)
(*                                                                         *)
(* One thread loads, and reloads whenever need_reload says that the file   *)
(* is newer; readers start when the first load has succeeded.  Time passes *)
(* in ticks; the file's st_mtime in seconds that do not go back, so that a *)
(* change may fall into the same second as the one before.  Contents are   *)
(* numbered in the order of their loads.                                   *)
(***************************************************************************)
EXTENDS Naturals, Sequences

CONSTANTS Reader,
          Grace,         \* what sleep(2) lasts, in ticks
          Hold,          \* what a reader needs at most, from get_content to the last use
          MaxChanges,    \* bound on the changes of the file
          Null

ASSUME LoaderAssumption ==
    /\ Grace \in Nat /\ Hold \in Nat /\ MaxChanges \in Nat
    /\ Hold < Grace
    /\ Null \notin Nat

VARIABLES
    file,                \* what stat and a read of it find
    _tm, _using_no, _p_content,
    has,                 \* the version of the file in each content loaded
    freed,               \* the contents that were deleted
    rl, stat, slept,     \* the loading thread: where it is, curr_stat, how long it sleeps
    rd, no, ptr, age     \* of each reader: where it is, the index and the pointer it
                         \* has read, and for how long

slots == <<_tm, _using_no, _p_content, has, freed>>
loading == <<rl, stat, slept>>
readers == <<rd, no, ptr, age>>
loaderVars == <<file, slots, loading, readers>>

Version == 0..MaxChanges
Mtime == 0..(MaxChanges + 1)

LoaderTypeOK ==
    /\ file \in [kind : {"good", "bad", "missing"}, version : Version, st_mtime : Mtime,
                 fresh : BOOLEAN]    \* the last change was the first in its second
    /\ _tm \in Mtime /\ _using_no \in {0, 1}
    /\ has \in Seq(Version)
    /\ _p_content \in [{0, 1} -> 1..Len(has) \cup {Null}]
    /\ freed \subseteq 1..Len(has)
    /\ rl \in {"begin", "idle", "stale", "stated", "parsed", "switch", "sleep"}
    /\ stat \in Mtime /\ slept \in 0..Grace
    /\ rd \in [Reader -> {"idle", "indexed", "using"}]
    /\ no \in [Reader -> {0, 1}]
    /\ ptr \in [Reader -> 1..Len(has) \cup {Null}]
    /\ age \in [Reader -> 0..Hold]

LoaderInit ==
    /\ \E kind \in {"good", "bad", "missing"} :
          file = [kind |-> kind, version |-> 0, st_mtime |-> 1, fresh |-> TRUE]
    /\ _tm = 0 /\ _using_no = 1 /\ _p_content = [i \in {0, 1} |-> Null]
    /\ has = <<>> /\ freed = {}
    /\ rl = "begin" /\ stat = 0 /\ slept = 0
    /\ rd = [r \in Reader |-> "idle"] /\ no = [r \in Reader |-> 0]
    /\ ptr = [r \in Reader |-> Null] /\ age = [r \in Reader |-> 0]

-----------------------------------------------------------------------------
(* The file: replaced, broken, removed, put back.                          *)
FileChanges(kind, later) ==
    /\ file.version < MaxChanges
    /\ file' = [kind |-> kind, version |-> file.version + 1,
                st_mtime |-> file.st_mtime + later, fresh |-> later = 1]
    /\ UNCHANGED <<slots, loading, readers>>

-----------------------------------------------------------------------------
(* The loading thread.                                                     *)
Goto(from, to) == rl = from /\ rl' = to

current == _p_content[_using_no]

\* Mutant: the index is not brought back to the first slot.
nextSlot == _using_no + 1

other == 1 - _using_no
Resting == IF current = Null THEN "begin" ELSE "idle"

\* Mutant: the file is taken for newer when it is as old.
NotOlder(mtime) == mtime >= _tm

Newer(mtime) == mtime > _tm

need_reload ==
    /\ Goto("idle", "stale")
    /\ file.kind # "missing" /\ Newer(file.st_mtime)
    /\ UNCHANGED <<file, slots, stat, slept, readers>>

\* The stat of load and reload.
StatFile ==
    /\ rl \in {"begin", "stale"}
    /\ IF file.kind = "missing" THEN rl' = Resting /\ UNCHANGED stat
       ELSE rl' = "stated" /\ stat' = file.st_mtime
    /\ UNCHANGED <<file, slots, slept, readers>>

\* MdmInfo::load, of the file as it is by now.
ParseFile ==
    /\ rl = "stated"
    /\ IF file.kind = "good" THEN rl' = "parsed" /\ has' = Append(has, file.version)
       ELSE rl' = Resting /\ UNCHANGED has
    /\ UNCHANGED <<file, _tm, _using_no, _p_content, freed, stat, slept, readers>>

\* Mutant: the time is that of the file after it was read.
TimeAfterwards == file.st_mtime

TimeLoaded == stat

\* load fills the slot in use, which is empty; reload the other one.
FillSlot ==
    /\ rl = "parsed" /\ rl' = IF current = Null THEN "idle" ELSE "switch"
    /\ _tm' = TimeLoaded
    /\ _p_content' = [_p_content EXCEPT ![IF current = Null THEN _using_no ELSE other] = Len(has)]
    /\ UNCHANGED <<file, _using_no, has, freed, stat, slept, readers>>

SwitchSlot ==
    /\ rl = "switch" /\ rl' = IF _p_content[_using_no] = Null THEN "idle" ELSE "sleep"
    /\ _using_no' = other
    /\ slept' = 0
    /\ UNCHANGED <<file, _tm, _p_content, has, freed, stat, readers>>

\* Mutant: the old content is deleted without a sleep.
AnyTime == TRUE

SleptEnough == slept = Grace

DeletePrevious ==
    /\ Goto("sleep", "idle")
    /\ SleptEnough
    /\ freed' = freed \cup {_p_content[other]}
    /\ _p_content' = [_p_content EXCEPT ![other] = Null]
    /\ UNCHANGED <<file, _tm, _using_no, has, stat, slept, readers>>

LoadingThread ==
    need_reload \/ StatFile \/ ParseFile \/ FillSlot \/ SwitchSlot \/ DeletePrevious

-----------------------------------------------------------------------------
(* get_content, in two reads, and the use of what it returns.              *)
ReadIndex(r) ==
    /\ rd[r] = "idle" /\ rd' = [rd EXCEPT ![r] = "indexed"]
    /\ current # Null
    /\ no' = [no EXCEPT ![r] = _using_no]
    /\ UNCHANGED <<file, slots, loading, ptr, age>>

ReadSlot(r) ==
    /\ rd[r] = "indexed" /\ rd' = [rd EXCEPT ![r] = "using"]
    /\ ptr' = [ptr EXCEPT ![r] = _p_content[no[r]]]
    /\ UNCHANGED <<file, slots, loading, no, age>>

LastUse(r) ==
    /\ rd[r] = "using" /\ rd' = [rd EXCEPT ![r] = "idle"]
    /\ ptr' = [ptr EXCEPT ![r] = Null]
    /\ age' = [age EXCEPT ![r] = 0]
    /\ UNCHANGED <<file, slots, loading, no>>

Tick ==
    /\ rl = "sleep" \/ \E r \in Reader : rd[r] # "idle"
    /\ \A r \in Reader : rd[r] # "idle" => age[r] < Hold
    /\ age' = [r \in Reader |-> IF rd[r] = "idle" THEN 0 ELSE age[r] + 1]
    /\ slept' = IF rl = "sleep" /\ slept < Grace THEN slept + 1 ELSE slept
    /\ UNCHANGED <<file, slots, rl, stat, rd, no, ptr>>

Proceed(r) == ReadSlot(r) \/ LastUse(r)

LoaderNext ==
    \/ LoadingThread
    \/ \E kind \in {"good", "bad", "missing"}, later \in {0, 1} : FileChanges(kind, later)
    \/ \E r \in Reader : ReadIndex(r) \/ Proceed(r)
    \/ Tick

LoaderSpec == LoaderInit /\ [][LoaderNext]_loaderVars

-----------------------------------------------------------------------------
(* Readers see whole contents: the loader implements a cell whose content  *)
(* is replaced at once, and none that a reader has asked for is deleted or *)
(* missing before its last use, although it asks in two steps.             *)
Deleted == 0
Whole(c) == IF c \in freed \cup {Null} THEN Deleted ELSE c
Held(r) == CASE rd[r] = "idle" -> Null
             [] rd[r] = "indexed" -> Whole(_p_content[no[r]])
             [] rd[r] = "using" -> Whole(ptr[r])
Cell == INSTANCE PublishedContent
            WITH Nothing <- Null, held <- [r \in Reader |-> Held(r)]
CellSpec == Cell!Spec

(* A change of the file is loaded, however it falls between the stat, the  *)
(* read and the switch of a reload, unless the file changes again, is bad, *)
(* or had changed in the same second before: need_reload compares seconds. *)
InUse(v) == current # Null /\ has[current] = v
ChangeIsLoaded ==
    \A v \in Version :
        (file.version = v /\ file.kind = "good" /\ file.fresh) ~> (InUse(v) \/ file.version # v)
=============================================================================
