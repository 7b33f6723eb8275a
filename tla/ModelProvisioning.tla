-------------------------- MODULE ModelProvisioning --------------------------
(***************************************************************************)
(* mobile/src/native-modules/modelProvisioning.ts over the native file     *)
(* layer TrustTraceModelFsModule.kt: how one tier's GGUF file gets from    *)
(* where a developer pushes it (external storage) into internal storage,   *)
(* and which file is handed to initLlama, while the push goes on, the app  *)
(* is killed at any point and the disk fills up.                           *)
(*                                                                         *)
(* A file is a number of chunks, of the right model (ok) or not; no file   *)
(* is a file of no chunks.  Only the app writes internal storage, so the   *)
(* checks of an internal file are one step; the external file may change   *)
(* between two awaits.  A read of a file may fail, which the code takes    *)
(* for an absent or a wrong file.  The native module is linked (without it *)
(* nothing is ever copied) and knows its directories.                      *)
(***************************************************************************)
EXTENDS Integers

CONSTANTS
    Full,           \* the chunks of the whole model
    Floor,          \* MIN_GGUF_BYTES, in chunks
    Rooms,          \* chunks that internal storage may have room for
    MaxPush,        \* bound: pushes of the file into external storage
    MaxFaults       \* bound: kills during staging, launches and checks that meet
                    \* read errors, failed copies and renames

ASSUME ProvisioningAssumption ==
    /\ {Full, Floor, MaxPush, MaxFaults} \subseteq Nat /\ Rooms \subseteq Nat
    /\ 0 < Floor /\ Floor <= Full

VARIABLES
    override,       \* the file at the path the env variable names
    external,       \* the file in external storage
    internal,       \* the file in internal storage
    part,           \* its sidecar, internalPath + ".part"
    pinned,         \* a checksum is pinned by the env
    room,           \* chunks that internal storage has room for
    pc,             \* where the app's resolveModel is
    expected,       \* the size it read off the external file
    handed,         \* the path given to initLlama
    pushes, faults,
    raced,          \* history: a run met an external file that was not whole
    misread         \* history: this run could not read the internal file

files == <<override, external, internal, part>>
fixed == <<pinned, room>>
provisionVars == <<files, fixed, pc, expected, handed, pushes, faults, raced, misread>>

NoFile == [len |-> 0, ok |-> TRUE]
File   == [len : 0..Full, ok : BOOLEAN]

Whole(f) == f.len = Full /\ f.ok

SizeOk(f) == f.len >= Floor

NotVerified(f) == TRUE

\* Without a pin every file passes.
ChecksumOk(f) == pinned => Whole(f)

\* isUsableModel
Usable(f) == SizeOk(f) /\ ChecksumOk(f)

\* One more of the faults that may happen.
Fault == faults < MaxFaults /\ faults' = faults + 1

Free == room - internal.len - part.len

\* usableSpace answers 0 on a full disk, which the code takes for "unknown".
RoomFor(size) == Free > 0 => Free * 20 >= size * 21

-----------------------------------------------------------------------------
(***************************************************************************)
(* The developer's adb push.                                               *)
(***************************************************************************)
PushStarts ==
    /\ pushes < MaxPush
    /\ pushes' = pushes + 1
    /\ \E right \in BOOLEAN : external' = [len |-> 1, ok |-> right]
    /\ raced' = (raced \/ pc # "down")
    /\ UNCHANGED <<override, internal, part, fixed, pc, expected, handed, faults, misread>>

PushChunk ==
    /\ external.len \in 1..(Full - 1)
    /\ external' = [external EXCEPT !.len = @ + 1]
    /\ UNCHANGED <<override, internal, part, fixed, pc, expected, handed, pushes, faults, raced,
                   misread>>

-----------------------------------------------------------------------------
(***************************************************************************)
(* resolveModel, from the launch of the app.                               *)
(***************************************************************************)
Goto(l) == pc' = l /\ UNCHANGED <<expected, handed>>

\* The path is given to initLlama.
Hand(p) == pc' = "up" /\ handed' = p /\ expected' = 0

\* isUsableModel, in a launch that cannot read the files in "unread": the catch
\* of statPath says that the file is absent, that of checksumOk that it is wrong.
Passes(path, f, unread) == Usable(f) /\ path \notin unread

InternalLast(unread) == FALSE

InternalFirst(unread) == Passes("internal", internal, unread)

\* The env override, then the internal file, are loaded in place if usable.
Launch ==
    /\ pc = "down"
    /\ \E unread \in SUBSET {"override", "internal"} :
          /\ IF unread = {} THEN UNCHANGED faults ELSE Fault
          /\ \/ Passes("override", override, unread) /\ Hand("override")
             \/ /\ ~Passes("override", override, unread)
                /\ IF InternalFirst(unread) THEN Hand("internal") ELSE Goto("stat")
          /\ misread' = ("internal" \in unread)
    /\ raced' = (raced \/ ~Whole(external))
    /\ UNCHANGED <<files, fixed, pushes>>

StatExternal ==
    /\ pc = "stat"
    /\ IF SizeOk(external)
         THEN pc' = "sum" /\ expected' = external.len /\ UNCHANGED handed
         ELSE Hand("none")
    /\ UNCHANGED <<files, fixed, pushes, faults, raced, misread>>

SumExternal ==
    /\ pc = "sum"
    /\ IF ChecksumOk(external) THEN Goto("space") ELSE Hand("none")
    /\ UNCHANGED <<files, fixed, pushes, faults, raced, misread>>

\* The stat or the checksum of the external file throws: nothing is loaded.
ExternalUnread ==
    /\ pc = "stat" \/ (pc = "sum" /\ pinned)
    /\ Fault
    /\ Hand("none")
    /\ UNCHANGED <<files, fixed, pushes, raced, misread>>

\* The pre-check of copyIntoInternal: too little room, and the external file is
\* loaded in place.  usableSpace is best effort: if it throws, the copy goes on.
SpacePreCheck ==
    /\ pc = "space"
    /\ \E known \in BOOLEAN :
          IF known /\ ~RoomFor(expected) THEN Hand("external") ELSE Goto("begin")
    /\ UNCHANGED <<files, fixed, pushes, faults, raced, misread>>

\* copyFile deletes a sidecar that an earlier copy left behind.
CopyBegins ==
    /\ pc = "begin"
    /\ part' = NoFile
    /\ Goto("copy")
    /\ UNCHANGED <<override, external, internal, fixed, pushes, faults, raced, misread>>

WriteThrough(f) == f

InternalMeanwhile(f) == internal

CopyChunk ==
    /\ pc = "copy"
    /\ part.len < external.len /\ Free > 0
    /\ LET written == [len |-> part.len + 1, ok |-> part.ok /\ external.ok]
       IN  part' = written /\ internal' = InternalMeanwhile(written)
    /\ UNCHANGED <<override, external, fixed, pc, expected, handed, pushes, faults, raced, misread>>

\* copyFile rejects, the sidecar stays, and the external file is loaded in
\* place: when the disk is full, and when a read or a write fails.
DiskFull ==
    /\ pc = "copy"
    /\ part.len < external.len /\ Free = 0
    /\ Hand("external")
    /\ UNCHANGED <<files, fixed, pushes, faults, raced, misread>>

CopyFails ==
    /\ pc = "copy"
    /\ Fault
    /\ Hand("external")
    /\ UNCHANGED <<files, fixed, pushes, raced, misread>>

\* End of file: what is at the internal path is deleted.
CopyEnds ==
    /\ pc = "copy"
    /\ part.len >= external.len
    /\ internal' = NoFile
    /\ Goto("rename")
    /\ UNCHANGED <<override, external, part, fixed, pushes, faults, raced, misread>>

\* The sidecar becomes the internal file, which is handed over if it has the
\* expected size and checksum; else it stays, and the external one is loaded.
Rename ==
    /\ pc = "rename"
    /\ internal' = part
    /\ part' = NoFile
    /\ IF part.len = expected /\ ChecksumOk(part) THEN Hand("internal") ELSE Hand("external")
    /\ UNCHANGED <<override, external, fixed, pushes, faults, raced, misread>>

\* It is there, but its checksum cannot be computed: the external one is loaded.
CopyUnread ==
    /\ pc = "rename" /\ pinned
    /\ Fault
    /\ internal' = part /\ part' = NoFile
    /\ Hand("external")
    /\ UNCHANGED <<override, external, fixed, pushes, raced, misread>>

RenameFails ==
    /\ pc = "rename"
    /\ Fault
    /\ part' = NoFile
    /\ Hand("external")
    /\ UNCHANGED <<override, external, internal, fixed, pushes, raced, misread>>

\* The app is closed, or killed while it stages the file.
Down == pc' = "down" /\ expected' = 0 /\ handed' = "none"

Exit ==
    /\ pc = "up"
    /\ Down
    /\ UNCHANGED <<files, fixed, pushes, faults, raced, misread>>

Killed ==
    /\ pc \notin {"down", "up"}
    /\ Fault
    /\ Down
    /\ UNCHANGED <<files, fixed, pushes, raced, misread>>

-----------------------------------------------------------------------------
ProvisionInit ==
    /\ override \in {NoFile, [len |-> Full, ok |-> TRUE], [len |-> Full, ok |-> FALSE]}
    /\ external = NoFile /\ internal = NoFile /\ part = NoFile
    /\ pinned \in BOOLEAN /\ room \in Rooms
    /\ pc = "down" /\ expected = 0 /\ handed = "none"
    /\ pushes = 0 /\ faults = 0
    /\ raced = FALSE /\ misread = FALSE

Staging ==
    \/ StatExternal \/ SumExternal \/ SpacePreCheck
    \/ CopyBegins \/ CopyChunk \/ DiskFull \/ CopyEnds \/ Rename

ProvisionNext ==
    \/ PushStarts \/ PushChunk
    \/ Launch \/ Staging \/ ExternalUnread \/ CopyFails \/ CopyUnread \/ RenameFails
    \/ Exit \/ Killed

\* The app's own steps are taken, and the app is closed and started again and
\* again.  Nothing makes a push go on.
ProvisionFairness == WF_provisionVars(Launch) /\ WF_provisionVars(Staging) /\ WF_provisionVars(Exit)

ProvisionSpec == ProvisionInit /\ [][ProvisionNext]_provisionVars /\ ProvisionFairness

-----------------------------------------------------------------------------
(***************************************************************************)
(* Properties.                                                             *)
(***************************************************************************)
\* With a checksum pinned, a file loaded from internal storage is the model,
\* whatever was pushed over the external file during the copy (lines 200-234, 284).
PinnedModelOnly == pinned /\ handed = "internal" => Whole(internal)

\* A killed copy never leaves a truncated file to be loaded: even with no pin,
\* if no run met a push in progress, a file loaded from internal storage is as
\* whole as the pushed one (TrustTraceModelFsModule.kt:100-105).
KilledCopyHarmless == ~raced /\ handed = "internal" => Whole(internal)

\* No launch, kill or failed copy touches a usable internal file (lines 28-31),
\* but for a run whose launch could not read it: its catch took the file for
\* absent (116-119) or wrong (218-221), and the copy that follows deletes it.
\* Even then a whole copy is beside it, unless the push went on meanwhile.
UsableModelKept ==
    [][Usable(internal) /\ internal' # internal => misread /\ (raced \/ Whole(part))]_provisionVars

\* Once the whole model is in external storage for good, it ends up in internal
\* storage for good, after any kills and failed copies on the way, when it is
\* pinned and there is room for it beside what earlier copies left (lines 28-31).
StagingConverges ==
    <>[](pinned /\ ~Usable(override) /\ room > 3 * Full /\ Whole(external))
        => <>[]Whole(internal)

=============================================================================
